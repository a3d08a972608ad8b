-------------------------- MODULE CollectorProofs --------------------------
(***************************************************************************)
(* Proofs about Collector: the types, that the array keeps of each ring    *)
(* the records that came first, and that what is written goes forward in   *)
(* time, for any MAX_EVENTS, any size of the rings and any interleaving of *)
(* the kernel, the poll loop and the signals.                              *)
(***************************************************************************)
EXTENDS Collector, SequenceTheorems, FiniteSetTheorems, TLAPS

-----------------------------------------------------------------------------
(* Lemmas *)

LEMMA SeqAt ==
  ASSUME NEW S, NEW s \in Seq(S)
  PROVE  /\ Len(s) \in Nat
         /\ DOMAIN s = 1 .. Len(s)
         /\ \A i \in DOMAIN s : s[i] \in S
BY LenProperties, ElementOfSeq

LEMMA AppendAt ==
  ASSUME NEW S, NEW s \in Seq(S), NEW e \in S
  PROVE  /\ Append(s, e) \in Seq(S)
         /\ Len(Append(s, e)) = Len(s) + 1
         /\ DOMAIN Append(s, e) = 1 .. Len(s) + 1
         /\ \A i \in 1 .. Len(s) : Append(s, e)[i] = s[i]
         /\ Append(s, e)[Len(s) + 1] = e
BY AppendProperties, LenProperties

LEMMA TailAt ==
  ASSUME NEW S, NEW s \in Seq(S), s # << >>
  PROVE  /\ Len(s) \in Nat \ {0}
         /\ Head(s) = s[1] /\ Head(s) \in S
         /\ Tail(s) \in Seq(S)
         /\ Len(Tail(s)) = Len(s) - 1
         /\ DOMAIN Tail(s) = 1 .. Len(s) - 1
         /\ \A i \in 1 .. Len(s) - 1 : Tail(s)[i] = s[i + 1]
<1>1. Len(s) \in Nat \ {0} /\ Head(s) = s[1] /\ s[1] \in S
  BY EmptySeq, LenProperties, ElementOfSeq
<1>2. /\ Tail(s) \in Seq(S)
      /\ Len(Tail(s)) = Len(s) - 1
      /\ \A i \in 1 .. Len(Tail(s)) : Tail(s)[i] = s[i + 1]
  BY HeadTailProperties
<1> QED
  BY <1>1, <1>2, LenProperties

(* What qsort does with the array: each event goes to one place, and none  *)
(* is lost.                                                                *)
LEMMA BijectionIs ==
  ASSUME NEW S, NEW p \in Bijection(S, S)
  PROVE  p \in [S -> S] /\ \A w \in S : \E v \in S : p[v] = w
BY DEF Bijection, Injection, Surjection, IsInjective

-----------------------------------------------------------------------------
(* The effects of the steps *)

LEMMA NumbersAre ==
  /\ MAX_EVENTS \in Nat \ {0} /\ RingMax \in Nat \ {0} /\ MaxTime \in Nat
  /\ MaxNumber \in Nat /\ MaxNumber = MAX_EVENTS + RingMax + 1
  /\ None \notin Seq(0 .. MaxTime)
<1>1. MAX_EVENTS \in Nat \ {0} /\ RingMax \in Nat \ {0} /\ MaxTime \in Nat
  BY CollectorAssumption
<1>2. Seq(0 .. MaxTime) \subseteq Seq(Nat)
  BY <1>1
<1> QED
  BY <1>1, <1>2, CollectorAssumption DEF MaxNumber

LEMMA TypesOfState ==
  ASSUME TypeOK
  PROVE  /\ \A r \in Rings :
               /\ ring[r] \in Seq(UnifiedEvent)
               /\ Len(ring[r]) \in Nat /\ Len(ring[r]) <= RingMax
               /\ DOMAIN ring[r] = 1 .. Len(ring[r])
               /\ \A i \in DOMAIN ring[r] : ring[r][i] \in UnifiedEvent
               /\ made[r] \in Nat /\ made[r] <= MaxNumber
         /\ events \in Seq(UnifiedEvent)
         /\ Len(events) \in Nat /\ Len(events) <= MAX_EVENTS
         /\ DOMAIN events = 1 .. Len(events)
         /\ \A i \in DOMAIN events : events[i] \in UnifiedEvent
BY SeqAt, NumbersAre DEF TypeOK

(* A program of the kernel puts one record, with the next number, behind   *)
(* the others in its ring.                                                 *)
LEMMA SubmitEffect ==
  ASSUME TypeOK, NEW r \in Rings, Submit(r),
         NEW n \in Nat, n = Len(ring[r])
  PROVE  \E e \in UnifiedEvent :
            /\ e.type = r /\ e.number = made'[r]
            /\ n < RingMax
            /\ made' \in [Rings -> 0 .. MaxNumber]
            /\ made'[r] = IF made[r] < MaxNumber THEN made[r] + 1 ELSE made[r]
            /\ ring' \in [Rings -> Seq(UnifiedEvent)]
            /\ \A q \in Rings \ {r} : ring'[q] = ring[q] /\ made'[q] = made[q]
            /\ Len(ring'[r]) = n + 1
            /\ DOMAIN ring'[r] = 1 .. n + 1
            /\ \A i \in 1 .. n : ring'[r][i] = ring[r][i]
            /\ ring'[r][n + 1] = e
<1>1. PICK ts \in IF r = "cpu" THEN {now} ELSE 0 .. now :
         ring' = [ring EXCEPT ![r] =
            Append(@, [type |-> r, number |-> made'[r], timestamp |-> ts])]
  BY DEF Submit
<1>2. /\ made' \in [Rings -> 0 .. MaxNumber]
      /\ made'[r] = IF made[r] < MaxNumber THEN made[r] + 1 ELSE made[r]
      /\ made'[r] \in 1 .. MaxNumber
      /\ \A q \in Rings \ {r} : made'[q] = made[q]
  BY NumbersAre DEF Submit, TypeOK
<1> DEFINE e == [type |-> r, number |-> made'[r], timestamp |-> ts]
<1>3. e \in UnifiedEvent /\ e.type = r /\ e.number = made'[r]
  <2>1. ts \in 0 .. MaxTime
    BY NumbersAre DEF TypeOK
  <2> QED
    BY <1>2, <2>1 DEF UnifiedEvent
<1>4. ring' = [ring EXCEPT ![r] = Append(ring[r], e)]
  BY <1>1
<1> HIDE DEF e
<1>5. /\ Append(ring[r], e) \in Seq(UnifiedEvent)
      /\ Len(Append(ring[r], e)) = n + 1
      /\ DOMAIN Append(ring[r], e) = 1 .. n + 1
      /\ \A i \in 1 .. n : Append(ring[r], e)[i] = ring[r][i]
      /\ Append(ring[r], e)[n + 1] = e
  BY <1>3, TypesOfState, AppendAt
<1>6. /\ ring'[r] = Append(ring[r], e)
      /\ ring' \in [Rings -> Seq(UnifiedEvent)]
      /\ \A q \in Rings \ {r} : ring'[q] = ring[q]
  BY <1>4, <1>5 DEF TypeOK
<1>7. n < RingMax
  BY DEF Submit
<1> QED
  BY <1>2, <1>3, <1>5, <1>6, <1>7

(* The callback gets the oldest record of the ring, and puts it behind the *)
(* events in the array if there is room.                                   *)
LEMMA DrainEffect ==
  ASSUME TypeOK, Drain, NEW n \in Nat, n = Len(ring[polled]),
         NEW m \in Nat, m = Len(events)
  PROVE  /\ n # 0 /\ polled \in Rings
         /\ ring[polled][1] \in UnifiedEvent
         /\ ring' \in [Rings -> Seq(UnifiedEvent)]
         /\ \A q \in Rings \ {polled} : ring'[q] = ring[q]
         /\ Len(ring'[polled]) = n - 1
         /\ DOMAIN ring'[polled] = 1 .. n - 1
         /\ \A i \in 1 .. n - 1 : ring'[polled][i] = ring[polled][i + 1]
         /\ events' \in Seq(UnifiedEvent)
         /\ m >= MAX_EVENTS => events' = events
         /\ m < MAX_EVENTS =>
               /\ Len(events') = m + 1
               /\ DOMAIN events' = 1 .. m + 1
               /\ \A i \in 1 .. m : events'[i] = events[i]
               /\ events'[m + 1] = ring[polled][1]
<1> DEFINE q == ring[polled]
           e == Head(ring[polled])
<1>1. /\ polled \in Rings /\ q # << >> /\ q \in Seq(UnifiedEvent)
      /\ events \in Seq(UnifiedEvent)
  BY TypesOfState DEF Drain, TypeOK
<1>2. ring' = [ring EXCEPT ![polled] = Tail(q)]
  BY DEF Drain
<1>3. events' = IF m < MAX_EVENTS THEN Append(events, e) ELSE events
  BY DEF Drain, Store
<1> HIDE DEF q, e
<1>4. /\ n # 0 /\ e = q[1] /\ e \in UnifiedEvent
      /\ Tail(q) \in Seq(UnifiedEvent)
      /\ Len(Tail(q)) = n - 1
      /\ DOMAIN Tail(q) = 1 .. n - 1
      /\ \A i \in 1 .. n - 1 : Tail(q)[i] = q[i + 1]
  BY <1>1, TailAt DEF q, e
<1>5. /\ ring' \in [Rings -> Seq(UnifiedEvent)]
      /\ ring'[polled] = Tail(q)
      /\ \A p \in Rings \ {polled} : ring'[p] = ring[p]
  BY <1>1, <1>2, <1>4 DEF TypeOK
<1>6. CASE m < MAX_EVENTS
  BY <1>1, <1>3, <1>4, <1>5, <1>6, AppendAt, NumbersAre DEF q
<1>7. CASE m >= MAX_EVENTS
  BY <1>1, <1>3, <1>4, <1>5, <1>7, NumbersAre DEF q
<1> QED
  BY <1>6, <1>7, NumbersAre

(* The array after the sort: the same length, each event where an index    *)
(* was, each index the place of an event, and the timestamps in order.     *)
LEMMA SortEffect ==
  ASSUME TypeOK, Sort, NEW m \in Nat, m = Len(events)
  PROVE  /\ Len(events') = m
         /\ DOMAIN events' = 1 .. m
         /\ events' \in Seq(UnifiedEvent)
         /\ \A i \in 1 .. m : \E j \in 1 .. m : events'[i] = events[j]
         /\ \A j \in 1 .. m : \E i \in 1 .. m : events'[i] = events[j]
         /\ \A i, j \in 1 .. m : i < j => events'[i].timestamp <= events'[j].timestamp
         /\ UNCHANGED <<kernel, polled, exiting, output>>
         /\ pc = "sort" /\ pc' = "output"
<1>1. DOMAIN events = 1 .. m
  BY TypesOfState
<1>2. PICK p \in Bijection(1 .. m, 1 .. m) :
         /\ events' = [i \in 1 .. m |-> events[p[i]]]
         /\ \A i, j \in 1 .. m : i < j => InOrder(events'[i], events'[j])
  BY <1>1 DEF Sort
<1>3. p \in [1 .. m -> 1 .. m] /\ \A w \in 1 .. m : \E v \in 1 .. m : p[v] = w
  BY BijectionIs
<1>4. /\ \A i \in 1 .. m : p[i] \in 1 .. m /\ events'[i] = events[p[i]]
      /\ DOMAIN events' = 1 .. m
  BY <1>2, <1>3
<1>5. /\ \A i \in 1 .. m : \E j \in 1 .. m : events'[i] = events[j]
      /\ \A j \in 1 .. m : \E i \in 1 .. m : events'[i] = events[j]
  BY <1>3, <1>4
<1>6. \A i \in 1 .. m : events[i] \in UnifiedEvent
  BY <1>1, TypesOfState
<1>7. events' \in [1 .. m -> UnifiedEvent]
  BY <1>2, <1>4, <1>6
<1>8. events' \in Seq(UnifiedEvent) /\ Len(events') = m
  BY <1>7
<1> QED
  BY <1>2, <1>4, <1>5, <1>8 DEF Sort, InOrder

-----------------------------------------------------------------------------
(* The order of what is written *)

SortedForOutput ==
    pc = "output" =>
        \A i, j \in DOMAIN events : i < j => events[i].timestamp <= events[j].timestamp

(* Of an array in order the first event has the least timestamp.           *)
LEMMA FirstIsMin ==
  ASSUME TypeOK, SortedForOutput, pc = "output", events # << >>
  PROVE  /\ 1 \in DOMAIN events
         /\ MinTimestamp = events[1].timestamp
         /\ \A i \in DOMAIN events :
               events[i].timestamp - MinTimestamp \in 0 .. MaxTime
<1>1. PICK m \in Nat \ {0} : m = Len(events) /\ DOMAIN events = 1 .. m
  BY TypesOfState, EmptySeq
<1>2. \A i \in 1 .. m : events[i].timestamp \in 0 .. MaxTime
  BY <1>1, TypesOfState DEF UnifiedEvent
<1>3. \A i \in 1 .. m : events[1].timestamp <= events[i].timestamp
  <2> SUFFICES ASSUME NEW i \in 1 .. m
               PROVE  events[1].timestamp <= events[i].timestamp
    OBVIOUS
  <2>1. CASE i = 1
    BY <1>2, <2>1, NumbersAre
  <2>2. CASE 1 < i
    BY <1>1, <2>2 DEF SortedForOutput
  <2> QED
    BY <2>1, <2>2
<1> DEFINE IsMin(ts) == /\ \E i \in DOMAIN events : events[i].timestamp = ts
                        /\ \A i \in DOMAIN events : ts <= events[i].timestamp
<1>4. IsMin(events[1].timestamp) /\ events[1].timestamp \in 0 .. MaxTime
  BY <1>1, <1>2, <1>3
<1>5. MinTimestamp = CHOOSE ts \in 0 .. MaxTime : IsMin(ts)
  BY DEF MinTimestamp
<1>6. IsMin(MinTimestamp) /\ MinTimestamp \in 0 .. MaxTime
  <2> HIDE DEF IsMin
  <2> QED
    BY <1>4, <1>5
<1>7. MinTimestamp = events[1].timestamp
  BY <1>1, <1>2, <1>3, <1>6, NumbersAre
<1> QED
  BY <1>1, <1>2, <1>3, <1>7, NumbersAre

(* What Output writes, if it writes.                                       *)
LEMMA OutputEffect ==
  ASSUME TypeOK, SortedForOutput, Output, output' # None
  PROVE  /\ output' \in Seq(0 .. MaxTime)
         /\ TimelineOrdered'
<1>1. pc = "output"
      /\ output' = [i \in DOMAIN events |-> events[i].timestamp - MinTimestamp]
  BY DEF Output
<1>2. PICK m \in Nat : m = Len(events) /\ DOMAIN events = 1 .. m
  BY TypesOfState
<1>3. CASE m = 0
  <2>1. output' = << >>
    BY <1>1, <1>2, <1>3
  <2> QED
    BY <2>1, EmptySeq DEF TimelineOrdered
<1>4. CASE m # 0
  <2>1. events # << >>
    BY <1>2, <1>4, EmptySeq
  <2>2. /\ \A i \in 1 .. m : output'[i] = events[i].timestamp - MinTimestamp
        /\ MinTimestamp = events[1].timestamp
        /\ output' \in [1 .. m -> 0 .. MaxTime]
    BY <1>1, <1>2, <2>1, FirstIsMin
  <2>3. output' \in Seq(0 .. MaxTime) /\ Len(output') = m
    <3> DEFINE T == 0 .. MaxTime
    <3>1. output' \in [1 .. m -> T]
      BY <2>2
    <3> HIDE DEF T
    <3>2. output' \in Seq(T) /\ Len(output') = m
      BY <3>1
    <3> QED
      BY <3>2 DEF T
  <2>4. \A i \in 1 .. m : events[i].timestamp \in 0 .. MaxTime
    BY <1>2, TypesOfState DEF UnifiedEvent
  <2>5. output'[1] = 0
    BY <1>4, <2>2, <2>4, NumbersAre
  <2>6. \A i \in 1 .. m - 1 : output'[i] <= output'[i + 1]
    <3> SUFFICES ASSUME NEW i \in 1 .. m - 1
                 PROVE  output'[i] <= output'[i + 1]
      OBVIOUS
    <3>1. i \in 1 .. m /\ i + 1 \in 1 .. m /\ i < i + 1
      OBVIOUS
    <3>2. events[i].timestamp <= events[i + 1].timestamp
      BY <1>1, <1>2, <3>1 DEF SortedForOutput
    <3>3. 1 \in 1 .. m
      BY <1>4
    <3> QED
      BY <2>2, <2>4, <3>1, <3>2, <3>3, NumbersAre
  <2> QED
    BY <2>3, <2>5, <2>6 DEF TimelineOrdered
<1> QED
  BY <1>3, <1>4

-----------------------------------------------------------------------------
(* Types and order *)

TypeInv == TypeOK /\ SortedForOutput /\ TimelineOrdered

LEMMA TypeInvInit == Init => TypeInv
<1> SUFFICES ASSUME Init PROVE TypeInv
  OBVIOUS
<1>1. << >> \in Seq(UnifiedEvent) /\ Len(<< >>) = 0
  BY EmptySeq
<1>2. ring \in [Rings -> Seq(UnifiedEvent)] /\ \A r \in Rings : Len(ring[r]) <= RingMax
  BY <1>1, NumbersAre DEF Init
<1>3. made \in [Rings -> 0 .. MaxNumber] /\ now \in 0 .. MaxTime
  BY NumbersAre DEF Init
<1>4. events \in Seq(UnifiedEvent) /\ Len(events) <= MAX_EVENTS
  BY <1>1, NumbersAre DEF Init
<1>5. TypeOK
  BY <1>2, <1>3, <1>4 DEF Init, TypeOK, Rings
<1> QED
  BY <1>5 DEF Init, TypeInv, SortedForOutput, TimelineOrdered

(* The array changes while draining and when sorted; once written, what    *)
(* has been written stays.                                                 *)
LEMMA TypeInvStep == TypeInv /\ [Next]_vars => TypeInv'
<1> SUFFICES ASSUME TypeInv, [Next]_vars
             PROVE  TypeInv'
  OBVIOUS
<1>0. TypeOK
  BY DEF TypeInv
<1> USE DEF kernel, user
<1>1. ASSUME UNCHANGED <<ring, made, events, output>>,
             now' \in 0 .. MaxTime, exiting' \in BOOLEAN, polled' \in Rings,
             pc' \in {"test", "enter", "wait", "drain", "sort", "output", "done"},
             pc' = "output" => pc = "output"
      PROVE  TypeInv'
  <2>1. TypeOK'
    BY <1>1 DEF TypeInv, TypeOK
  <2>2. SortedForOutput' /\ TimelineOrdered'
    BY <1>1 DEF TypeInv, SortedForOutput, TimelineOrdered
  <2> QED
    BY <2>1, <2>2 DEF TypeInv
<1>2. CASE Tick
  BY <1>0, <1>1, <1>2, NumbersAre DEF Tick, TypeOK
<1>3. ASSUME NEW r \in Rings, Submit(r)
      PROVE  TypeInv'
  <2>1. PICK n \in Nat : n = Len(ring[r])
    BY <1>0, TypesOfState
  <2>2. /\ made' \in [Rings -> 0 .. MaxNumber]
        /\ ring' \in [Rings -> Seq(UnifiedEvent)]
        /\ n < RingMax /\ Len(ring'[r]) = n + 1
        /\ \A q \in Rings \ {r} : ring'[q] = ring[q]
    BY <1>0, <1>3, <2>1, SubmitEffect
  <2>3. ASSUME NEW q \in Rings
        PROVE  Len(ring'[q]) <= RingMax
    <3>1. CASE q = r
      BY <2>2, <3>1, NumbersAre
    <3>2. CASE q # r
      BY <1>0, <2>2, <3>2, TypesOfState
    <3> QED
      BY <3>1, <3>2
  <2>4. UNCHANGED <<now, user, exiting>>
    BY <1>3 DEF Submit
  <2> QED
    BY <1>0, <2>2, <2>3, <2>4
       DEF TypeInv, TypeOK, SortedForOutput, TimelineOrdered
<1>4. CASE LoopTest \/ EnterPoll \/ Ready \/ Timeout \/ Drained \/ Signal
  BY <1>0, <1>1, <1>4
     DEF LoopTest, EnterPoll, Ready, Timeout, Drained, Signal, Break,
         PollReturns, TypeOK, Rings
<1>5. CASE Drain
  <2>1. PICK n \in Nat, m \in Nat : n = Len(ring[polled]) /\ m = Len(events)
    BY <1>0, TypesOfState DEF TypeOK
  <2>2. /\ ring' \in [Rings -> Seq(UnifiedEvent)]
        /\ n # 0 /\ Len(ring'[polled]) = n - 1 /\ polled \in Rings
        /\ \A q \in Rings \ {polled} : ring'[q] = ring[q]
        /\ events' \in Seq(UnifiedEvent)
        /\ m >= MAX_EVENTS => events' = events
        /\ m < MAX_EVENTS => Len(events') = m + 1
    BY <1>0, <1>5, <2>1, DrainEffect
  <2>3. ASSUME NEW q \in Rings
        PROVE  Len(ring'[q]) <= RingMax
    <3>1. n <= RingMax
      BY <1>0, <2>1, <2>2, TypesOfState
    <3>2. CASE q = polled
      BY <2>2, <3>1, <3>2, NumbersAre
    <3>3. CASE q # polled
      BY <1>0, <2>2, <3>3, TypesOfState
    <3> QED
      BY <3>2, <3>3
  <2>4. Len(events') <= MAX_EVENTS
    BY <1>0, <2>1, <2>2, TypesOfState, NumbersAre
  <2>5. UNCHANGED <<now, made, pc, polled, exiting, output>> /\ pc = "drain"
    BY <1>5 DEF Drain
  <2> QED
    BY <1>0, <2>2, <2>3, <2>4, <2>5
       DEF TypeInv, TypeOK, SortedForOutput, TimelineOrdered
<1>6. CASE Sort
  <2>1. PICK m \in Nat : m = Len(events)
    BY <1>0, TypesOfState
  <2> USE <1>0, <1>6, <2>1, SortEffect
  <2>2. TypeOK'
    BY TypesOfState DEF TypeOK
  <2>3. SortedForOutput'
    BY DEF SortedForOutput
  <2>4. TimelineOrdered'
    BY DEF TypeInv, TimelineOrdered
  <2> QED
    BY <2>2, <2>3, <2>4 DEF TypeInv
<1>7. CASE Output
  <2>1. UNCHANGED <<kernel, polled, exiting, events>> /\ pc' = "done"
    BY <1>7 DEF Output
  <2>2. \/ output' = None
        \/ /\ output' \in Seq(0 .. MaxTime)
           /\ TimelineOrdered'
    BY <1>0, <1>7, OutputEffect DEF TypeInv
  <2>3. TimelineOrdered'
    BY <2>2 DEF TimelineOrdered
  <2>4. TypeOK'
    BY <1>0, <2>1, <2>2 DEF TypeOK
  <2> QED
    BY <2>1, <2>3, <2>4 DEF TypeInv, SortedForOutput
<1>8. CASE UNCHANGED vars
  BY <1>0, <1>1, <1>8 DEF vars, TypeOK
<1> QED
  BY <1>2, <1>3, <1>4, <1>5, <1>6, <1>7, <1>8 DEF Next, Loop

THEOREM Typing == Spec => []TypeInv
BY TypeInvInit, TypeInvStep, PTL DEF Spec

(* Neither array nor ring outgrows its size, and every time written lies   *)
(* in the range of the clock.                                              *)
THEOREM CollectorTypes == Spec => []TypeOK
<1>1. TypeInv => TypeOK
  BY DEF TypeInv
<1> QED
  BY <1>1, Typing, PTL

(* Although CUDA events are stamped with the start of their call and the   *)
(* rings are read in turns, the timestamps in the output go forward and    *)
(* begin at 0.                                                             *)
THEOREM OutputInOrder == Spec => []TimelineOrdered
<1>1. TypeInv => TimelineOrdered
  BY DEF TypeInv
<1> QED
  BY <1>1, Typing, PTL

-----------------------------------------------------------------------------
(* Nothing missing, nothing twice *)

Full == Len(events) >= MAX_EVENTS

RingTyped ==
    \A r \in Rings : \A i \in DOMAIN ring[r] : ring[r][i].type = r

(* Until the array is full, the rings hold the records that follow those   *)
(* that were read.                                                         *)
RingNumbered ==
    ~Full => \A r \in Rings : \A i \in DOMAIN ring[r] :
                ring[r][i].number = NumberRead(r) + i

(* The array holds the first k[r] records of each ring r.                  *)
HoldsFirst(k) ==
    /\ \A r \in Rings : Numbers(r) = 1 .. k[r]
    /\ k["cpu"] + k["gpu"] = Len(events)
    /\ ~Full => \A r \in Rings : k[r] = NumberRead(r)

PrefixInv ==
    /\ RingTyped
    /\ RingNumbered
    /\ \E k \in [Rings -> Nat] : HoldsFirst(k)

(* The invariant says what is promised.                                    *)
LEMMA PrefixesKept ==
  ASSUME PrefixInv
  PROVE  KeepsPrefixes
<1>1. PICK k \in [Rings -> Nat] : HoldsFirst(k)
  BY DEF PrefixInv
<1>2. \A r \in Rings : Numbers(r) = 1 .. k[r] /\ k[r] \in Nat
  BY <1>1 DEF HoldsFirst
<1>3. ASSUME NEW r \in Rings
      PROVE  Cardinality(Numbers(r)) = k[r]
  <2>1. PICK n \in Nat : n = k[r]
    BY <1>2
  <2>2. Cardinality(1 .. n) = IF 1 > n THEN 0 ELSE n - 1 + 1
    BY FS_Interval
  <2> QED
    BY <1>2, <2>1, <2>2
<1> QED
  BY <1>1, <1>2, <1>3, NumbersAre DEF HoldsFirst, KeepsPrefixes, Full, Rings

(* While there is room in the array, the numbers of the records have not   *)
(* come to their bound.                                                    *)
LEMMA NumbersGoOn ==
  ASSUME TypeOK, PrefixInv, ~Full, NEW r \in Rings, Len(ring[r]) < RingMax
  PROVE  made[r] < MaxNumber
<1>1. PICK k \in [Rings -> Nat] : HoldsFirst(k)
  BY DEF PrefixInv
<1>2. k[r] <= Len(events) /\ k[r] = made[r] - Len(ring[r])
  <2>1. k["cpu"] \in Nat /\ k["gpu"] \in Nat
    BY DEF Rings
  <2> QED
    BY <1>1, <2>1, TypesOfState DEF HoldsFirst, NumberRead, Rings
<1>3. Len(events) < MAX_EVENTS
  BY TypesOfState, NumbersAre DEF Full
<1> QED
  BY <1>2, <1>3, TypesOfState, NumbersAre

(* The kernel adds a record to a ring: nothing more is read, and it has    *)
(* the next number.                                                        *)
LEMMA PrefixInvSubmit ==
  ASSUME TypeOK, PrefixInv, NEW r \in Rings, Submit(r)
  PROVE  PrefixInv'
<1>1. PICK n \in Nat : n = Len(ring[r])
  BY TypesOfState
<1>2. PICK e \in UnifiedEvent :
         /\ e.type = r /\ e.number = made'[r]
         /\ n < RingMax
         /\ made'[r] = IF made[r] < MaxNumber THEN made[r] + 1 ELSE made[r]
         /\ \A q \in Rings \ {r} : ring'[q] = ring[q] /\ made'[q] = made[q]
         /\ Len(ring'[r]) = n + 1
         /\ DOMAIN ring'[r] = 1 .. n + 1
         /\ \A i \in 1 .. n : ring'[r][i] = ring[r][i]
         /\ ring'[r][n + 1] = e
  BY <1>1, SubmitEffect
<1>3. events' = events
  BY DEF Submit, user
<1>4. /\ DOMAIN ring[r] = 1 .. n
      /\ made[r] \in Nat
  BY <1>1, TypesOfState
<1>5. \A i \in 1 .. n + 1 : i \in 1 .. n \/ i = n + 1
  OBVIOUS
<1>6. RingTyped'
  <2> SUFFICES ASSUME NEW q \in Rings, NEW i \in DOMAIN ring'[q]
               PROVE  ring'[q][i].type = q
    BY DEF RingTyped
  <2>1. CASE q # r
    BY <1>2, <2>1 DEF PrefixInv, RingTyped
  <2>2. CASE q = r /\ i \in 1 .. n
    BY <1>2, <1>4, <2>2 DEF PrefixInv, RingTyped
  <2>3. CASE q = r /\ i = n + 1
    BY <1>2, <2>3
  <2> QED
    BY <1>2, <1>5, <2>1, <2>2, <2>3
<1>7. ~Full => \A q \in Rings : NumberRead(q)' = NumberRead(q)
  <2> SUFFICES ASSUME ~Full, NEW q \in Rings
               PROVE  NumberRead(q)' = NumberRead(q)
    OBVIOUS
  <2>1. CASE q # r
    BY <1>2, <2>1 DEF NumberRead
  <2>2. CASE q = r
    <3>1. made'[r] = made[r] + 1
      BY <1>1, <1>2, NumbersGoOn
    <3>2. NumberRead(r) = made[r] - n
      BY <1>1 DEF NumberRead
    <3>3. NumberRead(r)' = (made[r] + 1) - (n + 1)
      BY <1>2, <3>1 DEF NumberRead
    <3>4. (made[r] + 1) - (n + 1) = made[r] - n
      BY <1>4
    <3> QED
      BY <2>2, <3>2, <3>3, <3>4
  <2> QED
    BY <2>1, <2>2
<1>8. RingNumbered'
  <2> SUFFICES ASSUME ~Full, NEW q \in Rings, NEW i \in DOMAIN ring'[q]
               PROVE  ring'[q][i].number = NumberRead(q)' + i
    BY <1>3 DEF RingNumbered, Full
  <2>1. CASE q # r
    BY <1>2, <1>7, <2>1 DEF PrefixInv, RingNumbered
  <2>2. CASE q = r /\ i \in 1 .. n
    BY <1>2, <1>4, <1>7, <2>2 DEF PrefixInv, RingNumbered
  <2>3. CASE q = r /\ i = n + 1
    <3>1. made'[r] = made[r] + 1
      BY <1>1, <1>2, NumbersGoOn
    <3>2. NumberRead(r)' = made[r] - n
      BY <1>1, <1>7 DEF NumberRead
    <3> QED
      BY <1>2, <1>4, <2>3, <3>1, <3>2
  <2> QED
    BY <1>2, <1>5, <2>1, <2>2, <2>3
<1>9. \E k \in [Rings -> Nat] : HoldsFirst(k)'
  <2>1. PICK k \in [Rings -> Nat] : HoldsFirst(k)
    BY DEF PrefixInv
  <2>2. HoldsFirst(k)'
    BY <1>3, <1>7, <2>1 DEF HoldsFirst, Full, Numbers
  <2> QED
    BY <2>2
<1> QED
  BY <1>6, <1>8, <1>9 DEF PrefixInv

(* The callback gets the next number, and while there is room the array    *)
(* takes it.                                                               *)
LEMMA PrefixInvDrain ==
  ASSUME TypeOK, PrefixInv, Drain
  PROVE  PrefixInv'
<1>1. PICK n \in Nat, m \in Nat : n = Len(ring[polled]) /\ m = Len(events)
  BY TypesOfState DEF TypeOK
<1>2. /\ n # 0 /\ polled \in Rings
      /\ \A q \in Rings \ {polled} : ring'[q] = ring[q]
      /\ Len(ring'[polled]) = n - 1
      /\ DOMAIN ring'[polled] = 1 .. n - 1
      /\ \A i \in 1 .. n - 1 : ring'[polled][i] = ring[polled][i + 1]
      /\ m >= MAX_EVENTS => events' = events
      /\ m < MAX_EVENTS =>
            /\ Len(events') = m + 1
            /\ DOMAIN events' = 1 .. m + 1
            /\ \A i \in 1 .. m : events'[i] = events[i]
            /\ events'[m + 1] = ring[polled][1]
  BY <1>1, DrainEffect
<1>3. /\ DOMAIN ring[polled] = 1 .. n
      /\ DOMAIN events = 1 .. m
      /\ made' = made /\ polled' = polled
      /\ \A r \in Rings : made[r] \in Nat /\ Len(ring[r]) \in Nat
  BY <1>1, <1>2, TypesOfState DEF Drain
<1>4. \A i \in 1 .. n - 1 : i + 1 \in 1 .. n
  OBVIOUS
<1>5. RingTyped'
  <2> SUFFICES ASSUME NEW q \in Rings, NEW i \in DOMAIN ring'[q]
               PROVE  ring'[q][i].type = q
    BY DEF RingTyped
  <2>1. CASE q # polled
    BY <1>2, <2>1 DEF PrefixInv, RingTyped
  <2>2. CASE q = polled
    <3>1. i \in 1 .. n - 1 /\ i + 1 \in 1 .. n
      BY <1>2, <1>4, <2>2
    <3>2. ring[polled][i + 1].type = polled
      BY <1>2, <1>3, <3>1 DEF PrefixInv, RingTyped
    <3> QED
      BY <1>2, <2>2, <3>1, <3>2
  <2> QED
    BY <2>1, <2>2
<1>6. /\ NumberRead(polled)' = NumberRead(polled) + 1
      /\ NumberRead(polled) \in Int
      /\ \A q \in Rings \ {polled} : NumberRead(q)' = NumberRead(q)
  <2>1. PICK k \in Nat : k = made[polled]
    BY <1>2, <1>3
  <2>2. NumberRead(polled) = k - n /\ NumberRead(polled)' = k - (n - 1)
    BY <1>1, <1>2, <1>3, <2>1 DEF NumberRead
  <2>3. \A q \in Rings \ {polled} : NumberRead(q)' = NumberRead(q)
    BY <1>2, <1>3 DEF NumberRead
  <2> QED
    BY <2>2, <2>3
<1>7. CASE m >= MAX_EVENTS
  <2>1. events' = events /\ Full /\ Full'
    BY <1>1, <1>2, <1>7 DEF Full
  <2>2. PICK k \in [Rings -> Nat] : HoldsFirst(k)
    BY DEF PrefixInv
  <2>3. HoldsFirst(k)'
    BY <2>1, <2>2 DEF HoldsFirst, Numbers
  <2> QED
    BY <1>5, <2>1, <2>3 DEF PrefixInv, RingNumbered
<1>8. CASE m < MAX_EVENTS
  <2>1. ~Full
    BY <1>1, <1>8, NumbersAre DEF Full
  <2>2. RingNumbered'
    <3> SUFFICES ASSUME NEW q \in Rings, NEW i \in DOMAIN ring'[q]
                 PROVE  ring'[q][i].number = NumberRead(q)' + i
      BY DEF RingNumbered
    <3>1. CASE q # polled
      BY <1>2, <1>6, <2>1, <3>1 DEF PrefixInv, RingNumbered
    <3>2. CASE q = polled
      <4>1. i \in 1 .. n - 1 /\ i + 1 \in 1 .. n
        BY <1>2, <1>4, <3>2
      <4>2. ring'[q][i].number = NumberRead(polled) + (i + 1)
        BY <1>2, <1>3, <2>1, <3>2, <4>1 DEF PrefixInv, RingNumbered
      <4> QED
        BY <1>3, <1>6, <3>2, <4>1, <4>2
    <3> QED
      BY <3>1, <3>2
  <2>3. PICK k \in [Rings -> Nat] : HoldsFirst(k)
    BY DEF PrefixInv
  <2>4. PICK j \in [Rings -> Nat] :
            /\ j[polled] = k[polled] + 1
            /\ \A q \in Rings \ {polled} : j[q] = k[q]
            /\ \A q \in Rings : k[q] \in Nat
    <3>1. [k EXCEPT ![polled] = k[polled] + 1] \in [Rings -> Nat]
      BY <1>2
    <3> QED
      BY <1>2, <3>1
  <2>5. ring[polled][1].type = polled /\ ring[polled][1].number = k[polled] + 1
    <3>1. 1 \in 1 .. n
      BY <1>2
    <3>2. k[polled] = NumberRead(polled)
      BY <1>2, <2>1, <2>3 DEF HoldsFirst
    <3> QED
      BY <1>2, <1>3, <2>1, <3>1, <3>2 DEF PrefixInv, RingTyped, RingNumbered
  <2>6. \A i \in 1 .. m + 1 : i \in 1 .. m \/ i = m + 1
    OBVIOUS
  <2>7. ASSUME NEW r \in Rings
        PROVE  Numbers(r)' = 1 .. j[r]
    <3>1. \A x : x \in Numbers(r)' <=>
                    x \in Numbers(r) \/ (r = polled /\ x = k[polled] + 1)
      <4> SUFFICES ASSUME NEW x
                   PROVE  x \in Numbers(r)' <=>
                             x \in Numbers(r) \/ (r = polled /\ x = k[polled] + 1)
        OBVIOUS
      <4>1. x \in Numbers(r)' <=>
               \E i \in 1 .. m + 1 : events'[i].type = r /\ x = events'[i].number
        BY <1>2, <1>8 DEF Numbers
      <4>2. x \in Numbers(r) <=>
               \E i \in 1 .. m : events[i].type = r /\ x = events[i].number
        BY <1>3 DEF Numbers
      <4>3. m + 1 \in 1 .. m + 1 /\ \A i \in 1 .. m : i \in 1 .. m + 1
        OBVIOUS
      <4> QED
        BY <1>2, <1>8, <2>5, <2>6, <4>1, <4>2, <4>3
    <3>2. Numbers(r) = 1 .. k[r]
      BY <2>3 DEF HoldsFirst
    <3>3. CASE r # polled
      BY <2>4, <3>1, <3>2, <3>3
    <3>4. CASE r = polled
      <4>1. \A x : x \in 1 .. k[r] + 1 <=> x \in 1 .. k[r] \/ x = k[r] + 1
        BY <2>4
      <4> QED
        BY <2>4, <3>1, <3>2, <3>4, <4>1
    <3> QED
      BY <3>3, <3>4
  <2>8. j["cpu"] + j["gpu"] = m + 1
    <3>1. k["cpu"] + k["gpu"] = m /\ k["cpu"] \in Nat /\ k["gpu"] \in Nat
      BY <1>1, <2>3, <2>4 DEF HoldsFirst, Rings
    <3>2. \/ j["cpu"] = k["cpu"] + 1 /\ j["gpu"] = k["gpu"]
          \/ j["cpu"] = k["cpu"] /\ j["gpu"] = k["gpu"] + 1
      BY <1>2, <2>4 DEF Rings
    <3> QED
      BY <3>1, <3>2
  <2>9. ASSUME NEW r \in Rings
        PROVE  j[r] = NumberRead(r)'
    <3>1. k[r] = NumberRead(r)
      BY <2>1, <2>3 DEF HoldsFirst
    <3>2. CASE r = polled
      BY <1>3, <1>6, <2>4, <3>1, <3>2
    <3>3. CASE r # polled
      BY <1>6, <2>4, <3>1, <3>3
    <3> QED
      BY <3>2, <3>3
  <2>10. HoldsFirst(j)'
    BY <1>2, <1>8, <2>7, <2>8, <2>9 DEF HoldsFirst
  <2> QED
    BY <1>5, <2>2, <2>4, <2>10 DEF PrefixInv
<1> QED
  BY <1>7, <1>8, NumbersAre

(* Sorting loses no event, and makes none.                                 *)
LEMMA PrefixInvSort ==
  ASSUME TypeOK, PrefixInv, Sort
  PROVE  PrefixInv'
<1>1. PICK m \in Nat : m = Len(events) /\ DOMAIN events = 1 .. m
  BY TypesOfState
<1>2. /\ Len(events') = m
      /\ DOMAIN events' = 1 .. m
      /\ \A i \in 1 .. m : \E j \in 1 .. m : events'[i] = events[j]
      /\ \A j \in 1 .. m : \E i \in 1 .. m : events'[i] = events[j]
      /\ UNCHANGED <<ring, made>>
  BY <1>1, SortEffect DEF kernel
<1>3. ASSUME NEW r \in Rings
      PROVE  Numbers(r)' = Numbers(r)
  <2>1. ASSUME NEW x
        PROVE  x \in Numbers(r)' <=> x \in Numbers(r)
    <3>1. x \in Numbers(r)' <=>
             \E i \in 1 .. m : events'[i].type = r /\ x = events'[i].number
      BY <1>2 DEF Numbers
    <3>2. x \in Numbers(r) <=>
             \E i \in 1 .. m : events[i].type = r /\ x = events[i].number
      BY <1>1 DEF Numbers
    <3>3. ASSUME x \in Numbers(r)
          PROVE  x \in Numbers(r)'
      <4>1. PICK j \in 1 .. m : events[j].type = r /\ x = events[j].number
        BY <3>2, <3>3
      <4>2. PICK i \in 1 .. m : events'[i] = events[j]
        BY <1>2
      <4> QED
        BY <3>1, <4>1, <4>2
    <3>4. ASSUME x \in Numbers(r)'
          PROVE  x \in Numbers(r)
      <4>1. PICK i \in 1 .. m : events'[i].type = r /\ x = events'[i].number
        BY <3>1, <3>4
      <4>2. PICK j \in 1 .. m : events'[i] = events[j]
        BY <1>2
      <4> QED
        BY <3>2, <4>1, <4>2
    <3> QED
      BY <3>3, <3>4
  <2> QED
    BY <2>1
<1>4. Full' <=> Full
  BY <1>1, <1>2 DEF Full
<1>5. \A r \in Rings : NumberRead(r)' = NumberRead(r)
  BY <1>2 DEF NumberRead
<1>6. PICK k \in [Rings -> Nat] : HoldsFirst(k)
  BY DEF PrefixInv
<1>7. HoldsFirst(k)'
  BY <1>1, <1>2, <1>3, <1>4, <1>5, <1>6 DEF HoldsFirst
<1> QED
  BY <1>2, <1>4, <1>5, <1>7 DEF PrefixInv, RingTyped, RingNumbered

LEMMA PrefixInvInit == Init => PrefixInv
<1> SUFFICES ASSUME Init PROVE PrefixInv
  OBVIOUS
<1>1. /\ ring = [r \in Rings |-> << >>]
      /\ made = [r \in Rings |-> 0]
      /\ events = << >>
  BY DEF Init
<1>2. Len(<< >>) = 0 /\ DOMAIN << >> = {}
  BY EmptySeq
<1> DEFINE k == [r \in Rings |-> 0]
<1>3. /\ k \in [Rings -> Nat] /\ \A r \in Rings : k[r] = 0
      /\ k["cpu"] = 0 /\ k["gpu"] = 0
  BY DEF Rings
<1> HIDE DEF k
<1>4. \A r \in Rings : Numbers(r) = {} /\ NumberRead(r) = 0
  BY <1>1, <1>2 DEF Numbers, NumberRead
<1>5. 1 .. 0 = {}
  OBVIOUS
<1>6. HoldsFirst(k)
  <2>1. \A r \in Rings : Numbers(r) = 1 .. k[r]
    BY <1>3, <1>4, <1>5
  <2>2. k["cpu"] + k["gpu"] = Len(events)
    BY <1>1, <1>2, <1>3
  <2>3. \A r \in Rings : k[r] = NumberRead(r)
    BY <1>3, <1>4
  <2> QED
    BY <2>1, <2>2, <2>3 DEF HoldsFirst
<1>7. RingTyped /\ RingNumbered
  BY <1>1, <1>2 DEF RingTyped, RingNumbered
<1> QED
  BY <1>3, <1>6, <1>7 DEF PrefixInv

LEMMA PrefixInvStep == TypeOK /\ PrefixInv /\ [Next]_vars => PrefixInv'
<1> SUFFICES ASSUME TypeOK, PrefixInv, [Next]_vars
             PROVE  PrefixInv'
  OBVIOUS
<1>1. ASSUME UNCHANGED <<ring, made, events>>
      PROVE  PrefixInv'
  BY <1>1 DEF PrefixInv, RingTyped, RingNumbered, HoldsFirst, Full, Numbers,
              NumberRead
<1>2. CASE \/ Tick \/ LoopTest \/ EnterPoll \/ Ready \/ Timeout \/ Drained
           \/ Signal \/ Output \/ UNCHANGED vars
  BY <1>1, <1>2 DEF Tick, LoopTest, EnterPoll, Ready, Timeout, Drained, Signal,
                    Output, vars, kernel, user
<1> QED
  BY <1>2, PrefixInvSubmit, PrefixInvDrain, PrefixInvSort DEF Next, Loop

(* The array holds of each ring the records that came first, none missing  *)
(* and none twice, and until it is full all that were read: whatever the   *)
(* kernel adds meanwhile, however the reads of the two rings take turns,   *)
(* and whenever a signal cuts the loop short.                              *)
THEOREM ArrayKeepsPrefixes == Spec => []KeepsPrefixes
<1>1. TypeInv => TypeOK
  BY DEF TypeInv
<1> QED
  BY <1>1, Typing, PrefixInvInit, PrefixInvStep, PrefixesKept, PTL DEF Spec
=============================================================================
