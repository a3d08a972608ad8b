-------------------------- MODULE CudaTracerProofs --------------------------
(***************************************************************************)
(* Proofs about CudaTracer: type correctness, and that the log is genuine  *)
(* as long as no entry probe is skipped.                                   *)
(***************************************************************************)
EXTENDS CudaTracer, SequenceTheorems, TLAPS

(* The probes are reliable enough: the kernel skips no entry probe, and it *)
(* skips return probes only if no operation is open twice in one thread.   *)
ProbesReliable ==
    /\ "entry" \notin MayMiss
    /\ "return" \in MayMiss => Reentrant = {}

-----------------------------------------------------------------------------
(* The inductive invariant *)

(* Entries and open calls began in the past.                               *)
Past ==
    \A t \in Threads : cuda_calls[t] # None => cuda_calls[t].timestamp <= now

(* A record still being written belongs to a thread that is returning from *)
(* an armed call and whose entry matches; each thread writes one at a time.*)
Busy(i) == cuda_events[i].event = None

MaySubmit(t) == stack[t] # << >> /\ Top(t).armed /\ Matches(t)

MidSubmit ==
    /\ \A t \in Threads, i \in DOMAIN cuda_events :
          Busy(i) /\ cuda_events[i].owner = t => MaySubmit(t)
    /\ \A i, j \in DOMAIN cuda_events :
          Busy(i) /\ Busy(j) /\ cuda_events[i].owner = cuda_events[j].owner
              => i = j

TypeInv == TypeOK /\ Past /\ MidSubmit

(* Until the links are destroyed an armed call still has its return probe, *)
(* and the operation of an entry still has its entry probe.                *)
ArmedAttached(t) ==
    \A i \in DOMAIN stack[t] :
        stack[t][i].armed => Attached("return", stack[t][i].op)

EntryAttached(t) ==
    cuda_calls[t] # None =>
        Attached("entry", cuda_calls[t].op_type) /\ Traced(t)

StillAttached ==
    phase # "detach" =>
        \A t \in Threads : ArmedAttached(t) /\ EntryAttached(t)

(* Without reentrancy the open calls of a thread are of distinct           *)
(* operations.                                                             *)
DistinctOpsOf(t) ==
    \A i, j \in DOMAIN stack[t] : stack[t][i].op = stack[t][j].op => i = j

DistinctOps == Reentrant = {} => \A t \in Threads : DistinctOpsOf(t)

(* The innermost armed call of the operation of the entry is the call that *)
(* made the entry.                                                         *)
Candidate(t, i) == stack[t][i].armed /\ stack[t][i].op = cuda_calls[t].op_type

Innermost(t, i) ==
    Candidate(t, i) /\ \A j \in DOMAIN stack[t] : j > i => ~Candidate(t, j)

InnermostMadeEntry(t) ==
    cuda_calls[t] # None =>
        \A i \in DOMAIN stack[t] :
            Innermost(t, i) => stack[t][i].start = cuda_calls[t].timestamp

EntryOfInnermost ==
    phase # "detach" => \A t \in Threads : InnermostMadeEntry(t)

(* What is in the ring is genuine until the links are destroyed.           *)
Genuine(e, calls) == \E c \in calls : Reports(e, c)

GenuineRing ==
    phase # "detach" =>
        \A i \in DOMAIN cuda_events : ~Busy(i) => Genuine(cuda_events[i].event, done)

Inv ==
    /\ TypeInv
    /\ StillAttached
    /\ DistinctOps
    /\ EntryOfInnermost
    /\ GenuineRing
    /\ GenuineLog

-----------------------------------------------------------------------------
(* Lemmas on sequences *)

(* What is left of a non-empty sequence without its last element.          *)
LEMMA FrontOfSeq ==
  ASSUME NEW S, NEW s \in Seq(S), s # << >>
  PROVE  /\ Len(s) \in Nat \ {0}
         /\ Front(s) \in Seq(S)
         /\ Len(Front(s)) = Len(s) - 1
         /\ \A i \in 1 .. Len(s) - 1 : Front(s)[i] = s[i]
         /\ Last(s) = s[Len(s)]
         /\ Last(s) \in S
<1>1. Len(s) \in Nat \ {0}
  BY EmptySeq
<1>2. \A i \in 1 .. Len(s) : s[i] \in S
  BY ElementOfSeq
<1>3. /\ SubSeq(s, 1, Len(s) - 1) \in Seq(S)
      /\ Len(SubSeq(s, 1, Len(s) - 1)) = Len(s) - 1
      /\ \A i \in 1 .. Len(s) - 1 : SubSeq(s, 1, Len(s) - 1)[i] = s[i]
  <2>1. PICK n \in Nat : n = Len(s) - 1
    BY <1>1
  <2>2. \A i \in 1 .. n : s[i] \in S
    BY <1>1, <1>2, <2>1
  <2>3. /\ SubSeq(s, 1, n) \in Seq(S)
        /\ Len(SubSeq(s, 1, n)) = IF 1 <= n THEN n - 1 + 1 ELSE 0
        /\ \A i \in 1 .. n - 1 + 1 : SubSeq(s, 1, n)[i] = s[1 + i - 1]
    BY <2>2, SubSeqProperties
  <2>4. /\ Len(SubSeq(s, 1, n)) = n
        /\ \A i \in 1 .. n : SubSeq(s, 1, n)[i] = s[i]
    BY <2>3
  <2> QED
    BY <2>1, <2>3, <2>4
<1> QED
  BY <1>1, <1>2, <1>3 DEF Front, Last

(* Every sequence over S is a function on 1..Len.                          *)
LEMMA AtOfSeq ==
  ASSUME NEW S, NEW s \in Seq(S)
  PROVE  /\ Len(s) \in Nat
         /\ DOMAIN s = 1 .. Len(s)
         /\ \A i \in DOMAIN s : s[i] \in S
BY LenProperties, ElementOfSeq

-----------------------------------------------------------------------------
(* Type correctness *)

(* The initial states: nothing is attached, no call is open, and the hash, *)
(* the ring and the log are empty.                                         *)
LEMMA TypeInit == Init => TypeInv
<1> SUFFICES ASSUME Init PROVE TypeInv
  OBVIOUS
<1> USE DEF Init
<1>1. TypeOK
  <2>1. cuda_events \in Seq(RingSlot)
    BY EmptySeq
  <2>2. log \in Seq(Event)
    BY EmptySeq
  <2>3. stack \in [Threads -> Seq(Frame)]
    BY EmptySeq
  <2>4. next \in 1 .. Len(cuda_funcs) + 1
    BY LenProperties, TracerAssumption
  <2> QED
    BY <2>1, <2>2, <2>3, <2>4 DEF TypeOK, SamplingTypeOK, SamplingInit
<1>2. Past
  BY DEF Past
<1>3. MidSubmit
  BY DEF MidSubmit, Busy
<1> QED
  BY <1>1, <1>2, <1>3 DEF TypeInv

(* The decision to sample keeps the counters numbers and yields an id or   *)
(* -1.                                                                     *)
LEMMA MaybeCaptureStackType ==
  ASSUME SamplingTypeOK, NEW cpu \in CPUs, NEW op, NEW sid,
         MaybeCaptureStack(cpu, op, sid)
  PROVE  SamplingTypeOK' /\ sid \in Nat \cup {NoStack}
<1>1. SamplingTypeOK'
  BY DEF MaybeCaptureStack, SamplingTypeOK
<1>2. sid \in Nat \cup {NoStack}
  BY SamplingAssumption DEF MaybeCaptureStack
<1> QED
  BY <1>1, <1>2

(* What an entry probe leaves in the hash: entries of other threads        *)
(* untouched, its own replaced by one of this call or left as it was.      *)
LEMMA RecordEntryEffect ==
  ASSUME TypeOK, NEW t \in Threads, NEW op \in Ops, NEW cpu \in CPUs,
         RecordEntry(t, op, cpu)
  PROVE  /\ SamplingTypeOK'
         /\ cuda_calls' \in [Threads -> CallInfo \cup {None}]
         /\ \A u \in Threads \ {t} : cuda_calls'[u] = cuda_calls[u]
         /\ \/ cuda_calls'[t] = cuda_calls[t]
               /\ (~Traced(t) \/ cuda_calls[t] = None)
            \/ /\ Traced(t)
               /\ cuda_calls'[t] # None
               /\ cuda_calls'[t].op_type = op
               /\ cuda_calls'[t].timestamp = now
               /\ cuda_calls'[t].pid = Tgid[t]
<1>1. CASE ~Traced(t)
  BY <1>1 DEF RecordEntry, TypeOK, SamplingTypeOK
<1>2. CASE Traced(t)
  <2>1. PICK sid \in StackResults \cup {NoStack} :
           /\ MaybeCaptureStack(cpu, op, sid)
           /\ cuda_calls' = MapUpdate(t,
                [op_type |-> op, timestamp |-> now, pid |-> Tgid[t],
                 stack_id |-> sid])
    BY <1>2 DEF RecordEntry
  <2>2. SamplingTypeOK' /\ sid \in Nat \cup {NoStack}
    BY <2>1, MaybeCaptureStackType DEF TypeOK
  <2> DEFINE info == [op_type |-> op, timestamp |-> now, pid |-> Tgid[t],
                      stack_id |-> sid]
  <2>3. info \in CallInfo /\ info # None
    BY <2>2, TracerAssumption DEF TypeOK, CallInfo
  <2>4. info.op_type = op /\ info.timestamp = now /\ info.pid = Tgid[t]
    OBVIOUS
  <2>5. cuda_calls' = MapUpdate(t, info)
    BY <2>1
  <2> HIDE DEF info
  <2>6. CASE t \in InFlight \/ Cardinality(InFlight) < CallsMax
    <3>1. cuda_calls' = [cuda_calls EXCEPT ![t] = info]
      BY <2>5, <2>6 DEF MapUpdate
    <3> QED
      BY <1>2, <2>2, <2>3, <2>4, <3>1 DEF TypeOK
  <2>7. CASE t \notin InFlight /\ ~(Cardinality(InFlight) < CallsMax)
    <3>1. cuda_calls' = cuda_calls
      BY <2>5, <2>7 DEF MapUpdate
    <3>2. cuda_calls[t] = None
      BY <2>7 DEF InFlight
    <3> QED
      BY <2>2, <3>1, <3>2 DEF TypeOK
  <2> QED
    BY <2>6, <2>7
<1> QED
  BY <1>1, <1>2

(* A return takes the innermost call off the stack of its thread, into the *)
(* history.                                                                *)
LEMMA PopEffect ==
  ASSUME TypeOK, NEW t \in Threads, stack[t] # << >>, Pop(t)
  PROVE  /\ stack' \in [Threads -> Seq(Frame)]
         /\ \A u \in Threads \ {t} : stack'[u] = stack[u]
         /\ stack'[t] = Front(stack[t])
         /\ Len(stack[t]) \in Nat \ {0}
         /\ DOMAIN stack[t] = 1 .. Len(stack[t])
         /\ DOMAIN stack'[t] = 1 .. Len(stack[t]) - 1
         /\ \A i \in DOMAIN stack'[t] : stack'[t][i] = stack[t][i]
         /\ Top(t) = stack[t][Len(stack[t])]
         /\ done' \subseteq Call
         /\ done \subseteq done'
         /\ now' = now + 1
         /\ now' \in Nat
<1>1. stack[t] \in Seq(Frame)
  BY DEF TypeOK
<1>2. Front(stack[t]) \in Seq(Frame) /\ Top(t) \in Frame
  BY <1>1, FrontOfSeq DEF Top
<1>3. stack' = [stack EXCEPT ![t] = Front(stack[t])]
  BY DEF Pop
<1>4. done' \subseteq Call /\ done \subseteq done'
  BY <1>2 DEF Pop, TypeOK, Frame, Call
<1>5. stack'[t] = Front(stack[t]) /\ stack' \in [Threads -> Seq(Frame)]
      /\ \A u \in Threads \ {t} : stack'[u] = stack[u]
  BY <1>2, <1>3 DEF TypeOK
<1>6. /\ Len(stack[t]) \in Nat \ {0}
      /\ Len(Front(stack[t])) = Len(stack[t]) - 1
      /\ \A i \in 1 .. Len(stack[t]) - 1 : Front(stack[t])[i] = stack[t][i]
      /\ Top(t) = stack[t][Len(stack[t])]
  BY <1>1, FrontOfSeq DEF Top
<1>7. /\ DOMAIN stack[t] = 1 .. Len(stack[t])
      /\ DOMAIN Front(stack[t]) = 1 .. Len(stack[t]) - 1
  BY <1>1, <1>2, <1>6, AtOfSeq
<1>8. now' = now + 1 /\ now' \in Nat
  BY DEF Pop, TypeOK
<1> QED
  BY <1>4, <1>5, <1>6, <1>7, <1>8

(* A call of a thread puts one frame, begun now, on its stack.             *)
LEMMA EnterEffect ==
  ASSUME TypeOK, NEW t \in Threads, NEW op \in Ops, NEW cpu \in CPUs,
         Enter(t, op, cpu)
  PROVE  /\ stack' \in [Threads -> Seq(Frame)]
         /\ \A u \in Threads \ {t} : stack'[u] = stack[u]
         /\ Len(stack[t]) \in Nat
         /\ Len(stack'[t]) = Len(stack[t]) + 1
         /\ DOMAIN stack[t] = 1 .. Len(stack[t])
         /\ DOMAIN stack'[t] = 1 .. Len(stack[t]) + 1
         /\ \A i \in 1 .. Len(stack[t]) : stack'[t][i] = stack[t][i]
         /\ stack'[t][Len(stack[t]) + 1].op = op
         /\ stack'[t][Len(stack[t]) + 1].start = now
         /\ stack'[t][Len(stack[t]) + 1].armed <=> Attached("return", op)
         /\ stack'[t][Len(stack[t]) + 1].probed <=>
               Attached("entry", op) /\ Attached("return", op)
         /\ now' = now + 1
<1> DEFINE f == [op |-> op, start |-> now, armed |-> Attached("return", op),
                 probed |-> Attached("entry", op) /\ Attached("return", op)]
<1>1. stack[t] \in Seq(Frame) /\ f \in Frame
  <2>1. \A kind : Attached(kind, op) \in BOOLEAN
    BY DEF Attached
  <2>2. now \in Nat /\ stack[t] \in Seq(Frame)
    BY DEF TypeOK
  <2>3. (Attached("entry", op) /\ Attached("return", op)) \in BOOLEAN
    OBVIOUS
  <2> QED
    BY <2>1, <2>2, <2>3, Zenon DEF Frame
<1>2. stack' = [stack EXCEPT ![t] = Append(stack[t], f)] /\ now' = now + 1
  BY DEF Enter
<1> HIDE DEF f
<1>3. /\ Append(stack[t], f) \in Seq(Frame)
      /\ Len(Append(stack[t], f)) = Len(stack[t]) + 1
      /\ \A i \in 1 .. Len(stack[t]) : Append(stack[t], f)[i] = stack[t][i]
      /\ Append(stack[t], f)[Len(stack[t]) + 1] = f
  BY <1>1, AppendProperties
<1>4. /\ Len(stack[t]) \in Nat
      /\ DOMAIN stack[t] = 1 .. Len(stack[t])
      /\ DOMAIN Append(stack[t], f) = 1 .. Len(stack[t]) + 1
  BY <1>1, <1>3, AtOfSeq
<1>6. /\ f.op = op /\ f.start = now /\ (f.armed <=> Attached("return", op))
      /\ f.probed <=> Attached("entry", op) /\ Attached("return", op)
  BY Zenon DEF f
<1>5. stack' \in [Threads -> Seq(Frame)] /\ stack'[t] = Append(stack[t], f)
      /\ \A u \in Threads \ {t} : stack'[u] = stack[u]
  BY <1>2, <1>3 DEF TypeOK
<1> QED
  BY <1>2, <1>3, <1>4, <1>5, <1>6

(* The record written on submit is a well-formed event, which ends now.    *)
LEMMA CommitEvent ==
  ASSUME TypeInv, NEW t \in Threads, Matches(t), stack[t] # << >>
  PROVE  /\ EventOf(t) \in Event
         /\ EventOf(t) # None
         /\ EventOf(t).tid = t
         /\ EventOf(t).op_type = Top(t).op
         /\ EventOf(t).timestamp = cuda_calls[t].timestamp
         /\ EndOf(EventOf(t)) = now
<1>1. Top(t) \in Frame
  BY FrontOfSeq DEF Top, TypeInv, TypeOK
<1>2. cuda_calls[t] \in CallInfo /\ cuda_calls[t].timestamp <= now
  BY DEF Matches, TypeInv, TypeOK, Past
<1>3. now \in Nat
  BY DEF TypeInv, TypeOK
<1>4. now - cuda_calls[t].timestamp \in Nat
  BY <1>2, <1>3 DEF CallInfo
<1>5. EventOf(t) \in Event
  BY <1>1, <1>2, <1>4 DEF EventOf, Event, CallInfo, Frame
<1>6. EndOf(EventOf(t)) = now
  BY <1>2, <1>3 DEF EndOf, EventOf, CallInfo
<1> QED
  BY <1>5, <1>6, TracerAssumption DEF EventOf

(* A step that leaves the ring alone, and the stack and the entry of every *)
(* thread that is submitting, keeps MidSubmit.                             *)
LEMMA MidSubmitUnchanged ==
  ASSUME TypeOK, MidSubmit, cuda_events' = cuda_events,
         \A u \in Threads : Submitting(u) =>
            stack'[u] = stack[u] /\ cuda_calls'[u] = cuda_calls[u]
  PROVE  MidSubmit'
<1>1. ASSUME NEW t \in Threads, NEW i \in DOMAIN cuda_events, Busy(i),
             cuda_events[i].owner = t
      PROVE  MaySubmit(t)'
  <2>1. Submitting(t)
    BY <1>1 DEF Submitting, Slot, Busy
  <2>2. stack'[t] = stack[t] /\ cuda_calls'[t] = cuda_calls[t]
    BY <2>1
  <2>3. MaySubmit(t)
    BY <1>1 DEF MidSubmit
  <2> QED
    BY <2>2, <2>3 DEF MaySubmit, Top, Matches
<1> QED
  BY <1>1 DEF MidSubmit, Busy

(* Every step keeps the types.  In danger: the duration an event states,   *)
(* which is a natural number only because the entry lies in the past, and  *)
(* the record put into the slot of its thread.                             *)
LEMMA TypeOKStep ==
  ASSUME TypeInv, [Next]_vars
  PROVE  TypeOK'
<1> USE DEF TypeInv, loader, threads, maps
<1>0. /\ stack \in [Threads -> Seq(Frame)]
      /\ cuda_events \in Seq(RingSlot)
      /\ log \in Seq(Event)
      /\ cuda_calls \in [Threads -> CallInfo \cup {None}]
      /\ cuda_funcs \in Seq(Probes) /\ Len(cuda_funcs) \in Nat
  BY TracerAssumption, LenProperties DEF TypeOK
<1>1. CASE Attach
  <2>1. cuda_funcs[next] \in Probes
    BY <1>0, <1>1, ElementOfSeq DEF Attach, TypeOK
  <2> QED
    BY <1>0, <1>1, <2>1 DEF Attach, TypeOK, SamplingTypeOK
<1>2. CASE StartPolling
  BY <1>2 DEF StartPolling, TypeOK, SamplingTypeOK
<1>3. CASE Consume
  <2>1. Head(cuda_events) \in RingSlot /\ Tail(cuda_events) \in Seq(RingSlot)
    BY <1>0, <1>3, HeadTailProperties DEF Consume
  <2>2. Head(cuda_events).event \in Event
    BY <1>3, <2>1 DEF Consume, RingSlot
  <2>3. Append(log, Head(cuda_events).event) \in Seq(Event)
    BY <1>0, <2>2, AppendProperties
  <2> QED
    BY <1>3, <2>1, <2>3 DEF Consume, TypeOK, SamplingTypeOK
<1>4. CASE StopPolling
  BY <1>0, <1>4 DEF StopPolling, TypeOK, SamplingTypeOK
<1>5. CASE Detach
  BY <1>0, <1>5 DEF Detach, TypeOK, SamplingTypeOK
<1>6. ASSUME NEW t \in Threads, NEW op \in Ops, NEW cpu \in CPUs,
             Enter(t, op, cpu)
      PROVE  TypeOK'
  <2>1. stack' \in [Threads -> Seq(Frame)] /\ now' = now + 1
    BY <1>6, EnterEffect
  <2>2. CASE RecordEntry(t, op, cpu)
    <3>1. SamplingTypeOK' /\ cuda_calls' \in [Threads -> CallInfo \cup {None}]
      BY <2>2, RecordEntryEffect
    <3> QED
      BY <1>6, <2>1, <3>1 DEF Enter, TypeOK
  <2>3. CASE UNCHANGED <<cuda_calls, counter>>
    BY <1>6, <2>1, <2>3 DEF Enter, TypeOK, SamplingTypeOK
  <2> QED
    BY <1>6, <2>2, <2>3 DEF Enter
<1>7. ASSUME NEW t \in Threads, ReturnUnseen(t)
      PROVE  TypeOK'
  <2>1. /\ stack' \in [Threads -> Seq(Frame)]
        /\ done' \subseteq Call /\ now' \in Nat
    BY <1>7, PopEffect DEF ReturnUnseen, CanReturn
  <2> QED
    BY <1>7, <2>1 DEF ReturnUnseen, TypeOK, SamplingTypeOK
<1>8. ASSUME NEW t \in Threads, SubmitDrop(t)
      PROVE  TypeOK'
  <2>1. /\ stack' \in [Threads -> Seq(Frame)]
        /\ done' \subseteq Call /\ now' \in Nat
    BY <1>8, PopEffect DEF SubmitDrop, CanReturn
  <2> QED
    BY <1>8, <2>1 DEF SubmitDrop, Forget, TypeOK, SamplingTypeOK
<1>9. ASSUME NEW t \in Threads, SubmitReserve(t)
      PROVE  TypeOK'
  <2>1. [owner |-> t, event |-> None] \in RingSlot
    BY DEF RingSlot
  <2>2. cuda_events' \in Seq(RingSlot)
    BY <1>0, <1>9, <2>1, AppendProperties DEF SubmitReserve
  <2> QED
    BY <1>9, <2>2 DEF SubmitReserve, TypeOK, SamplingTypeOK
<1>10. ASSUME NEW t \in Threads, SubmitCommit(t)
       PROVE  TypeOK'
  <2>1. PICK i \in Slot(t) :
           cuda_events' = [cuda_events EXCEPT ![i].event = EventOf(t)]
    BY <1>10 DEF SubmitCommit
  <2>2. i \in 1 .. Len(cuda_events) /\ cuda_events[i] \in RingSlot
    BY <1>0, AtOfSeq DEF Slot
  <2>3. stack[t] # << >> /\ Matches(t)
    BY <2>1 DEF MidSubmit, MaySubmit, Slot, Busy
  <2>4. EventOf(t) \in Event
    BY <2>3, CommitEvent
  <2>5. [cuda_events[i] EXCEPT !.event = EventOf(t)] \in RingSlot
    BY <2>2, <2>4 DEF RingSlot
  <2>6. cuda_events' \in Seq(RingSlot)
    BY <1>0, <2>1, <2>2, <2>5, ExceptSeq
  <2>7. /\ stack' \in [Threads -> Seq(Frame)]
        /\ done' \subseteq Call /\ now' \in Nat
    BY <1>10, <2>3, PopEffect DEF SubmitCommit
  <2> QED
    BY <1>10, <2>6, <2>7 DEF SubmitCommit, Forget, TypeOK, SamplingTypeOK
<1>11. ASSUME NEW t \in Threads, ThreadExit(t)
       PROVE  TypeOK'
  <2>1. stack' \in [Threads -> Seq(Frame)]
    BY <1>0, <1>11, EmptySeq DEF ThreadExit
  <2> QED
    BY <1>11, <2>1 DEF ThreadExit, TypeOK, SamplingTypeOK
<1>12. CASE UNCHANGED vars
  BY <1>12 DEF vars, TypeOK, SamplingTypeOK
<1> QED
  BY <1>1, <1>2, <1>3, <1>4, <1>5, <1>6, <1>7, <1>8, <1>9, <1>10, <1>11,
     <1>12 DEF Next, ThreadStep

(* The clock only moves forward, and a new entry has the time of the clock.*)
LEMMA PastStep ==
  ASSUME TypeInv, [Next]_vars
  PROVE  Past'
<1> USE DEF TypeInv, loader, threads, maps
<1>0. /\ cuda_calls \in [Threads -> CallInfo \cup {None}]
      /\ now \in Nat
      /\ \A u \in Threads : cuda_calls[u] # None => cuda_calls[u].timestamp \in Nat
  BY DEF TypeOK, CallInfo
<1>1. ASSUME UNCHANGED <<now, cuda_calls>>
      PROVE  Past'
  BY <1>1 DEF Past
<1>2. ASSUME NEW t \in Threads, now' = now + 1,
             UNCHANGED cuda_calls \/ Forget(t)
      PROVE  Past'
  BY <1>0, <1>2 DEF Past, Forget
<1>3. ASSUME NEW t \in Threads, NEW op \in Ops, NEW cpu \in CPUs,
             Enter(t, op, cpu)
      PROVE  Past'
  <2>1. now' = now + 1
    BY <1>3 DEF Enter
  <2>2. CASE RecordEntry(t, op, cpu)
    <3>1. /\ \A u \in Threads \ {t} : cuda_calls'[u] = cuda_calls[u]
          /\ \/ cuda_calls'[t] = cuda_calls[t]
             \/ cuda_calls'[t].timestamp = now
      BY <2>2, RecordEntryEffect
    <3> QED
      BY <1>0, <2>1, <3>1 DEF Past
  <2>3. CASE UNCHANGED <<cuda_calls, counter>>
    BY <1>2, <2>1, <2>3
  <2> QED
    BY <1>3, <2>2, <2>3 DEF Enter
<1>4. ASSUME NEW t \in Threads, ReturnUnseen(t)
      PROVE  Past'
  BY <1>2, <1>4 DEF ReturnUnseen, Pop
<1>5. ASSUME NEW t \in Threads, SubmitDrop(t) \/ SubmitCommit(t)
      PROVE  Past'
  BY <1>2, <1>5 DEF SubmitDrop, SubmitCommit, Pop
<1>6. ASSUME NEW t \in Threads, SubmitReserve(t) \/ ThreadExit(t)
      PROVE  Past'
  BY <1>1, <1>6 DEF SubmitReserve, ThreadExit
<1>7. ASSUME Attach \/ StartPolling \/ Consume \/ StopPolling \/ Detach
      PROVE  Past'
  BY <1>1, <1>7 DEF Attach, StartPolling, Consume, StopPolling, Detach
<1> QED
  BY <1>1, <1>3, <1>4, <1>5, <1>6, <1>7 DEF Next, ThreadStep, vars

(* Between reserve and submit a thread takes no other step, and no step of *)
(* another thread touches its stack, its entry or its slot.                *)
LEMMA MidSubmitStep ==
  ASSUME TypeInv, [Next]_vars
  PROVE  MidSubmit'
<1> USE DEF TypeInv, loader, threads, maps
<1>0. /\ cuda_events \in Seq(RingSlot)
      /\ Len(cuda_events) \in Nat
      /\ DOMAIN cuda_events = 1 .. Len(cuda_events)
      /\ \A i \in DOMAIN cuda_events : cuda_events[i] \in RingSlot
  BY AtOfSeq DEF TypeOK
<1>1. ASSUME UNCHANGED <<cuda_events, stack, cuda_calls>>
      PROVE  MidSubmit'
  BY <1>1, MidSubmitUnchanged
(* A step of thread t, not submitting, which leaves the ring alone.        *)
<1>2. ASSUME NEW t \in Threads, ~Submitting(t), UNCHANGED cuda_events,
             \A u \in Threads \ {t} : /\ stack'[u] = stack[u]
                                      /\ cuda_calls'[u] = cuda_calls[u]
      PROVE  MidSubmit'
  BY <1>2, MidSubmitUnchanged
<1>3. ASSUME NEW t \in Threads, NEW op \in Ops, NEW cpu \in CPUs,
             Enter(t, op, cpu)
      PROVE  MidSubmit'
  <2>1. \A u \in Threads \ {t} : stack'[u] = stack[u]
    BY <1>3, EnterEffect
  <2>2. \A u \in Threads \ {t} : cuda_calls'[u] = cuda_calls[u]
    BY <1>3, RecordEntryEffect DEF Enter
  <2> QED
    BY <1>2, <1>3, <2>1, <2>2 DEF Enter, MayCall
<1>4. ASSUME NEW t \in Threads, ReturnUnseen(t)
      PROVE  MidSubmit'
  BY <1>2, <1>4, PopEffect DEF ReturnUnseen, CanReturn
<1>5. ASSUME NEW t \in Threads, SubmitDrop(t)
      PROVE  MidSubmit'
  <2>1. \A u \in Threads \ {t} : stack'[u] = stack[u]
    BY <1>5, PopEffect DEF SubmitDrop, CanReturn
  <2>2. \A u \in Threads \ {t} : cuda_calls'[u] = cuda_calls[u]
    BY <1>5 DEF SubmitDrop, Forget, TypeOK
  <2> QED
    BY <1>2, <1>5, <2>1, <2>2 DEF SubmitDrop, CanReturn
<1>6. ASSUME NEW t \in Threads, ThreadExit(t)
      PROVE  MidSubmit'
  <2>1. \A u \in Threads \ {t} : stack'[u] = stack[u]
    BY <1>6 DEF ThreadExit, TypeOK
  <2> QED
    BY <1>2, <1>6, <2>1 DEF ThreadExit, CanReturn
<1>7. ASSUME NEW t \in Threads, SubmitReserve(t)
      PROVE  MidSubmit'
  <2> DEFINE n == Len(cuda_events) + 1
  <2>1. /\ cuda_events' = Append(cuda_events, [owner |-> t, event |-> None])
        /\ UNCHANGED <<stack, cuda_calls>>
        /\ MaySubmit(t)
        /\ ~Submitting(t)
    BY <1>7 DEF SubmitReserve, CanReturn, ReturnFires, MaySubmit
  <2>2. [owner |-> t, event |-> None] \in RingSlot
    BY DEF RingSlot
  <2>3. /\ DOMAIN cuda_events' = 1 .. n
        /\ \A i \in DOMAIN cuda_events : cuda_events'[i] = cuda_events[i]
        /\ cuda_events'[n].owner = t
    BY <1>0, <2>1, <2>2, AppendProperties, AtOfSeq
  <2>4. \A i \in DOMAIN cuda_events : Busy(i) => cuda_events[i].owner # t
    BY <2>1 DEF Submitting, Slot, Busy
  <2>5. \A i \in DOMAIN cuda_events : Busy(i)' <=> Busy(i)
    BY <2>3 DEF Busy
  <2>6. ASSUME NEW u \in Threads, NEW i \in DOMAIN cuda_events', Busy(i)',
               cuda_events'[i].owner = u
        PROVE  MaySubmit(u)'
    <3>1. MaySubmit(u)
      BY <1>0, <2>1, <2>3, <2>5, <2>6 DEF MidSubmit
    <3> QED
      BY <2>1, <3>1 DEF MaySubmit, Top, Matches
  <2>7. ASSUME NEW i \in DOMAIN cuda_events', NEW j \in DOMAIN cuda_events',
               Busy(i)', Busy(j)',
               cuda_events'[i].owner = cuda_events'[j].owner
        PROVE  i = j
    BY <1>0, <2>3, <2>4, <2>5, <2>7 DEF MidSubmit
  <2> QED
    BY <2>6, <2>7 DEF MidSubmit
<1>8. ASSUME NEW t \in Threads, SubmitCommit(t)
      PROVE  MidSubmit'
  <2>1. PICK k \in Slot(t) :
           cuda_events' = [cuda_events EXCEPT ![k].event = EventOf(t)]
    BY <1>8 DEF SubmitCommit
  <2>2. /\ k \in DOMAIN cuda_events /\ Busy(k) /\ cuda_events[k].owner = t
        /\ stack[t] # << >> /\ Matches(t)
    BY <2>1 DEF Slot, Busy, MidSubmit, MaySubmit
  <2>3. EventOf(t) # None
    BY <2>2, CommitEvent
  <2>4. /\ DOMAIN cuda_events' = DOMAIN cuda_events
        /\ \A i \in DOMAIN cuda_events :
              cuda_events'[i].owner = cuda_events[i].owner
        /\ \A i \in DOMAIN cuda_events : Busy(i)' <=> Busy(i) /\ i # k
    <3>1. cuda_events'[k].event = EventOf(t)
      BY <1>0, <2>1, <2>2 DEF RingSlot
    <3> QED
      BY <1>0, <2>1, <2>2, <2>3, <3>1 DEF Busy, RingSlot
  <2>5. \A u \in Threads \ {t} : stack'[u] = stack[u] /\ cuda_calls'[u] = cuda_calls[u]
    BY <1>8, <2>2, PopEffect DEF SubmitCommit, Forget, TypeOK
  <2>6. ASSUME NEW u \in Threads, NEW i \in DOMAIN cuda_events', Busy(i)',
               cuda_events'[i].owner = u
        PROVE  MaySubmit(u)'
    <3>1. Busy(i) /\ i # k /\ i \in DOMAIN cuda_events
          /\ cuda_events[i].owner = u
      BY <2>4, <2>6
    <3>2. u # t
      BY <2>2, <3>1 DEF MidSubmit
    <3>3. MaySubmit(u)
      BY <3>1 DEF MidSubmit
    <3>4. stack'[u] = stack[u] /\ cuda_calls'[u] = cuda_calls[u]
      BY <2>5, <3>2
    <3> QED
      BY <3>3, <3>4 DEF MaySubmit, Top, Matches
  <2>7. ASSUME NEW i \in DOMAIN cuda_events', NEW j \in DOMAIN cuda_events',
               Busy(i)', Busy(j)',
               cuda_events'[i].owner = cuda_events'[j].owner
        PROVE  i = j
    BY <2>4, <2>7 DEF MidSubmit
  <2> QED
    BY <2>6, <2>7 DEF MidSubmit
<1>9. CASE Consume
  <2>1. /\ cuda_events # << >>
        /\ cuda_events' = Tail(cuda_events)
        /\ UNCHANGED <<stack, cuda_calls>>
    BY <1>9 DEF Consume
  <2>2. /\ Tail(cuda_events) \in Seq(RingSlot)
        /\ Len(Tail(cuda_events)) = Len(cuda_events) - 1
        /\ \A i \in 1 .. Len(Tail(cuda_events)) :
              Tail(cuda_events)[i] = cuda_events[i + 1]
    BY <1>0, <2>1, HeadTailProperties
  <2>3. /\ DOMAIN cuda_events' = 1 .. Len(cuda_events) - 1
        /\ \A i \in DOMAIN cuda_events' :
              cuda_events'[i] = cuda_events[i + 1] /\ i + 1 \in DOMAIN cuda_events
    BY <1>0, <2>1, <2>2, AtOfSeq
  <2>4. \A i \in DOMAIN cuda_events' : i \in Nat /\ (Busy(i)' <=> Busy(i + 1))
    BY <1>0, <2>3 DEF Busy
  <2>5. ASSUME NEW u \in Threads, NEW i \in DOMAIN cuda_events', Busy(i)',
               cuda_events'[i].owner = u
        PROVE  MaySubmit(u)'
    <3>1. MaySubmit(u)
      BY <2>3, <2>4, <2>5 DEF MidSubmit
    <3> QED
      BY <2>1, <3>1 DEF MaySubmit, Top, Matches
  <2>6. ASSUME NEW i \in DOMAIN cuda_events', NEW j \in DOMAIN cuda_events',
               Busy(i)', Busy(j)',
               cuda_events'[i].owner = cuda_events'[j].owner
        PROVE  i = j
    <3>1. i + 1 = j + 1
      BY <2>3, <2>4, <2>6 DEF MidSubmit
    <3> QED
      BY <2>4, <3>1
  <2> QED
    BY <2>5, <2>6 DEF MidSubmit
<1>10. ASSUME Attach \/ StartPolling \/ StopPolling \/ Detach
       PROVE  MidSubmit'
  BY <1>1, <1>10 DEF Attach, StartPolling, StopPolling, Detach
<1> QED
  BY <1>1, <1>3, <1>4, <1>5, <1>6, <1>7, <1>8, <1>9, <1>10
     DEF Next, ThreadStep, vars

(* The state always has its type.  An event's duration is a number because *)
(* no entry is newer than the clock, and submit_event finds its entry      *)
(* again because no one else touches it between reserve and submit.        *)
THEOREM TypeCorrect == Spec => []TypeOK
<1>1. Init => TypeInv
  BY TypeInit
<1>2. TypeInv /\ [Next]_vars => TypeInv'
  BY TypeOKStep, PastStep, MidSubmitStep DEF TypeInv
<1>3. TypeInv => TypeOK
  BY DEF TypeInv
<1> QED
  BY <1>1, <1>2, <1>3, PTL DEF Spec

-----------------------------------------------------------------------------
(* The log is genuine *)

(* Every call now open in thread u was open before: none has been added.   *)
Keeps(u) ==
    \A i \in DOMAIN stack'[u] :
        i \in DOMAIN stack[u] /\ stack'[u][i] = stack[u][i]

(* No step but the call of a function adds to a stack or to the hash.      *)
LEMMA OtherSteps ==
  ASSUME TypeInv, NEW u \in Threads,
         \/ Attach \/ StartPolling \/ Consume \/ StopPolling \/ Detach
         \/ \E t \in Threads : \/ ReturnUnseen(t) \/ SubmitDrop(t)
                               \/ SubmitReserve(t) \/ SubmitCommit(t)
                               \/ ThreadExit(t)
         \/ UNCHANGED vars
  PROVE  Keeps(u) /\ cuda_calls'[u] \in {cuda_calls[u], None}
<1> USE DEF TypeInv, loader, threads, maps
<1>1. ASSUME NEW t \in Threads, stack[t] # << >>, Pop(t),
             cuda_calls' = cuda_calls \/ Forget(t)
      PROVE  Keeps(u) /\ cuda_calls'[u] \in {cuda_calls[u], None}
  <2>1. CASE u = t
    BY <1>1, <2>1, PopEffect DEF Keeps, Forget, TypeOK
  <2>2. CASE u # t
    BY <1>1, <2>2, PopEffect DEF Keeps, Forget, TypeOK
  <2> QED
    BY <2>1, <2>2
<1>2. ASSUME NEW t \in Threads, ReturnUnseen(t) \/ SubmitDrop(t)
      PROVE  Keeps(u) /\ cuda_calls'[u] \in {cuda_calls[u], None}
  BY <1>1, <1>2 DEF ReturnUnseen, SubmitDrop, CanReturn
<1>3. ASSUME NEW t \in Threads, SubmitCommit(t)
      PROVE  Keeps(u) /\ cuda_calls'[u] \in {cuda_calls[u], None}
  <2>1. Pop(t) /\ Forget(t) /\ stack[t] # << >>
    BY <1>3 DEF SubmitCommit, Slot, Busy, MidSubmit, MaySubmit
  <2> QED
    BY <1>1, <2>1
<1>4. ASSUME NEW t \in Threads, ThreadExit(t)
      PROVE  Keeps(u) /\ cuda_calls'[u] \in {cuda_calls[u], None}
  <2>1. stack'[u] = stack[u] \/ stack'[u] = << >>
    BY <1>4 DEF ThreadExit, TypeOK
  <2> QED
    BY <1>4, <2>1 DEF ThreadExit, Keeps
<1>5. ASSUME NEW t \in Threads, SubmitReserve(t)
      PROVE  Keeps(u) /\ cuda_calls'[u] \in {cuda_calls[u], None}
  BY <1>5 DEF SubmitReserve, Keeps
<1>6. ASSUME \/ Attach \/ StartPolling \/ Consume \/ StopPolling \/ Detach
             \/ UNCHANGED vars
      PROVE  Keeps(u) /\ cuda_calls'[u] \in {cuda_calls[u], None}
  BY <1>6 DEF Attach, StartPolling, Consume, StopPolling, Detach, vars, Keeps
<1> QED
  BY <1>2, <1>3, <1>4, <1>5, <1>6

(* Until links are destroyed no step detaches a probe, so that calls stay  *)
(* armed and entries stay those of traced threads.                         *)
LEMMA StillAttachedStep ==
  ASSUME TypeInv, StillAttached, [Next]_vars
  PROVE  StillAttached'
<1> SUFFICES ASSUME phase' # "detach", NEW u \in Threads
             PROVE  ArmedAttached(u)' /\ EntryAttached(u)'
  BY DEF StillAttached
<1>1. phase # "detach" /\ attached \subseteq attached'
  BY DEF Next, ThreadStep, Attach, StartPolling, Consume, StopPolling, Detach,
         Enter, ReturnUnseen, SubmitDrop, SubmitReserve, SubmitCommit,
         ThreadExit, vars, loader
<1>2. ArmedAttached(u) /\ EntryAttached(u)
  BY <1>1 DEF StillAttached
<1>3. ASSUME Keeps(u), cuda_calls'[u] \in {cuda_calls[u], None}
      PROVE  ArmedAttached(u)' /\ EntryAttached(u)'
  BY <1>1, <1>2, <1>3 DEF Keeps, ArmedAttached, EntryAttached, Attached, Traced
<1>4. ASSUME NEW t \in Threads, NEW op \in Ops, NEW cpu \in CPUs,
             Enter(t, op, cpu)
      PROVE  ArmedAttached(u)' /\ EntryAttached(u)'
  <2>1. TypeOK /\ attached' = attached
    BY <1>4 DEF Enter, TypeInv, loader
  <2>2. ArmedAttached(u)'
    <3>1. ASSUME NEW i \in DOMAIN stack'[u], stack'[u][i].armed
          PROVE  <<"return", stack'[u][i].op>> \in attached
      <4>1. CASE i \in DOMAIN stack[u] /\ stack'[u][i] = stack[u][i]
        BY <1>2, <3>1, <4>1 DEF ArmedAttached, Attached
      <4>2. CASE stack'[u][i].op = op /\ (stack'[u][i].armed <=> Attached("return", op))
        BY <3>1, <4>2 DEF Attached
      <4>3. CASE u # t
        BY <1>4, <2>1, <3>1, <4>1, <4>3, EnterEffect
      <4>4. CASE u = t
        BY <1>4, <2>1, <3>1, <4>1, <4>2, <4>4, EnterEffect
      <4> QED
        BY <4>3, <4>4
    <3> QED
      BY <2>1, <3>1 DEF ArmedAttached, Attached
  <2>3. CASE Attached("entry", op) /\ RecordEntry(t, op, cpu)
    <3>1. EntryAttached(u)'
      BY <1>2, <2>1, <2>3, RecordEntryEffect DEF EntryAttached, Attached, Traced
    <3> QED
      BY <2>2, <3>1
  <2>4. CASE UNCHANGED <<cuda_calls, counter>>
    BY <1>2, <2>1, <2>2, <2>4 DEF EntryAttached, Attached, Traced
  <2> QED
    BY <1>4, <2>3, <2>4 DEF Enter
<1> QED
  BY <1>3, <1>4, OtherSteps DEF Next, ThreadStep

(* Where no operation may be open twice in a thread, a call is only made   *)
(* of an operation the thread has not open.                                *)
LEMMA DistinctOpsStep ==
  ASSUME TypeInv, DistinctOps, [Next]_vars
  PROVE  DistinctOps'
<1> SUFFICES ASSUME Reentrant = {}, NEW u \in Threads
             PROVE  DistinctOpsOf(u)'
  BY DEF DistinctOps
<1>1. DistinctOpsOf(u) /\ TypeOK
  BY DEF DistinctOps, TypeInv
<1>2. ASSUME Keeps(u)
      PROVE  DistinctOpsOf(u)'
  BY <1>1, <1>2 DEF Keeps, DistinctOpsOf
<1>3. ASSUME NEW t \in Threads, NEW op \in Ops, NEW cpu \in CPUs,
             Enter(t, op, cpu)
      PROVE  DistinctOpsOf(u)'
  <2>1. CASE u # t
    BY <1>1, <1>3, <2>1, EnterEffect DEF DistinctOpsOf
  <2>2. CASE u = t
    <3>1. \A i \in DOMAIN stack[t] : stack[t][i].op # op
      BY <1>3 DEF Enter, MayCall
    <3>2. /\ Len(stack[t]) \in Nat
          /\ DOMAIN stack[t] = 1 .. Len(stack[t])
          /\ DOMAIN stack'[t] = 1 .. Len(stack[t]) + 1
          /\ \A i \in DOMAIN stack[t] : stack'[t][i] = stack[t][i]
          /\ stack'[t][Len(stack[t]) + 1].op = op
      BY <1>1, <1>3, EnterEffect
    <3>3. PICK n \in Nat : n = Len(stack[t])
      BY <3>2
    <3>4. \A i, j \in 1 .. n : stack[t][i].op = stack[t][j].op => i = j
      BY <1>1, <2>2, <3>2, <3>3 DEF DistinctOpsOf
    <3>5. \A i \in 1 .. n : stack'[t][i].op = stack[t][i].op /\ stack'[t][i].op # op
      BY <3>1, <3>2, <3>3
    <3>6. \A i \in 1 .. n + 1 : i \in 1 .. n \/ i = n + 1
      BY <3>3
    <3>7. \A i, j \in 1 .. n + 1 : stack'[t][i].op = stack'[t][j].op => i = j
      BY <3>2, <3>3, <3>4, <3>5, <3>6
    <3> QED
      BY <2>2, <3>2, <3>3, <3>7 DEF DistinctOpsOf
  <2> QED
    BY <2>1, <2>2
<1> QED
  BY <1>2, <1>3, OtherSteps DEF Next, ThreadStep

(* The entry of a thread stays that of its innermost armed call: a new     *)
(* call whose entry probe does not fire is of an operation that has no     *)
(* entry, and a return that is not seen is not of the innermost candidate. *)
LEMMA EntryOfInnermostStep ==
  ASSUME TypeInv, StillAttached, DistinctOps, EntryOfInnermost, [Next]_vars,
         ProbesReliable
  PROVE  EntryOfInnermost'
<1> SUFFICES ASSUME phase' # "detach", NEW u \in Threads
             PROVE  InnermostMadeEntry(u)'
  BY DEF EntryOfInnermost
<1>1. phase # "detach"
  BY DEF Next, ThreadStep, Attach, StartPolling, Consume, StopPolling, Detach,
         Enter, ReturnUnseen, SubmitDrop, SubmitReserve, SubmitCommit,
         ThreadExit, vars, loader
<1>2. TypeOK /\ ArmedAttached(u) /\ EntryAttached(u) /\ InnermostMadeEntry(u)
  BY <1>1 DEF TypeInv, StillAttached, EntryOfInnermost
<1>3. ASSUME stack'[u] = stack[u], cuda_calls'[u] = cuda_calls[u]
      PROVE  InnermostMadeEntry(u)'
  BY <1>2, <1>3 DEF InnermostMadeEntry, Innermost, Candidate
<1>4. ASSUME cuda_calls'[u] = None
      PROVE  InnermostMadeEntry(u)'
  BY <1>4 DEF InnermostMadeEntry
<1>5. ASSUME NEW op \in Ops, NEW cpu \in CPUs, Enter(u, op, cpu)
      PROVE  InnermostMadeEntry(u)'
  <2>0. PICK n \in Nat : n = Len(stack[u]) + 1
    BY <1>2, <1>5, EnterEffect
  <2>1. /\ Len(stack[u]) \in Nat
        /\ DOMAIN stack[u] = 1 .. Len(stack[u])
        /\ n = Len(stack[u]) + 1
        /\ DOMAIN stack'[u] = 1 .. n
        /\ \A i \in DOMAIN stack[u] : stack'[u][i] = stack[u][i]
        /\ stack'[u][n].op = op
        /\ stack'[u][n].start = now
        /\ stack'[u][n].armed <=> Attached("return", op)
    BY <1>2, <1>5, <2>0, EnterEffect
  <2>2. CASE Attached("entry", op) /\ RecordEntry(u, op, cpu)
    <3>1. \/ cuda_calls'[u] = None
          \/ cuda_calls'[u].op_type = op /\ cuda_calls'[u].timestamp = now
      BY <1>2, <2>2, RecordEntryEffect DEF EntryAttached
    <3>2. ASSUME cuda_calls'[u].op_type = op, cuda_calls'[u].timestamp = now,
                 NEW i \in DOMAIN stack'[u], Innermost(u, i)'
          PROVE  stack'[u][i].start = cuda_calls'[u].timestamp
      <4>1. CASE i = n
        BY <2>1, <3>2, <4>1
      <4>2. CASE i \in DOMAIN stack[u]
        <5>1. stack[u][i].armed /\ stack[u][i].op = op
          BY <2>1, <3>2, <4>2 DEF Innermost, Candidate
        <5>2. Attached("return", op)
          BY <1>2, <4>2, <5>1 DEF ArmedAttached
        <5>3. n \in DOMAIN stack'[u] /\ n > i
          BY <2>1, <4>2
        <5>4. Candidate(u, n)'
          BY <2>1, <3>2, <5>2 DEF Candidate
        <5> QED
          BY <3>2, <5>3, <5>4 DEF Innermost
      <4> QED
        BY <2>1, <4>1, <4>2
    <3> QED
      BY <1>4, <3>1, <3>2 DEF InnermostMadeEntry
  <2>3. CASE ~Attached("entry", op) /\ UNCHANGED <<cuda_calls, counter>>
    <3>1. cuda_calls'[u] = cuda_calls[u]
      BY <2>3
    <3>2. ASSUME cuda_calls[u] # None
          PROVE  ~Candidate(u, n)'
      BY <1>2, <2>1, <2>3, <3>1, <3>2 DEF EntryAttached, Candidate
    <3>3. ASSUME cuda_calls[u] # None, NEW i \in DOMAIN stack'[u],
                 Innermost(u, i)'
          PROVE  stack'[u][i].start = cuda_calls'[u].timestamp
      <4>1. i # n
        BY <3>2, <3>3 DEF Innermost
      <4>2. i \in DOMAIN stack[u] /\ stack'[u][i] = stack[u][i]
        BY <2>1, <4>1
      <4>3. \A j \in DOMAIN stack[u] :
               j \in DOMAIN stack'[u] /\ (Candidate(u, j)' <=> Candidate(u, j))
        BY <2>1, <3>1 DEF Candidate
      <4>4. Innermost(u, i)
        BY <3>3, <4>2, <4>3 DEF Innermost
      <4> QED
        BY <1>2, <3>1, <3>3, <4>2, <4>4 DEF InnermostMadeEntry
    <3> QED
      BY <3>1, <3>3 DEF InnermostMadeEntry
  <2> QED
    BY <1>5, <2>2, <2>3 DEF Enter, ProbesReliable
<1>6. ASSUME NEW t \in Threads, t # u, NEW op \in Ops, NEW cpu \in CPUs,
             Enter(t, op, cpu)
      PROVE  InnermostMadeEntry(u)'
  BY <1>2, <1>3, <1>6, EnterEffect, RecordEntryEffect DEF Enter
<1>7. ASSUME ReturnUnseen(u)
      PROVE  InnermostMadeEntry(u)'
  <2> DEFINE n == Len(stack[u])
  <2>1. cuda_calls'[u] = cuda_calls[u]
    BY <1>7 DEF ReturnUnseen, maps
  <2>2. /\ n \in Nat \ {0}
        /\ DOMAIN stack[u] = 1 .. n
        /\ DOMAIN stack'[u] = 1 .. n - 1
        /\ \A i \in DOMAIN stack'[u] : stack'[u][i] = stack[u][i]
        /\ Top(u) = stack[u][n]
    BY <1>2, <1>7, PopEffect DEF ReturnUnseen, CanReturn
  <2>3. ASSUME NEW i \in DOMAIN stack'[u], Candidate(u, i), Candidate(u, n)
        PROVE  FALSE
    <3>1. "return" \in MayMiss
      <4>1. Top(u).armed
        BY <2>2, <2>3 DEF Candidate
      <4>2. Attached("return", Top(u).op)
        BY <1>2, <2>2, <4>1 DEF ArmedAttached
      <4> QED
        BY <1>7, <4>1, <4>2 DEF ReturnUnseen, ReturnFires
    <3>2. DistinctOpsOf(u)
      BY <3>1 DEF DistinctOps, ProbesReliable
    <3>3. i = n
      BY <2>2, <2>3, <3>2 DEF DistinctOpsOf, Candidate
    <3> QED
      BY <2>2, <3>3
  <2>4. ASSUME cuda_calls[u] # None, NEW i \in DOMAIN stack'[u],
               Innermost(u, i)'
        PROVE  stack'[u][i].start = cuda_calls'[u].timestamp
    <3>1. i \in DOMAIN stack[u] /\ stack'[u][i] = stack[u][i]
      BY <2>2
    <3>2. \A j \in DOMAIN stack'[u] : Candidate(u, j)' <=> Candidate(u, j)
      BY <2>1, <2>2 DEF Candidate
    <3>3. Candidate(u, i)
      BY <2>4, <3>2 DEF Innermost
    <3>4. \A j \in DOMAIN stack[u] : j \in DOMAIN stack'[u] \/ j = n
      BY <2>2
    <3>5. Innermost(u, i)
      BY <2>3, <2>4, <3>2, <3>3, <3>4 DEF Innermost
    <3> QED
      BY <1>2, <2>1, <2>4, <3>1, <3>5 DEF InnermostMadeEntry
  <2> QED
    BY <2>1, <2>4 DEF InnermostMadeEntry
<1>8. ASSUME NEW t \in Threads, t # u, ReturnUnseen(t)
      PROVE  InnermostMadeEntry(u)'
  BY <1>2, <1>3, <1>8, PopEffect DEF ReturnUnseen, CanReturn, maps
<1>9. ASSUME NEW t \in Threads, SubmitDrop(t) \/ SubmitCommit(t)
      PROVE  InnermostMadeEntry(u)'
  <2>1. Pop(t) /\ Forget(t) /\ stack[t] # << >>
    BY <1>9 DEF SubmitDrop, CanReturn, SubmitCommit, Slot, Busy, TypeInv,
                MidSubmit, MaySubmit
  <2>2. CASE u = t
    BY <1>2, <1>4, <2>1, <2>2 DEF Forget, TypeOK
  <2>3. CASE u # t
    BY <1>2, <1>3, <2>1, <2>3, PopEffect DEF Forget, TypeOK
  <2> QED
    BY <2>2, <2>3
<1>10. ASSUME NEW t \in Threads, ThreadExit(t)
       PROVE  InnermostMadeEntry(u)'
  <2>1. CASE u = t
    <3>1. stack'[u] = << >>
      BY <1>2, <1>10, <2>1 DEF ThreadExit, TypeOK
    <3> QED
      BY <3>1 DEF InnermostMadeEntry
  <2>2. CASE u # t
    BY <1>2, <1>3, <1>10, <2>2 DEF ThreadExit, maps, TypeOK
  <2> QED
    BY <2>1, <2>2
<1>11. ASSUME NEW t \in Threads, SubmitReserve(t)
       PROVE  InnermostMadeEntry(u)'
  BY <1>3, <1>11 DEF SubmitReserve, threads
<1>12. ASSUME \/ Attach \/ StartPolling \/ Consume \/ StopPolling \/ Detach
              \/ UNCHANGED vars
       PROVE  InnermostMadeEntry(u)'
  BY <1>3, <1>12 DEF Attach, StartPolling, Consume, StopPolling, Detach, vars,
                     threads, maps
<1> QED
  BY <1>5, <1>6, <1>7, <1>8, <1>9, <1>10, <1>11, <1>12 DEF Next, ThreadStep

(* A submit, while the probes are in place, reports the call that returns. *)
LEMMA CommitGenuine ==
  ASSUME TypeInv, EntryOfInnermost, phase # "detach",
         NEW t \in Threads, SubmitCommit(t)
  PROVE  Genuine(EventOf(t), done') /\ EventOf(t) # None
<1> DEFINE e == EventOf(t)
           c == [tid |-> t, op |-> Top(t).op, start |-> Top(t).start,
                 end |-> now, probed |-> Top(t).probed]
<1>1. TypeOK /\ MaySubmit(t)
  BY DEF SubmitCommit, Slot, Busy, TypeInv, MidSubmit
<1>2. /\ Len(stack[t]) \in Nat \ {0}
      /\ DOMAIN stack[t] = 1 .. Len(stack[t])
      /\ Top(t) = stack[t][Len(stack[t])]
  BY <1>1, PopEffect DEF SubmitCommit, MaySubmit
<1>3. Innermost(t, Len(stack[t]))
  BY <1>1, <1>2 DEF Innermost, Candidate, MaySubmit, Matches
<1>4. Top(t).start = cuda_calls[t].timestamp
  BY <1>1, <1>2, <1>3 DEF EntryOfInnermost, InnermostMadeEntry, MaySubmit,
                          Matches
<1>5. e # None /\ e.tid = t /\ e.op_type = Top(t).op
      /\ e.timestamp = Top(t).start /\ EndOf(e) = now
  BY <1>1, <1>4, CommitEvent DEF MaySubmit
<1>6. c \in done'
  BY DEF SubmitCommit, Pop
<1>7. Reports(e, c)
  BY <1>5 DEF Reports
<1> QED
  BY <1>5, <1>6, <1>7 DEF Genuine

(* Where the events in the ring come from: an event is in the ring already *)
(* or is submitted by a thread in this step.                               *)
LEMMA RingOrigin ==
  ASSUME TypeOK, [Next]_vars, NEW i \in DOMAIN cuda_events', ~Busy(i)'
  PROVE  \/ \E j \in DOMAIN cuda_events :
               ~Busy(j) /\ cuda_events'[i].event = cuda_events[j].event
         \/ \E t \in Threads :
               SubmitCommit(t) /\ cuda_events'[i].event = EventOf(t)
<1> DEFINE Before == \E j \in DOMAIN cuda_events :
               ~Busy(j) /\ cuda_events'[i].event = cuda_events[j].event
<1> USE DEF loader, threads, maps
<1>1. /\ cuda_events \in Seq(RingSlot)
      /\ Len(cuda_events) \in Nat
      /\ DOMAIN cuda_events = 1 .. Len(cuda_events)
      /\ \A j \in DOMAIN cuda_events : cuda_events[j] \in RingSlot
  BY AtOfSeq DEF TypeOK
<1>2. cuda_events'[i].event # None
  BY DEF Busy
<1>3. ASSUME NEW j \in DOMAIN cuda_events,
             cuda_events'[i].event = cuda_events[j].event
      PROVE  Before
  BY <1>2, <1>3 DEF Busy
<1>4. ASSUME cuda_events' = cuda_events
      PROVE  Before
  BY <1>3, <1>4
<1>5. CASE Consume
  <2>1. /\ Tail(cuda_events) \in Seq(RingSlot)
        /\ cuda_events' = Tail(cuda_events)
        /\ Len(Tail(cuda_events)) = Len(cuda_events) - 1
        /\ \A j \in 1 .. Len(Tail(cuda_events)) :
              Tail(cuda_events)[j] = cuda_events[j + 1]
    BY <1>1, <1>5, HeadTailProperties DEF Consume
  <2>2. DOMAIN cuda_events' = 1 .. Len(cuda_events) - 1
    BY <1>1, <2>1, AtOfSeq
  <2>3. i + 1 \in DOMAIN cuda_events /\ cuda_events'[i] = cuda_events[i + 1]
    BY <1>1, <2>1, <2>2
  <2> QED
    BY <1>3, <2>3
<1>6. ASSUME NEW t \in Threads, SubmitReserve(t)
      PROVE  Before
  <2>1. [owner |-> t, event |-> None] \in RingSlot
    BY DEF RingSlot
  <2>2. /\ DOMAIN cuda_events' = 1 .. Len(cuda_events) + 1
        /\ \A j \in DOMAIN cuda_events : cuda_events'[j] = cuda_events[j]
        /\ cuda_events'[Len(cuda_events) + 1].event = None
    BY <1>1, <1>6, <2>1, AppendProperties, AtOfSeq DEF SubmitReserve
  <2>3. i \in DOMAIN cuda_events
    BY <1>1, <1>2, <2>2
  <2> QED
    BY <1>3, <2>2, <2>3
<1>7. ASSUME NEW t \in Threads, SubmitCommit(t)
      PROVE  Before \/ cuda_events'[i].event = EventOf(t)
  <2>1. PICK k \in Slot(t) :
           cuda_events' = [cuda_events EXCEPT ![k].event = EventOf(t)]
    BY <1>7 DEF SubmitCommit
  <2>2. i \in DOMAIN cuda_events /\ k \in DOMAIN cuda_events
    BY <1>1, <2>1 DEF Slot
  <2>3. CASE i = k
    BY <1>1, <2>1, <2>2, <2>3 DEF RingSlot
  <2>4. CASE i # k
    BY <1>1, <1>3, <2>1, <2>2, <2>4
  <2> QED
    BY <2>3, <2>4
<1>8. ASSUME \/ Attach \/ StartPolling \/ StopPolling \/ Detach
             \/ \E t \in Threads :
                   \/ \E op \in Ops, cpu \in CPUs : Enter(t, op, cpu)
                   \/ ReturnUnseen(t) \/ SubmitDrop(t) \/ ThreadExit(t)
             \/ UNCHANGED vars
      PROVE  cuda_events' = cuda_events
  BY <1>8 DEF Attach, StartPolling, StopPolling, Detach, Enter, ReturnUnseen,
              SubmitDrop, ThreadExit, vars
<1> QED
  BY <1>4, <1>5, <1>6, <1>7, <1>8 DEF Next, ThreadStep

(* Where the events in the log come from: an event is in the log already   *)
(* or is taken from the ring while polling.                                *)
LEMMA LogOrigin ==
  ASSUME TypeOK, [Next]_vars, NEW i \in DOMAIN log'
  PROVE  \/ i \in DOMAIN log /\ log'[i] = log[i]
         \/ /\ phase = "poll"
            /\ \E j \in DOMAIN cuda_events :
                  ~Busy(j) /\ log'[i] = cuda_events[j].event
<1> USE DEF loader, threads, maps
<1>1. /\ log \in Seq(Event)
      /\ Len(log) \in Nat
      /\ DOMAIN log = 1 .. Len(log)
      /\ cuda_events \in Seq(RingSlot)
  BY AtOfSeq DEF TypeOK
<1>2. CASE Consume
  <2> DEFINE e == Head(cuda_events).event
  <2>1. /\ phase = "poll" /\ cuda_events # << >> /\ e # None
        /\ log' = Append(log, e)
    BY <1>2 DEF Consume
  <2>2. Head(cuda_events) \in RingSlot /\ Head(cuda_events) = cuda_events[1]
        /\ 1 \in DOMAIN cuda_events
    BY <1>1, <2>1, HeadTailProperties, EmptySeq, AtOfSeq
  <2>3. e \in Event /\ ~Busy(1) /\ e = cuda_events[1].event
    BY <2>1, <2>2 DEF Busy, RingSlot
  <2> HIDE DEF e
  <2>4. /\ DOMAIN log' = 1 .. Len(log) + 1
        /\ \A k \in DOMAIN log : log'[k] = log[k]
        /\ log'[Len(log) + 1] = e
    BY <1>1, <2>1, <2>3, AppendProperties, AtOfSeq
  <2>5. i \in DOMAIN log \/ i = Len(log) + 1
    BY <1>1, <2>4
  <2> QED
    BY <2>1, <2>2, <2>3, <2>4, <2>5
<1>3. log' = log \/ Consume
  BY DEF Next, ThreadStep, Attach, StartPolling, StopPolling, Detach,
         Enter, ReturnUnseen, SubmitDrop, SubmitReserve, SubmitCommit,
         ThreadExit, vars
<1> QED
  BY <1>2, <1>3

(* No step takes a call out of the history, and none goes back from        *)
(* detaching.                                                              *)
LEMMA HistoryGrows ==
  ASSUME [Next]_vars
  PROVE  done \subseteq done' /\ (phase' # "detach" => phase # "detach")
BY DEF Next, ThreadStep, Attach, StartPolling, Consume, StopPolling, Detach,
       Enter, ReturnUnseen, SubmitDrop, SubmitReserve, SubmitCommit,
       ThreadExit, vars, Pop, loader, threads

(* What is submitted to the ring is genuine when submitted, and calls that *)
(* have returned are not forgotten.                                        *)
LEMMA GenuineRingStep ==
  ASSUME TypeInv, EntryOfInnermost, GenuineRing, [Next]_vars
  PROVE  GenuineRing'
<1> SUFFICES ASSUME phase' # "detach", NEW i \in DOMAIN cuda_events', ~Busy(i)'
             PROVE  Genuine(cuda_events'[i].event, done')
  BY DEF GenuineRing
<1>1. phase # "detach" /\ done \subseteq done'
  BY HistoryGrows
<1>2. CASE \E j \in DOMAIN cuda_events :
             ~Busy(j) /\ cuda_events'[i].event = cuda_events[j].event
  BY <1>1, <1>2 DEF GenuineRing, Genuine
<1>3. ASSUME NEW t \in Threads, SubmitCommit(t),
             cuda_events'[i].event = EventOf(t)
      PROVE  Genuine(cuda_events'[i].event, done')
  BY <1>1, <1>3, CommitGenuine
<1> QED
  BY <1>2, <1>3, RingOrigin DEF TypeInv

(* The log only takes what is in the ring.                                 *)
LEMMA GenuineLogStep ==
  ASSUME TypeInv, GenuineRing, GenuineLog, [Next]_vars
  PROVE  GenuineLog'
<1> SUFFICES ASSUME NEW i \in DOMAIN log'
             PROVE  Genuine(log'[i], done')
  BY DEF GenuineLog, Genuine
<1>1. done \subseteq done'
  BY HistoryGrows
<1>2. CASE i \in DOMAIN log /\ log'[i] = log[i]
  BY <1>1, <1>2 DEF GenuineLog, Genuine
<1>3. CASE /\ phase = "poll"
           /\ \E j \in DOMAIN cuda_events :
                 ~Busy(j) /\ log'[i] = cuda_events[j].event
  BY <1>1, <1>3 DEF GenuineRing, Genuine
<1> QED
  BY <1>2, <1>3, LogOrigin DEF TypeInv

(* The initial states satisfy the whole invariant: there is no entry and   *)
(* no event yet.                                                           *)
LEMMA InvInit == Init => Inv
<1> SUFFICES ASSUME Init PROVE Inv
  OBVIOUS
<1>1. TypeInv
  BY TypeInit
<1>2. StillAttached /\ DistinctOps /\ EntryOfInnermost
  BY DEF Init, StillAttached, ArmedAttached, EntryAttached, DistinctOps,
         DistinctOpsOf, EntryOfInnermost, InnermostMadeEntry
<1>3. GenuineRing /\ GenuineLog
  BY DEF Init, GenuineRing, GenuineLog
<1> QED
  BY <1>1, <1>2, <1>3 DEF Inv

(* The invariant is inductive if the probes are reliable enough.           *)
THEOREM Invariance ==
  ASSUME ProbesReliable
  PROVE  Spec => []Inv
<1>1. Inv /\ [Next]_vars => Inv'
  BY TypeOKStep, PastStep, MidSubmitStep, StillAttachedStep, DistinctOpsStep,
     EntryOfInnermostStep, GenuineRingStep, GenuineLogStep
     DEF Inv, TypeInv
<1> QED
  BY <1>1, InvInit, PTL DEF Spec

(* "Drop rather than emit garbage": if the kernel skips no entry probe     *)
(* (and no return probe of a reentrant operation), every event handed to   *)
(* user space reports one real call.  It holds whatever the number of      *)
(* threads and operations, for a full hash, a full ring, killed threads,   *)
(* nested calls, and probes that could not be attached.                    *)
THEOREM LogIsGenuine ==
  ASSUME ProbesReliable
  PROVE  Spec => []GenuineLog
<1>1. Inv => GenuineLog
  BY DEF Inv
<1> QED
  BY <1>1, Invariance, PTL

-----------------------------------------------------------------------------
(* Only the target is reported *)

(* Entries, submitted events and reported events are of the target, with   *)
(* the process id of their thread.                                         *)
EntryOfTarget(t) ==
    cuda_calls[t] # None => Traced(t) /\ cuda_calls[t].pid = Tgid[t]

OfTarget(e) == Traced(e.tid) /\ e.pid = Tgid[e.tid]

EntriesOfTarget == \A t \in Threads : EntryOfTarget(t)

RingOfTarget ==
    \A i \in DOMAIN cuda_events : ~Busy(i) => OfTarget(cuda_events[i].event)

LogOfTarget == \A i \in DOMAIN log : OfTarget(log[i])

TargetInv == TypeInv /\ EntriesOfTarget /\ RingOfTarget /\ LogOfTarget

(* record_entry writes an entry only for a thread of the target; no other  *)
(* step adds to the hash.                                                  *)
LEMMA EntriesOfTargetStep ==
  ASSUME TypeInv, EntriesOfTarget, [Next]_vars
  PROVE  EntriesOfTarget'
<1> SUFFICES ASSUME NEW u \in Threads
             PROVE  EntryOfTarget(u)'
  BY DEF EntriesOfTarget
<1>1. EntryOfTarget(u)
  BY DEF EntriesOfTarget
<1>2. ASSUME cuda_calls'[u] \in {cuda_calls[u], None}
      PROVE  EntryOfTarget(u)'
  BY <1>1, <1>2 DEF EntryOfTarget, Traced
<1>3. ASSUME NEW t \in Threads, NEW op \in Ops, NEW cpu \in CPUs,
             Enter(t, op, cpu)
      PROVE  EntryOfTarget(u)'
  <2>1. CASE UNCHANGED <<cuda_calls, counter>>
    BY <1>2, <2>1
  <2>2. CASE RecordEntry(t, op, cpu)
    <3>1. \/ cuda_calls'[u] = cuda_calls[u]
          \/ u = t /\ Traced(t) /\ cuda_calls'[t].pid = Tgid[t]
      BY <2>2, RecordEntryEffect DEF TypeInv
    <3> QED
      BY <1>2, <3>1 DEF EntryOfTarget, Traced
  <2> QED
    BY <1>3, <2>1, <2>2 DEF Enter
<1> QED
  BY <1>2, <1>3, OtherSteps DEF Next, ThreadStep

(* An event takes thread and process of the entry it is made of.           *)
LEMMA RingOfTargetStep ==
  ASSUME TypeInv, EntriesOfTarget, RingOfTarget, [Next]_vars
  PROVE  RingOfTarget'
<1> SUFFICES ASSUME NEW i \in DOMAIN cuda_events', ~Busy(i)'
             PROVE  OfTarget(cuda_events'[i].event)
  BY DEF RingOfTarget, OfTarget, Traced
<1>1. CASE \E j \in DOMAIN cuda_events :
             ~Busy(j) /\ cuda_events'[i].event = cuda_events[j].event
  BY <1>1 DEF RingOfTarget
<1>2. ASSUME NEW t \in Threads, SubmitCommit(t),
             cuda_events'[i].event = EventOf(t)
      PROVE  OfTarget(cuda_events'[i].event)
  <2>1. MaySubmit(t)
    BY <1>2 DEF SubmitCommit, Slot, Busy, TypeInv, MidSubmit
  <2>2. Traced(t) /\ cuda_calls[t].pid = Tgid[t]
    BY <2>1 DEF EntriesOfTarget, EntryOfTarget, MaySubmit, Matches
  <2>3. EventOf(t).tid = t /\ EventOf(t).pid = cuda_calls[t].pid
    BY DEF EventOf
  <2> QED
    BY <1>2, <2>2, <2>3 DEF OfTarget
<1> QED
  BY <1>1, <1>2, RingOrigin DEF TypeInv

(* The PID filter of record_entry is enough: submit_event has none, yet no *)
(* event of a process other than the target is submitted or handed over,   *)
(* whatever probes are skipped or fail to attach.                          *)
THEOREM TargetOnly == Spec => []OnlyTarget
<1>1. Init => TargetInv
  <2> SUFFICES ASSUME Init PROVE TargetInv
    OBVIOUS
  <2>1. EntriesOfTarget /\ RingOfTarget /\ LogOfTarget
    BY DEF Init, EntriesOfTarget, EntryOfTarget, RingOfTarget, LogOfTarget
  <2> QED
    BY <2>1, TypeInit DEF TargetInv
<1>2. TargetInv /\ [Next]_vars => TargetInv'
  <2> SUFFICES ASSUME TargetInv, [Next]_vars
               PROVE  TargetInv'
    OBVIOUS
  <2>1. TypeInv'
    BY TypeOKStep, PastStep, MidSubmitStep DEF TargetInv, TypeInv
  <2>2. EntriesOfTarget' /\ RingOfTarget'
    BY EntriesOfTargetStep, RingOfTargetStep DEF TargetInv
  <2>3. ASSUME NEW i \in DOMAIN log'
        PROVE  OfTarget(log'[i])
    BY LogOrigin DEF TargetInv, TypeInv, RingOfTarget, LogOfTarget
  <2> QED
    BY <2>1, <2>2, <2>3 DEF TargetInv, LogOfTarget, OfTarget, Traced
<1>3. TargetInv => OnlyTarget
  <2> SUFFICES ASSUME TargetInv, NEW e \in Submitted
               PROVE  OfTarget(e)
    BY DEF OnlyTarget, OfTarget
  <2> QED
    BY DEF Submitted, TargetInv, RingOfTarget, LogOfTarget, Busy
<1> QED
  BY <1>1, <1>2, <1>3, PTL DEF Spec
=============================================================================
