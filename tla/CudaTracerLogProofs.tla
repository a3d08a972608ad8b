------------------------- MODULE CudaTracerLogProofs -------------------------
(***************************************************************************)
(* What the log of the CUDA tracer promises, for all values of the         *)
(* constants: it is a CallLog, that is a log of calls that really took     *)
(* place, each once and in order; and while there is room no leaf call is  *)
(* missing from what is submitted.                                         *)
(***************************************************************************)
EXTENDS CudaTracerProofs

-----------------------------------------------------------------------------
(* The order of the events *)

(* An event that is written stays in the slot of its own thread.           *)
RingOwned ==
    \A i \in DOMAIN cuda_events :
        ~Busy(i) => /\ cuda_events[i].event.tid = cuda_events[i].owner
                    /\ EndOf(cuda_events[i].event) < now

(* Behind a record that is being written there is none of its thread, and  *)
(* the events of a thread are in the order in which its calls returned.    *)
RingOrdered ==
    \A i, j \in DOMAIN cuda_events :
        i < j /\ cuda_events[i].owner = cuda_events[j].owner =>
            /\ ~Busy(i)
            /\ ~Busy(j) => EndOf(cuda_events[i].event) < EndOf(cuda_events[j].event)

(* What has been handed over is older than what is in the ring.            *)
LogOlder ==
    \A i \in DOMAIN log :
        /\ EndOf(log[i]) < now
        /\ \A j \in DOMAIN cuda_events :
              ~Busy(j) /\ cuda_events[j].event.tid = log[i].tid =>
                  EndOf(log[i]) < EndOf(cuda_events[j].event)

Ordered == RingOwned /\ RingOrdered /\ LogOlder

LEMMA RingTypes ==
  ASSUME TypeOK
  PROVE  /\ now \in Nat
         /\ cuda_events \in Seq(RingSlot)
         /\ Len(cuda_events) \in Nat
         /\ DOMAIN cuda_events = 1 .. Len(cuda_events)
         /\ \A i \in DOMAIN cuda_events : cuda_events[i] \in RingSlot
         /\ \A i \in DOMAIN cuda_events :
               ~Busy(i) => /\ cuda_events[i].event \in Event
                           /\ EndOf(cuda_events[i].event) \in Nat
         /\ log \in Seq(Event)
         /\ Len(log) \in Nat
         /\ DOMAIN log = 1 .. Len(log)
         /\ \A i \in DOMAIN log : log[i] \in Event /\ EndOf(log[i]) \in Nat
<1>1. /\ now \in Nat /\ cuda_events \in Seq(RingSlot) /\ log \in Seq(Event)
  BY DEF TypeOK
<1>2. /\ Len(cuda_events) \in Nat
      /\ DOMAIN cuda_events = 1 .. Len(cuda_events)
      /\ \A i \in DOMAIN cuda_events : cuda_events[i] \in RingSlot
  BY <1>1, AtOfSeq
<1>3. /\ Len(log) \in Nat
      /\ DOMAIN log = 1 .. Len(log)
      /\ \A i \in DOMAIN log : log[i] \in Event
  BY <1>1, AtOfSeq
<1>4. \A e \in Event : EndOf(e) \in Nat
  BY DEF Event, EndOf
<1>5. \A i \in DOMAIN cuda_events : ~Busy(i) => cuda_events[i].event \in Event
  BY <1>2 DEF Busy, RingSlot
<1> QED
  BY <1>1, <1>2, <1>3, <1>4, <1>5

(* The steps that touch neither the ring nor the log.                      *)
LEMMA OtherStepsLeaveRing ==
  ASSUME TypeInv,
         \/ Attach \/ StartPolling \/ StopPolling \/ Detach
         \/ \E t \in Threads :
               \/ \E op \in Ops, cpu \in CPUs : Enter(t, op, cpu)
               \/ ReturnUnseen(t) \/ SubmitDrop(t) \/ ThreadExit(t)
         \/ UNCHANGED vars
  PROVE  /\ UNCHANGED <<cuda_events, log>>
         /\ now' \in {now, now + 1}
         /\ done \subseteq done'
BY DEF Attach, StartPolling, StopPolling, Detach, Enter, ReturnUnseen,
       SubmitDrop, ThreadExit, vars, loader, threads, maps, Pop

(* Consume takes the first record out of the ring.                         *)
LEMMA ConsumeEffect ==
  ASSUME TypeInv, Consume
  PROVE  /\ 1 \in DOMAIN cuda_events /\ ~Busy(1)
         /\ cuda_events[1].event \in Event
         /\ log' = Append(log, cuda_events[1].event)
         /\ DOMAIN log' = 1 .. Len(log) + 1
         /\ \A i \in DOMAIN log : log'[i] = log[i]
         /\ log'[Len(log) + 1] = cuda_events[1].event
         /\ DOMAIN cuda_events' = 1 .. Len(cuda_events) - 1
         /\ \A i \in DOMAIN cuda_events' :
               /\ i \in Nat
               /\ i + 1 \in DOMAIN cuda_events
               /\ cuda_events'[i] = cuda_events[i + 1]
         /\ UNCHANGED <<now, done>>
<1>1. /\ phase = "poll"
      /\ cuda_events # << >>
      /\ Head(cuda_events).event # None
      /\ log' = Append(log, Head(cuda_events).event)
      /\ cuda_events' = Tail(cuda_events)
      /\ UNCHANGED <<now, done>>
  BY DEF Consume, threads
<1>2. TypeOK
  BY DEF TypeInv
<1>3. /\ Head(cuda_events) = cuda_events[1]
      /\ 1 \in DOMAIN cuda_events
  BY <1>1, <1>2, RingTypes, EmptySeq
<1>4. ~Busy(1) /\ cuda_events[1].event \in Event
  BY <1>1, <1>2, <1>3, RingTypes DEF Busy
<1>5. /\ Tail(cuda_events) \in Seq(RingSlot)
      /\ Len(Tail(cuda_events)) = Len(cuda_events) - 1
      /\ \A i \in 1 .. Len(Tail(cuda_events)) :
            Tail(cuda_events)[i] = cuda_events[i + 1]
  BY <1>1, <1>2, RingTypes, HeadTailProperties
<1>6. DOMAIN cuda_events' = 1 .. Len(cuda_events) - 1
  BY <1>1, <1>5, AtOfSeq
<1>7. \A i \in DOMAIN cuda_events' :
         /\ i \in Nat
         /\ i + 1 \in DOMAIN cuda_events
         /\ cuda_events'[i] = cuda_events[i + 1]
  BY <1>1, <1>2, <1>5, <1>6, RingTypes
<1> DEFINE e == cuda_events[1].event
<1>8. log' = Append(log, e)
  BY <1>1, <1>3
<1> HIDE DEF e
<1>9. /\ DOMAIN log' = 1 .. Len(log) + 1
      /\ \A i \in DOMAIN log : log'[i] = log[i]
      /\ log'[Len(log) + 1] = e
  BY <1>2, <1>4, <1>8, RingTypes, AppendProperties, AtOfSeq DEF e
<1> QED
  BY <1>1, <1>3, <1>4, <1>6, <1>7, <1>8, <1>9 DEF e

(* A thread that is not submitting reserves the last slot.                 *)
LEMMA ReserveEffect ==
  ASSUME TypeInv, NEW t \in Threads, SubmitReserve(t)
  PROVE  /\ DOMAIN cuda_events' = 1 .. Len(cuda_events) + 1
         /\ \A i \in DOMAIN cuda_events : cuda_events'[i] = cuda_events[i]
         /\ cuda_events'[Len(cuda_events) + 1].owner = t
         /\ cuda_events'[Len(cuda_events) + 1].event = None
         /\ \A i \in DOMAIN cuda_events : Busy(i) => cuda_events[i].owner # t
         /\ UNCHANGED <<now, done, log, stack, cuda_calls>>
<1> DEFINE slot == [owner |-> t, event |-> None]
<1>1. /\ cuda_events' = Append(cuda_events, slot)
      /\ UNCHANGED <<now, done, log, stack, cuda_calls>>
      /\ ~Submitting(t)
  BY DEF SubmitReserve, CanReturn, threads
<1>2. slot \in RingSlot /\ slot.owner = t /\ slot.event = None
  BY DEF RingSlot
<1>3. TypeOK
  BY DEF TypeInv
<1> HIDE DEF slot
<1>4. /\ DOMAIN cuda_events' = 1 .. Len(cuda_events) + 1
      /\ \A i \in DOMAIN cuda_events : cuda_events'[i] = cuda_events[i]
      /\ cuda_events'[Len(cuda_events) + 1] = slot
  BY <1>1, <1>2, <1>3, RingTypes, AppendProperties, AtOfSeq
<1>5. \A i \in DOMAIN cuda_events : Busy(i) => cuda_events[i].owner # t
  BY <1>1 DEF Submitting, Slot, Busy
<1> QED
  BY <1>1, <1>2, <1>4, <1>5

(* The slot of a thread that is submitting gets the event, which ends now. *)
LEMMA CommitEffect ==
  ASSUME TypeInv, NEW t \in Threads, SubmitCommit(t)
  PROVE  \E k \in DOMAIN cuda_events :
            /\ Busy(k) /\ cuda_events[k].owner = t
            /\ DOMAIN cuda_events' = DOMAIN cuda_events
            /\ \A i \in DOMAIN cuda_events :
                  /\ cuda_events'[i].owner = cuda_events[i].owner
                  /\ i # k => cuda_events'[i] = cuda_events[i]
            /\ cuda_events'[k].event = EventOf(t)
            /\ EventOf(t) # None /\ EventOf(t).tid = t /\ EndOf(EventOf(t)) = now
            /\ now' = now + 1 /\ log' = log /\ done \subseteq done'
<1>1. PICK k \in Slot(t) :
         cuda_events' = [cuda_events EXCEPT ![k].event = EventOf(t)]
  BY DEF SubmitCommit
<1>2. /\ k \in DOMAIN cuda_events /\ Busy(k) /\ cuda_events[k].owner = t
      /\ stack[t] # << >> /\ Matches(t) /\ TypeOK
  BY <1>1 DEF Slot, Busy, TypeInv, MidSubmit, MaySubmit
<1>3. /\ EventOf(t) # None /\ EventOf(t).tid = t /\ EndOf(EventOf(t)) = now
  BY <1>2, CommitEvent
<1>4. /\ DOMAIN cuda_events' = DOMAIN cuda_events
      /\ \A i \in DOMAIN cuda_events : i # k => cuda_events'[i] = cuda_events[i]
      /\ cuda_events'[k] = [cuda_events[k] EXCEPT !.event = EventOf(t)]
      /\ cuda_events[k] \in RingSlot
  BY <1>1, <1>2, RingTypes
<1>5. cuda_events'[k].event = EventOf(t) /\ cuda_events'[k].owner = t
  BY <1>2, <1>4 DEF RingSlot
<1>6. now' = now + 1 /\ log' = log /\ done \subseteq done'
  BY <1>2, PopEffect DEF SubmitCommit
<1> QED
  BY <1>2, <1>3, <1>4, <1>5, <1>6

(* Each thread writes one record at a time and its clock goes on, so that  *)
(* its events enter the ring in the order of their ends; the ring keeps    *)
(* this order, and the log takes it over.                                  *)
LEMMA OrderedStep ==
  ASSUME TypeInv, Ordered, [Next]_vars
  PROVE  Ordered'
<1> USE DEF Ordered
<1>0. TypeOK
  BY DEF TypeInv
<1>1. ASSUME UNCHANGED <<cuda_events, log>>, now' \in {now, now + 1}
      PROVE  Ordered'
  <2>1. RingOwned'
    BY <1>0, <1>1, RingTypes DEF RingOwned, Busy
  <2>2. RingOrdered'
    BY <1>1 DEF RingOrdered, Busy
  <2>3. LogOlder'
    BY <1>0, <1>1, RingTypes DEF LogOlder, Busy
  <2> QED
    BY <2>1, <2>2, <2>3
<1>2. CASE Consume
  <2> USE <1>0, <1>2, ConsumeEffect, RingTypes
  <2>1. \A i \in DOMAIN cuda_events' : Busy(i)' <=> Busy(i + 1)
    BY DEF Busy
  <2>2. RingOwned'
    BY <2>1 DEF RingOwned
  <2>3. RingOrdered'
    <3> SUFFICES ASSUME NEW i \in DOMAIN cuda_events', NEW j \in DOMAIN cuda_events',
                        i < j, cuda_events'[i].owner = cuda_events'[j].owner
                 PROVE  /\ ~Busy(i)'
                        /\ ~Busy(j)' => EndOf(cuda_events'[i].event)
                                           < EndOf(cuda_events'[j].event)
      BY DEF RingOrdered
    <3>1. i + 1 < j + 1
      OBVIOUS
    <3> QED
      BY <2>1, <3>1 DEF RingOrdered
  <2>4. LogOlder'
    <3> SUFFICES ASSUME NEW i \in DOMAIN log'
                 PROVE  /\ EndOf(log'[i]) < now'
                        /\ \A j \in DOMAIN cuda_events' :
                              ~Busy(j)' /\ cuda_events'[j].event.tid = log'[i].tid =>
                                 EndOf(log'[i]) < EndOf(cuda_events'[j].event)
      BY DEF LogOlder
    <3>1. CASE i \in DOMAIN log
      BY <2>1, <3>1 DEF LogOlder
    <3>2. CASE i = Len(log) + 1
      <4>1. log'[i] = cuda_events[1].event
        BY <3>2
      <4>2. EndOf(log'[i]) < now'
        BY <4>1 DEF RingOwned
      <4>3. ASSUME NEW j \in DOMAIN cuda_events', ~Busy(j)',
                   cuda_events'[j].event.tid = log'[i].tid
            PROVE  EndOf(log'[i]) < EndOf(cuda_events'[j].event)
        <5>1. /\ ~Busy(j + 1) /\ j + 1 \in DOMAIN cuda_events /\ 1 < j + 1
              /\ cuda_events'[j] = cuda_events[j + 1]
          BY <2>1, <4>3
        <5>2. cuda_events[1].owner = cuda_events[j + 1].owner
          BY <4>1, <4>3, <5>1 DEF RingOwned
        <5> QED
          BY <4>1, <5>1, <5>2 DEF RingOrdered
      <4> QED
        BY <4>2, <4>3
    <3> QED
      BY <3>1, <3>2
  <2> QED
    BY <2>2, <2>3, <2>4
<1>3. ASSUME NEW t \in Threads, SubmitReserve(t)
      PROVE  Ordered'
  <2>a. PICK n \in Nat : n = Len(cuda_events) + 1
    BY <1>0, RingTypes
  <2>0. /\ \A i \in DOMAIN cuda_events :
              /\ i \in Nat /\ i < n
              /\ cuda_events'[i] = cuda_events[i]
        /\ \A i \in DOMAIN cuda_events' :
              i \in Nat /\ (i \in DOMAIN cuda_events \/ i = n)
        /\ cuda_events'[n].owner = t /\ cuda_events'[n].event = None
        /\ \A i \in DOMAIN cuda_events : Busy(i) => cuda_events[i].owner # t
        /\ log' = log /\ now' = now
    BY <1>0, <1>3, <2>a, ReserveEffect, RingTypes
  <2>1. /\ \A i \in DOMAIN cuda_events : Busy(i)' <=> Busy(i)
        /\ Busy(n)'
    BY <2>0 DEF Busy
  <2>2. RingOwned' /\ LogOlder'
    BY <2>0, <2>1 DEF RingOwned, LogOlder
  <2>3. RingOrdered'
    <3> SUFFICES ASSUME NEW i \in DOMAIN cuda_events', NEW j \in DOMAIN cuda_events',
                        i < j, cuda_events'[i].owner = cuda_events'[j].owner
                 PROVE  /\ ~Busy(i)'
                        /\ ~Busy(j)' => EndOf(cuda_events'[i].event)
                                           < EndOf(cuda_events'[j].event)
      BY DEF RingOrdered
    <3>1. i \in DOMAIN cuda_events
      BY <2>0
    <3>2. CASE j \in DOMAIN cuda_events
      BY <2>0, <2>1, <3>1, <3>2 DEF RingOrdered
    <3>3. CASE j = n
      BY <2>0, <2>1, <3>1, <3>3
    <3> QED
      BY <2>0, <3>2, <3>3
  <2> QED
    BY <2>2, <2>3
<1>4. ASSUME NEW t \in Threads, SubmitCommit(t)
      PROVE  Ordered'
  <2>1. PICK k \in DOMAIN cuda_events :
            /\ Busy(k) /\ cuda_events[k].owner = t
            /\ DOMAIN cuda_events' = DOMAIN cuda_events
            /\ \A i \in DOMAIN cuda_events :
                  /\ cuda_events'[i].owner = cuda_events[i].owner
                  /\ i # k => cuda_events'[i] = cuda_events[i]
            /\ cuda_events'[k].event = EventOf(t)
            /\ EventOf(t) # None /\ EventOf(t).tid = t /\ EndOf(EventOf(t)) = now
            /\ now' = now + 1 /\ log' = log
    BY <1>4, CommitEffect
  <2> USE <1>0, RingTypes
  <2>2. \A i \in DOMAIN cuda_events : Busy(i)' <=> Busy(i) /\ i # k
    BY <2>1 DEF Busy
  <2>3. RingOwned'
    BY <2>1, <2>2 DEF RingOwned
  <2>4. LogOlder'
    BY <2>1, <2>2 DEF LogOlder
  <2>5. RingOrdered'
    <3> SUFFICES ASSUME NEW i \in DOMAIN cuda_events, NEW j \in DOMAIN cuda_events,
                        i < j, cuda_events[i].owner = cuda_events[j].owner
                 PROVE  /\ ~Busy(i)'
                        /\ ~Busy(j)' => EndOf(cuda_events'[i].event)
                                           < EndOf(cuda_events'[j].event)
      BY <2>1 DEF RingOrdered
    <3>1. ~Busy(i) /\ i # k
      BY <2>1 DEF RingOrdered
    <3>2. CASE j = k
      BY <2>1, <2>2, <3>1, <3>2 DEF RingOwned
    <3>3. CASE j # k
      BY <2>1, <2>2, <3>1, <3>3 DEF RingOrdered
    <3> QED
      BY <3>2, <3>3
  <2> QED
    BY <2>3, <2>4, <2>5
<1> QED
  BY <1>1, <1>2, <1>3, <1>4, OtherStepsLeaveRing DEF Next, ThreadStep

-----------------------------------------------------------------------------
(* The refinement *)

(* The variables of CallLog, as Promise substitutes them.                  *)
DoneBar == {[tid |-> c.tid, op |-> c.op, start |-> c.start, end |-> c.end] :
               c \in done}

LogBar == [i \in DOMAIN log |-> CallOf(log[i])]

(* Handing over an event appends its call.                                 *)
LEMMA LogBarAppend ==
  ASSUME TypeOK, TypeOK', NEW e \in Event, log' = Append(log, e)
  PROVE  LogBar' = Append(LogBar, CallOf(e))
<1> DEFINE S == {CallOf(d) : d \in Event}
<1>1. /\ log \in Seq(Event) /\ Len(log) \in Nat
      /\ DOMAIN log = 1 .. Len(log)
      /\ \A i \in DOMAIN log : log[i] \in Event
  BY AtOfSeq DEF TypeOK
<1>2. LogBar \in Seq(S) /\ Len(LogBar) = Len(log)
  <2>1. LogBar \in [1 .. Len(log) -> S]
    BY <1>1 DEF LogBar
  <2> QED
    BY <1>1, <2>1
<1>3. CallOf(e) \in S
  OBVIOUS
<1> HIDE DEF S
<1>4. /\ Append(LogBar, CallOf(e)) \in Seq(S)
      /\ Len(Append(LogBar, CallOf(e))) = Len(log) + 1
      /\ \A i \in 1 .. Len(log) : Append(LogBar, CallOf(e))[i] = LogBar[i]
      /\ Append(LogBar, CallOf(e))[Len(log) + 1] = CallOf(e)
      /\ DOMAIN Append(LogBar, CallOf(e)) = 1 .. Len(log) + 1
  BY <1>1, <1>2, <1>3, AppendProperties, AtOfSeq
<1>5. /\ DOMAIN log' = 1 .. Len(log) + 1
      /\ \A i \in 1 .. Len(log) : log'[i] = log[i]
      /\ log'[Len(log) + 1] = e
  BY <1>1, AppendProperties, AtOfSeq
<1>6. /\ LogBar' = [i \in 1 .. Len(log) + 1 |-> CallOf(log'[i])]
  BY <1>5 DEF LogBar, CallOf, EndOf
<1>7. \A i \in 1 .. Len(log) + 1 :
         Append(LogBar, CallOf(e))[i] = CallOf(log'[i])
  BY <1>1, <1>4, <1>5 DEF LogBar
<1> DEFINE app == Append(LogBar, CallOf(e))
<1>8. app = [i \in 1 .. Len(log) + 1 |-> app[i]]
  BY <1>4, LenProperties
<1> HIDE DEF app
<1>9. \A i \in 1 .. Len(log) + 1 : app[i] = CallOf(log'[i])
  BY <1>7 DEF app
<1>10. LogBar' = app
  BY <1>6, <1>8, <1>9
<1> QED
  BY <1>10 DEF app

(* The event handed over is the report of a call that has returned, and of *)
(* its thread the latest in the log.                                       *)
LEMMA ConsumeReports ==
  ASSUME Inv, Inv', Ordered, Consume
  PROVE  Promise!Report
<1> DEFINE e == cuda_events[1].event
           c == CallOf(e)
<1>1. TypeInv /\ TypeOK /\ TypeOK'
  BY DEF Inv, TypeInv
<1>2. /\ 1 \in DOMAIN cuda_events /\ ~Busy(1) /\ e \in Event
      /\ log' = Append(log, e)
      /\ done' = done
  BY <1>1, ConsumeEffect
<1>3. c \in DoneBar
  <2>1. PICK d \in done : Reports(e, d)
    BY <1>2 DEF Consume, Inv, GenuineRing, Genuine
  <2>2. c = [tid |-> d.tid, op |-> d.op, start |-> d.start, end |-> d.end]
    BY <2>1 DEF Reports, CallOf
  <2> QED
    BY <2>2 DEF DoneBar
<1>4. \A i \in DOMAIN log : log[i].tid = e.tid => EndOf(log[i]) < EndOf(e)
  BY <1>2 DEF Ordered, LogOlder
<1>5. c.tid = e.tid /\ c.end = EndOf(e)
  BY DEF CallOf
<1>6. \A d \in Promise!Entries(LogBar) : d.tid = c.tid => d.end < c.end
  <2> SUFFICES ASSUME NEW i \in DOMAIN log, CallOf(log[i]).tid = c.tid
               PROVE  CallOf(log[i]).end < c.end
    BY DEF Promise!Entries, LogBar
  <2> QED
    BY <1>4, <1>5 DEF CallOf
<1>7. LogBar' = Append(LogBar, c)
  BY <1>1, <1>2, LogBarAppend
<1>8. DoneBar' = DoneBar
  BY <1>2 DEF DoneBar
<1> HIDE DEF c
<1> QED
  BY <1>3, <1>6, <1>7, <1>8 DEF Promise!Report, DoneBar, LogBar

(* Every other step lets calls return, or changes nothing of the CallLog.  *)
LEMMA OtherStepsFinish ==
  ASSUME log' = log, done \subseteq done'
  PROVE  Promise!Finish \/ UNCHANGED <<DoneBar, LogBar>>
<1>1. DoneBar \subseteq DoneBar'
  BY DEF DoneBar
<1>2. LogBar' = LogBar
  BY DEF LogBar, CallOf, EndOf
<1> QED
  BY <1>1, <1>2 DEF Promise!Finish, DoneBar, LogBar

(* The log is a log of calls that really took place, none invented, none   *)
(* twice, and those of a thread in the order in which they returned.       *)
THEOREM LogImplementsCallLog ==
  ASSUME ProbesReliable
  PROVE  Spec => ImplementsCallLog
<1>1. Init => Promise!Init
  BY DEF Init, Promise!Init
<1>2. Init => Ordered
  BY DEF Init, Ordered, RingOwned, RingOrdered, LogOlder
<1>3. Inv /\ Ordered /\ [Next]_vars => Ordered'
  BY OrderedStep DEF Inv
<1>4. Inv /\ Inv' /\ Ordered /\ [Next]_vars => [Promise!Next]_<<DoneBar, LogBar>>
  <2> SUFFICES ASSUME Inv, Inv', Ordered, [Next]_vars
               PROVE  Promise!Next \/ UNCHANGED <<DoneBar, LogBar>>
    OBVIOUS
  <2>1. CASE Consume
    BY <2>1, ConsumeReports DEF Promise!Next
  <2>2. CASE ~Consume
    <3>1. log' = log
      BY <2>2 DEF Next, ThreadStep, Attach, StartPolling, StopPolling, Detach,
             Enter, ReturnUnseen, SubmitDrop, SubmitReserve, SubmitCommit,
             ThreadExit, vars
    <3>2. done \subseteq done'
      BY HistoryGrows
    <3> QED
      BY <3>1, <3>2, OtherStepsFinish DEF Promise!Next
  <2> QED
    BY <2>1, <2>2
<1>5. Spec => []Ordered
  BY <1>2, <1>3, Invariance, PTL DEF Spec
<1> QED
  BY <1>1, <1>4, <1>5, Invariance, PTL
     DEF Spec, ImplementsCallLog, Promise!Spec, DoneBar, LogBar

-----------------------------------------------------------------------------
(* No leaf call is missing *)

(* No limit is hit: the ring takes a record, and the hash an entry of any  *)
(* traced thread.                                                          *)
RoomLeft ==
    /\ Len(cuda_events) < RingMax
    /\ \A t \in Threads : Traced(t) =>
          t \in InFlight \/ Cardinality(InFlight) < CallsMax

(* The calls of a thread began one after the other, in the past.           *)
FramesInOrder(t) ==
    /\ \A i, j \in DOMAIN stack[t] : i < j => stack[t][i].start < stack[t][j].start
    /\ \A i \in DOMAIN stack[t] :
          /\ stack[t][i].start < now
          /\ stack[t][i].probed => stack[t][i].armed

DonePast == \A d \in done : d.end < now

(* A call made by the one that began at start has returned.                *)
HasNested(t, start) == \E d \in done : d.tid = t /\ start < d.start

EntryOf(t, f) ==
    /\ cuda_calls[t] # None
    /\ cuda_calls[t].op_type = f.op
    /\ cuda_calls[t].timestamp = f.start

(* Each probed call that is open keeps its entry until it makes a call.    *)
Kept(t) ==
    \A i \in DOMAIN stack[t] : stack[t][i].probed =>
        \/ i < Len(stack[t])
        \/ HasNested(t, stack[t][i].start)
        \/ EntryOf(t, stack[t][i])

EntriesKept ==
    /\ DonePast
    /\ \A t \in Threads : FramesInOrder(t)
    /\ \A t \in Threads : Traced(t) => Kept(t)

Reported(c) ==
    c.probed /\ IsLeaf(c) /\ Traced(c.tid) => \E e \in Submitted : Reports(e, c)

LeavesReported == phase # "detach" => \A c \in done : Reported(c)

(* Where the hash has room, the entry probe of a traced thread makes the   *)
(* entry of this call.                                                     *)
LEMMA EntryMade ==
  ASSUME TypeOK, RoomLeft, NEW t \in Threads, NEW op \in Ops, NEW cpu \in CPUs,
         Traced(t), RecordEntry(t, op, cpu)
  PROVE  /\ cuda_calls'[t] # None
         /\ cuda_calls'[t].op_type = op
         /\ cuda_calls'[t].timestamp = now
<1>1. PICK sid \in StackResults \cup {NoStack} :
         /\ MaybeCaptureStack(cpu, op, sid)
         /\ cuda_calls' = MapUpdate(t,
              [op_type |-> op, timestamp |-> now, pid |-> Tgid[t],
               stack_id |-> sid])
  BY DEF RecordEntry
<1>2. sid \in Nat \cup {NoStack}
  BY <1>1, MaybeCaptureStackType DEF TypeOK
<1> DEFINE info == [op_type |-> op, timestamp |-> now, pid |-> Tgid[t],
                    stack_id |-> sid]
<1>3. info \in CallInfo /\ info # None
  BY <1>2, TracerAssumption DEF TypeOK, CallInfo
<1>4. info.op_type = op /\ info.timestamp = now
  OBVIOUS
<1>5. cuda_calls' = MapUpdate(t, info)
  BY <1>1
<1> HIDE DEF info
<1>6. cuda_calls' = [cuda_calls EXCEPT ![t] = info]
  BY <1>5 DEF MapUpdate, RoomLeft
<1> QED
  BY <1>3, <1>4, <1>6 DEF TypeOK

(* A call puts one frame on the stack of its thread, and its entry into    *)
(* the hash.                                                               *)
LEMMA EnterKeeps ==
  ASSUME TypeInv, EntriesKept, RoomLeft, MayMiss = {},
         NEW t \in Threads, NEW op \in Ops, NEW cpu \in CPUs,
         Enter(t, op, cpu)
  PROVE  EntriesKept'
<1>0. TypeOK
  BY DEF TypeInv
<1>1. /\ now \in Nat /\ now' = now + 1 /\ done' = done
      /\ \A u \in Threads \ {t} : stack'[u] = stack[u] /\ cuda_calls'[u] = cuda_calls[u]
  BY <1>0, EnterEffect, RecordEntryEffect DEF Enter, TypeOK
<1>2. PICK n \in Nat : n = Len(stack[t])
  BY <1>0, EnterEffect
<1>3. /\ Len(stack'[t]) = n + 1
      /\ DOMAIN stack[t] = 1 .. n
      /\ DOMAIN stack'[t] = 1 .. n + 1
      /\ \A i \in 1 .. n : stack'[t][i] = stack[t][i]
      /\ stack'[t][n + 1].op = op
      /\ stack'[t][n + 1].start = now
      /\ stack'[t][n + 1].armed <=> Attached("return", op)
      /\ stack'[t][n + 1].probed <=>
            Attached("entry", op) /\ Attached("return", op)
  BY <1>0, <1>2, EnterEffect
<1>4. ASSUME NEW u \in Threads, NEW i \in DOMAIN stack[u]
      PROVE  stack[u][i].start \in Nat
  <2>1. stack[u] \in Seq(Frame)
    BY <1>0 DEF TypeOK
  <2>2. stack[u][i] \in Frame
    BY <2>1, AtOfSeq
  <2> QED
    BY <2>2 DEF Frame
<1>5. DonePast'
  <2>1. \A d \in done : d.end \in Nat
    BY <1>0 DEF TypeOK, Call
  <2> QED
    BY <1>1, <2>1 DEF DonePast, EntriesKept
<1>6. ASSUME NEW u \in Threads
      PROVE  FramesInOrder(u)'
  <2>1. CASE u # t
    BY <1>1, <1>4, <2>1 DEF FramesInOrder, EntriesKept
  <2>2. CASE u = t
    <3>1. \A i, j \in 1 .. n : i < j => stack[t][i].start < stack[t][j].start
      BY <1>3 DEF FramesInOrder, EntriesKept
    <3>2. \A i \in 1 .. n : /\ stack[t][i].start < now /\ stack[t][i].start \in Nat
                            /\ stack[t][i].probed => stack[t][i].armed
      BY <1>3, <1>4 DEF FramesInOrder, EntriesKept
    <3>3. \A i \in 1 .. n + 1 : i \in 1 .. n \/ i = n + 1
      OBVIOUS
    <3>4. \A i, j \in 1 .. n + 1 : i < j => stack'[t][i].start < stack'[t][j].start
      <4> SUFFICES ASSUME NEW i \in 1 .. n, NEW j \in 1 .. n + 1, i < j
                   PROVE  stack'[t][i].start < stack'[t][j].start
        OBVIOUS
      <4>1. stack'[t][i].start = stack[t][i].start
        BY <1>3
      <4>2. CASE j \in 1 .. n
        BY <1>3, <3>1, <4>1, <4>2
      <4>3. CASE j = n + 1
        BY <1>3, <3>2, <4>1, <4>3
      <4> QED
        BY <3>3, <4>2, <4>3
    <3>5. \A i \in 1 .. n + 1 : /\ stack'[t][i].start < now'
                                /\ stack'[t][i].probed => stack'[t][i].armed
      BY <1>1, <1>3, <3>2, <3>3
    <3> QED
      BY <1>3, <2>2, <3>4, <3>5 DEF FramesInOrder
  <2> QED
    BY <2>1, <2>2
<1>7. ASSUME NEW u \in Threads, Traced(u)
      PROVE  Kept(u)'
  <2>1. CASE u # t
    BY <1>1, <1>7, <2>1 DEF Kept, EntriesKept, HasNested, EntryOf
  <2>2. CASE u = t
    <3>1. ASSUME stack'[t][n + 1].probed
          PROVE  EntryOf(t, stack[t][n + 1])'
      <4>1. Attached("entry", op)
        BY <1>3, <3>1
      <4>2. RecordEntry(t, op, cpu)
        BY <4>1 DEF Enter
      <4> QED
        BY <1>0, <1>3, <1>7, <2>2, <4>2, EntryMade DEF EntryOf
    <3>2. \A i \in 1 .. n + 1 : i < n + 1 \/ i = n + 1
      OBVIOUS
    <3> QED
      BY <1>3, <2>2, <3>1, <3>2 DEF Kept
  <2> QED
    BY <2>1, <2>2
<1> QED
  BY <1>5, <1>6, <1>7 DEF EntriesKept, Traced

(* A return leaves, with the call under it as the innermost one, a call    *)
(* that it was nested in.                                                  *)
LEMMA PopKeeps ==
  ASSUME TypeInv, EntriesKept, NEW t \in Threads, stack[t] # << >>, Pop(t),
         \A u \in Threads \ {t} : cuda_calls'[u] = cuda_calls[u]
  PROVE  EntriesKept'
<1> DEFINE c == [tid |-> t, op |-> Top(t).op, start |-> Top(t).start,
                 end |-> now, probed |-> Top(t).probed]
<1>0. TypeOK
  BY DEF TypeInv
<1>1. /\ now \in Nat /\ now' = now + 1
      /\ \A u \in Threads \ {t} : stack'[u] = stack[u]
  BY <1>0, PopEffect DEF TypeOK
<1>2. done' = done \cup {c} /\ c.tid = t /\ c.start = Top(t).start /\ c.end = now
  BY DEF Pop
<1> HIDE DEF c
<1>3. PICK n \in Nat \ {0} : n = Len(stack[t])
  BY <1>0, PopEffect
<1>4. /\ DOMAIN stack[t] = 1 .. n
      /\ DOMAIN stack'[t] = 1 .. n - 1
      /\ Len(stack'[t]) = n - 1
      /\ \A i \in 1 .. n - 1 : stack'[t][i] = stack[t][i]
      /\ Top(t) = stack[t][n]
  <2>1. stack'[t] \in Seq(Frame)
    BY <1>0, PopEffect
  <2>2. DOMAIN stack'[t] = 1 .. Len(stack'[t]) /\ Len(stack'[t]) \in Nat
    BY <2>1, AtOfSeq
  <2>3. /\ DOMAIN stack[t] = 1 .. n
        /\ DOMAIN stack'[t] = 1 .. n - 1
        /\ \A i \in 1 .. n - 1 : stack'[t][i] = stack[t][i]
        /\ Top(t) = stack[t][n]
    BY <1>0, <1>3, PopEffect
  <2>4. Len(stack'[t]) = n - 1
    BY <1>3, <2>2, <2>3
  <2> QED
    BY <2>3, <2>4
<1>5. ASSUME NEW u \in Threads, NEW i \in DOMAIN stack[u]
      PROVE  stack[u][i].start \in Nat
  <2>1. stack[u] \in Seq(Frame)
    BY <1>0 DEF TypeOK
  <2>2. stack[u][i] \in Frame
    BY <2>1, AtOfSeq
  <2> QED
    BY <2>2 DEF Frame
<1>6. DonePast'
  <2>1. \A d \in done : d.end \in Nat
    BY <1>0 DEF TypeOK, Call
  <2> QED
    BY <1>1, <1>2, <2>1 DEF DonePast, EntriesKept
<1>7. ASSUME NEW u \in Threads
      PROVE  FramesInOrder(u)'
  <2>1. CASE u # t
    BY <1>1, <1>5, <2>1 DEF FramesInOrder, EntriesKept
  <2>2. CASE u = t
    <3>1. \A i \in 1 .. n - 1 : i \in 1 .. n
      OBVIOUS
    <3>2. \A i, j \in 1 .. n - 1 : i < j => stack[t][i].start < stack[t][j].start
      BY <1>4, <3>1 DEF EntriesKept, FramesInOrder
    <3>3. \A i \in 1 .. n - 1 : /\ stack[t][i].start < now
                                /\ stack[t][i].start \in Nat
                                /\ stack[t][i].probed => stack[t][i].armed
      BY <1>4, <1>5, <3>1 DEF EntriesKept, FramesInOrder
    <3>4. \A i, j \in 1 .. n - 1 : i < j => stack'[t][i].start < stack'[t][j].start
      BY <1>4, <3>2
    <3>5. \A i \in 1 .. n - 1 : /\ stack'[t][i].start < now'
                                /\ stack'[t][i].probed => stack'[t][i].armed
      <4> SUFFICES ASSUME NEW i \in 1 .. n - 1
                   PROVE  /\ stack'[t][i].start < now'
                          /\ stack'[t][i].probed => stack'[t][i].armed
        OBVIOUS
      <4>1. stack'[t][i] = stack[t][i]
        BY <1>4
      <4> QED
        BY <1>1, <3>3, <4>1
    <3> QED
      BY <1>4, <2>2, <3>4, <3>5 DEF FramesInOrder
  <2> QED
    BY <2>1, <2>2
<1>8. ASSUME NEW u \in Threads, Traced(u)
      PROVE  Kept(u)'
  <2>1. CASE u # t
    BY <1>1, <1>2, <1>8, <2>1 DEF Kept, EntriesKept, HasNested, EntryOf
  <2>2. CASE u = t
    <3>1. ASSUME NEW i \in 1 .. n - 1, i = n - 1
          PROVE  HasNested(t, stack[t][i].start)'
      <4>1. i \in 1 .. n /\ n \in 1 .. n /\ i < n
        BY <3>1
      <4>2. stack[t][i].start < stack[t][n].start
        BY <1>4, <4>1 DEF EntriesKept, FramesInOrder
      <4>3. stack'[t][i] = stack[t][i]
        BY <1>4
      <4> QED
        BY <1>2, <1>4, <4>2, <4>3 DEF HasNested
    <3>2. \A i \in 1 .. n - 1 : i < n - 1 \/ i = n - 1
      OBVIOUS
    <3> QED
      BY <1>4, <2>2, <3>1, <3>2 DEF Kept
  <2> QED
    BY <2>1, <2>2
<1> QED
  BY <1>6, <1>7, <1>8 DEF EntriesKept, Traced

(* Stacks only grow by calls and shrink by returns, or vanish with their   *)
(* thread; the other steps leave them and the hash alone.                  *)
LEMMA EntriesKeptStep ==
  ASSUME TypeInv, EntriesKept, RoomLeft, MayMiss = {}, [Next]_vars
  PROVE  EntriesKept'
<1> USE DEF loader, threads, maps
<1>0. TypeOK
  BY DEF TypeInv
<1>1. ASSUME NEW t \in Threads,
             ReturnUnseen(t) \/ SubmitDrop(t) \/ SubmitCommit(t)
      PROVE  EntriesKept'
  <2>1. stack[t] # << >> /\ Pop(t)
    BY <1>1 DEF ReturnUnseen, SubmitDrop, SubmitCommit, CanReturn, Slot, Busy,
                TypeInv, MidSubmit, MaySubmit
  <2>2. \A u \in Threads \ {t} : cuda_calls'[u] = cuda_calls[u]
    BY <1>0, <1>1 DEF ReturnUnseen, SubmitDrop, SubmitCommit, Forget, TypeOK
  <2> QED
    BY <2>1, <2>2, PopKeeps
<1>2. ASSUME NEW t \in Threads, ThreadExit(t)
      PROVE  EntriesKept'
  <2>1. /\ UNCHANGED <<now, done, cuda_calls>>
        /\ \A u \in Threads \ {t} : stack'[u] = stack[u]
        /\ DOMAIN stack'[t] = {}
    BY <1>0, <1>2 DEF ThreadExit, TypeOK
  <2>2. \A u \in Threads : FramesInOrder(u)'
    BY <2>1 DEF FramesInOrder, EntriesKept
  <2>3. \A u \in Threads : Traced(u) => Kept(u)'
    BY <2>1 DEF Kept, EntriesKept, HasNested, EntryOf
  <2> QED
    BY <2>1, <2>2, <2>3 DEF EntriesKept, DonePast, Traced
<1>3. ASSUME UNCHANGED <<now, stack, done, cuda_calls>>
      PROVE  EntriesKept'
  BY <1>3 DEF EntriesKept, DonePast, FramesInOrder, Kept, HasNested, EntryOf,
              Traced
<1>4. ASSUME \/ Attach \/ StartPolling \/ Consume \/ StopPolling \/ Detach
             \/ \E t \in Threads : SubmitReserve(t)
             \/ UNCHANGED vars
      PROVE  EntriesKept'
  BY <1>3, <1>4 DEF Attach, StartPolling, Consume, StopPolling, Detach,
                    SubmitReserve, vars
<1> QED
  BY <1>1, <1>2, <1>4, EnterKeeps DEF Next, ThreadStep

(* What has been submitted: what is in the log or written in the ring.     *)
LEMMA SubmittedIs ==
  ASSUME NEW e
  PROVE  e \in Submitted <=>
            \/ \E i \in DOMAIN log : e = log[i]
            \/ \E i \in DOMAIN cuda_events : ~Busy(i) /\ e = cuda_events[i].event
BY DEF Submitted, Busy

LEMMA SubmittedIsAfter ==
  ASSUME NEW e
  PROVE  e \in Submitted' <=>
            \/ \E i \in DOMAIN log' : e = log'[i]
            \/ \E i \in DOMAIN cuda_events' : ~Busy(i)' /\ e = cuda_events'[i].event
BY DEF Submitted, Busy

(* No event that was submitted is lost: Consume moves it to the log, and   *)
(* the other steps leave it where it is.                                   *)
LEMMA SubmittedGrows ==
  ASSUME TypeInv, [Next]_vars
  PROVE  Submitted \subseteq Submitted'
<1> SUFFICES ASSUME NEW e \in Submitted
             PROVE  e \in Submitted'
  OBVIOUS
<1>0. TypeOK
  BY DEF TypeInv
<1>1. CASE UNCHANGED <<cuda_events, log>>
  BY <1>1 DEF Submitted
<1>2. CASE Consume
  <2>1. CASE \E i \in DOMAIN log : e = log[i]
    BY <1>0, <1>2, <2>1, ConsumeEffect, RingTypes, SubmittedIsAfter
  <2>2. ASSUME NEW i \in DOMAIN cuda_events, ~Busy(i), e = cuda_events[i].event
        PROVE  e \in Submitted'
    <3>1. CASE i = 1
      <4>1. /\ Len(log) + 1 \in DOMAIN log'
            /\ log'[Len(log) + 1] = e
        BY <1>0, <1>2, <2>2, <3>1, ConsumeEffect, RingTypes
      <4> QED
        BY <4>1, SubmittedIsAfter
    <3>2. CASE i # 1
      <4>1. /\ i \in Nat /\ i - 1 \in 1 .. Len(cuda_events) - 1
            /\ i - 1 + 1 = i
        BY <1>0, <2>2, <3>2, RingTypes
      <4>2. i - 1 \in DOMAIN cuda_events' /\ cuda_events'[i - 1] = cuda_events[i]
        BY <1>2, <4>1, ConsumeEffect
      <4>3. ~Busy(i - 1)'
        BY <2>2, <4>2 DEF Busy
      <4> QED
        BY <2>2, <4>2, <4>3, SubmittedIsAfter
    <3> QED
      BY <3>1, <3>2
  <2> QED
    BY <2>1, <2>2, SubmittedIs
<1>3. ASSUME NEW t \in Threads, SubmitReserve(t)
      PROVE  e \in Submitted'
  <2>1. /\ log' = log
        /\ \A i \in DOMAIN cuda_events :
              i \in DOMAIN cuda_events' /\ cuda_events'[i] = cuda_events[i]
    BY <1>0, <1>3, ReserveEffect, RingTypes
  <2> QED
    BY <2>1, SubmittedIs, SubmittedIsAfter DEF Busy
<1>4. ASSUME NEW t \in Threads, SubmitCommit(t)
      PROVE  e \in Submitted'
  <2>1. /\ log' = log
        /\ \A i \in DOMAIN cuda_events : ~Busy(i) =>
              i \in DOMAIN cuda_events' /\ cuda_events'[i] = cuda_events[i]
    BY <1>4, CommitEffect
  <2> QED
    BY <2>1, SubmittedIs, SubmittedIsAfter DEF Busy
<1> QED
  BY <1>1, <1>2, <1>3, <1>4, OtherStepsLeaveRing DEF Next, ThreadStep

(* The innermost probed call of a traced thread that has made no other     *)
(* still has its own entry, and its return probe fires.                    *)
LEMMA LeafHasEntry ==
  ASSUME TypeInv, StillAttached, EntriesKept, phase # "detach",
         NEW t \in Threads, stack[t] # << >>, Traced(t), Top(t).probed,
         ~HasNested(t, Top(t).start)
  PROVE  EntryOf(t, Top(t)) /\ ReturnFires(t)
<1>0. TypeOK
  BY DEF TypeInv
<1>1. stack[t] \in Seq(Frame)
  BY <1>0 DEF TypeOK
<1>2. PICK n \in DOMAIN stack[t] : Top(t) = stack[t][n] /\ ~(n < Len(stack[t]))
  <2>1. /\ Len(stack[t]) \in Nat \ {0}
        /\ Last(stack[t]) = stack[t][Len(stack[t])]
    BY <1>1, FrontOfSeq
  <2>2. Len(stack[t]) \in DOMAIN stack[t]
    BY <1>1, <2>1, AtOfSeq
  <2> QED
    BY <2>1, <2>2 DEF Top
<1>3. EntryOf(t, Top(t))
  BY <1>2 DEF EntriesKept, Kept
<1>4. Top(t).armed
  BY <1>2 DEF EntriesKept, FramesInOrder
<1>5. Attached("return", Top(t).op)
  BY <1>2, <1>4 DEF StillAttached, ArmedAttached
<1> QED
  BY <1>3, <1>4, <1>5 DEF ReturnFires

(* A leaf call that returns is reported on the spot: its return probe      *)
(* fires, finds its entry, and has room for the event.                     *)
LEMMA ReturnReports ==
  ASSUME TypeInv, StillAttached, EntriesKept, RoomLeft, MayMiss = {},
         phase # "detach", NEW t \in Threads,
         ReturnUnseen(t) \/ SubmitDrop(t) \/ SubmitCommit(t),
         NEW c \in done' \ done, c.probed, IsLeaf(c)', Traced(c.tid)
  PROVE  \E e \in Submitted' : Reports(e, c)
<1>0. TypeOK
  BY DEF TypeInv
<1>1. stack[t] # << >> /\ Pop(t)
  BY DEF ReturnUnseen, SubmitDrop, SubmitCommit, CanReturn, Slot, Busy,
         TypeInv, MidSubmit, MaySubmit
<1>2. /\ c.tid = t /\ c.op = Top(t).op /\ c.start = Top(t).start
      /\ c.end = now /\ Top(t).probed
      /\ done \subseteq done'
  BY <1>1 DEF Pop
<1>3. ~HasNested(t, Top(t).start)
  BY <1>2 DEF IsLeaf, HasNested, EntriesKept, DonePast
<1>4. EntryOf(t, Top(t)) /\ ReturnFires(t)
  BY <1>1, <1>2, <1>3, LeafHasEntry
<1>5. ~ReturnUnseen(t)
  BY <1>4 DEF ReturnUnseen
<1>6. ~SubmitDrop(t)
  <2>1. Len(cuda_events) \in Nat /\ Len(cuda_events) < RingMax
    BY <1>0, RingTypes DEF RoomLeft
  <2> QED
    BY <1>4, <2>1, TracerAssumption DEF SubmitDrop, Matches, EntryOf
<1>7. PICK k \in DOMAIN cuda_events :
          /\ k \in DOMAIN cuda_events' /\ cuda_events'[k].event = EventOf(t)
          /\ EventOf(t) # None /\ EventOf(t).tid = t /\ EndOf(EventOf(t)) = now
  BY <1>5, <1>6, CommitEffect
<1>8. EventOf(t) \in Submitted'
  BY <1>7, SubmittedIsAfter DEF Busy
<1>9. EventOf(t).op_type = Top(t).op /\ EventOf(t).timestamp = Top(t).start
  BY <1>4 DEF EventOf, EntryOf
<1> QED
  BY <1>2, <1>7, <1>8, <1>9 DEF Reports

(* Only these three steps let a call return.                               *)
LEMMA WhoReturns ==
  ASSUME [Next]_vars
  PROVE  \/ done' = done
         \/ \E t \in Threads :
               /\ ReturnUnseen(t) \/ SubmitDrop(t) \/ SubmitCommit(t)
               /\ phase' = phase
BY DEF Next, ThreadStep, Attach, StartPolling, Consume, StopPolling, Detach,
       Enter, SubmitReserve, ReturnUnseen, SubmitDrop, SubmitCommit,
       ThreadExit, vars, loader, threads, maps

LEMMA LeavesReportedStep ==
  ASSUME TypeInv, StillAttached, EntriesKept, RoomLeft, MayMiss = {},
         LeavesReported, [Next]_vars
  PROVE  LeavesReported'
<1> SUFFICES ASSUME phase' # "detach", NEW c \in done',
                    c.probed, IsLeaf(c)', Traced(c.tid)
             PROVE  \E e \in Submitted' : Reports(e, c)
  BY DEF LeavesReported, Reported, Traced, Reports, EndOf
<1>1. phase # "detach"
  BY DEF Next, ThreadStep, Attach, StartPolling, Consume, StopPolling, Detach,
         Enter, SubmitReserve, ReturnUnseen, SubmitDrop, SubmitCommit,
         ThreadExit, vars, loader
<1>2. CASE c \in done
  <2>1. IsLeaf(c)
    BY HistoryGrows DEF IsLeaf
  <2>2. \E e \in Submitted : Reports(e, c)
    BY <1>1, <1>2, <2>1 DEF LeavesReported, Reported
  <2> QED
    BY <2>2, SubmittedGrows
<1>3. CASE c \notin done
  BY <1>1, <1>3, WhoReturns, ReturnReports
<1> QED
  BY <1>2, <1>3

(* While polling and as long as no limit is hit, no probed call that calls *)
(* no other is missing from what is submitted: if the kernel skips no      *)
(* probe, and the ring and the hash have had room so far (RoomLeft), every *)
(* such call of a traced thread has its event.                             *)
THEOREM LeafCallsNotMissed ==
  ASSUME MayMiss = {}
  PROVE  Spec /\ []RoomLeft => []LeafCallsReported
<1>1. Init => EntriesKept /\ LeavesReported
  BY DEF Init, EntriesKept, DonePast, FramesInOrder, Kept, LeavesReported
<1>2. Inv /\ EntriesKept /\ RoomLeft /\ [Next]_vars => EntriesKept'
  BY EntriesKeptStep DEF Inv
<1>3. Inv /\ EntriesKept /\ LeavesReported /\ RoomLeft /\ [Next]_vars
          => LeavesReported'
  BY LeavesReportedStep DEF Inv
<1>4. LeavesReported => LeafCallsReported
  BY DEF LeavesReported, LeafCallsReported, Reported
<1>5. Spec => []Inv
  BY Invariance DEF ProbesReliable
<1> QED
  BY <1>1, <1>2, <1>3, <1>4, <1>5, PTL DEF Spec
=============================================================================
