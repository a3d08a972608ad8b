-------------------------- MODULE SchedTracerProofs --------------------------
(***************************************************************************)
(* Proofs about SchedTracer: whatever the number of CPUs and threads, the  *)
(* trace tells where each thread is, its events alternate, and no switch   *)
(* is missing from it.                                                     *)
(***************************************************************************)
EXTENDS SchedTracer, SequenceTheorems, TLAPS

-----------------------------------------------------------------------------
(* The inductive invariant *)

(* A thread runs, or is about to run, on one CPU at a time.                *)
Has(cpu, t) == t \in {current[cpu], picked[cpu]}

Exclusive ==
    \A c, d \in CPUs, t \in Threads : Has(c, t) /\ Has(d, t) => c = d

(* The filter: only of a thread that is wanted are there events.           *)
Filtered ==
    target_pid # 0 => \A i \in DOMAIN trace : trace[i].tid = target_pid

Inv ==
    /\ TypeOK
    /\ Exclusive
    /\ Filtered
    /\ TraceTellsState
    /\ Alternates

-----------------------------------------------------------------------------
(* What a tracepoint does to the trace *)

(* The event e has been submitted: it is the last of the trace.            *)
Submitted(e) ==
    /\ Wanted(e.tid)
    /\ ~dropped' => ~dropped
    /\ Len(trace') = Len(trace) + 1
    /\ DOMAIN trace' = 1 .. Len(trace) + 1
    /\ \A i \in DOMAIN trace : trace'[i] = trace[i]
    /\ trace'[Len(trace) + 1] = e

(* No event was wanted.                                                    *)
Skipped(e) == ~Wanted(e.tid) /\ trace' = trace /\ dropped' = dropped

LEMMA TraceType ==
  ASSUME TypeOK
  PROVE  /\ Len(trace) \in Nat
         /\ DOMAIN trace = 1 .. Len(trace)
         /\ \A i \in DOMAIN trace : trace[i] \in Event
<1> QED
  BY ElementOfSeq, LenProperties DEF TypeOK

(* The three outcomes of a tracepoint, and the types of what it changes.   *)
LEMMA Emitted ==
  ASSUME TypeOK, NEW e \in Event, EmitIfWanted(e)
  PROVE  /\ \/ Submitted(e)
            \/ Skipped(e)
            \/ dropped' /\ trace' = trace
         /\ trace' \in Seq(Event)
         /\ unread' \in 0 .. RingMax
         /\ dropped' \in BOOLEAN
<1> USE SchedAssumption DEF TypeOK
<1>1. CASE Wanted(e.tid) /\ unread < RingMax
  <2>1. trace' = Append(trace, e) /\ unread' = unread + 1 /\ dropped' = dropped
    BY <1>1 DEF EmitIfWanted, Submit
  <2> QED
    BY <1>1, <2>1, AppendProperties, TraceType DEF Submitted
<1>2. CASE Wanted(e.tid) /\ unread >= RingMax
  <2>1. dropped' = TRUE /\ trace' = trace /\ unread' = unread
    BY <1>2 DEF EmitIfWanted, Submit
  <2> QED
    BY <2>1
<1>3. CASE ~Wanted(e.tid)
  BY <1>3 DEF EmitIfWanted, Skipped
<1> QED
  BY <1>1, <1>2, <1>3

(* Where the switches of t are does not change by an event that is none.   *)
LEMMA OfSame ==
  ASSUME TypeOK, NEW e \in Event, EmitIfWanted(e), ~dropped',
         NEW t \in Threads,
         t # e.tid \/ e.event_type = "WAKEUP" \/ ~Wanted(t)
  PROVE  /\ ~dropped
         /\ Of(t)' = Of(t)
         /\ \A i \in Of(t) : trace'[i] = trace[i]
<1>1. CASE Submitted(e)
  BY <1>1, TraceType DEF Submitted, Of
<1>2. CASE Skipped(e)
  BY <1>2 DEF Skipped, Of
<1> QED
  BY <1>1, <1>2, Emitted

(* A switch of t that is traced comes after those before it.               *)
LEMMA OfMore ==
  ASSUME TypeOK, NEW e \in Event, EmitIfWanted(e), ~dropped',
         e.event_type # "WAKEUP", Wanted(e.tid)
  PROVE  /\ ~dropped
         /\ Of(e.tid)' = Of(e.tid) \cup {Len(trace) + 1}
         /\ Of(e.tid) \subseteq 1 .. Len(trace)
         /\ Len(trace) \in Nat
         /\ \A i \in Of(e.tid) : trace'[i] = trace[i]
         /\ trace'[Len(trace) + 1] = e
<1>1. Submitted(e)
  BY Emitted DEF Skipped
<1> QED
  BY <1>1, TraceType DEF Submitted, Of

-----------------------------------------------------------------------------
(* The parts of the invariant *)

LEMMA TargetStep ==
  ASSUME TypeOK, Filtered, NEW e \in Event, EmitIfWanted(e),
         target_pid' = target_pid
  PROVE  Filtered'
<1>1. CASE Submitted(e)
  BY <1>1, TraceType DEF Submitted, Wanted, Filtered
<1>2. CASE trace' = trace
  BY <1>2 DEF Filtered
<1> QED
  BY <1>1, <1>2, Emitted DEF Skipped

(* The trace alternates if each switch is unlike the last of its thread.   *)
Unlike(d, e) ==
    /\ d.event_type # e.event_type
    /\ d.event_type = "ON" => e.cpu = d.cpu

LEMMA AlternatesStep ==
  ASSUME TypeOK, Alternates, NEW e \in Event, EmitIfWanted(e),
         e.tid \in Threads /\ ~dropped' /\ Wanted(e.tid)
            /\ e.event_type # "WAKEUP" =>
            \A i \in Of(e.tid) :
               (\A k \in Of(e.tid) : k <= i) => Unlike(trace[i], e)
  PROVE  Alternates'
<1> SUFFICES ASSUME ~dropped', NEW t \in Threads,
                    NEW i \in Of(t)', NEW j \in Of(t)', Follows(j, i, t)'
             PROVE  Unlike(trace'[i], trace'[j])
  BY DEF Alternates, Unlike
<1>1. CASE t # e.tid \/ e.event_type = "WAKEUP" \/ ~Wanted(t)
  BY <1>1, OfSame DEF Alternates, Follows, Unlike
<1>2. CASE t = e.tid /\ e.event_type # "WAKEUP" /\ Wanted(t)
  <2> DEFINE n == Len(trace) + 1
  <2>1. /\ ~dropped /\ n \in Nat
        /\ Of(t)' = Of(t) \cup {n}
        /\ \A k \in Of(t) : k \in Nat /\ k < n
        /\ \A k \in Of(t) : trace'[k] = trace[k]
        /\ trace'[n] = e
    <3>1. /\ ~dropped /\ Len(trace) \in Nat
          /\ Of(t)' = Of(t) \cup {n}
          /\ Of(t) \subseteq 1 .. Len(trace)
          /\ \A k \in Of(t) : trace'[k] = trace[k]
          /\ trace'[n] = e
      BY <1>2, OfMore
    <3> QED
      BY <3>1
  <2>2. i < j /\ \A k \in Of(t)' : k <= i \/ j <= k
    BY DEF Follows
  <2>3. i \in Of(t)
    BY <2>1, <2>2
  <2>4. CASE j = n
    BY <1>2, <2>1, <2>2, <2>3, <2>4
  <2>5. CASE j \in Of(t)
    BY <2>1, <2>2, <2>3, <2>5 DEF Alternates, Follows, Unlike
  <2> QED
    BY <2>1, <2>4, <2>5
<1> QED
  BY <1>1, <1>2

(* What the last switch of t says of it.                                   *)
Tells(t, i) ==
    IF trace[i].event_type = "ON" THEN Running(t, trace[i].cpu)
    ELSE \A cpu \in CPUs : ~Running(t, cpu)

(* The trace tells the state of t if t stays where it is, or the event e   *)
(* tells it.                                                               *)
LEMMA TellsStep ==
  ASSUME TypeOK, TraceTellsState, NEW e \in Event, EmitIfWanted(e), ~dropped',
         NEW t \in Threads,
         \/ \A cpu \in CPUs : Running(t, cpu)' <=> Running(t, cpu)
         \/ ~Wanted(t)
         \/ t = e.tid /\ e.event_type # "WAKEUP",
         Filtered, target_pid' = target_pid,
         t = e.tid /\ e.event_type = "ON" => Running(t, e.cpu)',
         t = e.tid /\ e.event_type = "OFF" => \A cpu \in CPUs : ~Running(t, cpu)',
         NEW i \in Of(t)', \A k \in Of(t)' : k <= i
  PROVE  Tells(t, i)'
<1>1. CASE t # e.tid \/ e.event_type = "WAKEUP" \/ ~Wanted(t)
  <2>1. /\ ~dropped /\ i \in Of(t) /\ trace'[i] = trace[i]
        /\ \A k \in Of(t) : k <= i
    BY <1>1, OfSame
  <2>2. Tells(t, i)
    BY <2>1 DEF TraceTellsState, Tells
  <2>3. Wanted(t) /\ i \in DOMAIN trace
    BY <2>1 DEF Filtered, Of, Wanted
  <2>4. trace[i].cpu \in CPUs
    BY <2>3, TraceType DEF Event
  <2> QED
    BY <1>1, <2>1, <2>2, <2>3, <2>4 DEF Tells
<1>2. CASE t = e.tid /\ e.event_type # "WAKEUP" /\ Wanted(t)
  <2>0. /\ Of(t)' = Of(t) \cup {Len(trace) + 1}
        /\ Of(t) \subseteq 1 .. Len(trace)
        /\ Len(trace) \in Nat
        /\ trace'[Len(trace) + 1] = e
    BY <1>2, OfMore
  <2>1. i = Len(trace) + 1 /\ trace'[i] = e
    BY <2>0
  <2>2. e.event_type \in {"ON", "OFF"}
    BY <1>2 DEF Event, Types
  <2> QED
    BY <1>2, <2>1, <2>2 DEF Tells
<1> QED
  BY <1>1, <1>2

-----------------------------------------------------------------------------
(* The actions *)

OffEvent(cpu) == [event_type |-> "OFF", tid |-> current[cpu], cpu |-> cpu,
                  stack_id |-> NoStack]

OnEvent(cpu) == [event_type |-> "ON", tid |-> picked[cpu], cpu |-> cpu,
                 stack_id |-> UserStackId(cpu)]

LEMMA EventTypes ==
  ASSUME TypeOK, NEW cpu \in CPUs
  PROVE  OffEvent(cpu) \in Event /\ OnEvent(cpu) \in Event
<1>1. current[cpu] \in Threads \cup {Idle} /\ picked[cpu] \in Threads \cup {Idle}
  BY DEF TypeOK, Tids
<1>2. UserStackId(cpu) \in Threads \cup {NoStack}
  BY <1>1 DEF UserStackId
<1> QED
  BY <1>1, <1>2 DEF OffEvent, OnEvent, Event, Types, Tids

(* A thread goes off cpu: until the switch nobody runs there.              *)
LEMMA SwitchOffEffect ==
  ASSUME TypeOK, Exclusive, NEW cpu \in CPUs, SwitchOff(cpu)
  PROVE  /\ EmitIfWanted(OffEvent(cpu))
         /\ UNCHANGED <<target_pid, current>>
         /\ picked' \in [CPUs -> Tids]
         /\ runnable' \subseteq Threads
         /\ Exclusive'
         /\ picked[cpu] = current[cpu]
         /\ \A c \in CPUs : ~Running(current[cpu], c)' \/ current[cpu] = Idle
         /\ \A t \in Threads, c \in CPUs :
               t # current[cpu] => (Running(t, c)' <=> Running(t, c))
<1>1. PICK next \in (runnable \ OnCpu) \cup ({Idle} \ {current[cpu]}) :
         /\ picked' = [picked EXCEPT ![cpu] = next]
         /\ \E preempted \in BOOLEAN :
               runnable' = (runnable \ {next})
                   \cup IF preempted THEN {current[cpu]} \ {Idle} ELSE {}
  BY DEF SwitchOff
<1>2. /\ EmitIfWanted(OffEvent(cpu))
      /\ UNCHANGED <<target_pid, current>>
      /\ picked[cpu] = current[cpu]
  BY DEF SwitchOff, OffEvent
<1>3. current \in [CPUs -> Tids] /\ picked \in [CPUs -> Tids]
      /\ runnable \subseteq Threads
  BY DEF TypeOK
<1>4. next \in Tids /\ next # current[cpu]
  BY <1>3 DEF Tids, OnCpu
<1>5. \A c \in CPUs : next \in Threads => ~Has(c, next)
  BY SchedAssumption DEF Has, OnCpu
<1>6. Exclusive'
  BY <1>1, <1>2, <1>3, <1>5, SchedAssumption DEF Exclusive, Has
<1>7. picked' \in [CPUs -> Tids] /\ runnable' \subseteq Threads
  BY <1>1, <1>3, <1>4 DEF Tids
<1>8. \A c \in CPUs : ~Running(current[cpu], c)' \/ current[cpu] = Idle
  BY <1>1, <1>2, <1>3, <1>4 DEF Exclusive, Has, Running, Tids
<1>9. \A t \in Threads, c \in CPUs :
         t # current[cpu] => (Running(t, c)' <=> Running(t, c))
  BY <1>1, <1>2, <1>3 DEF Running
<1> QED
  BY <1>2, <1>6, <1>7, <1>8, <1>9

(* The switch of cpu to the thread it picked.                              *)
LEMMA SwitchOnEffect ==
  ASSUME TypeOK, Exclusive, NEW cpu \in CPUs, SwitchOn(cpu)
  PROVE  /\ EmitIfWanted(OnEvent(cpu))
         /\ UNCHANGED <<target_pid, picked, runnable>>
         /\ current' \in [CPUs -> Tids]
         /\ Exclusive'
         /\ Running(picked[cpu], cpu)'
         /\ \A c \in CPUs : picked[cpu] \in Threads => ~Running(picked[cpu], c)
         /\ \A t \in Threads, c \in CPUs :
               t # picked[cpu] => (Running(t, c)' <=> Running(t, c))
<1>1. /\ EmitIfWanted(OnEvent(cpu))
      /\ UNCHANGED <<target_pid, picked, runnable>>
      /\ picked[cpu] # current[cpu]
      /\ current' = [current EXCEPT ![cpu] = picked[cpu]]
  BY DEF SwitchOn, OnEvent
<1>2. current \in [CPUs -> Tids] /\ picked \in [CPUs -> Tids]
  BY DEF TypeOK
<1>3. Exclusive'
  BY <1>1, <1>2 DEF Exclusive, Has
<1>4. /\ current' \in [CPUs -> Tids]
      /\ Running(picked[cpu], cpu)'
  BY <1>1, <1>2 DEF Running
<1>5. \A c \in CPUs : picked[cpu] \in Threads => ~Running(picked[cpu], c)
  BY <1>1, <1>2 DEF Exclusive, Has, Running
<1>6. \A t \in Threads, c \in CPUs :
         t # picked[cpu] => (Running(t, c)' <=> Running(t, c))
  BY <1>1, <1>2 DEF Running
<1> QED
  BY <1>1, <1>3, <1>4, <1>5, <1>6
LEMMA OffStep ==
  ASSUME Inv, NEW cpu \in CPUs, SwitchOff(cpu)
  PROVE  Inv'
<1> DEFINE e == OffEvent(cpu)
           t == current[cpu]
<1> USE SwitchOffEffect DEF Inv
<1>1. /\ e \in Event /\ EmitIfWanted(e) /\ target_pid' = target_pid
      /\ e.event_type = "OFF" /\ e.tid = t /\ e.cpu = cpu
  BY EventTypes DEF OffEvent
<1>2. TypeOK'
  BY <1>1, Emitted DEF TypeOK
<1>3. Filtered'
  BY <1>1, TargetStep
<1>4. TraceTellsState'
  <2> SUFFICES ASSUME ~dropped', NEW u \in Threads, NEW i \in Of(u)',
                      \A k \in Of(u)' : k <= i
               PROVE  Tells(u, i)'
    BY DEF TraceTellsState, Tells
  <2>1. u = t => \A c \in CPUs : ~Running(u, c)'
    BY SchedAssumption
  <2>2. u # t => \A c \in CPUs : Running(u, c)' <=> Running(u, c)
    OBVIOUS
  <2> QED
    BY <1>1, <2>1, <2>2, TellsStep
<1>5. Alternates'
  <2> SUFFICES ASSUME t \in Threads, ~dropped', Wanted(t), NEW i \in Of(t),
                      \A k \in Of(t) : k <= i
               PROVE  Unlike(trace[i], e)
    BY <1>1, AlternatesStep
  <2>1. Running(t, cpu)
    BY DEF Running
  <2>2. ~dropped
    BY <1>1, OfMore
  <2>3. trace[i].event_type = "ON" /\ Running(t, trace[i].cpu)
    BY <2>1, <2>2 DEF TraceTellsState
  <2>4. trace[i].cpu \in CPUs
    BY TraceType DEF Of, Event
  <2>5. trace[i].cpu = cpu
    BY <2>1, <2>3, <2>4 DEF Exclusive, Has, Running
  <2> QED
    BY <1>1, <2>3, <2>5 DEF Unlike
<1> QED
  BY <1>2, <1>3, <1>4, <1>5

LEMMA OnStep ==
  ASSUME Inv, NEW cpu \in CPUs, SwitchOn(cpu)
  PROVE  Inv'
<1> DEFINE e == OnEvent(cpu)
           t == picked[cpu]
<1> USE SwitchOnEffect DEF Inv
<1>1. /\ e \in Event /\ EmitIfWanted(e) /\ target_pid' = target_pid
      /\ e.event_type = "ON" /\ e.tid = t /\ e.cpu = cpu
  BY EventTypes DEF OnEvent
<1>2. TypeOK'
  BY <1>1, Emitted DEF TypeOK
<1>3. Filtered'
  BY <1>1, TargetStep
<1>4. TraceTellsState'
  <2> SUFFICES ASSUME ~dropped', NEW u \in Threads, NEW i \in Of(u)',
                      \A k \in Of(u)' : k <= i
               PROVE  Tells(u, i)'
    BY DEF TraceTellsState, Tells
  <2>1. u = t => Running(u, cpu)'
    BY <1>1
  <2>2. u # t => \A c \in CPUs : Running(u, c)' <=> Running(u, c)
    OBVIOUS
  <2> QED
    BY <1>1, <2>1, <2>2, TellsStep
<1>5. Alternates'
  <2> SUFFICES ASSUME t \in Threads, ~dropped', Wanted(t), NEW i \in Of(t),
                      \A k \in Of(t) : k <= i
               PROVE  Unlike(trace[i], e)
    BY <1>1, AlternatesStep
  <2>1. ~dropped
    BY <1>1, OfMore
  <2>2. trace[i].cpu \in CPUs
    BY TraceType DEF Of, Event
  <2>3. trace[i].event_type # "ON"
    BY <2>1, <2>2 DEF TraceTellsState
  <2> QED
    BY <1>1, <2>3 DEF Unlike
<1> QED
  BY <1>2, <1>3, <1>4, <1>5

LEMMA WakeupStep ==
  ASSUME Inv, NEW t \in Threads, NEW cpu \in CPUs, Wakeup(t, cpu)
  PROVE  Inv'
<1> DEFINE e == [event_type |-> "WAKEUP", tid |-> t, cpu |-> cpu,
                 stack_id |-> NoStack]
<1> USE DEF Inv
<1>1. /\ EmitIfWanted(e)
      /\ runnable' = runnable \cup {t}
      /\ UNCHANGED <<target_pid, current, picked>>
  BY DEF Wakeup
<1>2. e \in Event /\ e.event_type = "WAKEUP" /\ e.tid = t
  BY DEF Event, Types, Tids
<1>3. TypeOK'
  BY <1>1, <1>2, Emitted DEF TypeOK
<1>4. Exclusive'
  BY <1>1 DEF Exclusive, Has
<1>5. Filtered'
  BY <1>1, <1>2, TargetStep
<1>6. TraceTellsState'
  <2> SUFFICES ASSUME ~dropped', NEW u \in Threads, NEW i \in Of(u)',
                      \A k \in Of(u)' : k <= i
               PROVE  Tells(u, i)'
    BY DEF TraceTellsState, Tells
  <2>1. \A c \in CPUs : Running(u, c)' <=> Running(u, c)
    BY <1>1 DEF Running
  <2> QED
    BY <1>1, <1>2, <2>1, TellsStep
<1>7. Alternates'
  BY <1>1, <1>2, AlternatesStep
<1> QED
  BY <1>3, <1>4, <1>5, <1>6, <1>7

(* Reading, or nothing: the trace and the CPUs are left alone.             *)
LEMMA QuietStep ==
  ASSUME Inv, Read \/ UNCHANGED vars
  PROVE  Inv'
<1> USE DEF Inv
<1>1. /\ UNCHANGED <<target_pid, current, picked, runnable, trace, dropped>>
      /\ unread' \in 0 .. RingMax
  <2>1. CASE Read
    BY <2>1, SchedAssumption DEF Read, TypeOK
  <2>2. CASE UNCHANGED vars
    BY <2>2 DEF vars, TypeOK
  <2> QED
    BY <2>1, <2>2
<1>2. TypeOK' /\ Exclusive' /\ Filtered'
  BY <1>1 DEF TypeOK, Exclusive, Has, Filtered
<1>3. TraceTellsState' /\ Alternates'
  BY <1>1 DEF TraceTellsState, Alternates, Follows, Of, Running
<1> QED
  BY <1>2, <1>3

LEMMA InvStep ==
  ASSUME Inv, [Next]_vars
  PROVE  Inv'
<1> QED
  BY OffStep, OnStep, WakeupStep, QuietStep DEF Next

LEMMA InvInit == Init => Inv
<1> SUFFICES ASSUME Init
             PROVE  Inv
  OBVIOUS
<1>1. TypeOK
  <2>1. /\ target_pid \in Targets
        /\ current \in [CPUs -> Tids] /\ picked \in [CPUs -> Tids]
        /\ runnable \subseteq Threads
        /\ trace \in Seq(Event)
    BY DEF Init
  <2>2. unread \in 0 .. RingMax
    BY SchedAssumption DEF Init
  <2>3. dropped \in BOOLEAN
    BY DEF Init
  <2> QED
    BY <2>1, <2>2, <2>3 DEF TypeOK
<1>2. Exclusive
  BY SchedAssumption DEF Init, Exclusive, Has
<1>3. Of(0) = {} /\ \A t \in Threads : Of(t) = {}
  BY DEF Init, Of
<1>4. Filtered
  BY DEF Init, Filtered
<1>5. TraceTellsState /\ Alternates
  BY <1>3 DEF TraceTellsState, Alternates
<1> QED
  BY <1>1, <1>2, <1>4, <1>5 DEF Inv

-----------------------------------------------------------------------------
(* The theorems *)

THEOREM Invariance == Spec => []Inv
<1>1. Inv /\ [Next]_vars => Inv'
  BY InvStep
<1> QED
  BY <1>1, InvInit, PTL DEF Spec

(* The tracer is type correct: no event with a thread, CPU or stack that   *)
(* is none, and never more of them in the ring than it has room for.       *)
THEOREM SchedTypeCorrect == Spec => []TypeOK
<1>1. Inv => TypeOK
  BY DEF Inv
<1> QED
  BY <1>1, Invariance, PTL

(* However the CPUs interleave their switches, the last switch that was    *)
(* traced of a thread tells where the thread is, until an event is dropped.*)
THEOREM TraceTells == Spec => []TraceTellsState
<1>1. Inv => TraceTellsState
  BY DEF Inv
<1> QED
  BY <1>1, Invariance, PTL

(* Until an event is dropped a thread goes on and off by turns, and off    *)
(* the CPU it went on.                                                     *)
THEOREM SwitchesAlternate == Spec => []Alternates
<1>1. Inv => Alternates
  BY DEF Inv
<1> QED
  BY <1>1, Invariance, PTL

(* Only a switch changes the thread a CPU runs, and unless an event has    *)
(* been dropped that very step submits the ON event of a wanted thread.    *)
THEOREM SwitchesTraced == Spec => EverySwitchTraced
<1> DEFINE Traced(t, cpu) ==
      SwitchedTo(t, cpu) /\ Wanted(t) /\ ~dropped' => OnSubmitted(cpu)
<1>1. ASSUME Inv, [Next]_vars
      PROVE  [\A t \in Tids, cpu \in CPUs : Traced(t, cpu)]_vars
  <2> SUFFICES ASSUME NEW t \in Tids, NEW cpu \in CPUs, SwitchedTo(t, cpu),
                      Wanted(t), ~dropped'
               PROVE  OnSubmitted(cpu)
    OBVIOUS
  <2>1. \/ \E c \in CPUs : SwitchOn(c)
        \/ current' = current
    BY <1>1 DEF Next, SwitchOff, Wakeup, Read, vars
  <2>2. PICK c \in CPUs : SwitchOn(c)
    BY <2>1 DEF SwitchedTo
  <2>3. c = cpu /\ picked[cpu] = t /\ current'[cpu] = t
    BY <1>1, <2>2 DEF SwitchOn, SwitchedTo, Inv, TypeOK
  <2>4. OnEvent(cpu) \in Event /\ EmitIfWanted(OnEvent(cpu))
    BY <1>1, <2>2, <2>3, EventTypes DEF SwitchOn, OnEvent, Inv
  <2>5. OnEvent(cpu).tid = t /\ OnEvent(cpu).cpu = cpu
        /\ OnEvent(cpu).event_type = "ON"
    BY <2>3 DEF OnEvent
  <2>6. Submitted(OnEvent(cpu))
    BY <1>1, <2>4, <2>5, Emitted DEF Skipped, Inv
  <2> QED
    BY <2>3, <2>5, <2>6 DEF Submitted, OnSubmitted
<1> QED
  BY <1>1, Invariance, PTL DEF Spec, EverySwitchTraced
=============================================================================
