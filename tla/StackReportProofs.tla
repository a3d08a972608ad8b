------------------------- MODULE StackReportProofs -------------------------
(***************************************************************************)
(* Proofs about StackReport and TraceReport: type correctness; that an id  *)
(* names its stack as long as the event lives; that errors are told once;  *)
(* that streams stay off the default row; and that what is written for a   *)
(* stack are its frames, with their names whole.                           *)
(*                                                                         *)
(* The loops of the code are recursive functions of the number of turns.   *)
(* Recursion shows that there is such a function, by induction for sets of *)
(* numbers.                                                                *)
(***************************************************************************)
EXTENDS TraceReport, SequenceTheorems, WellFoundedInduction, TLAPS

(* The state without history is well typed.                                *)
CaptureType ==
    /\ StackMapTypeOK
    /\ phase \in {"trace", "write"}
    /\ symbolizer \in BOOLEAN
    /\ events \in Seq(Event)
    /\ running \in [Pids -> Programs \cup {Gone}]

-----------------------------------------------------------------------------
(* The map of stacks *)

(* bpf_get_stackid never changes a bucket that is in use, and the id it    *)
(* returns names a bucket with the stack's hash; the stack itself, if      *)
(* stacks are compared.                                                    *)
LEMMA GetStackIdCorrect ==
    ASSUME StackMapTypeOK,
           NEW stack \in Stacks, NEW fast \in BOOLEAN, NEW sid \in Ids \cup {-1},
           GetStackId(stack, fast, sid)
    PROVE  /\ StackMapTypeOK'
           /\ \A id \in Ids : stack_traces[id] # NoEntry =>
                 stack_traces'[id] = stack_traces[id]
           /\ sid >= 0 =>
                 /\ sid \in Ids
                 /\ stack_traces'[sid] # NoEntry
                 /\ Hash[stack_traces'[sid]] = Hash[stack]
                 /\ ~fast => stack_traces'[sid] = stack
<1>1. Bucket(stack) \in Ids
  BY StackMapAssumption DEF Bucket, Ids
<1>2. sid >= 0 => sid \in Ids
  BY DEF Ids
<1>3. CASE SameStack(Bucket(stack), stack, fast) /\ sid = Bucket(stack)
           /\ UNCHANGED stack_traces
  BY <1>1, <1>3 DEF SameStack, InUse, StackMapTypeOK
<1>4. CASE /\ Bucket(stack) \notin InUse
           /\ sid = Bucket(stack)
           /\ stack_traces' = [stack_traces EXCEPT ![Bucket(stack)] = stack]
  BY <1>1, <1>4, StackMapAssumption DEF InUse, StackMapTypeOK
<1>5. CASE sid = -1 /\ UNCHANGED stack_traces
  BY <1>5 DEF StackMapTypeOK
<1> QED
  BY <1>3, <1>4, <1>5 DEF GetStackId

-----------------------------------------------------------------------------
(* The events *)

(* The bucket of an event stays in use, and has its stack's hash or stack. *)
IdsInv ==
    \A i \in DOMAIN events :
        /\ stack_traces[events[i].stack_id] # NoEntry
        /\ Names(events[i], stack_traces[events[i].stack_id])

(* A step of the map that leaves the events alone.                         *)
LEMMA EventsKept ==
    ASSUME CaptureType, IdsInv, UNCHANGED events,
           \A id \in Ids : stack_traces[id] # NoEntry =>
                 stack_traces'[id] = stack_traces[id]
    PROVE  IdsInv'
<1>1. \A i \in DOMAIN events : events[i].stack_id \in Ids
  BY DEF CaptureType, Event
<1> QED
  BY <1>1 DEF IdsInv, Names

(* A step of the map that records an event.                                *)
LEMMA EventRecorded ==
    ASSUME CaptureType, IdsInv,
           NEW e \in Event, NEW fast \in BOOLEAN, NEW sid \in Ids \cup {-1},
           GetStackId(e.stack, fast, sid),
           sid >= 0 => e.stack_id = sid,
           e.source = "CPU" => ~fast,
           Record(e, sid)
    PROVE  /\ StackMapTypeOK'
           /\ events' \in Seq(Event)
           /\ IdsInv'
<1>1. e.stack \in Stacks
  BY DEF Event
<1>2. /\ StackMapTypeOK'
      /\ \A id \in Ids : stack_traces[id] # NoEntry =>
            stack_traces'[id] = stack_traces[id]
      /\ sid >= 0 =>
            /\ sid \in Ids
            /\ stack_traces'[sid] # NoEntry
            /\ Hash[stack_traces'[sid]] = Hash[e.stack]
            /\ ~fast => stack_traces'[sid] = e.stack
  BY <1>1, GetStackIdCorrect DEF CaptureType
<1>3. CASE sid < 0
  <2>1. UNCHANGED events
    BY <1>3 DEF Record
  <2> QED
    BY <1>2, <2>1, EventsKept DEF CaptureType
<1>4. CASE sid >= 0
  <2>1. events' = Append(events, e)
    BY <1>4 DEF Record, Ids
  <2>2. events \in Seq(Event)
    BY DEF CaptureType
  <2>3. events' \in Seq(Event)
    BY <2>1, <2>2
  <2>4. SUFFICES ASSUME NEW i \in DOMAIN events'
                 PROVE  /\ stack_traces'[events'[i].stack_id] # NoEntry
                        /\ Names(events'[i],
                                 stack_traces'[events'[i].stack_id])
    BY <1>2, <2>3 DEF IdsInv, Names
  <2>5. CASE i \in DOMAIN events
    <3>1. events'[i] = events[i] /\ events[i].stack_id \in Ids
      BY <2>1, <2>2, <2>5 DEF Event
    <3> QED
      BY <1>2, <2>5, <3>1 DEF IdsInv, Names
  <2>6. CASE i \notin DOMAIN events
    <3>1. events'[i] = e
      BY <2>1, <2>2, <2>6
    <3> QED
      BY <1>2, <1>4, <3>1 DEF Names
  <2> QED
    BY <2>5, <2>6
<1> QED
  BY <1>3, <1>4 DEF Ids

LEMMA CaptureStep ==
    ASSUME CaptureType, IdsInv, [Next]_vars
    PROVE  CaptureType' /\ IdsInv'
<1>1. ASSUME NEW pid \in Pids, NEW prev \in Pids, NEW stack \in Stacks,
             NEW sid \in Ids \cup {-1}, CaptureOn(prev, pid, stack, sid)
      PROVE  CaptureType' /\ IdsInv'
  <2> DEFINE id == IF sid < 0 THEN 0 ELSE sid
             e == [source |-> "CPU", pid |-> pid, stack_id |-> id,
                   stack |-> stack, owner |-> prev, program |-> running[prev]]
  <2>1. e \in Event
    BY <1>1, StackMapAssumption
    DEF CaptureOn, Capture, CaptureType, Event, Ids
  <2>2. GetStackId(e.stack, FALSE, sid) /\ Record(e, sid)
    BY <1>1, <2>1 DEF CaptureOn, Capture, Record, Ids
  <2>3. sid >= 0 => e.stack_id = sid
    BY DEF Ids
  <2> HIDE DEF e
  <2>4. StackMapTypeOK' /\ events' \in Seq(Event) /\ IdsInv'
    BY <2>1, <2>2, <2>3, EventRecorded
  <2> QED
    BY <1>1, <2>4 DEF CaptureOn, Capture, CaptureType
<1>2. ASSUME NEW pid \in Pids, NEW stack \in Stacks,
             NEW sid \in Ids \cup {-1}, CaptureCall(pid, stack, sid)
      PROVE  CaptureType' /\ IdsInv'
  <2> DEFINE id == IF sid < 0 THEN 0 ELSE sid
             e == [source |-> "GPU", pid |-> pid, stack_id |-> id,
                   stack |-> stack, owner |-> pid, program |-> running[pid],
                   stream |-> StreamAt[stack]]
  <2>1. e \in Event
    <3>1. id \in Ids /\ running[pid] \in Programs
      BY <1>2, StackMapAssumption DEF CaptureCall, Capture, CaptureType, Ids
    <3>2. StreamAt[stack] \in {StreamAt[s] : s \in Stacks}
      OBVIOUS
    <3> DEFINE program == running[pid]
               stream == StreamAt[stack]
               streams == {StreamAt[s] : s \in Stacks}
    <3> HIDE DEF id, program, stream, streams
    <3>3. program \in Programs /\ stream \in streams /\ id \in Ids
      BY <3>1, <3>2 DEF program, stream, streams
    <3>4. [source |-> "GPU", pid |-> pid, stack_id |-> id, stack |-> stack,
           owner |-> pid, program |-> program, stream |-> stream]
          \in [source : {"GPU"}, pid : Pids, stack_id : Ids, stack : Stacks,
               owner : Pids, program : Programs, stream : streams]
      BY <3>3
    <3> QED
      BY <3>4 DEF Event, program, stream, streams
  <2>2. GetStackId(e.stack, TRUE, sid) /\ Record(e, sid)
    BY <1>2, <2>1 DEF CaptureCall, Capture, Record, Ids
  <2>3. (sid >= 0 => e.stack_id = sid) /\ e.source # "CPU"
    BY DEF Ids
  <2> HIDE DEF e
  <2>4. StackMapTypeOK' /\ events' \in Seq(Event) /\ IdsInv'
    BY <2>1, <2>2, <2>3, EventRecorded
  <2> QED
    BY <1>2, <2>4 DEF CaptureCall, Capture, CaptureType
<1>3. ASSUME NEW stack \in Stacks, NEW sid \in Ids \cup {-1},
             OthersCapture(stack, sid)
      PROVE  CaptureType' /\ IdsInv'
  <2>1. /\ StackMapTypeOK'
        /\ \A id \in Ids : stack_traces[id] # NoEntry =>
              stack_traces'[id] = stack_traces[id]
    BY <1>3, GetStackIdCorrect DEF CaptureType, OthersCapture
  <2> QED
    BY <1>3, <2>1, EventsKept DEF CaptureType, OthersCapture
<1>4. CASE StopTracing
  BY <1>4 DEF StopTracing, CaptureType, StackMapTypeOK, IdsInv, Names
<1>5. ASSUME NEW pid \in Pids, NEW program \in Programs \cup {Gone},
             Become(pid, program)
      PROVE  CaptureType' /\ IdsInv'
  BY <1>5 DEF Become, CaptureType, StackMapTypeOK, IdsInv, Names
<1>6. CASE WriteEvent
  BY <1>6 DEF WriteEvent, CaptureType, StackMapTypeOK, IdsInv, Names
<1>7. CASE NewSession
  BY <1>7 DEF NewSession, CaptureType, StackMapTypeOK, IdsInv, Names
<1>8. CASE UNCHANGED vars
  BY <1>8 DEF vars, CaptureType, StackMapTypeOK, IdsInv, Names
<1> QED
  BY <1>1, <1>2, <1>3, <1>4, <1>5, <1>6, <1>7, <1>8 DEF Next

(* An id handed to an event names a stack with the hash of the captured    *)
(* one, and for the scheduler's events that very stack, until the event is *)
(* written: however many tracers and sessions fill the pinned map, in      *)
(* whatever order, and whatever collides.                                  *)
THEOREM IdsAreStable == Spec => []IdsNameStacks
<1>1. Init => CaptureType /\ IdsInv
  BY StackMapAssumption
  DEF Init, StackMapInit, CaptureType, StackMapTypeOK, IdsInv
<1>2. CaptureType /\ IdsInv /\ [Next]_vars => CaptureType' /\ IdsInv'
  BY CaptureStep
<1>3. IdsInv => IdsNameStacks
  BY DEF IdsInv, IdsNameStacks
<1> QED
  BY <1>1, <1>2, <1>3, PTL DEF Spec

-----------------------------------------------------------------------------
(* The error lines *)

IsSequence(s) == \E S : s \in Seq(S)

LEMMA AppendIsSequence ==
    ASSUME NEW s, NEW x, IsSequence(s)
    PROVE  /\ IsSequence(Append(s, x))
           /\ Len(s) \in Nat
           /\ DOMAIN s = 1 .. Len(s)
           /\ DOMAIN Append(s, x) = 1 .. Len(s) + 1
           /\ \A i \in 1 .. Len(s) : Append(s, x)[i] = s[i]
           /\ Append(s, x)[Len(s) + 1] = x
<1>1. PICK S : s \in Seq(S)
  BY DEF IsSequence
<1>2. s \in Seq(S \cup {x})
  BY <1>1
<1>3. Append(s, x) \in Seq(S \cup {x})
  BY <1>2
<1> QED
  BY <1>2, <1>3 DEF IsSequence

(* What has been written, and for whom a line was printed.                 *)
WrittenInv ==
    /\ IsSequence(written)
    /\ \A i \in DOMAIN written :
          /\ i \in DOMAIN events
          /\ written[i].event = events[i]

ToldInv ==
    /\ logged \subseteq Pids
    /\ told \in Seq(Pids)
    /\ \A pid \in logged : \E j \in DOMAIN told : told[j] = pid
    /\ \A j \in DOMAIN told : told[j] \in logged
    /\ \A i, j \in DOMAIN told : told[i] = told[j] => i = j
    /\ \A i \in DOMAIN written :
          written[i].outcome = "error" => written[i].event.pid \in logged

LEMMA LogErrorCorrect ==
    ASSUME ToldInv, NEW pid \in Pids, LogError(pid)
    PROVE  /\ logged' = logged \cup {pid}
           /\ told' \in Seq(Pids)
           /\ \A p \in logged' : \E j \in DOMAIN told' : told'[j] = p
           /\ \A j \in DOMAIN told' : told'[j] \in logged'
           /\ \A i, j \in DOMAIN told' : told'[i] = told'[j] => i = j
<1>1. CASE pid \in logged
  BY <1>1 DEF LogError, ToldInv
<1>2. CASE pid \notin logged
  <2>1. told' = Append(told, pid) /\ logged' = logged \cup {pid}
    BY <1>2 DEF LogError
  <2>2. told \in Seq(Pids)
    BY DEF ToldInv
  <2>3. /\ told' \in Seq(Pids)
        /\ DOMAIN told = 1 .. Len(told)
        /\ DOMAIN told' = 1 .. Len(told) + 1
        /\ \A i \in 1 .. Len(told) : told'[i] = told[i]
        /\ told'[Len(told) + 1] = pid
        /\ Len(told) \in Nat
    BY <2>1, <2>2
  <2>4. \A p \in logged' : \E j \in DOMAIN told' : told'[j] = p
    <3>1. TAKE p \in logged'
    <3>2. CASE p = pid
      BY <2>3, <3>2
    <3>3. CASE p \in logged
      BY <2>3, <3>3 DEF ToldInv
    <3> QED
      BY <2>1, <3>2, <3>3
  <2>5. \A i, j \in DOMAIN told' : told'[i] = told'[j] => i = j
    BY <1>2, <2>3 DEF ToldInv
  <2> QED
    BY <2>1, <2>3, <2>4, <2>5 DEF ToldInv
<1> QED
  BY <1>1, <1>2

LEMMA WriteStep ==
    ASSUME CaptureType, WrittenInv, ToldInv, WriteEvent
    PROVE  WrittenInv' /\ ToldInv'
<1> DEFINE n == Len(written) + 1
           e == events[n]
<1>1. Len(written) \in Nat /\ DOMAIN written = 1 .. Len(written)
  BY AppendIsSequence DEF WrittenInv
<1>2. n \in DOMAIN events /\ e \in Event
  BY <1>1 DEF WriteEvent, CaptureType
<1>3. e.pid \in Pids
  BY <1>2 DEF Event
<1>4. PICK outcome, array :
          /\ Written(e, outcome, array)
          /\ IF outcome = "error" THEN LogError(e.pid)
             ELSE UNCHANGED <<logged, told>>
  BY DEF WriteEvent, EmitStack
<1> DEFINE w == [event |-> e, program |-> running[e.pid],
                 outcome |-> outcome, array |-> array]
<1>5. written' = Append(written, w)
  BY <1>4 DEF Written
<1>6. w.event = e /\ w.outcome = outcome
  OBVIOUS
<1> HIDE DEF w
<1>7. /\ IsSequence(written')
      /\ DOMAIN written' = 1 .. n
      /\ \A i \in 1 .. Len(written) : written'[i] = written[i]
      /\ written'[n] = w
  BY <1>5, AppendIsSequence DEF WrittenInv
<1>8. UNCHANGED events
  BY DEF WriteEvent
<1>9. WrittenInv'
  BY <1>1, <1>2, <1>6, <1>7, <1>8 DEF WrittenInv
<1>10. CASE outcome = "error"
  <2>1. LogError(e.pid)
    BY <1>4, <1>10
  <2>2. /\ logged' = logged \cup {e.pid}
        /\ told' \in Seq(Pids)
        /\ \A p \in logged' : \E j \in DOMAIN told' : told'[j] = p
        /\ \A j \in DOMAIN told' : told'[j] \in logged'
        /\ \A i, j \in DOMAIN told' : told'[i] = told'[j] => i = j
    BY <1>3, <2>1, LogErrorCorrect
  <2>3. ASSUME NEW i \in DOMAIN written', written'[i].outcome = "error"
        PROVE  written'[i].event.pid \in logged'
    <3>1. CASE i = n
      BY <1>6, <1>7, <2>2, <3>1
    <3>2. CASE i \in 1 .. Len(written)
      BY <1>1, <1>7, <2>2, <2>3, <3>2 DEF ToldInv
    <3> QED
      BY <1>1, <1>7, <3>1, <3>2
  <2>4. logged' \subseteq Pids
    BY <1>3, <2>2 DEF ToldInv
  <2>5. ToldInv'
    BY <2>2, <2>3, <2>4 DEF ToldInv
  <2> QED
    BY <1>9, <2>5
<1>11. CASE outcome # "error"
  <2>1. UNCHANGED <<logged, told>>
    BY <1>4, <1>11
  <2> QED
    BY <1>1, <1>6, <1>7, <1>9, <1>11, <2>1 DEF ToldInv
<1> QED
  BY <1>10, <1>11

(* Recording an event leaves the events that are written in their places.  *)
LEMMA RecordStep ==
    ASSUME CaptureType, WrittenInv, ToldInv,
           NEW e, NEW sid, Record(e, sid), UNCHANGED <<written, logged, told>>
    PROVE  WrittenInv' /\ ToldInv'
<1>1. \A i \in DOMAIN events : i \in DOMAIN events' /\ events'[i] = events[i]
  <2>1. CASE sid < 0
    BY <2>1 DEF Record
  <2>2. CASE ~(sid < 0)
    <3>1. events' = Append(events, e) /\ IsSequence(events)
      BY <2>2 DEF Record, CaptureType, IsSequence
    <3> QED
      BY <3>1, AppendIsSequence
  <2> QED
    BY <2>1, <2>2
<1> QED
  BY <1>1 DEF WrittenInv, ToldInv

LEMMA ToldStep ==
    ASSUME CaptureType, WrittenInv, ToldInv, [Next]_vars
    PROVE  WrittenInv' /\ ToldInv'
<1>1. ASSUME NEW pid \in Pids, NEW prev \in Pids, NEW stack \in Stacks,
             NEW sid \in Ids \cup {-1}, CaptureOn(prev, pid, stack, sid)
      PROVE  WrittenInv' /\ ToldInv'
  BY <1>1, RecordStep DEF CaptureOn, Capture
<1>2. ASSUME NEW pid \in Pids, NEW stack \in Stacks,
             NEW sid \in Ids \cup {-1}, CaptureCall(pid, stack, sid)
      PROVE  WrittenInv' /\ ToldInv'
  BY <1>2, RecordStep DEF CaptureCall, Capture
<1>3. CASE UNCHANGED <<events, written, logged, told>>
  BY <1>3 DEF WrittenInv, ToldInv
<1>4. CASE WriteEvent
  BY <1>4, WriteStep
<1>5. CASE NewSession
  <2>1. << >> \in Seq({}) /\ << >> \in Seq(Pids) /\ DOMAIN << >> = {}
    OBVIOUS
  <2> QED
    BY <1>5, <2>1 DEF NewSession, WrittenInv, ToldInv, IsSequence
<1> QED
  BY <1>1, <1>2, <1>3, <1>4, <1>5
  DEF Next, vars, OthersCapture, StopTracing, Become

LEMMA InitOK == Init => CaptureType /\ IdsInv /\ WrittenInv /\ ToldInv
<1> SUFFICES ASSUME Init
             PROVE  CaptureType /\ IdsInv /\ WrittenInv /\ ToldInv
  OBVIOUS
<1>1. << >> \in Seq({}) /\ << >> \in Seq(Pids) /\ DOMAIN << >> = {}
  OBVIOUS
<1>2. CaptureType /\ IdsInv
  BY StackMapAssumption
  DEF Init, StackMapInit, CaptureType, StackMapTypeOK, IdsInv
<1>3. WrittenInv /\ ToldInv
  BY <1>1 DEF Init, WrittenInv, ToldInv, IsSequence
<1> QED
  BY <1>2, <1>3

(* The state stays well typed: in particular each array written is of the  *)
(* event at its place, in the order of the events.                         *)
THEOREM ReportTypeCorrect == Spec => []TypeOK
<1>1. CaptureType /\ WrittenInv /\ ToldInv => TypeOK
  BY DEF CaptureType, WrittenInv, ToldInv, TypeOK
<1>2. CaptureType /\ IdsInv /\ WrittenInv /\ ToldInv /\ [Next]_vars
      => (CaptureType /\ IdsInv /\ WrittenInv /\ ToldInv)'
  BY CaptureStep, ToldStep
<1> QED
  BY InitOK, <1>1, <1>2, PTL DEF Spec

(* already_logged does what its comment says for any number of processes   *)
(* and events: a process whose stacks could not be resolved is named in    *)
(* exactly one line of the session.                                        *)
THEOREM ToldOnce == Spec => []ErrorsToldOnce
<1>1. ToldInv => ErrorsToldOnce
  BY DEF ToldInv, ErrorsToldOnce
<1>2. CaptureType /\ IdsInv /\ WrittenInv /\ ToldInv /\ [Next]_vars
      => (CaptureType /\ IdsInv /\ WrittenInv /\ ToldInv)'
  BY CaptureStep, ToldStep
<1> QED
  BY InitOK, <1>1, <1>2, PTL DEF Spec

-----------------------------------------------------------------------------
(* Induction and recursion *)

LEMMA Induction ==
  ASSUME NEW S \in SUBSET Nat, 0 \in S, \A n \in S : n + 1 \in S
  PROVE  S = Nat
<1> SUFFICES ASSUME Nat \ S # {} PROVE FALSE
  OBVIOUS
<1>1. \E x \in Nat \ S : \A y \in Nat \ S : ~(<<y, x>> \in OpToRel(<, Nat))
  <2>1. IsWellFoundedOn(OpToRel(<, Nat), Nat)
    BY NatLessThanWellFounded
  <2> HIDE DEF OpToRel
  <2> QED
    BY <2>1, WFMin
<1>2. PICK x \in Nat \ S : \A y \in Nat \ S : ~(y < x)
  BY <1>1 DEF OpToRel
<1>3. x # 0 /\ x - 1 \in Nat /\ x - 1 < x
  BY <1>2
<1> QED
  BY <1>2, <1>3

(* Up to a bound it is enough that the bound is not yet reached.           *)
LEMMA InductionTo ==
  ASSUME NEW N \in Nat, NEW S, 0 \in S,
         \A n \in 0 .. N - 1 : n \in S => n + 1 \in S
  PROVE  0 .. N \subseteq S
<1> DEFINE T == {n \in Nat : n <= N => n \in S}
<1>1. 0 \in T
  OBVIOUS
<1>2. \A n \in T : n + 1 \in T
  OBVIOUS
<1>3. T = Nat
  <2> HIDE DEF T
  <2>1. T \in SUBSET Nat
    BY DEF T
  <2> QED
    BY <1>1, <1>2, <2>1, Induction
<1> QED
  BY <1>3

(* A loop of N turns on the set S, and what it has after each of them.     *)
Turns(N, S) == [1 .. N -> [S -> S]]

RunOf(f, N, S, start, turn) ==
    /\ f \in [0 .. N -> S]
    /\ f[0] = start
    /\ \A n \in 1 .. N : f[n] = turn[n][f[n - 1]]

LEMMA Recursion ==
  ASSUME NEW N \in Nat, NEW S, NEW start \in S, NEW turn \in Turns(N, S)
  PROVE  \E f : RunOf(f, N, S, start, turn)
<1> USE DEF Turns
<1> DEFINE Runs(f, m) == RunOf(f, m, S, start, turn)
           Reached == {m \in 0 .. N : \E f : Runs(f, m)}
<1> USE DEF RunOf
<1>1. 0 \in Reached
  <2> DEFINE g == [n \in 0 .. 0 |-> start]
  <2>1. Runs(g, 0)
    OBVIOUS
  <2> HIDE DEF Runs
  <2> QED
    BY <2>1
<1>2. ASSUME NEW m \in 0 .. N - 1, m \in Reached PROVE m + 1 \in Reached
  <2>1. PICK f : Runs(f, m)
    BY <1>2
  <2> DEFINE g == [n \in 0 .. m + 1 |->
                      IF n = m + 1 THEN turn[n][f[m]] ELSE f[n]]
  <2>2. m + 1 \in 1 .. N /\ f[m] \in S
    BY <2>1
  <2>3. turn[m + 1][f[m]] \in S
    BY <2>2
  <2>4. g \in [0 .. m + 1 -> S] /\ g[0] = start
    BY <2>1, <2>3
  <2>5. ASSUME NEW n \in 1 .. m + 1
        PROVE  g[n] = turn[n][g[n - 1]]
    <3>1. CASE n = m + 1
      <4>1. g[n] = turn[n][f[m]] /\ n - 1 = m /\ g[m] = f[m]
        BY <3>1
      <4> QED
        BY <4>1
    <3>2. CASE n # m + 1
      <4>1. n \in 1 .. m /\ g[n] = f[n] /\ g[n - 1] = f[n - 1]
        BY <3>2
      <4> QED
        BY <2>1, <4>1
    <3> QED
      BY <3>1, <3>2
  <2>6. Runs(g, m + 1)
    BY <2>4, <2>5
  <2> HIDE DEF Runs
  <2> QED
    BY <2>2, <2>6
<1>3. 0 .. N \subseteq Reached
  <2> HIDE DEF Reached
  <2> QED
    BY <1>1, <1>2, InductionTo
<1> QED
  BY <1>3

-----------------------------------------------------------------------------
(* Rows of streams *)

(* Eight bits make a byte.                                                 *)
LEMMA Bits ==
  ASSUME NEW a \in 0 .. 1, NEW b \in 0 .. 1, NEW c \in 0 .. 1, NEW d \in 0 .. 1,
         NEW e \in 0 .. 1, NEW f \in 0 .. 1, NEW g \in 0 .. 1, NEW h \in 0 .. 1,
         NEW byte, byte = a + 2 * b + 4 * c + 8 * d + 16 * e + 32 * f
                          + 64 * g + 128 * h
  PROVE  /\ byte \in 0 .. 255
         /\ (byte \div 1) % 2 = a
         /\ (byte \div 2) % 2 = b
         /\ (byte \div 4) % 2 = c
         /\ (byte \div 8) % 2 = d
         /\ (byte \div 16) % 2 = e
         /\ (byte \div 32) % 2 = f
         /\ (byte \div 64) % 2 = g
         /\ (byte \div 128) % 2 = h
<1>1. byte \in 0 .. 255
  OBVIOUS
<1>2. (byte \div 1) % 2 = a
  OBVIOUS
<1>3. (byte \div 2) % 2 = b
  OBVIOUS
<1>4. (byte \div 4) % 2 = c
  OBVIOUS
<1>5. (byte \div 8) % 2 = d
  OBVIOUS
<1>6. (byte \div 16) % 2 = e
  OBVIOUS
<1>7. (byte \div 32) % 2 = f
  OBVIOUS
<1>8. (byte \div 64) % 2 = g
  OBVIOUS
<1>9. (byte \div 128) % 2 = h
  OBVIOUS
<1> QED
  BY <1>1, <1>2, <1>3, <1>4, <1>5, <1>6, <1>7, <1>8, <1>9

LEMMA XorByteIsByte ==
  ASSUME NEW m \in Nat, NEW n \in Nat
  PROVE  XorByte(m, n) \in 0 .. 255
<1> DEFINE Bit(p) == ((m \div p) + (n \div p)) % 2
           byte == Bit(1) + 2 * Bit(2) + 4 * Bit(4) + 8 * Bit(8)
                   + 16 * Bit(16) + 32 * Bit(32) + 64 * Bit(64) + 128 * Bit(128)
<1>1. \A p \in {1, 2, 4, 8, 16, 32, 64, 128} : Bit(p) \in 0 .. 1
  <2>1. ASSUME NEW p \in {1, 2, 4, 8, 16, 32, 64, 128} PROVE Bit(p) \in 0 .. 1
    <3>1. m \div p \in Nat /\ n \div p \in Nat
      OBVIOUS
    <3> QED
      BY <3>1
  <2> QED
    BY <2>1
<1>2. \E r \in 0 .. 255 : \A p \in {1, 2, 4, 8, 16, 32, 64, 128} :
         (r \div p) % 2 = Bit(p)
  <2> HIDE DEF Bit
  <2>1. /\ byte \in 0 .. 255
        /\ (byte \div 1) % 2 = Bit(1)
        /\ (byte \div 2) % 2 = Bit(2)
        /\ (byte \div 4) % 2 = Bit(4)
        /\ (byte \div 8) % 2 = Bit(8)
        /\ (byte \div 16) % 2 = Bit(16)
        /\ (byte \div 32) % 2 = Bit(32)
        /\ (byte \div 64) % 2 = Bit(64)
        /\ (byte \div 128) % 2 = Bit(128)
    BY <1>1, Bits
  <2> HIDE DEF byte
  <2> QED
    BY <2>1
<1> QED
  BY <1>2 DEF XorByte

(* A stream is moved off the default row, and only a stream.               *)
LEMMA StreamOffsets ==
  ASSUME NEW stream \in Nat \X Nat
  PROVE  /\ StreamOffset(stream) \in 0 .. 255
         /\ StreamOffset(stream) = 0 <=> stream = DefaultStream
<1>1. XorByte(stream[2], stream[1]) \in 0 .. 255
  BY XorByteIsByte
<1> QED
  BY <1>1 DEF StreamOffset

LEMMA RowOfIs ==
  ASSUME NEW e
  PROVE  RowOf(e) = e.pid + GpuTidBase + StreamOffset(e.stream)
<1> DEFINE call == [tid |-> e.pid, stream |-> e.stream, duration |-> 1]
           row == [ph |-> "X", ts |-> 0, dur |-> call.duration,
                   tid |-> GpuVirtualTid(call.tid, call.stream)]
<1>1. GpuRow(Start, call, 0).rows = Append(<< >>, row)
  BY DEF GpuRow, Start
<1>2. row.tid = e.pid + GpuTidBase + StreamOffset(e.stream)
  BY DEF GpuVirtualTid
<1> HIDE DEF row
<1>3. Append(<< >>, row) = <<row>>
  OBVIOUS
<1>4. Last(<<row>>) = row
  BY DEF Last
<1> QED
  BY <1>1, <1>2, <1>3, <1>4 DEF RowOf

(* Whatever the handles of a thread's streams, the row of its default      *)
(* stream is kept for it: the mixing of a handle never gives the row       *)
(* number the default stream has.                                          *)
THEOREM DefaultRowKept == Spec => []OwnDefaultRowClean
<1>1. CaptureType => OwnDefaultRowClean
  <2> SUFFICES ASSUME CaptureType, NEW i \in DOMAIN events, NEW j \in DOMAIN events,
                      events[i].source = "GPU", events[j].source = "GPU",
                      events[i].pid = events[j].pid,
                      events[i].stream = DefaultStream,
                      events[j].stream # DefaultStream
               PROVE  RowOf(events[i]) # RowOf(events[j])
    BY DEF OwnDefaultRowClean
  <2>1. events[i] \in Event /\ events[j] \in Event
    BY DEF CaptureType
  <2>2. /\ events[i].stream \in Nat \X Nat
        /\ events[j].stream \in Nat \X Nat
        /\ events[i].pid \in Nat
    BY <2>1, TraceReportAssumption DEF Event
  <2> DEFINE k == StreamOffset(events[i].stream)
             l == StreamOffset(events[j].stream)
             pid == events[i].pid
  <2>3. k \in 0 .. 255 /\ l \in 0 .. 255 /\ k = 0 /\ l # 0 /\ pid \in Nat
    BY <2>2, StreamOffsets
  <2>4. RowOf(events[i]) = pid + GpuTidBase + k
    BY RowOfIs
  <2>5. RowOf(events[j]) = pid + GpuTidBase + l
    BY RowOfIs
  <2>6. GpuTidBase \in Nat
    BY ChromeAssumption
  <2> HIDE DEF k, l, pid
  <2> QED
    BY <2>3, <2>4, <2>5, <2>6
<1>2. CaptureType /\ IdsInv /\ [Next]_vars => CaptureType' /\ IdsInv'
  BY CaptureStep
<1>3. Init => CaptureType /\ IdsInv
  BY InitOK
<1> QED
  BY <1>1, <1>2, <1>3, PTL DEF Spec

-----------------------------------------------------------------------------
(* Names *)

(* Any texts, and those of Unresolved: that "?" is a text is not known to  *)
(* the provers.                                                            *)
Characters == STRING \cup {"?"}

LEMMA WidthIs ==
  ASSUME NEW c
  PROVE  /\ Width(c) \in Nat
         /\ c # "ctrl" => Width(c) <= 2
BY DEF Width

LEMMA WidthsIs ==
  ASSUME NEW C, NEW text \in Seq(C)
  PROVE  /\ Widths(text) \in [0 .. Len(text) -> Nat]
         /\ Widths(text)[0] = 0
         /\ \A n \in 1 .. Len(text) :
               Widths(text)[n] = Widths(text)[n - 1] + Width(text[n])
<1> DEFINE N == Len(text)
           turn == [n \in 1 .. N |-> [w \in Nat |-> w + Width(text[n])]]
           Body(f) == [n \in 0 .. N |->
                          IF n = 0 THEN 0 ELSE f[n - 1] + Width(text[n])]
           widths == Widths(text)
<1>1. N \in Nat /\ 0 \in Nat /\ turn \in Turns(N, Nat)
  BY WidthIs DEF Turns
<1>2. PICK f : RunOf(f, N, Nat, 0, turn)
  <2> HIDE DEF turn, N
  <2> QED
    BY <1>1, Recursion
<1>3. f = Body(f)
  <2>0. f \in [0 .. N -> Nat]
    BY <1>2 DEF RunOf
  <2>1. ASSUME NEW n \in 0 .. N
        PROVE  f[n] = IF n = 0 THEN 0 ELSE f[n - 1] + Width(text[n])
    <3>1. CASE n = 0
      BY <1>2, <3>1 DEF RunOf
    <3>2. CASE n # 0
      <4>1. n \in 1 .. N /\ n - 1 \in 0 .. N
        BY <1>1, <3>2
      <4>2. f[n] = turn[n][f[n - 1]] /\ f[n - 1] \in Nat
        BY <1>2, <4>1 DEF RunOf
      <4> QED
        BY <3>2, <4>1, <4>2
    <3> QED
      BY <3>1, <3>2
  <2> QED
    BY <2>0, <2>1
<1>4. widths = Body(widths)
  BY <1>3, Zenon DEF Widths
<1> HIDE DEF widths
<1>5. widths[0] = 0 /\ \A n \in 1 .. N : widths[n] = widths[n - 1] + Width(text[n])
  BY <1>1, <1>4
<1>6. 0 .. N \subseteq {n \in 0 .. N : widths[n] \in Nat}
  <2> DEFINE S == {n \in 0 .. N : widths[n] \in Nat}
  <2>1. 0 \in S
    BY <1>1, <1>5
  <2>2. \A n \in 0 .. N - 1 : n \in S => n + 1 \in S
    BY <1>1, <1>5, WidthIs
  <2> HIDE DEF S, N
  <2>3. 0 .. N \subseteq S
    BY <1>1, <2>1, <2>2, InductionTo
  <2> QED
    BY <2>3 DEF S
<1>7. widths \in [0 .. N -> Nat]
  BY <1>4, <1>6
<1> QED
  BY <1>5, <1>7 DEF widths

(* The width of a text grows with each character by that of the character. *)
LEMMA TextWidthAppend ==
  ASSUME NEW C, NEW text \in Seq(C), NEW c \in C
  PROVE  TextWidth(Append(text, c)) = TextWidth(text) + Width(c)
<1> DEFINE N == Len(text)
           more == Append(text, c)
<1>1. /\ N \in Nat
      /\ more \in Seq(C)
      /\ Len(more) = N + 1
      /\ \A n \in 1 .. N : more[n] = text[n]
      /\ more[N + 1] = c
  OBVIOUS
<1> HIDE DEF more
<1>2. /\ Widths(text) \in [0 .. N -> Nat]
      /\ Widths(text)[0] = 0
      /\ \A n \in 1 .. N : Widths(text)[n] = Widths(text)[n - 1] + Width(text[n])
  BY WidthsIs
<1>3. /\ Widths(more) \in [0 .. N + 1 -> Nat]
      /\ Widths(more)[0] = 0
      /\ \A n \in 1 .. N + 1 :
            Widths(more)[n] = Widths(more)[n - 1] + Width(more[n])
  BY <1>1, WidthsIs
<1> DEFINE S == {n \in 0 .. N : Widths(more)[n] = Widths(text)[n]}
<1> HIDE DEF N
<1>4. 0 .. N \subseteq S
  <2>1. 0 \in S
    BY <1>1, <1>2, <1>3
  <2>2. \A n \in 0 .. N - 1 : n \in S => n + 1 \in S
    BY <1>1, <1>2, <1>3
  <2> HIDE DEF S
  <2> QED
    BY <1>1, <2>1, <2>2, InductionTo
<1>5. Widths(more)[N] = Widths(text)[N]
  BY <1>1, <1>4
<1>6. Widths(more)[N + 1] = Widths(more)[N] + Width(c)
  BY <1>1, <1>3
<1> QED
  BY <1>1, <1>5, <1>6 DEF TextWidth, more, N

(* What json_escape has when it has seen n characters: it has written the  *)
(* first of them, and all unless it has stopped; di is their width.        *)
Escaped(s, src, n) ==
    /\ s.text \in Seq(Characters)
    /\ s.stopped \in BOOLEAN
    /\ Len(s.text) <= n
    /\ ~s.stopped => Len(s.text) = n
    /\ \A i \in 1 .. Len(s.text) : s.text[i] = src[i]
    /\ s.di = TextWidth(s.text)
    /\ s.di < DstLen

Escapings == [text : Seq(Characters), di : Nat, stopped : BOOLEAN]

LEMMA EscapeTyped ==
  ASSUME NEW s \in Escapings, NEW c \in Characters
  PROVE  Escape(s, c) \in Escapings
<1>1. Append(s.text, c) \in Seq(Characters) /\ s.di + Width(c) \in Nat
  BY WidthIs DEF Escapings
<1> QED
  BY <1>1 DEF Escape, Escapings

LEMMA EscapingIs ==
  ASSUME NEW src \in Seq(Characters)
  PROVE  /\ Escaping(src) \in [0 .. Len(src) -> Escapings]
         /\ Escaping(src)[0] = Unescaped
         /\ \A n \in 1 .. Len(src) :
               Escaping(src)[n] = Escape(Escaping(src)[n - 1], src[n])
<1> DEFINE N == Len(src)
           turn == [n \in 1 .. N |-> [s \in Escapings |-> Escape(s, src[n])]]
           Body(f) == [n \in 0 .. N |->
                          IF n = 0 THEN Unescaped ELSE Escape(f[n - 1], src[n])]
           after == Escaping(src)
<1>1. N \in Nat /\ \A n \in 1 .. N : src[n] \in Characters
  OBVIOUS
<1>2. Unescaped \in Escapings
  BY DEF Unescaped, Escapings
<1>3. turn \in Turns(N, Escapings)
  BY <1>1, EscapeTyped DEF Turns
<1>4. PICK f : RunOf(f, N, Escapings, Unescaped, turn)
  <2> HIDE DEF turn, N
  <2> QED
    BY <1>1, <1>2, <1>3, Recursion
<1>5. f = Body(f)
  <2>0. f \in [0 .. N -> Escapings]
    BY <1>4 DEF RunOf
  <2>1. ASSUME NEW n \in 0 .. N
        PROVE  f[n] = IF n = 0 THEN Unescaped ELSE Escape(f[n - 1], src[n])
    <3>1. CASE n = 0
      BY <1>4, <3>1 DEF RunOf
    <3>2. CASE n # 0
      <4>1. n \in 1 .. N /\ n - 1 \in 0 .. N
        BY <1>1, <3>2
      <4>2. f[n] = turn[n][f[n - 1]] /\ f[n - 1] \in Escapings
        BY <1>4, <4>1 DEF RunOf
      <4> QED
        BY <3>2, <4>1, <4>2
    <3> QED
      BY <3>1, <3>2
  <2> QED
    BY <2>0, <2>1
<1>6. after = Body(after)
  BY <1>5, Zenon DEF Escaping
<1> HIDE DEF after
<1>7. /\ after[0] = Unescaped
      /\ \A n \in 1 .. N : after[n] = Escape(after[n - 1], src[n])
  BY <1>1, <1>6
<1>8. 0 .. N \subseteq {n \in 0 .. N : after[n] \in Escapings}
  <2> DEFINE S == {n \in 0 .. N : after[n] \in Escapings}
  <2>1. 0 \in S
    BY <1>1, <1>2, <1>7
  <2>2. ASSUME NEW n \in 0 .. N - 1, n \in S PROVE n + 1 \in S
    <3> DEFINE m == n + 1
    <3>1. m \in 1 .. N /\ m - 1 = n
      BY <1>1
    <3> HIDE DEF m
    <3>2. after[m] = Escape(after[n], src[m])
      BY <1>7, <3>1
    <3>3. after[m] \in Escapings
      BY <1>1, <2>2, <3>1, <3>2, EscapeTyped
    <3> QED
      BY <3>1, <3>3 DEF m
  <2> HIDE DEF S, N
  <2>3. 0 .. N \subseteq S
    BY <1>1, <2>1, <2>2, InductionTo
  <2> QED
    BY <2>3 DEF S
<1>9. after \in [0 .. N -> Escapings]
  BY <1>6, <1>8
<1> QED
  BY <1>7, <1>9 DEF after

LEMMA EscapeKeeps ==
  ASSUME NEW src \in Seq(Characters), NEW n \in 0 .. Len(src) - 1,
         NEW s \in Escapings, Escaped(s, src, n),
         NEW m, m = n + 1
  PROVE  Escaped(Escape(s, src[m]), src, m)
<1> DEFINE c == src[m]
<1>1. Len(src) \in Nat /\ n \in Nat /\ m \in 1 .. Len(src) /\ c \in Characters
  OBVIOUS
<1>2. s.text \in Seq(Characters) /\ s.di \in Nat /\ s.stopped \in BOOLEAN
  BY DEF Escapings
<1>3. Width(c) \in Nat
  BY WidthIs
<1> HIDE DEF c
<1>4. CASE ~s.stopped /\ Fits(s.di, c)
  <2> DEFINE more == Append(s.text, c)
             r == [text |-> more, di |-> s.di + Width(c), stopped |-> s.stopped]
  <2>1. Escape(s, c) = r
    BY <1>4 DEF Escape, Escapings
  <2>2. /\ more \in Seq(Characters)
        /\ Len(more) = Len(s.text) + 1
        /\ Len(s.text) \in Nat
        /\ \A i \in 1 .. Len(s.text) : more[i] = s.text[i]
        /\ more[Len(s.text) + 1] = c
    BY <1>1, <1>2
  <2>3. TextWidth(more) = TextWidth(s.text) + Width(c)
    BY <1>1, <1>2, TextWidthAppend
  <2>4. Len(s.text) = n
    BY <1>4 DEF Escaped
  <2>5. Len(more) = m
    BY <2>2, <2>4
  <2>6. \A i \in 1 .. Len(more) : more[i] = src[i]
    BY <2>2, <2>4 DEF Escaped, c
  <2>7. s.di + Width(c) = TextWidth(more)
    BY <2>3 DEF Escaped
  <2>8. s.di + Width(c) < DstLen
    BY <1>2, <1>3, <1>4, JsonEscapeAssumption DEF Fits, DstLen
  <2> HIDE DEF more
  <2>9. Escaped(r, src, m)
    BY <1>1, <1>2, <2>2, <2>5, <2>6, <2>7, <2>8 DEF Escaped
  <2> QED
    BY <2>1, <2>9 DEF c
<1>5. CASE ~(~s.stopped /\ Fits(s.di, c))
  <2> DEFINE r == [text |-> s.text, di |-> s.di, stopped |-> TRUE]
  <2>1. Escape(s, c) = r
    BY <1>5 DEF Escape, Escapings
  <2>2. Len(s.text) \in Nat
    BY <1>2
  <2>3. Escaped(r, src, m)
    BY <1>1, <1>2, <2>2 DEF Escaped
  <2> QED
    BY <2>1, <2>3 DEF c
<1> QED
  BY <1>4, <1>5

LEMMA UnescapedEscaped ==
  ASSUME NEW src \in Seq(Characters)
  PROVE  Escaped(Unescaped, src, 0)
<1>1. << >> \in Seq(Characters) /\ Len(<< >>) = 0
  OBVIOUS
<1>2. TextWidth(<< >>) = 0
  BY <1>1, WidthsIs DEF TextWidth
<1> QED
  BY <1>1, <1>2, JsonEscapeAssumption DEF Escaped, Unescaped, DstLen

(* The text json_escape writes is the beginning of src and fits its buffer *)
(* with the NUL.                                                           *)
LEMMA JsonEscapeFits ==
  ASSUME NEW src \in Seq(Characters)
  PROVE  /\ json_escape(src) \in Seq(Characters)
         /\ Len(json_escape(src)) <= Len(src)
         /\ \A i \in 1 .. Len(json_escape(src)) : json_escape(src)[i] = src[i]
         /\ TextWidth(json_escape(src)) < DstLen
<1> DEFINE N == Len(src)
           S == {n \in 0 .. N : Escaped(Escaping(src)[n], src, n)}
<1>1. N \in Nat
  OBVIOUS
<1>2. 0 \in S
  BY <1>1, EscapingIs, UnescapedEscaped
<1>3. ASSUME NEW n \in 0 .. N - 1, n \in S PROVE n + 1 \in S
  <2> DEFINE m == n + 1
  <2>1. m \in 1 .. N /\ m - 1 = n /\ m = n + 1 /\ n \in 0 .. N
    BY <1>1
  <2> HIDE DEF m
  <2>2. Escaping(src)[n] \in Escapings
    BY <2>1, EscapingIs
  <2>3. Escaping(src)[m] = Escape(Escaping(src)[n], src[m])
    BY <2>1, EscapingIs
  <2>4. Escaped(Escape(Escaping(src)[n], src[m]), src, m)
    BY <1>3, <2>1, <2>2, EscapeKeeps
  <2>5. m \in S
    BY <2>1, <2>3, <2>4
  <2> QED
    BY <2>5 DEF m
<1>4. 0 .. N \subseteq S
  <2> HIDE DEF S, N
  <2> QED
    BY <1>1, <1>2, <1>3, InductionTo
<1>5. Escaped(Escaping(src)[N], src, N)
  BY <1>1, <1>4
<1> QED
  BY <1>5 DEF Escaped, json_escape

(* All of it, if nothing in it takes six bytes and it fits BSW_STR_MAX.    *)
LEMMA JsonEscapeWhole ==
  ASSUME NEW src \in Seq(Characters), ~HasCtrl(src), Len(src) < BSW_STR_MAX
  PROVE  json_escape(src) = src
<1> DEFINE N == Len(src)
           after == Escaping(src)
           S == {n \in 0 .. N : /\ Escaped(after[n], src, n)
                                /\ ~after[n].stopped
                                /\ after[n].di <= 2 * n}
<1>1. N \in Nat /\ DOMAIN src = 1 .. N /\ N < BSW_STR_MAX
  OBVIOUS
<1>2. 0 \in S
  BY <1>1, EscapingIs, UnescapedEscaped DEF Unescaped
<1>3. ASSUME NEW n \in 0 .. N - 1, n \in S PROVE n + 1 \in S
  <2> DEFINE m == n + 1
             c == src[m]
             s == after[n]
  <2>1. m \in 1 .. N /\ m - 1 = n /\ m = n + 1 /\ n \in 0 .. N
    BY <1>1
  <2> HIDE DEF m
  <2>2. s \in Escapings
    BY <2>1, EscapingIs
  <2>3. after[m] = Escape(s, c)
    BY <2>1, EscapingIs
  <2>4. Escaped(Escape(s, c), src, m)
    BY <1>3, <2>1, <2>2, EscapeKeeps
  <2>5. c # "ctrl"
    BY <1>1, <2>1 DEF HasCtrl
  <2> HIDE DEF after, c
  <2>6. Width(c) \in Nat /\ Width(c) <= 2
    BY <2>5, WidthIs
  <2>7. s.di \in Nat /\ s.di <= 2 * n /\ ~s.stopped
    BY <1>3, <2>2 DEF Escapings
  <2>8. Fits(s.di, c)
    <3>1. n + 1 < BSW_STR_MAX /\ BSW_STR_MAX \in Nat
      BY <1>1, <2>1, JsonEscapeAssumption
    <3> QED
      BY <2>1, <2>6, <2>7, <3>1 DEF Fits, DstLen
  <2>9. ~after[m].stopped /\ after[m].di = s.di + Width(c)
    BY <2>2, <2>3, <2>7, <2>8 DEF Escape, Escapings
  <2>10. after[m].di <= 2 * m
    BY <2>1, <2>6, <2>7, <2>9
  <2>11. m \in S
    BY <2>1, <2>3, <2>4, <2>9, <2>10
  <2> QED
    BY <2>11 DEF m
<1>4. 0 .. N \subseteq S
  <2> HIDE DEF S, N
  <2> QED
    BY <1>1, <1>2, <1>3, InductionTo
<1>5. Escaped(after[N], src, N) /\ ~after[N].stopped
  BY <1>1, <1>4
<1> DEFINE text == json_escape(src)
<1>6. text = after[N].text
  BY DEF json_escape
<1> HIDE DEF after, text
<1>7. text \in Seq(Characters) /\ Len(text) = N /\ \A i \in 1 .. N : text[i] = src[i]
  BY <1>5, <1>6 DEF Escaped
<1>8. text = src
  <2>1. DOMAIN text = 1 .. N
    BY <1>7
  <2> QED
    BY <1>1, <1>7, <2>1, SeqEqual
<1> QED
  BY <1>8 DEF text

-----------------------------------------------------------------------------
(* Frames *)

(* Frames whose name leaves room for the NUL.                              *)
Frames == {frame \in [sym : Seq(Characters), inlined : BOOLEAN] :
              Len(frame.sym) < BSW_STR_MAX}

LEMMA CopyStrFits ==
  ASSUME NEW name \in Seq(Characters)
  PROVE  copy_str(name) \in Seq(Characters) /\ Len(copy_str(name)) < BSW_STR_MAX
<1> DEFINE n == IF Len(name) < BSW_STR_MAX THEN Len(name) ELSE BSW_STR_MAX - 1
<1>1. n \in 0 .. Len(name) /\ n < BSW_STR_MAX
  BY JsonEscapeAssumption
<1>2. /\ SubSeq(name, 1, n) \in Seq(Characters)
      /\ Len(SubSeq(name, 1, n)) = n
  BY <1>1
<1> QED
  BY <1>1, <1>2 DEF copy_str

LEMMA UnresolvedTyped == Unresolved \in Seq(Characters)
<1>1. ASSUME NEW S, NEW c \in S PROVE <<c, c>> \in Seq(S)
  OBVIOUS
<1>2. "?" \in Characters
  BY DEF Characters
<1> QED
  BY <1>1, <1>2, Zenon DEF Unresolved

LEMMA FramesAtTyped ==
  ASSUME NEW program, NEW addr, Code[program][addr] \in Seq(Seq(Characters))
  PROVE  FramesAt(program, addr) \in Seq(Frames)
<1> DEFINE names == Code[program][addr]
<1>1. ASSUME NEW name \in Seq(Characters), NEW inlined \in BOOLEAN
      PROVE  Frame(name, inlined) \in Frames
  BY <1>1, CopyStrFits DEF Frame, Frames
<1>2. CASE names = << >>
  <2> DEFINE frame == Frame(Unresolved, FALSE)
  <2>1. Unresolved \in Seq(Characters)
    BY UnresolvedTyped
  <2>2. frame \in Frames
    BY <1>1, <2>1
  <2>3. FramesAt(program, addr) = <<frame>>
    BY <1>2 DEF FramesAt
  <2> HIDE DEF frame
  <2> QED
    BY <2>2, <2>3
<1>3. CASE names # << >>
  <2> DEFINE frames == [i \in DOMAIN names |-> Frame(names[i], i > 1)]
             N == Len(names)
  <2>1. N \in Nat /\ DOMAIN names = 1 .. N /\ \A i \in 1 .. N : names[i] \in Seq(Characters)
    OBVIOUS
  <2>2. \A i \in 1 .. N : frames[i] \in Frames
    <3>1. TAKE i \in 1 .. N
    <3> DEFINE name == names[i]
               inlined == i > 1
    <3>2. name \in Seq(Characters) /\ inlined \in BOOLEAN
      BY <2>1
    <3>3. frames[i] = Frame(name, inlined)
      BY <2>1
    <3> HIDE DEF name, inlined, frames
    <3> QED
      BY <1>1, <3>2, <3>3
  <2>3. DOMAIN frames = 1 .. N /\ frames = [i \in 1 .. N |-> frames[i]]
    BY <2>1
  <2>4. FramesAt(program, addr) = frames
    BY <1>3 DEF FramesAt
  <2> HIDE DEF frames, N
  <2>5. frames \in [1 .. N -> Frames]
    BY <2>2, <2>3
  <2>6. frames \in Seq(Frames)
    BY <2>1, <2>5
  <2> QED
    BY <2>2, <2>3, <2>4, <2>6
<1> QED
  BY <1>2, <1>3

LEMMA WriteFrameTyped ==
  ASSUME NEW S, NEW out \in Seq(S), NEW frame \in S, NEW out_cap
  PROVE  WriteFrame(out, frame, out_cap) \in Seq(S)
BY DEF WriteFrame

LEMMA WriteFramesIs ==
  ASSUME NEW F, NEW out \in Seq(F), NEW frames \in Seq(F), NEW cap
  PROVE  /\ WriteFrames(out, frames, cap) \in [0 .. Len(frames) -> Seq(F)]
         /\ WriteFrames(out, frames, cap)[0] = out
         /\ \A n \in 1 .. Len(frames) :
               WriteFrames(out, frames, cap)[n] =
                  WriteFrame(WriteFrames(out, frames, cap)[n - 1], frames[n], cap)
<1> DEFINE N == Len(frames)
           S == Seq(F)
           turn == [n \in 1 .. N |-> [s \in S |-> WriteFrame(s, frames[n], cap)]]
           Body(f) == [n \in 0 .. N |->
                          IF n = 0 THEN out
                          ELSE WriteFrame(f[n - 1], frames[n], cap)]
           after == WriteFrames(out, frames, cap)
<1>1. N \in Nat /\ \A n \in 1 .. N : frames[n] \in F
  OBVIOUS
<1>2. \A s \in S, n \in 1 .. N : WriteFrame(s, frames[n], cap) \in S
  BY <1>1, WriteFrameTyped
<1> HIDE DEF S
<1>3. turn \in Turns(N, S) /\ out \in S
  BY <1>2 DEF Turns, S
<1>4. PICK f : RunOf(f, N, S, out, turn)
  <2> HIDE DEF turn, N
  <2> QED
    BY <1>1, <1>3, Recursion
<1>5. f = Body(f)
  <2>1. f \in [0 .. N -> S]
    BY <1>4 DEF RunOf
  <2>2. ASSUME NEW n \in 0 .. N
        PROVE  f[n] = IF n = 0 THEN out ELSE WriteFrame(f[n - 1], frames[n], cap)
    <3>1. CASE n = 0
      BY <1>4, <3>1 DEF RunOf
    <3>2. CASE n # 0
      <4>1. n \in 1 .. N /\ n - 1 \in 0 .. N
        BY <1>1, <3>2
      <4>2. f[n] = turn[n][f[n - 1]] /\ f[n - 1] \in S
        BY <1>4, <4>1 DEF RunOf
      <4> QED
        BY <3>2, <4>1, <4>2
    <3> QED
      BY <3>1, <3>2
  <2> QED
    BY <2>1, <2>2
<1>6. after = Body(after)
  BY <1>5, Zenon DEF WriteFrames
<1> HIDE DEF after
<1>7. /\ after[0] = out
      /\ \A n \in 1 .. N : after[n] = WriteFrame(after[n - 1], frames[n], cap)
  BY <1>1, <1>6
<1>8. 0 .. N \subseteq {n \in 0 .. N : after[n] \in S}
  <2> DEFINE T == {n \in 0 .. N : after[n] \in S}
  <2>1. 0 \in T
    BY <1>1, <1>3, <1>7
  <2>2. ASSUME NEW n \in 0 .. N - 1, n \in T PROVE n + 1 \in T
    <3> DEFINE m == n + 1
    <3>1. m \in 1 .. N /\ m - 1 = n
      BY <1>1
    <3> HIDE DEF m
    <3>2. after[m] = WriteFrame(after[n], frames[m], cap)
      BY <1>7, <3>1
    <3>3. after[m] \in S
      BY <1>2, <2>2, <3>1, <3>2
    <3> QED
      BY <3>1, <3>3 DEF m
  <2> HIDE DEF T, N
  <2>3. 0 .. N \subseteq T
    BY <1>1, <2>1, <2>2, InductionTo
  <2> QED
    BY <2>3 DEF T
<1>9. after \in [0 .. N -> S]
  BY <1>6, <1>8
<1> QED
  BY <1>7, <1>9 DEF after, S

Resolvable(program, addrs) ==
    /\ Len(addrs) \in Nat
    /\ DOMAIN addrs = 1 .. Len(addrs)
    /\ \A n \in 1 .. Len(addrs) : FramesAt(program, addrs[n]) \in Seq(Frames)

LEMMA ResolvingIs ==
  ASSUME NEW program, NEW addrs, NEW cap, Resolvable(program, addrs)
  PROVE  /\ Resolving(program, addrs, cap) \in [0 .. Len(addrs) -> Seq(Frames)]
         /\ Resolving(program, addrs, cap)[0] = << >>
         /\ \A n \in 1 .. Len(addrs) :
               Resolving(program, addrs, cap)[n] =
                  WriteFrames(Resolving(program, addrs, cap)[n - 1],
                              FramesAt(program, addrs[n]), cap)
                             [Len(FramesAt(program, addrs[n]))]
<1> DEFINE N == Len(addrs)
           S == Seq(Frames)
           More(s, n) == WriteFrames(s, FramesAt(program, addrs[n]), cap)
                                    [Len(FramesAt(program, addrs[n]))]
           turn == [n \in 1 .. N |-> [s \in S |-> More(s, n)]]
           Body(f) == [n \in 0 .. N |-> IF n = 0 THEN << >> ELSE More(f[n - 1], n)]
           after == Resolving(program, addrs, cap)
<1>1. \A s \in S, n \in 1 .. N : More(s, n) \in S
  <2>1. TAKE s \in S, n \in 1 .. N
  <2> DEFINE frames == FramesAt(program, addrs[n])
  <2>2. frames \in Seq(Frames)
    BY DEF Resolvable
  <2> HIDE DEF frames
  <2>3. WriteFrames(s, frames, cap) \in [0 .. Len(frames) -> Seq(Frames)]
    BY <2>2, WriteFramesIs
  <2>4. Len(frames) \in 0 .. Len(frames)
    BY <2>2
  <2>5. WriteFrames(s, frames, cap)[Len(frames)] \in S
    BY <2>3, <2>4
  <2> QED
    BY <2>5 DEF frames
<1>2. << >> \in S
  OBVIOUS
<1>0. N \in Nat
  BY DEF Resolvable
<1> HIDE DEF S, More
<1>3. turn \in Turns(N, S)
  BY <1>1 DEF Turns
<1>4. PICK f : RunOf(f, N, S, << >>, turn)
  <2> HIDE DEF turn, N
  <2> QED
    BY <1>0, <1>2, <1>3, Recursion
<1>5. f = Body(f)
  <2>1. f \in [0 .. N -> S]
    BY <1>4 DEF RunOf
  <2>2. ASSUME NEW n \in 0 .. N
        PROVE  f[n] = IF n = 0 THEN << >> ELSE More(f[n - 1], n)
    <3>1. CASE n = 0
      BY <1>4, <3>1 DEF RunOf
    <3>2. CASE n # 0
      <4>1. n \in 1 .. N /\ n - 1 \in 0 .. N
        BY <1>0, <3>2
      <4>2. f[n] = turn[n][f[n - 1]] /\ f[n - 1] \in S
        BY <1>4, <4>1 DEF RunOf
      <4> QED
        BY <3>2, <4>1, <4>2
    <3> QED
      BY <3>1, <3>2
  <2> QED
    BY <2>1, <2>2
<1>6. after = Body(after)
  BY <1>5, Zenon DEF Resolving, More
<1> HIDE DEF after
<1>7. /\ after[0] = << >>
      /\ \A n \in 1 .. N : after[n] = More(after[n - 1], n)
  BY <1>0, <1>6
<1>8. 0 .. N \subseteq {n \in 0 .. N : after[n] \in S}
  <2> DEFINE T == {n \in 0 .. N : after[n] \in S}
  <2>1. 0 \in T
    BY <1>0, <1>2, <1>7
  <2>2. ASSUME NEW n \in 0 .. N - 1, n \in T PROVE n + 1 \in T
    <3> DEFINE m == n + 1
    <3>1. m \in 1 .. N /\ m - 1 = n
      BY <1>0
    <3> HIDE DEF m
    <3>2. after[m] = More(after[n], m)
      BY <1>7, <3>1
    <3>3. after[m] \in S
      BY <1>1, <2>2, <3>1, <3>2
    <3> QED
      BY <3>1, <3>3 DEF m
  <2> HIDE DEF T, N
  <2>3. 0 .. N \subseteq T
    BY <1>0, <2>1, <2>2, InductionTo
  <2> QED
    BY <2>3 DEF T
<1>9. after \in [0 .. N -> S]
  BY <1>6, <1>8
<1> QED
  BY <1>7, <1>9 DEF after, S, More

(* The concatenation of sequences, one after the other.                    *)
JoinOf(f, seqs, F) ==
    /\ f \in [1 .. Len(seqs) -> Seq(F)]
    /\ f[1] = seqs[1]
    /\ \A n \in 2 .. Len(seqs) : f[n] = f[n - 1] \o seqs[n]

LEMMA FlattenIs ==
  ASSUME NEW F, NEW seqs \in Seq(Seq(F)), Len(seqs) > 0
  PROVE  \E f : JoinOf(f, seqs, F) /\ FlattenSeq(seqs) = f[Len(seqs)]
<1> DEFINE N == Len(seqs) - 1
           S == Seq(F)
           turn == [n \in 1 .. N |-> [s \in S |-> s \o seqs[n + 1]]]
           Body(f) == [i \in 1 .. Len(seqs) |->
                          IF i = 1 THEN seqs[i] ELSE f[i - 1] \o seqs[i]]
           join == CHOOSE f : f = Body(f)
<1>1. /\ Len(seqs) \in Nat /\ N \in Nat /\ Len(seqs) = N + 1
      /\ \A i \in 1 .. Len(seqs) : seqs[i] \in S
  OBVIOUS
<1>2. \A s, t \in S : s \o t \in S
  OBVIOUS
<1> HIDE DEF S
<1>3. turn \in Turns(N, S)
  BY <1>1, <1>2 DEF Turns
<1>4. PICK g : RunOf(g, N, S, seqs[1], turn)
  <2> HIDE DEF turn, N
  <2>1. seqs[1] \in S
    BY <1>1
  <2> QED
    BY <1>1, <1>3, <2>1, Recursion
<1> DEFINE f == [i \in 1 .. Len(seqs) |-> g[i - 1]]
<1>5. f = Body(f)
  <2>1. ASSUME NEW i \in 1 .. Len(seqs)
        PROVE  f[i] = IF i = 1 THEN seqs[i] ELSE f[i - 1] \o seqs[i]
    <3>1. CASE i = 1
      <4>1. f[i] = g[0]
        BY <3>1
      <4> QED
        BY <1>4, <3>1, <4>1 DEF RunOf
    <3>2. CASE i # 1
      <4> DEFINE n == i - 1
      <4>1. /\ n \in 1 .. N /\ n - 1 \in 0 .. N /\ n + 1 = i
            /\ n \in 1 .. Len(seqs)
        BY <1>1, <3>2
      <4>2. f[i] = g[n] /\ f[n] = g[n - 1]
        BY <4>1
      <4> HIDE DEF n, f
      <4>3. g[n] = turn[n][g[n - 1]] /\ g[n - 1] \in S
        BY <1>4, <4>1 DEF RunOf
      <4>4. turn[n][g[n - 1]] = g[n - 1] \o seqs[i]
        BY <4>1, <4>3
      <4> QED
        BY <3>2, <4>2, <4>3, <4>4 DEF n
    <3> QED
      BY <3>1, <3>2
  <2> QED
    BY <2>1
<1>6. join = Body(join)
  <2>1. \E h : h = Body(h)
    BY <1>5
  <2> QED
    BY <2>1, Zenon
<1>7. FlattenSeq(seqs) = join[Len(seqs)]
  <2>1. Len(seqs) # 0
    BY <1>1
  <2> QED
    BY <2>1, Zenon DEF FlattenSeq
<1> HIDE DEF join
<1>8. /\ join[1] = seqs[1]
      /\ \A n \in 2 .. Len(seqs) : join[n] = join[n - 1] \o seqs[n]
  <2>1. \A i \in 1 .. Len(seqs) :
           join[i] = IF i = 1 THEN seqs[i] ELSE join[i - 1] \o seqs[i]
    BY <1>6
  <2>2. join[1] = seqs[1]
    BY <1>1, <2>1
  <2>3. ASSUME NEW n \in 2 .. Len(seqs)
        PROVE  join[n] = join[n - 1] \o seqs[n]
    <3>1. n \in 1 .. Len(seqs) /\ n # 1
      BY <1>1
    <3> QED
      BY <2>1, <3>1
  <2> QED
    BY <2>2, <2>3
<1>9. 0 .. N \subseteq {n \in 0 .. N : join[n + 1] \in S}
  <2> DEFINE T == {n \in 0 .. N : join[n + 1] \in S}
  <2>1. 0 \in T
    BY <1>1, <1>8
  <2>2. ASSUME NEW n \in 0 .. N - 1, n \in T PROVE n + 1 \in T
    <3> DEFINE m == n + 2
    <3>1. /\ m \in 2 .. Len(seqs) /\ m - 1 = n + 1 /\ m \in 1 .. Len(seqs)
          /\ n + 1 \in 0 .. N /\ (n + 1) + 1 = m
      BY <1>1
    <3> HIDE DEF m
    <3>2. join[m] = join[n + 1] \o seqs[m]
      BY <1>8, <3>1
    <3>3. join[m] \in S
      BY <1>1, <1>2, <2>2, <3>1, <3>2
    <3> QED
      BY <3>1, <3>3
  <2> HIDE DEF T, N
  <2>3. 0 .. N \subseteq T
    BY <1>1, <2>1, <2>2, InductionTo
  <2> QED
    BY <2>3 DEF T
<1>10. join \in [1 .. Len(seqs) -> S]
  <2>1. ASSUME NEW i \in 1 .. Len(seqs) PROVE join[i] \in S
    <3>1. i - 1 \in 0 .. N /\ (i - 1) + 1 = i
      BY <1>1
    <3> QED
      BY <1>9, <3>1
  <2> QED
    BY <1>6, <2>1
<1> QED
  BY <1>7, <1>8, <1>10 DEF JoinOf, S

(* out holds what a sequence of len frames has first, as many as there is  *)
(* room for; whole begins with that sequence.                              *)
CutAt(out, whole, len, cap) ==
    /\ Len(out) = IF len < cap THEN len ELSE cap
    /\ \A i \in 1 .. Len(out) : out[i] = whole[i]

LEMMA WriteFrameCut ==
  ASSUME NEW F, NEW out \in Seq(F), NEW frame \in F, NEW whole,
         NEW len \in Nat, NEW cap \in Nat,
         CutAt(out, whole, len, cap), whole[len + 1] = frame
  PROVE  CutAt(WriteFrame(out, frame, cap), whole, len + 1, cap)
<1>1. CASE len < cap
  <2>1. Len(out) = len /\ \A i \in 1 .. len : out[i] = whole[i]
    BY <1>1 DEF CutAt
  <2>2. WriteFrame(out, frame, cap) = Append(out, frame)
    BY <1>1, <2>1 DEF WriteFrame
  <2> DEFINE more == Append(out, frame)
  <2>3. /\ Len(more) = len + 1 /\ more[len + 1] = frame
        /\ \A i \in 1 .. len : more[i] = out[i]
    BY <2>1
  <2> HIDE DEF more
  <2>4. CutAt(more, whole, len + 1, cap)
    BY <1>1, <2>1, <2>3 DEF CutAt
  <2> QED
    BY <2>2, <2>4 DEF more
<1>2. CASE ~(len < cap)
  <2>1. Len(out) = cap /\ WriteFrame(out, frame, cap) = out
    BY <1>2 DEF CutAt, WriteFrame
  <2> QED
    BY <1>2, <2>1 DEF CutAt
<1> QED
  BY <1>1, <1>2

LEMMA WriteFramesCut ==
  ASSUME NEW F, NEW out \in Seq(F), NEW frames \in Seq(F), NEW whole,
         NEW len \in Nat, NEW cap \in Nat,
         CutAt(out, whole, len, cap),
         \A i \in 1 .. Len(frames) : whole[len + i] = frames[i]
  PROVE  CutAt(WriteFrames(out, frames, cap)[Len(frames)], whole,
               len + Len(frames), cap)
<1> DEFINE N == Len(frames)
           after == WriteFrames(out, frames, cap)
           T == {n \in 0 .. N : CutAt(after[n], whole, len + n, cap)}
<1>1. N \in Nat /\ \A n \in 1 .. N : frames[n] \in F
  OBVIOUS
<1>2. /\ after \in [0 .. N -> Seq(F)]
      /\ after[0] = out
      /\ \A n \in 1 .. N : after[n] = WriteFrame(after[n - 1], frames[n], cap)
  BY WriteFramesIs
<1> HIDE DEF after
<1>3. 0 \in T
  BY <1>1, <1>2
<1>4. ASSUME NEW n \in 0 .. N - 1, n \in T PROVE n + 1 \in T
  <2> DEFINE m == n + 1
             sum == len + n
  <2>1. m \in 1 .. N /\ m - 1 = n /\ n \in 0 .. N /\ sum \in Nat
        /\ sum + 1 = len + m
    BY <1>1
  <2>2. CutAt(after[n], whole, sum, cap)
    BY <1>4
  <2> HIDE DEF m, sum
  <2>3. after[n] \in Seq(F) /\ frames[m] \in F
    BY <1>1, <1>2, <2>1
  <2>4. whole[sum + 1] = frames[m]
    BY <2>1
  <2>5. CutAt(WriteFrame(after[n], frames[m], cap), whole, sum + 1, cap)
    BY <2>1, <2>2, <2>3, <2>4, WriteFrameCut
  <2>6. m \in T
    BY <1>2, <2>1, <2>5
  <2> QED
    BY <2>6 DEF m
<1>5. 0 .. N \subseteq T
  <2> HIDE DEF T, N
  <2> QED
    BY <1>1, <1>3, <1>4, InductionTo
<1>6. N \in 0 .. N
  BY <1>1
<1>7. CutAt(after[N], whole, len + N, cap)
  BY <1>5, <1>6
<1> QED
  BY <1>7, Zenon DEF after

(* The frames of a stack: those of all its addresses.                      *)
AllFrames(program, addrs) ==
    FlattenSeq([i \in DOMAIN addrs |-> FramesAt(program, addrs[i])])

(* bsw_resolve writes all frames, in order, as far as there is room.       *)
LEMMA ResolveCorrect ==
  ASSUME NEW program, NEW addrs, Resolvable(program, addrs),
         NEW cap \in Nat
  PROVE  /\ bsw_resolve(program, addrs, cap) \in Seq(Frames)
         /\ AllFrames(program, addrs) \in Seq(Frames)
         /\ CutAt(bsw_resolve(program, addrs, cap), AllFrames(program, addrs),
                  Len(AllFrames(program, addrs)), cap)
<1> DEFINE N == Len(addrs)
           seqs == [i \in DOMAIN addrs |-> FramesAt(program, addrs[i])]
           after == Resolving(program, addrs, cap)
<1>1. /\ N \in Nat /\ DOMAIN addrs = 1 .. N
      /\ \A i \in 1 .. N : FramesAt(program, addrs[i]) \in Seq(Frames)
  BY DEF Resolvable
<1>2. /\ after \in [0 .. N -> Seq(Frames)]
      /\ after[0] = << >>
      /\ \A n \in 1 .. N :
            after[n] = WriteFrames(after[n - 1], FramesAt(program, addrs[n]), cap)
                                  [Len(FramesAt(program, addrs[n]))]
  BY ResolvingIs
<1>3. /\ seqs \in Seq(Seq(Frames)) /\ Len(seqs) = N
      /\ \A n \in 1 .. N : seqs[n] = FramesAt(program, addrs[n])
  <2>1. seqs \in [1 .. N -> Seq(Frames)]
    BY <1>1
  <2>2. \A n \in 1 .. N : seqs[n] = FramesAt(program, addrs[n])
    BY <1>1
  <2> HIDE DEF seqs, N
  <2>3. seqs \in Seq(Seq(Frames)) /\ Len(seqs) = N
    BY <1>1, <2>1
  <2> QED
    BY <2>2, <2>3
<1> HIDE DEF after, seqs
<1>4. \A n \in 1 .. N : after[n] = WriteFrames(after[n - 1], seqs[n], cap)[Len(seqs[n])]
  BY <1>2, <1>3
<1>5. after[N] = bsw_resolve(program, addrs, cap)
  BY DEF bsw_resolve, after
<1>6. FlattenSeq(seqs) = AllFrames(program, addrs)
  BY DEF AllFrames, seqs
<1>7. CASE N = 0
  <2>1. after[N] = << >>
    BY <1>2, <1>7
  <2>2. seqs = << >>
    BY <1>3, <1>7
  <2>3. FlattenSeq(seqs) = << >>
    BY <1>3, <1>7, <2>2 DEF FlattenSeq
  <2>4. << >> \in Seq(Frames) /\ Len(<< >>) = 0
    OBVIOUS
  <2>5. CutAt(<< >>, << >>, 0, cap)
    BY <2>4 DEF CutAt
  <2> QED
    BY <1>5, <1>6, <2>1, <2>3, <2>4, <2>5
<1>8. CASE N # 0
  <2> HIDE DEF N
  <2>1. Len(seqs) > 0
    BY <1>1, <1>3, <1>8
  <2>2. PICK join : JoinOf(join, seqs, Frames) /\ FlattenSeq(seqs) = join[Len(seqs)]
    BY <1>3, <2>1, FlattenIs
  <2>3. /\ join \in [1 .. N -> Seq(Frames)]
        /\ join[1] = seqs[1]
        /\ \A n \in 2 .. N : join[n] = join[n - 1] \o seqs[n]
        /\ FlattenSeq(seqs) = join[N]
    BY <1>3, <2>2 DEF JoinOf
  <2> DEFINE T == {n \in 0 .. N : n = 0 \/ CutAt(after[n], join[n], Len(join[n]), cap)}
  <2>4. 0 \in T
    BY <1>1
  <2>5. ASSUME NEW n \in 0 .. N - 1, n \in T PROVE n + 1 \in T
    <3> DEFINE m == n + 1
               frames == seqs[m]
               out == after[n]
    <3>1. m \in 1 .. N /\ m - 1 = n /\ n \in 0 .. N
      BY <1>1
    <3>2. frames \in Seq(Frames) /\ out \in Seq(Frames) /\ join[m] \in Seq(Frames)
      <4> HIDE DEF m
      <4>1. seqs[m] \in Seq(Frames)
        BY <1>3, <3>1
      <4>2. after[n] \in Seq(Frames)
        BY <1>2, <3>1
      <4>3. join[m] \in Seq(Frames)
        BY <2>3, <3>1
      <4> QED
        BY <4>1, <4>2, <4>3
    <3>3. after[m] = WriteFrames(out, frames, cap)[Len(frames)]
      BY <1>4, <3>1
    <3>4. CASE n = 0
      <4>1. out = << >> /\ join[m] = frames
        BY <1>2, <2>3, <3>4
      <4> HIDE DEF m, frames, out
      <4>2. CutAt(out, join[m], 0, cap)
        BY <4>1 DEF CutAt
      <4>3. \A i \in 1 .. Len(frames) : join[m][0 + i] = frames[i]
        BY <4>1
      <4>4. CutAt(after[m], join[m], 0 + Len(frames), cap)
        BY <3>2, <3>3, <4>2, <4>3, WriteFramesCut
      <4>5. 0 + Len(frames) = Len(join[m])
        BY <3>2, <4>1
      <4>6. m \in T
        BY <3>1, <4>4, <4>5
      <4> QED
        BY <4>6 DEF m
    <3>5. CASE n # 0
      <4>1. n \in 1 .. N /\ m \in 2 .. N
        BY <1>1, <3>1, <3>5
      <4> DEFINE before == join[n]
                 all == join[m]
      <4>2. before \in Seq(Frames)
        BY <2>3, <4>1
      <4>3. all = before \o frames
        BY <2>3, <3>1, <4>1
      <4>4. CutAt(out, before, Len(before), cap)
        BY <2>5, <3>5
      <4> HIDE DEF m, frames, out, before, all
      <4>5. /\ Len(before) \in Nat /\ Len(frames) \in Nat
            /\ Len(all) = Len(before) + Len(frames)
            /\ \A i \in 1 .. Len(before) : all[i] = before[i]
            /\ \A i \in 1 .. Len(frames) : all[Len(before) + i] = frames[i]
        BY <3>2, <4>2, <4>3
      <4>6. CutAt(out, all, Len(before), cap)
        BY <3>2, <4>4, <4>5 DEF CutAt
      <4>7. CutAt(after[m], all, Len(before) + Len(frames), cap)
        BY <3>2, <3>3, <4>5, <4>6, WriteFramesCut
      <4>8. m \in T
        BY <3>1, <4>5, <4>7 DEF all
      <4> QED
        BY <4>8 DEF m
    <3> QED
      BY <3>4, <3>5
  <2>6. 0 .. N \subseteq T
    <3> HIDE DEF T
    <3> QED
      BY <1>1, <2>4, <2>5, InductionTo
  <2>7. N \in 1 .. N /\ N \in 0 .. N
    BY <1>1, <1>8
  <2>8. CutAt(after[N], join[N], Len(join[N]), cap)
    BY <1>8, <2>6, <2>7
  <2>9. after[N] \in Seq(Frames) /\ join[N] \in Seq(Frames)
    BY <1>2, <2>3, <2>7
  <2> QED
    BY <1>5, <1>6, <2>3, <2>8, <2>9
<1> QED
  BY <1>7, <1>8

-----------------------------------------------------------------------------
(* Arrays *)

LEMMA ShownIs ==
  ASSUME NEW stack \in Stacks
  PROVE  /\ Len(Shown(stack)) \in Nat
         /\ DOMAIN Shown(stack) = 1 .. Len(Shown(stack))
         /\ \A i \in DOMAIN Shown(stack) :
               i \in DOMAIN stack /\ Shown(stack)[i] = stack[i]
<1> DEFINE n == IF Len(stack) > max_stack_frames_in_json
                THEN max_stack_frames_in_json ELSE Len(stack)
           A == Nat \ {0}
<1> HIDE DEF A
<1>1. stack \in Seq(A)
  BY StackMapAssumption DEF A
<1>2. n \in Nat /\ n <= Len(stack) /\ DOMAIN stack = 1 .. Len(stack)
  BY <1>1, StackEmitAssumption
<1> HIDE DEF n
<1>3. /\ SubSeq(stack, 1, n) \in Seq(A)
      /\ Len(SubSeq(stack, 1, n)) = n
      /\ \A i \in 1 .. n : SubSeq(stack, 1, n)[i] = stack[i]
  BY <1>1, <1>2
<1>4. Shown(stack) = SubSeq(stack, 1, n)
  BY DEF Shown, n
<1>5. DOMAIN SubSeq(stack, 1, n) = 1 .. n
  BY <1>3
<1>6. 1 .. n \subseteq DOMAIN stack
  BY <1>1, <1>2
<1> QED
  BY <1>2, <1>3, <1>4, <1>5, <1>6

LEMMA WiderSeq ==
  ASSUME NEW S, NEW T, S \subseteq T, NEW s \in Seq(S)
  PROVE  s \in Seq(T)
<1> DEFINE n == Len(s)
<1>1. n \in Nat /\ s \in [1 .. n -> S]
  BY LenProperties
<1> HIDE DEF n
<1>2. s \in [1 .. n -> T]
  BY <1>1
<1> QED
  BY <1>1, <1>2

(* Whatever stack is captured, its addresses can be looked up in whatever  *)
(* program runs.                                                           *)
LEMMA ShownResolvable ==
  ASSUME NEW stack \in Stacks, NEW program \in Programs
  PROVE  Resolvable(program, Shown(stack))
<1>1. ASSUME NEW names \in Seq(Seq(STRING)) PROVE names \in Seq(Seq(Characters))
  <2>1. Seq(STRING) \subseteq Seq(Characters)
    <3>1. STRING \subseteq Characters
      BY DEF Characters
    <3> QED
      BY <3>1, WiderSeq
  <2> QED
    BY <2>1, WiderSeq
<1>2. ASSUME NEW i \in DOMAIN Shown(stack)
      PROVE  FramesAt(program, Shown(stack)[i]) \in Seq(Frames)
  <2>1. i \in DOMAIN stack /\ Shown(stack)[i] = stack[i]
    BY ShownIs
  <2>2. Code[program][stack[i]] \in Seq(Seq(STRING))
    BY <2>1, StackReportAssumption
  <2>3. Code[program][Shown(stack)[i]] \in Seq(Seq(Characters))
    BY <1>1, <2>1, <2>2
  <2> QED
    BY <2>3, FramesAtTyped
<1> QED
  BY <1>2, ShownIs DEF Resolvable

(* What is written of a name.                                              *)
Text(name) == json_escape(IF name = << >> THEN Unresolved ELSE name)

LEMMA SymArrayIs ==
  ASSUME NEW program, NEW addrs, Resolvable(program, addrs),
         NEW frames, frames = bsw_resolve(program, addrs, frame_cap(addrs))
  PROVE  /\ frames \in Seq(Frames)
         /\ CutAt(frames, AllFrames(program, addrs),
                  Len(AllFrames(program, addrs)), 4 * Len(addrs))
         /\ AllFrames(program, addrs) \in Seq(Frames)
         /\ DOMAIN SymArray(program, addrs) = 1 .. Len(frames)
         /\ Len(SymArray(program, addrs)) = Len(frames)
         /\ \A i \in 1 .. Len(frames) :
               /\ SymArray(program, addrs)[i].sym = Text(frames[i].sym)
               /\ SymArray(program, addrs)[i].inlined = frames[i].inlined
<1>1. frame_cap(addrs) = 4 * Len(addrs) /\ frame_cap(addrs) \in Nat
  BY DEF Resolvable, frame_cap
<1>2. /\ frames \in Seq(Frames)
      /\ AllFrames(program, addrs) \in Seq(Frames)
      /\ CutAt(frames, AllFrames(program, addrs),
               Len(AllFrames(program, addrs)), 4 * Len(addrs))
  BY <1>1, ResolveCorrect
<1> DEFINE array == SymArray(program, addrs)
<1>3. array = [i \in DOMAIN frames |-> [sym |-> Text(frames[i].sym),
                                        inlined |-> frames[i].inlined]]
  BY DEF SymArray, Text
<1> HIDE DEF array
<1>4. Len(frames) \in Nat /\ DOMAIN frames = 1 .. Len(frames)
  BY <1>2
<1>5. DOMAIN array = 1 .. Len(frames)
  BY <1>3, <1>4
<1>6. \A i \in 1 .. Len(frames) : /\ array[i].sym = Text(frames[i].sym)
                                  /\ array[i].inlined = frames[i].inlined
  BY <1>3, <1>4
<1>7. Len(array) = Len(frames)
  BY <1>4, <1>5
<1> QED
  BY <1>2, <1>5, <1>6, <1>7 DEF array

(* A name is written whole, or the beginning of it.                        *)
LEMMA TextFits ==
  ASSUME NEW frame \in Frames
  PROVE  /\ TextWidth(Text(frame.sym)) < DstLen
         /\ Len(frame.sym) < BSW_STR_MAX
         /\ frame.sym # << >> => IsPrefix(Text(frame.sym), frame.sym)
         /\ frame.sym # << >> /\ ~HasCtrl(frame.sym) => Text(frame.sym) = frame.sym
<1> DEFINE name == frame.sym
           src == IF name = << >> THEN Unresolved ELSE name
           text == json_escape(src)
<1>1. name \in Seq(Characters) /\ Len(name) < BSW_STR_MAX
  BY DEF Frames
<1>2. src \in Seq(Characters)
  BY <1>1, UnresolvedTyped
<1>3. text = Text(name)
  BY DEF Text
<1> HIDE DEF src, name
<1>4. /\ text \in Seq(Characters)
      /\ Len(text) <= Len(src)
      /\ \A i \in 1 .. Len(text) : text[i] = src[i]
      /\ TextWidth(text) < DstLen
  BY <1>2, JsonEscapeFits
<1>5. name # << >> => src = name
  BY DEF src
<1>6. ASSUME name # << >> PROVE IsPrefix(text, name)
  <2> HIDE DEF text
  <2>1. /\ Len(text) \in Nat /\ Len(text) <= Len(name)
        /\ \A i \in 1 .. Len(text) : text[i] = name[i]
    BY <1>4, <1>5, <1>6
  <2> DEFINE n == Len(text)
  <2>2. n \in Nat /\ n <= Len(name) /\ Len(name) \in Nat
    BY <1>1, <2>1
  <2> HIDE DEF n
  <2> DEFINE a == SubSeq(text, 1, n)
             b == SubSeq(name, 1, n)
  <2>3. /\ a \in Seq(Characters) /\ Len(a) = n
        /\ \A i \in 1 .. n : a[i] = text[i]
    <3>1. n <= Len(text)
      BY <2>2 DEF n
    <3> QED
      BY <1>4, <2>2, <3>1
  <2>4. /\ b \in Seq(Characters) /\ Len(b) = n
        /\ \A i \in 1 .. n : b[i] = name[i]
    BY <1>1, <2>2
  <2>5. \A i \in 1 .. n : text[i] = name[i]
    BY <2>1 DEF n
  <2> HIDE DEF a, b
  <2>6. a = b
    BY <2>2, <2>3, <2>4, <2>5, SeqEqual
  <2> QED
    BY <2>1, <2>6 DEF IsPrefix, a, b, n
<1>7. ASSUME name # << >>, ~HasCtrl(name) PROVE text = name
  BY <1>1, <1>5, <1>7, JsonEscapeWhole
<1> QED
  BY <1>1, <1>3, <1>4, <1>6, <1>7 DEF name

-----------------------------------------------------------------------------
(* What has been written *)

(* Each array is that of the stack its event's id names now: buckets in    *)
(* use keep their stacks, and symbolizer does not change in a session.     *)
ArraysInv ==
    \A i \in DOMAIN written :
        LET w     == written[i]
            addrs == Shown(stack_traces[w.event.stack_id])
        IN  /\ w.outcome = "raw" => ~symbolizer /\ w.array = RawArray(addrs)
            /\ w.outcome = "resolved" =>
                  /\ symbolizer
                  /\ w.program \in Programs
                  /\ w.array = SymArray(w.program, addrs)

(* A written event is one of events, its id one of the map in use.         *)
LEMMA WrittenInUse ==
  ASSUME CaptureType, IdsInv, WrittenInv, NEW i \in DOMAIN written
  PROVE  /\ i \in DOMAIN events
         /\ written[i].event = events[i]
         /\ written[i].event \in Event
         /\ written[i].event.stack_id \in Ids
         /\ stack_traces[written[i].event.stack_id] \in Stacks
         /\ stack_traces[written[i].event.stack_id] # NoEntry
         /\ Names(written[i].event, stack_traces[written[i].event.stack_id])
<1>1. i \in DOMAIN events /\ written[i].event = events[i]
  BY DEF WrittenInv
<1>2. events[i] \in Event
  BY <1>1 DEF CaptureType
<1>3. events[i].stack_id \in Ids
  BY <1>2 DEF Event
<1>4. /\ stack_traces[events[i].stack_id] # NoEntry
      /\ Names(events[i], stack_traces[events[i].stack_id])
  BY <1>1 DEF IdsInv
<1>5. stack_traces[events[i].stack_id] \in Stacks
  BY <1>3, <1>4 DEF CaptureType, StackMapTypeOK
<1> QED
  BY <1>1, <1>2, <1>3, <1>4, <1>5

LEMMA ArraysKept ==
  ASSUME CaptureType, IdsInv, WrittenInv, ArraysInv,
         UNCHANGED <<written, symbolizer>>,
         \A id \in Ids : stack_traces[id] # NoEntry =>
            stack_traces'[id] = stack_traces[id]
  PROVE  ArraysInv'
<1>1. \A i \in DOMAIN written :
         stack_traces'[written[i].event.stack_id]
            = stack_traces[written[i].event.stack_id]
  BY WrittenInUse
<1> QED
  BY <1>1 DEF ArraysInv

LEMMA ArraysWrite ==
  ASSUME CaptureType, IdsInv, WrittenInv, ArraysInv, WriteEvent
  PROVE  ArraysInv'
<1> DEFINE n == Len(written) + 1
           e == events[n]
           addrs == Shown(stack_traces[e.stack_id])
           program == running[e.pid]
<1>1. Len(written) \in Nat /\ DOMAIN written = 1 .. Len(written)
  BY AppendIsSequence DEF WrittenInv
<1>2. n \in DOMAIN events /\ e \in Event
  BY <1>1 DEF WriteEvent, CaptureType
<1>3. e.stack_id \in Ids /\ stack_traces[e.stack_id] # NoEntry
  BY <1>2 DEF Event, IdsInv
<1>4. read_stack_addrs(e.stack_id) = stack_traces[e.stack_id]
  BY <1>3 DEF read_stack_addrs, InUse
<1>5. e.pid \in Pids /\ program \in Programs \cup {Gone}
  BY <1>2 DEF Event, CaptureType
<1>6. UNCHANGED <<stack_traces, symbolizer>>
  BY DEF WriteEvent
<1>7. EmitStack(e)
  BY DEF WriteEvent
<1>8. PICK outcome, array :
         /\ Written(e, outcome, array)
         /\ outcome = "raw" => ~symbolizer /\ array = RawArray(addrs)
         /\ outcome = "resolved" =>
               /\ symbolizer
               /\ program \in Programs
               /\ array = SymArray(program, addrs)
  <2> HIDE DEF n, e
  <2>1. CASE Written(e, "failed", << >>)
    BY <2>1
  <2>2. CASE ~symbolizer /\ Written(e, "raw", RawArray(addrs))
    BY <2>2
  <2>3. CASE Written(e, "error", << >>)
    BY <2>3
  <2>4. CASE /\ symbolizer
             /\ program # Gone
             /\ Written(e, "resolved", SymArray(program, addrs))
    BY <1>5, <2>4
  <2> QED
    BY <1>4, <1>7, <2>1, <2>2, <2>3, <2>4 DEF EmitStack
<1> DEFINE w == [event |-> e, program |-> program,
                 outcome |-> outcome, array |-> array]
<1>9. written' = Append(written, w)
  BY <1>8 DEF Written
<1>10. w.event = e /\ w.program = program /\ w.outcome = outcome /\ w.array = array
  OBVIOUS
<1> HIDE DEF w
<1>11. /\ DOMAIN written' = 1 .. n
       /\ \A i \in 1 .. Len(written) : written'[i] = written[i]
       /\ written'[n] = w
  BY <1>9, AppendIsSequence DEF WrittenInv
<1> HIDE DEF n, e, program
<1>12. ASSUME NEW i \in DOMAIN written'
       PROVE  LET v  == written'[i]
                  as == Shown(stack_traces[v.event.stack_id])
              IN  /\ v.outcome = "raw" => ~symbolizer /\ v.array = RawArray(as)
                  /\ v.outcome = "resolved" =>
                        /\ symbolizer
                        /\ v.program \in Programs
                        /\ v.array = SymArray(v.program, as)
  <2>1. CASE i = n
    BY <1>8, <1>10, <1>11, <2>1
  <2>2. CASE i # n
    <3>1. i \in DOMAIN written /\ written'[i] = written[i]
      BY <1>1, <1>11, <2>2 DEF n
    <3> QED
      BY <3>1 DEF ArraysInv
  <2> QED
    BY <2>1, <2>2
<1> QED
  BY <1>6, <1>12 DEF ArraysInv

LEMMA ArraysStep ==
  ASSUME CaptureType, IdsInv, WrittenInv, ArraysInv, [Next]_vars
  PROVE  ArraysInv'
<1>1. ASSUME NEW stack \in Stacks, NEW fast \in BOOLEAN,
             NEW sid \in Ids \cup {-1}, GetStackId(stack, fast, sid),
             UNCHANGED <<written, symbolizer>>
      PROVE  ArraysInv'
  <2>1. \A id \in Ids : stack_traces[id] # NoEntry =>
           stack_traces'[id] = stack_traces[id]
    BY <1>1, GetStackIdCorrect DEF CaptureType
  <2> QED
    BY <1>1, <2>1, ArraysKept
<1>2. ASSUME NEW pid \in Pids, NEW prev \in Pids, NEW stack \in Stacks,
             NEW sid \in Ids \cup {-1}, CaptureOn(prev, pid, stack, sid)
      PROVE  ArraysInv'
  BY <1>1, <1>2 DEF CaptureOn, Capture
<1>3. ASSUME NEW pid \in Pids, NEW stack \in Stacks,
             NEW sid \in Ids \cup {-1}, CaptureCall(pid, stack, sid)
      PROVE  ArraysInv'
  BY <1>1, <1>3 DEF CaptureCall, Capture
<1>4. ASSUME NEW stack \in Stacks, NEW sid \in Ids \cup {-1},
             OthersCapture(stack, sid)
      PROVE  ArraysInv'
  BY <1>1, <1>4 DEF OthersCapture
<1>5. CASE UNCHANGED <<stack_traces, written, symbolizer>>
  BY <1>5, ArraysKept
<1>6. CASE WriteEvent
  BY <1>6, ArraysWrite
<1>7. CASE NewSession
  BY <1>7 DEF NewSession, ArraysInv
<1> QED
  BY <1>2, <1>3, <1>4, <1>5, <1>6, <1>7 DEF Next, vars, StopTracing, Become

ReportInv == CaptureType /\ IdsInv /\ WrittenInv /\ ToldInv /\ ArraysInv

LEMMA ReportInvariance == Spec => []ReportInv
<1>1. Init => ReportInv
  <2>1. Init => ArraysInv
    BY DEF Init, ArraysInv
  <2> QED
    BY <2>1, InitOK DEF ReportInv
<1>2. ReportInv /\ [Next]_vars => ReportInv'
  BY CaptureStep, ToldStep, ArraysStep DEF ReportInv
<1> QED
  BY <1>1, <1>2, PTL DEF Spec

(* No name is lost between the symbolizer and the text, whatever it is     *)
(* made of: the escaped text fits its buffer with the NUL, and a name      *)
(* without control characters is written to its last character.            *)
THEOREM NamesAreWhole == Spec => []NamesWhole
<1>1. ReportInv => NamesWhole
  <2> SUFFICES ASSUME ReportInv, NEW i \in DOMAIN written,
                      written[i].outcome = "resolved"
               PROVE  LET w      == written[i]
                          stack  == stack_traces[w.event.stack_id]
                          frames == bsw_resolve(w.program, Shown(stack),
                                                frame_cap(Shown(stack)))
                      IN  \A j \in DOMAIN w.array :
                             LET text == w.array[j].sym
                             IN  /\ TextWidth(text) < DstLen
                                 /\ Len(frames[j].sym) < BSW_STR_MAX
                                 /\ frames[j].sym # << >> /\ ~HasCtrl(frames[j].sym)
                                    => text = frames[j].sym
    BY DEF NamesWhole
  <2> DEFINE w == written[i]
             stack == stack_traces[w.event.stack_id]
             addrs == Shown(stack)
             frames == bsw_resolve(w.program, addrs, frame_cap(addrs))
  <2>1. stack \in Stacks
    BY WrittenInUse DEF ReportInv
  <2>2. w.program \in Programs /\ w.array = SymArray(w.program, addrs)
    BY DEF ReportInv, ArraysInv
  <2>3. Resolvable(w.program, addrs)
    BY <2>1, <2>2, ShownResolvable
  <2> HIDE DEF w, stack, addrs, frames
  <2>4. /\ frames \in Seq(Frames)
        /\ DOMAIN w.array = 1 .. Len(frames)
        /\ \A j \in 1 .. Len(frames) : w.array[j].sym = Text(frames[j].sym)
    BY <2>2, <2>3, SymArrayIs DEF frames
  <2>5. ASSUME NEW j \in DOMAIN w.array
        PROVE  /\ TextWidth(w.array[j].sym) < DstLen
               /\ Len(frames[j].sym) < BSW_STR_MAX
               /\ frames[j].sym # << >> /\ ~HasCtrl(frames[j].sym)
                  => w.array[j].sym = frames[j].sym
    <3>1. frames[j] \in Frames /\ w.array[j].sym = Text(frames[j].sym)
      BY <2>4
    <3> QED
      BY <3>1, TextFits
  <2> QED
    BY <2>5 DEF w, stack, addrs, frames
<1> QED
  BY <1>1, ReportInvariance, PTL

(* An array written for a process that still runs its program lists the    *)
(* frames of the stack that was captured, in order and as far as there is  *)
(* room, whatever other sessions, tracers and processes did to the map     *)
(* and the pids in between.                                                *)
THEOREM ArraysListOwnFrames == Spec => []FramesOfOwnStack
<1>1. ReportInv => FramesOfOwnStack
  <2> SUFFICES ASSUME ReportInv, NEW i \in DOMAIN written,
                      written[i].outcome \in {"raw", "resolved"},
                      ~symbolizer \/ written[i].program = written[i].event.program
               PROVE  \E stack \in Stacks :
                         /\ Names(written[i].event, stack)
                         /\ Lists(written[i].array,
                                  Due(stack, written[i].event.program))
    BY DEF FramesOfOwnStack
  <2> DEFINE w == written[i]
             stack == stack_traces[w.event.stack_id]
             addrs == Shown(stack)
             due == Due(stack, w.event.program)
  <2>1. stack \in Stacks /\ Names(w.event, stack)
    BY WrittenInUse DEF ReportInv
  <2>2. Len(addrs) \in Nat /\ DOMAIN addrs = 1 .. Len(addrs)
    BY <2>1, ShownIs
  <2>3. CASE w.outcome = "raw"
    <3>1. ~symbolizer /\ w.array = RawArray(addrs)
      BY <2>3 DEF ReportInv, ArraysInv
    <3>2. due = addrs
      BY <3>1 DEF Due
    <3> HIDE DEF w, stack, addrs, due
    <3>3. w.array = [k \in 1 .. Len(addrs) |-> [addr |-> addrs[k]]]
      BY <2>2, <3>1 DEF RawArray
    <3>4. Len(w.array) = Len(addrs)
      BY <2>2, <3>3
    <3>5. \A k \in DOMAIN due : w.array[k].addr = due[k]
      BY <2>2, <3>2, <3>3
    <3>6. Lists(w.array, due)
      BY <3>1, <3>2, <3>4, <3>5 DEF Lists
    <3> QED
      BY <2>1, <3>6 DEF w, stack, due
  <2>4. CASE w.outcome = "resolved"
    <3>1. symbolizer /\ w.program \in Programs /\ w.array = SymArray(w.program, addrs)
      BY <2>4 DEF ReportInv, ArraysInv
    <3>2. w.program = w.event.program
      BY <3>1
    <3>3. Resolvable(w.program, addrs)
      BY <2>1, <3>1, ShownResolvable
    <3> DEFINE frames == bsw_resolve(w.program, addrs, frame_cap(addrs))
               all == AllFrames(w.program, addrs)
               n == IF Len(all) < 4 * Len(addrs) THEN Len(all) ELSE 4 * Len(addrs)
    <3>4. due = SubSeq(all, 1, n)
      BY <3>1, <3>2 DEF Due, AllFrames
    <3> HIDE DEF w, stack, addrs, due, all, frames
    <3>5. /\ frames \in Seq(Frames)
          /\ all \in Seq(Frames)
          /\ CutAt(frames, all, Len(all), 4 * Len(addrs))
          /\ Len(w.array) = Len(frames)
          /\ \A k \in 1 .. Len(frames) :
                /\ w.array[k].sym = Text(frames[k].sym)
                /\ w.array[k].inlined = frames[k].inlined
      BY <3>1, <3>3, SymArrayIs DEF frames, all
    <3>6. n \in Nat /\ n <= Len(all)
      BY <2>2, <3>5
    <3>7. Len(frames) = n /\ \A k \in 1 .. n : frames[k] = all[k]
      BY <3>5 DEF CutAt
    <3> HIDE DEF n
    <3>8. Len(due) = n /\ DOMAIN due = 1 .. n /\ \A k \in 1 .. n : due[k] = all[k]
      BY <3>4, <3>5, <3>6
    <3>9. \A k \in 1 .. n : frames[k] \in Frames
      BY <3>5, <3>7
    <3>10. ASSUME NEW k \in DOMAIN due
           PROVE  /\ w.array[k].inlined = due[k].inlined
                  /\ due[k].sym # << >> => IsPrefix(w.array[k].sym, due[k].sym)
      <4>1. k \in 1 .. n /\ due[k] = frames[k] /\ frames[k] \in Frames
        BY <3>7, <3>8, <3>9
      <4>2. w.array[k].sym = Text(frames[k].sym)
            /\ w.array[k].inlined = frames[k].inlined
        BY <3>5, <3>7, <4>1
      <4> QED
        BY <4>1, <4>2, TextFits
    <3>11. Lists(w.array, due)
      BY <3>1, <3>5, <3>7, <3>8, <3>10 DEF Lists
    <3> QED
      BY <2>1, <3>11 DEF w, stack, due
  <2> QED
    BY <2>3, <2>4
<1> QED
  BY <1>1, ReportInvariance, PTL
=============================================================================
