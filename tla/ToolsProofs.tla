---------------------------- MODULE ToolsProofs ----------------------------
(***************************************************************************)
(* Theorems about Tools, for any processes and any line-ups.  The lemmas   *)
(* on the tables say what the steps of the four programs are; the rest     *)
(* only uses TableFact.                                                    *)
(***************************************************************************)
EXTENDS Tools, TLAPS

(* What the tables say of step i of a program.                             *)
TableFact(prog, i) ==
    LET table == Steps[prog]
        s     == table[i]
    IN  /\ s.does = "pin" =>
              /\ i > 1
              /\ table[i-1].does = "create"
              /\ table[i-1].gets = s.gets
        /\ s.does \in {"pin", "create"} =>
              /\ \E obj \in Object : s.gets = {obj}
              /\ s.onfail = "cleanup"
        /\ s.onfail = "go_on" => i < Len(table)
        /\ s.does = "bpf_xdp_attach" => prog = "count_packets"
        /\ s.does = "signals" /\ prog = "count_packets" =>
              i > 1 /\ table[i-1].does = "globals"
        /\ s.onfail = "return" =>
              \A j \in 1 .. i-1 :
                 /\ table[j].does # "signals"
                 /\ table[j].gets \subseteq {"cuda_lib_path"}
        /\ s.gets \subseteq Freed[prog]
        /\ s.does \notin {"poll", "interrupted"}

LEMMA UnifiedTable ==
    /\ Len(Steps["unified_trace"]) = 16
    /\ \A i \in 1 .. 16 : TableFact("unified_trace", i)
<1>1. Steps["unified_trace"] = unified_trace
  BY DEF Steps
<1>2. Len(unified_trace) = 16
  BY DEF unified_trace, Step, Signals
<1>3. \A i \in 1 .. 16 : TableFact("unified_trace", i)
  <2> SUFFICES ASSUME NEW i \in 1 .. 16
               PROVE  TableFact("unified_trace", i)
    OBVIOUS
  <2>1. CASE i \in {1}
    BY <1>1, <1>2, <2>1, SMTT(60) DEF TableFact, unified_trace, Step, Signals, Object, Freed
  <2>2. CASE i \in {2, 3}
    BY <1>1, <1>2, <2>2, SMTT(60) DEF TableFact, unified_trace, Step, Signals, Object, Freed
  <2>3. CASE i \in {4}
    BY <1>1, <1>2, <2>3, SMTT(60) DEF TableFact, unified_trace, Step, Signals, Object, Freed
  <2>4. CASE i \in {5}
    <3>1. /\ unified_trace[4] = Step("create", {"cpu_obj"}, "cleanup")
          /\ unified_trace[5] = Step("pin", {"cpu_obj"}, "cleanup")
      BY DEF unified_trace, Step, Signals
    <3>2. i = 5 /\ i - 1 = 4
      BY <2>4
    <3> QED  BY <1>1, <1>2, <3>1, <3>2 DEF TableFact, Step, Object, Freed
  <2>5. CASE i \in {6, 7, 8}
    BY <1>1, <1>2, <2>5, SMTT(60) DEF TableFact, unified_trace, Step, Signals, Object, Freed
  <2>6. CASE i \in {9, 10}
    BY <1>1, <1>2, <2>6, SMTT(60) DEF TableFact, unified_trace, Step, Signals, Object, Freed
  <2>7. CASE i \in {11}
    <3>1. /\ unified_trace[10] = Step("create", {"gpu_obj"}, "cleanup")
          /\ unified_trace[11] = Step("pin", {"gpu_obj"}, "cleanup")
      BY DEF unified_trace, Step, Signals
    <3>2. i = 11 /\ i - 1 = 10
      BY <2>7
    <3> QED  BY <1>1, <1>2, <3>1, <3>2 DEF TableFact, Step, Object, Freed
  <2>8. CASE i \in {12, 13}
    BY <1>1, <1>2, <2>8, SMTT(60) DEF TableFact, unified_trace, Step, Signals, Object, Freed
  <2>9. CASE i \in {14, 15, 16}
    BY <1>1, <1>2, <2>9, SMTT(60) DEF TableFact, unified_trace, Step, Signals, Object, Freed
  <2> QED  BY <2>1, <2>2, <2>3, <2>4, <2>5, <2>6, <2>7, <2>8, <2>9
<1> QED  BY <1>1, <1>2, <1>3

LEMMA CudaTable ==
    /\ Len(Steps["trace_cuda"]) = 7
    /\ \A i \in 1 .. 7 : TableFact("trace_cuda", i)
<1>1. Steps["trace_cuda"] = trace_cuda
  BY DEF Steps
<1>2. Len(trace_cuda) = 7
  BY DEF trace_cuda, Step, Signals
<1>3. \A i \in 1 .. 7 : TableFact("trace_cuda", i)
  <2> SUFFICES ASSUME NEW i \in 1 .. 7
               PROVE  TableFact("trace_cuda", i)
    OBVIOUS
  <2>1. CASE i \in {1}
    BY <1>1, <1>2, <2>1, SMTT(60) DEF TableFact, trace_cuda, Step, Signals, Object, Freed
  <2>2. CASE i \in {2}
    BY <1>1, <1>2, <2>2, SMTT(60) DEF TableFact, trace_cuda, Step, Signals, Object, Freed
  <2>3. CASE i \in {3, 4}
    BY <1>1, <1>2, <2>3, SMTT(60) DEF TableFact, trace_cuda, Step, Signals, Object, Freed
  <2>4. CASE i \in {5, 6, 7}
    BY <1>1, <1>2, <2>4, SMTT(60) DEF TableFact, trace_cuda, Step, Signals, Object, Freed
  <2> QED  BY <2>1, <2>2, <2>3, <2>4
<1> QED  BY <1>1, <1>2, <1>3

LEMMA ExecTable ==
    /\ Len(Steps["trace_exec"]) = 6
    /\ \A i \in 1 .. 6 : TableFact("trace_exec", i)
<1>1. Steps["trace_exec"] = trace_exec
  BY DEF Steps
<1>2. Len(trace_exec) = 6
  BY DEF trace_exec, Step, Signals
<1>3. \A i \in 1 .. 6 : TableFact("trace_exec", i)
  <2> SUFFICES ASSUME NEW i \in 1 .. 6
               PROVE  TableFact("trace_exec", i)
    OBVIOUS
  <2>1. CASE i \in {1}
    BY <1>1, <1>2, <2>1, SMTT(60) DEF TableFact, trace_exec, Step, Signals, Object, Freed
  <2>2. CASE i \in {2, 3}
    BY <1>1, <1>2, <2>2, SMTT(60) DEF TableFact, trace_exec, Step, Signals, Object, Freed
  <2>3. CASE i \in {4, 5, 6}
    BY <1>1, <1>2, <2>3, SMTT(60) DEF TableFact, trace_exec, Step, Signals, Object, Freed
  <2> QED  BY <2>1, <2>2, <2>3
<1> QED  BY <1>1, <1>2, <1>3

LEMMA PacketsTable ==
    /\ Len(Steps["count_packets"]) = 9
    /\ \A i \in 1 .. 9 : TableFact("count_packets", i)
<1>1. Steps["count_packets"] = count_packets
  BY DEF Steps
<1>2. Len(count_packets) = 9
  BY DEF count_packets, Step, Signals
<1>3. \A i \in 1 .. 9 : TableFact("count_packets", i)
  <2> SUFFICES ASSUME NEW i \in 1 .. 9
               PROVE  TableFact("count_packets", i)
    OBVIOUS
  <2>1. CASE i \in {1}
    BY <1>1, <1>2, <2>1, SMTT(60) DEF TableFact, count_packets, Step, Signals, Object, Freed
  <2>2. CASE i \in {2}
    BY <1>1, <1>2, <2>2, SMTT(60) DEF TableFact, count_packets, Step, Signals, Object, Freed
  <2>3. CASE i \in {3, 4}
    BY <1>1, <1>2, <2>3, SMTT(60) DEF TableFact, count_packets, Step, Signals, Object, Freed
  <2>4. CASE i \in {5, 6}
    BY <1>1, <1>2, <2>4, SMTT(60) DEF TableFact, count_packets, Step, Signals, Object, Freed
  <2>5. CASE i \in {7, 8}
    BY <1>1, <1>2, <2>5, SMTT(60) DEF TableFact, count_packets, Step, Signals, Object, Freed
  <2>6. CASE i \in {9}
    BY <1>1, <1>2, <2>6, SMTT(60) DEF TableFact, count_packets, Step, Signals, Object, Freed
  <2> QED  BY <2>1, <2>2, <2>3, <2>4, <2>5, <2>6
<1> QED  BY <1>1, <1>2, <1>3

(* Every program has at least one step.                                    *)
LEMMA Tables ==
    ASSUME NEW prog \in Program
    PROVE  /\ Len(Steps[prog]) \in Nat \ {0}
           /\ \A i \in 1 .. Len(Steps[prog]) : TableFact(prog, i)
<1>1. CASE prog = "unified_trace"
  BY <1>1, UnifiedTable, 16 \in Nat \ {0}
<1>2. CASE prog = "trace_cuda"
  BY <1>2, CudaTable, 7 \in Nat \ {0}
<1>3. CASE prog = "trace_exec"
  BY <1>3, ExecTable, 6 \in Nat \ {0}
<1>4. CASE prog = "count_packets"
  BY <1>4, PacketsTable, 9 \in Nat \ {0}
<1> QED  BY <1>1, <1>2, <1>3, <1>4 DEF Program

-----------------------------------------------------------------------------
(* The types, with what they need to be inductive: a process that is       *)
(* starting has a step to make.                                            *)
HasStep == \A p \in Processes : at[p] = "start" => done[p] < Len(Steps[program[p]])
Typed   == TypeOK /\ HasStep

LEMMA ProgramType ==
    ASSUME Typed, NEW p \in Processes
    PROVE  /\ program[p] \in Program
           /\ Len(Steps[program[p]]) \in Nat \ {0}
           /\ done[p] \in Nat
           /\ at[p] = "start" => TableFact(program[p], done[p] + 1)
<1>1. program[p] \in Program
  BY ToolsAssumption DEF Typed, TypeOK
<1>2. Len(Steps[program[p]]) \in Nat \ {0}
  BY <1>1, Tables
<1>3. done[p] \in 0 .. Len(Steps[program[p]])
  BY DEF Typed, TypeOK
<1>4. ASSUME at[p] = "start" PROVE done[p] + 1 \in 1 .. Len(Steps[program[p]])
  BY <1>2, <1>3, <1>4 DEF Typed, HasStep
<1> QED  BY <1>1, <1>2, <1>3, <1>4, Tables

LEMMA TypedInit == Init => Typed
<1> SUFFICES ASSUME Init PROVE Typed
  OBVIOUS
<1>1. \A p \in Processes : program[p] \in Program
  BY ToolsAssumption DEF Init
<1>2. \A p \in Processes : Len(Steps[program[p]]) \in Nat \ {0}
  BY <1>1, Tables
<1>3. \A p \in Processes : done[p] = 0
  BY DEF Init
<1>4. ASSUME NEW p \in Processes
      PROVE  0 <= Len(Steps[program[p]]) /\ 0 < Len(Steps[program[p]])
  <2>1. \A n \in Nat \ {0} : 0 <= n /\ 0 < n
    OBVIOUS
  <2> QED  BY <1>2, <2>1
<1>5. \A p \in Processes : done[p] <= Len(Steps[program[p]])
  BY <1>3, <1>4
<1>6. HasStep
  BY <1>3, <1>4 DEF HasStep
<1> QED  BY <1>5, <1>6 DEF Init, Typed, TypeOK

(* A step that changes the place of one process and its like.              *)
LEMMA SucceedTyped ==
    ASSUME Typed, NEW p \in Processes, Starting(p), Succeed(p),
           maps' \in [Processes -> [Object -> (Processes \X Object) \cup {None}]],
           pinned' \in (Processes \X Object) \cup {None},
           xdp' \in Processes \cup {None}
    PROVE  Typed'
<1>1. \A q \in Processes :
        /\ Len(Steps[program[q]]) \in Nat \ {0}
        /\ done[q] \in 0 .. Len(Steps[program[q]])
  BY ProgramType DEF Typed, TypeOK
<1>2. done[p] < Len(Steps[program[p]])
  BY DEF Typed, HasStep, Starting
<1>3. \A q \in Processes : done'[q] = IF q = p THEN done[q] + 1 ELSE done[q]
  BY DEF Typed, TypeOK, Succeed
<1>4. TypeOK'
  <2>1. done' \in [Processes -> Nat]
    BY DEF Typed, TypeOK, Succeed
  <2>2. \A q \in Processes : done'[q] <= Len(Steps[program'[q]])
    BY <1>1, <1>2, <1>3 DEF Succeed
  <2>3. at' \in [Processes -> {"start", "test", "tested", "wait", "consume",
                               "output", "cleanup", "atexit", "exited"}]
    BY DEF Typed, TypeOK, Succeed
  <2> QED  BY <2>1, <2>2, <2>3 DEF Typed, TypeOK, Succeed
<1>5. HasStep'
  <2> SUFFICES ASSUME NEW q \in Processes, at'[q] = "start"
               PROVE  done'[q] < Len(Steps[program[q]])
    BY DEF HasStep, Succeed
  <2>1. CASE q = p
    BY <1>1, <1>2, <1>3, <2>1 DEF Typed, TypeOK, Succeed
  <2>2. CASE q # p
    BY <1>3, <2>2 DEF Typed, TypeOK, HasStep, Succeed
  <2> QED  BY <2>1, <2>2
<1> QED  BY <1>4, <1>5 DEF Typed

LEMMA TypedStep == Typed /\ [Next]_vars => Typed'
<1> SUFFICES ASSUME Typed, [Next]_vars PROVE Typed'
  OBVIOUS
<1> USE DEF own, kernel
<1>0. \A q \in Processes :
        /\ Len(Steps[program[q]]) \in Nat \ {0}
        /\ done[q] \in 0 .. Len(Steps[program[q]])
  BY ProgramType DEF Typed, TypeOK
<1>1. ASSUME NEW p \in Processes, Do(p) PROVE Typed'
  BY <1>1, SucceedTyped DEF Do, Typed, TypeOK
<1>2. ASSUME NEW p \in Processes, CreateMaps(p) PROVE Typed'
  <2>1. PICK obj \in Now(p).gets :
           maps' = [maps EXCEPT ![p][obj] =
                       IF pinned # None THEN pinned ELSE <<p, obj>>]
    BY <1>2 DEF CreateMaps
  <2>2. obj \in Object
    BY <1>2, <2>1, ProgramType DEF CreateMaps, Starting, TableFact, Now
  <2>3. pinned \in (Processes \X Object) \cup {None}
    BY DEF Typed, TypeOK
  <2>4. maps' \in [Processes -> [Object -> (Processes \X Object) \cup {None}]]
    BY <2>1, <2>2, <2>3 DEF Typed, TypeOK
  <2> QED  BY <1>2, <2>4, SucceedTyped DEF CreateMaps, Typed, TypeOK
<1>3. ASSUME NEW p \in Processes, PinMaps(p) PROVE Typed'
  <2>1. PICK obj \in Now(p).gets : Pin(p, obj)
    BY <1>3 DEF PinMaps
  <2>2. obj \in Object
    BY <1>3, <2>1, ProgramType DEF PinMaps, Starting, TableFact, Now
  <2>3. /\ pinned \in (Processes \X Object) \cup {None}
        /\ maps \in [Processes -> [Object -> (Processes \X Object) \cup {None}]]
    BY DEF Typed, TypeOK
  <2>4. /\ pinned' \in (Processes \X Object) \cup {None}
        /\ maps' \in [Processes -> [Object -> (Processes \X Object) \cup {None}]]
    BY <2>1, <2>2, <2>3 DEF Pin
  <2> QED  BY <1>3, <2>4, SucceedTyped DEF PinMaps, Typed, TypeOK
<1>4. ASSUME NEW p \in Processes, AttachXdp(p) PROVE Typed'
  BY <1>4, SucceedTyped DEF AttachXdp, Typed, TypeOK
<1>5. ASSUME NEW p \in Processes, Fail(p) PROVE Typed'
  <2>1. CASE FailReturns(p)
    BY <1>5, <2>1 DEF Fail, FailReturns, Starting, Typed, TypeOK, HasStep
  <2>2. CASE FailCleansUp(p)
    BY <1>5, <2>2 DEF Fail, FailCleansUp, Starting, Typed, TypeOK, HasStep
  <2>3. CASE FailGoesOn(p)
    <3>1. done[p] + 1 < Len(Steps[program[p]])
      BY <1>5, <2>3, ProgramType DEF Fail, FailGoesOn, Starting, TableFact, Now
    <3>2. \A q \in Processes : done'[q] = IF q = p THEN done[q] + 1 ELSE done[q]
      BY <2>3 DEF FailGoesOn, Typed, TypeOK
    <3> QED  BY <1>0, <1>5, <2>3, <3>1, <3>2 DEF Fail, FailGoesOn, Typed, TypeOK, HasStep
  <2> QED  BY <1>5, <2>1, <2>2, <2>3 DEF Fail
<1>6. ASSUME NEW p \in Processes,
             LoopTest(p) \/ GoToSleep(p) \/ Timeout(p) \/ Consumed(p) \/ RecordsCome(p)
      PROVE  Typed'
  BY <1>6 DEF LoopTest, EndLoop, GoToSleep, Timeout, Consumed, RecordsCome,
              LoopUnchanged, Typed, TypeOK, HasStep
<1>7. ASSUME NEW p \in Processes, PollFails(p) \/ Signal(p) \/ Killed(p) PROVE Typed'
  BY <1>7 DEF PollFails, EndLoop, Signal, Interrupt, Killed,
              LoopUnchanged, Typed, TypeOK, HasStep
<1>8. ASSUME NEW p \in Processes, Output(p) \/ Cleanup(p) \/ AtExit(p) PROVE Typed'
  BY <1>8 DEF Output, Cleanup, CleanupXdp, ExitStatus, AtExit,
              LoopUnchanged, Typed, TypeOK, HasStep
<1>9. CASE UNCHANGED vars
  BY <1>9 DEF vars, Typed, TypeOK, HasStep
<1> QED
  BY <1>1, <1>2, <1>3, <1>4, <1>5, <1>6, <1>7, <1>8, <1>9 DEF Next, Run

(* TypeOK holds, whatever runs beside what: no main makes a step that is   *)
(* not there, and every one exits with 0 or 1.                             *)
THEOREM ToolsTypeCorrect == Spec => []TypeOK
<1>1. Typed => TypeOK
  BY DEF Typed
<1> QED  BY <1>1, TypedInit, TypedStep, PTL DEF Spec

-----------------------------------------------------------------------------
(* What a process holds it has got in a step it has made, and when main    *)
(* has returned it holds nothing.                                          *)
HeldInv ==
    /\ held = [p \in Processes |-> held[p]]
    /\ \A p \in Processes :
          /\ status[p] # None => at[p] \in {"atexit", "exited"} /\ held[p] = {}
          /\ \A x \in held[p] :
                \E i \in 1 .. done[p] : x \in Steps[program[p]][i].gets

LEMMA HeldStep == Typed /\ HeldInv /\ [Next]_vars => HeldInv'
<1> SUFFICES ASSUME Typed, HeldInv, [Next]_vars PROVE HeldInv'
  OBVIOUS
<1> USE DEF own, kernel
<1>1. ASSUME NEW p \in Processes, Starting(p), Succeed(p) PROVE HeldInv'
  <2>1. /\ done' = [done EXCEPT ![p] = @ + 1]
        /\ held' = [held EXCEPT ![p] = @ \cup Now(p).gets]
        /\ UNCHANGED <<program, status>>
    BY <1>1 DEF Succeed
  <2>2. done[p] \in Nat /\ done'[p] = done[p] + 1
    BY <2>1 DEF Typed, TypeOK
  <2>3. \A x \in held'[p] :
           \E i \in 1 .. done'[p] : x \in Steps[program'[p]][i].gets
    <3> SUFFICES ASSUME NEW x \in held'[p]
                 PROVE  \E i \in 1 .. done'[p] : x \in Steps[program'[p]][i].gets
      OBVIOUS
    <3>1. CASE x \in held[p]
      <4>1. PICK i \in 1 .. done[p] : x \in Steps[program[p]][i].gets
        BY <3>1 DEF HeldInv
      <4>2. i \in 1 .. done'[p]
        BY <2>2
      <4> QED  BY <2>1, <4>1, <4>2
    <3>2. CASE x \in Now(p).gets
      <4>1. done[p] + 1 \in 1 .. done'[p]
        BY <2>2
      <4> QED  BY <2>1, <3>2, <4>1 DEF Now
    <3> QED  BY <2>1, <3>1, <3>2 DEF HeldInv
  <2>4. status[p] = None
    BY <1>1 DEF HeldInv, Starting
  <2>5. \A q \in Processes \ {p} :
           held'[q] = held[q] /\ done'[q] = done[q] /\ at'[q] = at[q]
    BY <1>1, <2>1 DEF Succeed, HeldInv, Typed, TypeOK
  <2> QED  BY <2>1, <2>3, <2>4, <2>5 DEF HeldInv
<1>2. ASSUME NEW p \in Processes, Fail(p) PROVE HeldInv'
  <2>1. CASE FailReturns(p)
    <3>1. \A x \in held[p] : x = "cuda_lib_path"
      <4> SUFFICES ASSUME NEW x \in held[p] PROVE x = "cuda_lib_path"
        OBVIOUS
      <4>1. PICK i \in 1 .. done[p] : x \in Steps[program[p]][i].gets
        BY DEF HeldInv
      <4>2. done[p] \in Nat /\ i \in 1 .. (done[p] + 1) - 1
        BY DEF Typed, TypeOK
      <4>3. Steps[program[p]][i].gets \subseteq {"cuda_lib_path"}
        BY <1>2, <2>1, <4>2, ProgramType DEF Fail, Starting, FailReturns, TableFact, Now
      <4> QED  BY <4>1, <4>3
    <3> QED  BY <1>2, <2>1, <3>1 DEF Fail, FailReturns, HeldInv, Typed, TypeOK
  <2>2. CASE FailCleansUp(p)
    BY <1>2, <2>2 DEF Fail, FailCleansUp, Starting, HeldInv, Typed, TypeOK
  <2>3. CASE FailGoesOn(p)
    <3>1. /\ UNCHANGED <<at, held, status, program>>
          /\ done[p] \in Nat /\ done'[p] = done[p] + 1
          /\ \A q \in Processes \ {p} : done'[q] = done[q]
      BY <1>2, <2>3 DEF Fail, FailGoesOn, Typed, TypeOK
    <3>2. 1 .. done[p] \subseteq 1 .. done'[p]
      BY <3>1
    <3> QED  BY <3>1, <3>2 DEF HeldInv
  <2> QED  BY <1>2, <2>1, <2>2, <2>3 DEF Fail
<1>3. ASSUME NEW p \in Processes, Cleanup(p) PROVE HeldInv'
  <2>1. held[p] \subseteq Freed[program[p]]
    <3> SUFFICES ASSUME NEW x \in held[p] PROVE x \in Freed[program[p]]
      OBVIOUS
    <3>1. PICK i \in 1 .. done[p] : x \in Steps[program[p]][i].gets
      BY DEF HeldInv
    <3>2. i \in 1 .. Len(Steps[program[p]]) /\ program[p] \in Program
      BY ProgramType DEF Typed, TypeOK
    <3> QED  BY <3>1, <3>2, Tables DEF TableFact
  <2> QED  BY <1>3, <2>1 DEF Cleanup, HeldInv, Typed, TypeOK
<1>4. ASSUME NEW p \in Processes,
             \/ LoopTest(p) \/ GoToSleep(p) \/ Timeout(p) \/ Consumed(p)
             \/ RecordsCome(p) \/ PollFails(p) \/ Signal(p) \/ Killed(p)
             \/ Output(p) \/ AtExit(p)
      PROVE  HeldInv'
  <2>1. /\ UNCHANGED <<program, done, held, status>>
        /\ \A q \in Processes \ {p} : at'[q] = at[q]
        /\ at'[p] = at[p] \/ at'[p] \in {"atexit", "exited"}
           \/ at[p] \notin {"atexit", "exited"}
    BY <1>4 DEF LoopTest, GoToSleep, Timeout, Consumed, RecordsCome, PollFails,
         EndLoop, Signal, Interrupt, Killed, Output, AtExit, LoopUnchanged, Typed, TypeOK
  <2> QED  BY <2>1 DEF HeldInv
<1>5. CASE UNCHANGED vars
  BY <1>5 DEF vars, HeldInv
<1> QED
  BY <1>1, <1>2, <1>3, <1>4, <1>5 DEF Next, Run, Do, CreateMaps, PinMaps, AttachXdp

(* NothingHeld: every path through each main, with whatever step failing,  *)
(* frees all that was acquired.                                            *)
THEOREM NothingLeaks == Spec => []NothingHeld
<1>1. Init => HeldInv
  BY DEF Init, HeldInv
<1>2. HeldInv => NothingHeld
  BY DEF HeldInv, NothingHeld
<1> QED  BY <1>1, <1>2, TypedInit, TypedStep, HeldStep, PTL DEF Spec

-----------------------------------------------------------------------------
(* An object that is loaded uses the pinned map; one that is being loaded  *)
(* has a map to pin.                                                       *)
Created(p, obj) ==
    \E i \in 1 .. done[p] :
        /\ Steps[program[p]][i].does = "create"
        /\ obj \in Steps[program[p]][i].gets

PinInv ==
    \A p \in Processes, obj \in Object :
        /\ Loaded(p, obj) => pinned # None /\ maps[p][obj] = pinned
        /\ Created(p, obj) => maps[p][obj] # None

(* What a step adds to Loaded and Created.                                 *)
LEMMA StepsMade ==
    ASSUME Typed, NEW p \in Processes, Starting(p),
           done' = [done EXCEPT ![p] = @ + 1], program' = program,
           NEW q \in Processes, NEW obj \in Object
    PROVE  /\ Loaded(q, obj)' =>
                  \/ Loaded(q, obj)
                  \/ q = p /\ Now(p).does = "pin" /\ obj \in Now(p).gets
           /\ Created(q, obj)' =>
                  \/ Created(q, obj)
                  \/ q = p /\ Now(p).does = "create" /\ obj \in Now(p).gets
<1>1. done[p] \in Nat /\ done[q] \in Nat
  BY DEF Typed, TypeOK
<1>2. done'[q] = IF q = p THEN done[q] + 1 ELSE done[q]
  BY DEF Typed, TypeOK
<1>3. \A i \in 1 .. done'[q] : i \in 1 .. done[q] \/ (q = p /\ i = done[p] + 1)
  BY <1>1, <1>2
<1> QED  BY <1>3 DEF Loaded, Created, Now

LEMMA SameSteps ==
    ASSUME UNCHANGED <<done, program>>, NEW p \in Processes, NEW obj \in Object
    PROVE  (Loaded(p, obj)' <=> Loaded(p, obj)) /\ (Created(p, obj)' <=> Created(p, obj))
BY DEF Loaded, Created

LEMMA PinStep == Typed /\ PinInv /\ [Next]_vars => PinInv'
<1> SUFFICES ASSUME Typed, PinInv, [Next]_vars PROVE PinInv'
  OBVIOUS
<1> USE DEF own, kernel
<1>1. ASSUME NEW p \in Processes, Starting(p),
             done' = [done EXCEPT ![p] = @ + 1], program' = program,
             Now(p).does \notin {"create", "pin"}, UNCHANGED <<maps, pinned>>
      PROVE  PinInv'
  BY <1>1, StepsMade DEF PinInv
<1>2. ASSUME NEW p \in Processes, Do(p) \/ AttachXdp(p) PROVE PinInv'
  BY <1>1, <1>2 DEF Do, AttachXdp, Succeed
<1>3. ASSUME NEW p \in Processes, CreateMaps(p) PROVE PinInv'
  <2>1. PICK obj \in Now(p).gets :
           maps' = [maps EXCEPT ![p][obj] =
                       IF pinned # None THEN pinned ELSE <<p, obj>>]
    BY <1>3 DEF CreateMaps
  <2>2. obj \in Object /\ Now(p).gets = {obj} /\ Now(p).does = "create"
    BY <1>3, <2>1, ProgramType DEF CreateMaps, Starting, TableFact, Now
  <2>3. /\ Starting(p) /\ done' = [done EXCEPT ![p] = @ + 1]
        /\ UNCHANGED <<program, pinned>>
    BY <1>3 DEF CreateMaps, Succeed
  <2>4. <<p, obj>> # None
    BY <2>2, ToolsAssumption
  <2>5. \A q \in Processes, o \in Object :
           maps'[q][o] = IF q = p /\ o = obj
                         THEN IF pinned # None THEN pinned ELSE <<p, obj>>
                         ELSE maps[q][o]
    BY <2>1, <2>2 DEF Typed, TypeOK
  <2>6. ASSUME NEW q \in Processes, NEW o \in Object
        PROVE  /\ Loaded(q, o)' => pinned' # None /\ maps'[q][o] = pinned'
               /\ Created(q, o)' => maps'[q][o] # None
    <3>1. Loaded(q, o)' => Loaded(q, o)
      BY <2>2, <2>3, StepsMade
    <3>2. Created(q, o)' => Created(q, o) \/ (q = p /\ o = obj)
      BY <2>2, <2>3, StepsMade
    <3> QED  BY <2>3, <2>4, <2>5, <3>1, <3>2 DEF PinInv
  <2> QED  BY <2>6 DEF PinInv
<1>4. ASSUME NEW p \in Processes, PinMaps(p) PROVE PinInv'
  <2>1. PICK obj \in Now(p).gets : Pin(p, obj)
    BY <1>4 DEF PinMaps
  <2>2. obj \in Object /\ Now(p).gets = {obj} /\ Now(p).does = "pin"
    BY <1>4, <2>1, ProgramType DEF PinMaps, Starting, TableFact, Now
  <2>3. /\ Starting(p) /\ done' = [done EXCEPT ![p] = @ + 1]
        /\ UNCHANGED program
    BY <1>4 DEF PinMaps, Succeed
  <2>4. Created(p, obj)
    <3>1. /\ done[p] + 1 > 1
          /\ Steps[program[p]][(done[p] + 1) - 1].does = "create"
          /\ obj \in Steps[program[p]][(done[p] + 1) - 1].gets
      BY <2>2, <2>3, ProgramType DEF Starting, TableFact, Now
    <3>2. (done[p] + 1) - 1 = done[p] /\ done[p] \in 1 .. done[p]
      <4>1. done[p] \in Nat
        BY DEF Typed, TypeOK
      <4> QED  BY <3>1, <4>1
    <3> QED  BY <3>1, <3>2 DEF Created
  <2>5. maps[p][obj] # None
    BY <2>2, <2>4 DEF PinInv
  <2>6. /\ pinned' # None
        /\ pinned # None => pinned' = pinned
        /\ \A q \in Processes, o \in Object :
              maps'[q][o] = IF q = p /\ o = obj THEN pinned' ELSE maps[q][o]
    BY <2>1, <2>2, <2>5 DEF Pin, Typed, TypeOK
  <2>7. ASSUME NEW q \in Processes, NEW o \in Object
        PROVE  /\ Loaded(q, o)' => pinned' # None /\ maps'[q][o] = pinned'
               /\ Created(q, o)' => maps'[q][o] # None
    <3>1. Loaded(q, o)' => Loaded(q, o) \/ (q = p /\ o = obj)
      BY <2>2, <2>3, StepsMade
    <3>2. Created(q, o)' => Created(q, o)
      BY <2>2, <2>3, StepsMade
    <3> QED  BY <2>6, <3>1, <3>2 DEF PinInv
  <2> QED  BY <2>7 DEF PinInv
<1>5. ASSUME NEW p \in Processes, Fail(p) PROVE PinInv'
  <2>1. CASE FailGoesOn(p)
    <3>1. Now(p).does \notin {"create", "pin"}
      BY <1>5, <2>1, ProgramType DEF Fail, FailGoesOn, Starting, TableFact, Now
    <3> QED  BY <1>1, <1>5, <2>1, <3>1 DEF Fail, FailGoesOn
  <2>2. CASE FailReturns(p) \/ FailCleansUp(p)
    <3>1. UNCHANGED <<done, program, maps, pinned>>
      BY <1>5, <2>2 DEF Fail, FailReturns, FailCleansUp
    <3> QED  BY <3>1, SameSteps DEF PinInv
  <2> QED  BY <1>5, <2>1, <2>2 DEF Fail
<1>6. ASSUME NEW p \in Processes,
             \/ LoopTest(p) \/ GoToSleep(p) \/ Timeout(p) \/ Consumed(p)
             \/ RecordsCome(p) \/ PollFails(p) \/ Signal(p) \/ Killed(p)
             \/ Output(p) \/ Cleanup(p) \/ AtExit(p)
      PROVE  PinInv'
  <2>1. UNCHANGED <<done, program, maps, pinned>>
    BY <1>6 DEF LoopTest, GoToSleep, Timeout, Consumed, RecordsCome, PollFails,
         Signal, Killed, Output, Cleanup, AtExit, LoopUnchanged
  <2> QED  BY <2>1, SameSteps DEF PinInv
<1>7. CASE UNCHANGED vars
  BY <1>7, SameSteps DEF vars, PinInv
<1> QED
  BY <1>2, <1>3, <1>4, <1>5, <1>6, <1>7 DEF Next, Run

(* OneStackMap: however many loaders start, fail and end in whatever       *)
(* order, the objects that got loaded share one address space of stacks.   *)
THEOREM StackMapShared == Spec => []OneStackMap
<1>1. Init => PinInv
  BY DEF Init, PinInv, Loaded, Created
<1>2. PinInv => OneStackMap
  BY DEF PinInv, OneStackMap
<1> QED  BY <1>1, <1>2, TypedInit, TypedStep, PinStep, PTL DEF Spec

-----------------------------------------------------------------------------
(* Only a count_packets is attached, and not one that has handlers and has *)
(* exited.                                                                 *)
XdpInv ==
    \A p \in Processes :
        /\ xdp = p => program[p] = "count_packets"
        /\ at[p] = "exited" /\ Handled(p) => xdp # p

(* The globals of cleanup_xdp are stored before the handlers are installed.*)
LEMMA GlobalsFirst ==
    ASSUME Typed, NEW p \in Processes,
           program[p] = "count_packets", Handled(p)
    PROVE  HasDone(p, "globals")
<1>1. PICK i \in 1 .. done[p] : Steps[program[p]][i].does = "signals"
  BY DEF Handled, HasDone
<1>2. /\ done[p] \in Nat /\ done[p] <= Len(Steps[program[p]])
      /\ program[p] \in Program /\ Len(Steps[program[p]]) \in Nat
  BY ProgramType DEF Typed, TypeOK
<1>3. i \in 1 .. Len(Steps[program[p]])
  BY <1>1, <1>2
<1>4. i > 1 /\ Steps[program[p]][i-1].does = "globals"
  BY <1>1, <1>2, <1>3, Tables DEF TableFact
<1>5. i - 1 \in 1 .. done[p]
  BY <1>1, <1>2, <1>4
<1> QED  BY <1>4, <1>5 DEF HasDone

LEMMA XdpStep == Typed /\ XdpInv /\ [Next]_vars => XdpInv'
<1> SUFFICES ASSUME Typed, XdpInv, [Next]_vars PROVE XdpInv'
  OBVIOUS
<1> USE DEF own, kernel
<1>0. \A p \in Processes : p # None
  BY ToolsAssumption
<1>1. ASSUME NEW p \in Processes, Starting(p), Succeed(p),
             \/ UNCHANGED xdp
             \/ xdp' = p /\ program[p] = "count_packets"
      PROVE  XdpInv'
  <2> SUFFICES ASSUME NEW q \in Processes
               PROVE  /\ xdp' = q => program'[q] = "count_packets"
                      /\ at'[q] = "exited" /\ Handled(q)' => xdp' # q
    BY DEF XdpInv
  <2>1. CASE q = p
    BY <1>1, <2>1 DEF Succeed, XdpInv, Typed, TypeOK, Starting
  <2>2. CASE q # p
    <3>1. /\ at'[q] = at[q] /\ done'[q] = done[q] /\ program' = program
      BY <1>1, <2>2 DEF Succeed, Typed, TypeOK
    <3>2. Handled(q)' <=> Handled(q)
      BY <3>1 DEF Handled, HasDone
    <3> QED  BY <1>1, <2>2, <3>1, <3>2 DEF XdpInv
  <2> QED  BY <2>1, <2>2
<1>2. ASSUME NEW p \in Processes, AttachXdp(p) PROVE XdpInv'
  <2>1. program[p] = "count_packets"
    BY <1>2, ProgramType DEF AttachXdp, Starting, TableFact, Now
  <2> QED  BY <1>1, <1>2, <2>1 DEF AttachXdp
<1>3. ASSUME NEW p \in Processes, UNCHANGED <<program, done>>,
             \A q \in Processes \ {p} : at'[q] = at[q],
             xdp' \in {xdp, None},
             at'[p] = "exited" /\ Handled(p) => xdp' # p
      PROVE  XdpInv'
  <2>1. \A q \in Processes : Handled(q)' <=> Handled(q)
    BY <1>3 DEF Handled, HasDone
  <2> QED  BY <1>0, <1>3, <2>1 DEF XdpInv
<1>4. ASSUME NEW p \in Processes, Fail(p) PROVE XdpInv'
  <2>1. CASE FailReturns(p)
    <3>1. ~Handled(p)
      <4> SUFFICES ASSUME NEW i \in 1 .. done[p]
                   PROVE  Steps[program[p]][i].does # "signals"
        BY DEF Handled, HasDone
      <4>1. i \in 1 .. (done[p] + 1) - 1
        BY DEF Typed, TypeOK
      <4> QED  BY <1>4, <2>1, <4>1, ProgramType
                  DEF Fail, Starting, FailReturns, TableFact, Now
    <3> QED  BY <1>3, <1>4, <2>1, <3>1 DEF Fail, FailReturns, Typed, TypeOK
  <2>2. CASE FailCleansUp(p)
    BY <1>3, <1>4, <2>2 DEF Fail, FailCleansUp, Typed, TypeOK
  <2>3. CASE FailGoesOn(p)
    <3>1. /\ UNCHANGED <<at, program, xdp>> /\ at[p] = "start"
          /\ \A q \in Processes \ {p} : done'[q] = done[q]
      BY <1>4, <2>3 DEF Fail, FailGoesOn, Starting, Typed, TypeOK
    <3>2. \A q \in Processes \ {p} : Handled(q)' <=> Handled(q)
      BY <3>1 DEF Handled, HasDone
    <3> QED  BY <3>1, <3>2 DEF XdpInv
  <2> QED  BY <1>4, <2>1, <2>2, <2>3 DEF Fail
<1>5. ASSUME NEW p \in Processes, CleanupXdp(p) PROVE Handled(p) => xdp' # p
  BY <1>0, <1>5, GlobalsFirst DEF CleanupXdp, XdpInv
<1>6. ASSUME NEW p \in Processes, Cleanup(p) \/ AtExit(p) PROVE XdpInv'
  <2>1. xdp' \in {xdp, None} /\ (Handled(p) => xdp' # p)
    BY <1>5, <1>6 DEF Cleanup, AtExit, CleanupXdp
  <2> QED  BY <1>3, <1>6, <2>1 DEF Cleanup, AtExit, Typed, TypeOK
<1>7. ASSUME NEW p \in Processes,
             \/ LoopTest(p) \/ GoToSleep(p) \/ Timeout(p) \/ Consumed(p)
             \/ RecordsCome(p) \/ PollFails(p) \/ Signal(p) \/ Killed(p)
             \/ Output(p)
      PROVE  XdpInv'
  <2>1. /\ UNCHANGED <<program, done, xdp>>
        /\ \A q \in Processes \ {p} : at'[q] = at[q]
        /\ at'[p] = "exited" => ~Handled(p)
    BY <1>7 DEF LoopTest, GoToSleep, Timeout, Consumed, RecordsCome, PollFails,
         EndLoop, Signal, Interrupt, Killed, Output, LoopUnchanged, Typed, TypeOK
  <2> QED  BY <1>3, <2>1
<1>8. CASE UNCHANGED vars
  <2>1. \A q \in Processes : Handled(q)' <=> Handled(q)
    BY <1>8 DEF vars, Handled, HasDone
  <2> QED  BY <1>8, <2>1 DEF vars, XdpInv
<1> QED
  BY <1>1, <1>2, <1>4, <1>6, <1>7, <1>8 DEF Next, Run, Do, CreateMaps, PinMaps

(* XdpDetached: no count_packets that got as far as its handlers leaves    *)
(* its program behind, however many attach and detach on the interface.    *)
THEOREM NoXdpLeftBehind == Spec => []XdpDetached
<1>1. Init => XdpInv
  BY ToolsAssumption DEF Init, XdpInv
<1>2. XdpInv => XdpDetached
  BY DEF XdpInv, XdpDetached
<1> QED  BY <1>1, <1>2, TypedInit, TypedStep, XdpStep, PTL DEF Spec

-----------------------------------------------------------------------------
(* What the status will say of what ended the run.                         *)
Failures == {"create", "pin", "load", "poll"}

ErrTells(p) ==
    /\ cause[p] \in Failures => err[p] = "error"
    /\ cause[p] = "interrupted" => err[p] = "ok"

StatusRight(p) ==
    /\ cause[p] \in Failures => status[p] = 1
    /\ cause[p] = "interrupted" => status[p] = 0

(* From the end of the start-up or of the loop to the exit, err and then   *)
(* the status fit what ended it.                                           *)
StatusInv ==
    /\ cause = [p \in Processes |-> cause[p]]
    /\ \A p \in Processes : program[p] \in {"trace_cuda", "trace_exec"} =>
          /\ at[p] \in {"output", "cleanup"} => ErrTells(p)
          /\ at[p] \in {"atexit", "exited"} => StatusRight(p)

(* A step of one process leaves what is said of the others.                *)
LEMMA OnlyOwnStatus ==
    ASSUME Typed, StatusInv, NEW p \in Processes, program' = program,
           cause' = [cause EXCEPT ![p] = cause'[p]],
           \A q \in Processes \ {p} :
              at'[q] = at[q] /\ err'[q] = err[q] /\ status'[q] = status[q],
           program[p] \in {"trace_cuda", "trace_exec"} =>
              /\ at'[p] \in {"output", "cleanup"} => ErrTells(p)'
              /\ at'[p] \in {"atexit", "exited"} => StatusRight(p)'
    PROVE  StatusInv'
<1>1. /\ cause' = [q \in Processes |-> cause'[q]]
      /\ \A q \in Processes \ {p} : cause'[q] = cause[q]
  BY DEF StatusInv
<1>2. ASSUME NEW q \in Processes, program'[q] \in {"trace_cuda", "trace_exec"}
      PROVE  /\ at'[q] \in {"output", "cleanup"} => ErrTells(q)'
             /\ at'[q] \in {"atexit", "exited"} => StatusRight(q)'
  <2>1. CASE q = p
    BY <1>2, <2>1
  <2>2. CASE q # p
    BY <1>1, <1>2, <2>2 DEF StatusInv, ErrTells, StatusRight
  <2> QED  BY <2>1, <2>2
<1> QED  BY <1>1, <1>2 DEF StatusInv

LEMMA StatusStep == Typed /\ StatusInv /\ [Next]_vars => StatusInv'
<1> SUFFICES ASSUME Typed, StatusInv, [Next]_vars PROVE StatusInv'
  OBVIOUS
<1> USE DEF own, kernel
<1>0. \A p \in Processes : cause = [cause EXCEPT ![p] = cause[p]]
  BY DEF StatusInv
<1>1. ASSUME NEW p \in Processes, Starting(p), Succeed(p) PROVE StatusInv'
  <2>1. /\ at'[p] \in {"start", "test"}
        /\ \A q \in Processes \ {p} : at'[q] = at[q]
        /\ UNCHANGED <<program, err, status, cause>>
    BY <1>1 DEF Succeed, Starting, Typed, TypeOK
  <2> QED  BY <1>0, <2>1, OnlyOwnStatus
<1>2. ASSUME NEW p \in Processes, Fail(p) PROVE StatusInv'
  <2>1. Now(p).does \notin {"poll", "interrupted"}
    BY <1>2, ProgramType DEF Fail, Starting, TableFact, Now
  <2>2. /\ at[p] = "start"
        /\ cause' = [cause EXCEPT ![p] = IF at'[p] = "start" THEN cause[p]
                                         ELSE Now(p).does]
        /\ program' = program
    BY <1>2 DEF Fail, Starting
  <2>3. /\ cause'[p] = IF at'[p] = "start" THEN cause[p] ELSE Now(p).does
        /\ cause' = [cause EXCEPT ![p] = cause'[p]]
    BY <2>2 DEF StatusInv
  <2>4. CASE FailReturns(p)
    <3>1. /\ at'[p] = "exited" /\ status'[p] = 1 /\ err' = err
          /\ \A q \in Processes \ {p} : at'[q] = at[q] /\ status'[q] = status[q]
      BY <2>4 DEF FailReturns, Typed, TypeOK
    <3>2. StatusRight(p)'
      BY <2>1, <2>3, <3>1 DEF StatusRight
    <3> QED  BY <2>2, <2>3, <3>1, <3>2, OnlyOwnStatus
  <2>5. CASE FailCleansUp(p)
    <3>1. /\ at'[p] = "cleanup" /\ status' = status
          /\ KeepsErr(Now(p)) => err'[p] = "error"
          /\ \A q \in Processes \ {p} : at'[q] = at[q] /\ err'[q] = err[q]
      BY <2>5 DEF FailCleansUp, Typed, TypeOK
    <3>2. ErrTells(p)'
      BY <2>1, <2>3, <3>1 DEF ErrTells, Failures, KeepsErr
    <3> QED  BY <2>2, <2>3, <3>1, <3>2, OnlyOwnStatus
  <2>6. CASE FailGoesOn(p)
    <3>1. UNCHANGED <<at, err, status>>
      BY <2>6 DEF FailGoesOn
    <3> QED  BY <2>2, <2>3, <3>1, OnlyOwnStatus
  <2> QED  BY <1>2, <2>4, <2>5, <2>6 DEF Fail
<1>3. ASSUME NEW p \in Processes, NEW why, NEW e \in {"ok", "error", "records"},
             EndLoop(p, why), err' = [err EXCEPT ![p] = e],
             UNCHANGED <<program, status>>,
             why \in Failures => e = "error",
             why = "interrupted" => e = "ok"
      PROVE  StatusInv'
  <2>1. /\ cause' = [cause EXCEPT ![p] = why] /\ cause'[p] = why
        /\ at'[p] \in {"output", "cleanup"} /\ err'[p] = e
        /\ \A q \in Processes \ {p} : at'[q] = at[q] /\ err'[q] = err[q]
    BY <1>3 DEF EndLoop, Typed, TypeOK, StatusInv
  <2>2. ErrTells(p)'
    BY <1>3, <2>1 DEF ErrTells
  <2> QED  BY <1>3, <2>1, <2>2, OnlyOwnStatus
<1>4. ASSUME NEW p \in Processes, LoopTest(p) PROVE StatusInv'
  <2>1. CASE EndLoop(p, "told")
    <3>1. err[p] \in {"ok", "error", "records"} /\ err' = [err EXCEPT ![p] = err[p]]
      BY <1>4 DEF LoopTest, Typed, TypeOK
    <3> QED  BY <1>3, <1>4, <2>1, <3>1 DEF LoopTest, LoopUnchanged, Failures
  <2>2. CASE at' = [at EXCEPT ![p] = "tested"] /\ UNCHANGED cause
    BY <1>0, <1>4, <2>2, OnlyOwnStatus DEF LoopTest, LoopUnchanged, Typed, TypeOK
  <2> QED  BY <1>4, <2>1, <2>2 DEF LoopTest
<1>5. ASSUME NEW p \in Processes,
             GoToSleep(p) \/ Timeout(p) \/ RecordsCome(p) \/ Consumed(p)
      PROVE  StatusInv'
  <2>1. /\ at'[p] \in {"wait", "test", "consume"}
        /\ \A q \in Processes \ {p} : at'[q] = at[q] /\ err'[q] = err[q]
        /\ UNCHANGED <<program, status, cause>>
    BY <1>5 DEF GoToSleep, Timeout, RecordsCome, Consumed, LoopUnchanged,
                Typed, TypeOK
  <2> QED  BY <1>0, <2>1, OnlyOwnStatus
<1>6. ASSUME NEW p \in Processes, PollFails(p) PROVE StatusInv'
  <2>1. CASE program[p] = "unified_trace"
    <3>1. /\ at'[p] = "test" /\ UNCHANGED <<program, status, cause>>
          /\ \A q \in Processes \ {p} : at'[q] = at[q] /\ err'[q] = err[q]
      BY <1>6, <2>1 DEF PollFails, LoopUnchanged, Typed, TypeOK
    <3> QED  BY <1>0, <3>1, OnlyOwnStatus
  <2>2. CASE program[p] # "unified_trace"
    BY <1>3, <1>6, <2>2 DEF PollFails, LoopUnchanged
  <2> QED  BY <2>1, <2>2
<1>7. ASSUME NEW p \in Processes, Signal(p) PROVE StatusInv'
  <2>1. CASE Interrupt(p)
    BY <1>3, <1>7, <2>1 DEF Signal, Interrupt, LoopUnchanged, Failures
  <2>2. CASE at' = [at EXCEPT ![p] = "test"] /\ UNCHANGED <<err, cause>>
    BY <1>0, <1>7, <2>2, OnlyOwnStatus DEF Signal, LoopUnchanged, Typed, TypeOK
  <2>3. CASE UNCHANGED <<at, err, cause>>
    <3>1. UNCHANGED <<program, status>>
      BY <1>7 DEF Signal, LoopUnchanged
    <3> QED  BY <2>3, <3>1 DEF StatusInv, ErrTells, StatusRight
  <2> QED  BY <1>7, <2>1, <2>2, <2>3 DEF Signal
<1>8. ASSUME NEW p \in Processes, Killed(p) PROVE StatusInv'
  <2>1. /\ at'[p] = "exited" /\ cause'[p] = "killed"
        /\ cause' = [cause EXCEPT ![p] = cause'[p]]
        /\ \A q \in Processes \ {p} : at'[q] = at[q]
        /\ UNCHANGED <<program, status, err>>
    BY <1>8 DEF Killed, LoopUnchanged, Typed, TypeOK, StatusInv
  <2>2. StatusRight(p)'
    BY <2>1 DEF StatusRight, Failures
  <2> QED  BY <2>1, <2>2, OnlyOwnStatus
<1>9. ASSUME NEW p \in Processes, Output(p) PROVE StatusInv'
  <2>1. /\ at[p] = "output" /\ at'[p] = "cleanup"
        /\ \A q \in Processes \ {p} : at'[q] = at[q]
        /\ UNCHANGED <<program, status, err, cause>>
    BY <1>9 DEF Output, LoopUnchanged, Typed, TypeOK
  <2> QED  BY <1>0, <2>1, OnlyOwnStatus DEF StatusInv, ErrTells
<1>10. ASSUME NEW p \in Processes, Cleanup(p) PROVE StatusInv'
  <2>1. /\ at[p] = "cleanup" /\ at'[p] \in {"atexit", "exited"}
        /\ status'[p] = ExitStatus(p)
        /\ \A q \in Processes \ {p} : at'[q] = at[q] /\ status'[q] = status[q]
        /\ UNCHANGED <<program, err, cause>>
    BY <1>10 DEF Cleanup, Typed, TypeOK
  <2>2. program[p] \in {"trace_cuda", "trace_exec"} => StatusRight(p)'
    BY <2>1 DEF StatusInv, ErrTells, StatusRight, ExitStatus
  <2> QED  BY <1>0, <2>1, <2>2, OnlyOwnStatus
<1>11. ASSUME NEW p \in Processes, AtExit(p) PROVE StatusInv'
  <2>1. /\ at[p] = "atexit" /\ at'[p] = "exited"
        /\ \A q \in Processes \ {p} : at'[q] = at[q]
        /\ UNCHANGED <<program, status, err, cause>>
    BY <1>11 DEF AtExit, Typed, TypeOK
  <2> QED  BY <1>0, <2>1, OnlyOwnStatus DEF StatusInv, StatusRight
<1>12. CASE UNCHANGED vars
  BY <1>12 DEF vars, StatusInv, ErrTells, StatusRight
<1> QED
  BY <1>1, <1>2, <1>4, <1>5, <1>6, <1>7, <1>8, <1>9, <1>10, <1>11, <1>12
     DEF Next, Run, Do, CreateMaps, PinMaps, AttachXdp

(* StatusTells: trace_cuda and trace_exec exit with 1 after a failed load  *)
(* or poll and with 0 after an interrupted wait, whatever err was before   *)
(* and whatever signals come on the way out.                               *)
THEOREM StatusIsRight == Spec => []StatusTells
<1>1. Init => StatusInv
  BY DEF Init, StatusInv
<1>2. StatusInv => StatusTells
  BY DEF StatusInv, StatusTells, StatusRight, Failures
<1> QED  BY <1>1, <1>2, TypedInit, TypedStep, StatusStep, PTL DEF Spec
=============================================================================
