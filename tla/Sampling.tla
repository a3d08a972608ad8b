------------------------------ MODULE Sampling ------------------------------
(***************************************************************************)
(* The decision of the CUDA entry probes to capture a stack:               *)
(* maybe_capture_stack of src/bpf/trace_cuda.bpf.c.  Each CPU has one      *)
(* counter, advanced by every traced entry whatever its class; the period  *)
(* it is compared with depends on the class of the call (sync or async).   *)
(***************************************************************************)
EXTENDS Integers, CudaOps

CONSTANTS
    CPUs,                \* the CPUs a traced thread may run on
    CaptureStacks,       \* cfg.capture_stacks (FALSE is --no-stacks)
    SamplePeriodSync,    \* cfg.sample_period_sync
    SamplePeriodAsync,   \* cfg.sample_period_async
    StackResults         \* what bpf_get_stackid may return: ids, or -1

NoStack == -1

ASSUME SamplingAssumption ==
    /\ CaptureStacks \in BOOLEAN
    /\ SamplePeriodSync \in Nat
    /\ SamplePeriodAsync \in Nat
    /\ StackResults \subseteq Nat \cup {NoStack}

VARIABLE counter         \* stack_sample_counter, one slot for each CPU

SamplingTypeOK == counter \in [CPUs -> Nat]

SamplingInit == counter = [cpu \in CPUs |-> 0]

(* Mutant of Period: the two periods are swapped.                          *)
PeriodSwapped(op) ==
    LET period == IF op \in AsyncOps THEN SamplePeriodSync
                                     ELSE SamplePeriodAsync
    IN  IF period = 0 THEN 1 ELSE period

(* A period of 0 counts as 1.                                              *)
Period(op) ==
    LET period == IF op \in AsyncOps THEN SamplePeriodAsync
                                     ELSE SamplePeriodSync
    IN  IF period = 0 THEN 1 ELSE period

(* Mutant of Due: only the first period counts from 0.                     *)
DueFromOne(cpu, op) == counter[cpu] > 0 /\ counter[cpu] % Period(op) = 0

(* Mutant of Due: the last two entries of each period capture.             *)
DueTwice(cpu, op) == counter[cpu] % Period(op) \in {0, 1}

Due(cpu, op) == counter[cpu] % Period(op) = 0

(* maybe_capture_stack on cpu for a call of op returns sid.                *)
MaybeCaptureStack(cpu, op, sid) ==
    \/ /\ ~CaptureStacks
       /\ sid = NoStack
       /\ UNCHANGED counter
    \/ /\ CaptureStacks
       /\ counter' = [counter EXCEPT ![cpu] = @ + 1]
       /\ sid \in IF Due(cpu, op) THEN StackResults ELSE {NoStack}
=============================================================================
