---------------------------- MODULE StackSampling ----------------------------
(***************************************************************************)
(* What sampling by maybe_capture_stack amounts to: sequences of traced    *)
(* entries on each CPU, with the history of which of them captured a       *)
(* stack.  bpf_get_stackid is taken to succeed (StackResults = ids only),  *)
(* so that the properties are about the sampling and not its failures.     *)
(***************************************************************************)
EXTENDS Sampling, Sequences

CONSTANTS
    Ops,          \* the operations called
    MaxEntries    \* bound: entries on one CPU

ASSUME StackSamplingAssumption == Ops \subseteq CudaOp

VARIABLE entries  \* history: for each CPU its entries, [async, sid]

vars == <<counter, entries>>

Init == SamplingInit /\ entries = [cpu \in CPUs |-> << >>]

Entry(cpu, op) ==
    /\ Len(entries[cpu]) < MaxEntries
    /\ \E sid \in StackResults \cup {NoStack} :
          /\ MaybeCaptureStack(cpu, op, sid)
          /\ entries' = [entries EXCEPT ![cpu] =
                Append(@, [async |-> op \in AsyncOps, sid |-> sid])]

Next == \E cpu \in CPUs, op \in Ops : Entry(cpu, op)

Spec == Init /\ [][Next]_vars

-----------------------------------------------------------------------------
Captured(cpu, i) == entries[cpu][i].sid # NoStack

Async(cpu, i) == entries[cpu][i].async

(* Overhead: however sync and async calls interleave, two async calls of   *)
(* one CPU that both capture are at least one async period of entries      *)
(* apart.                                                                  *)
AsyncCapturesSpaced ==
    \A cpu \in CPUs : \A i, j \in DOMAIN entries[cpu] :
        /\ i < j
        /\ Async(cpu, i) /\ Async(cpu, j)
        /\ Captured(cpu, i) /\ Captured(cpu, j)
        => j - i >= Period("MEMCPY_ASYNC")

(* With the default --stack-sample-sync 1 no sync call goes without a      *)
(* stack, whatever async calls advance the counter between them.           *)
EverySyncCaptured ==
    SamplePeriodSync <= 1 =>
        \A cpu \in CPUs : \A i \in DOMAIN entries[cpu] :
            ~Async(cpu, i) => Captured(cpu, i)

(* A run of async calls alone is sampled one in N: of one period of async  *)
(* entries in a row one captures, wherever sync calls left the counter.    *)
AsyncRunsSampled ==
    \A cpu \in CPUs :
        LET n == Period("MEMCPY_ASYNC")
        IN  \A i \in 1 .. Len(entries[cpu]) - n + 1 :
                (\A j \in i .. i + n - 1 : Async(cpu, j)) =>
                    \E j \in i .. i + n - 1 : Captured(cpu, j)
=============================================================================
