---------------------------- MODULE TraceReport ----------------------------
(***************************************************************************)
(* The report of a session: the arrays of StackReport in the rows of       *)
(* ChromeTrace.  The row of a CUDA call is chosen by thread and stream.    *)
(***************************************************************************)
EXTENDS StackReport, ChromeTrace

(* The fields of the events: ids are 32 bits wide, stream handles 64.      *)
ASSUME TraceReportAssumption ==
    /\ Pids \subseteq Nat
    /\ \A stack \in Stacks : StreamAt[stack] \in Nat \X Nat

(* The row of a call of the main thread, of whatever duration.             *)
RowOf(e) ==
    LET call == [tid |-> e.pid, stream |-> e.stream, duration |-> 1]
    IN  Last(GpuRow(Start, call, 0).rows).tid

(* Whatever its handle, a stream of a thread is never drawn in the row of  *)
(* the default stream of that thread: 0 is kept for it.                    *)
OwnDefaultRowClean ==
    \A i, j \in DOMAIN events :
        LET d == events[i]
            e == events[j]
        IN  /\ d.source = "GPU" /\ e.source = "GPU"
            /\ d.pid = e.pid
            /\ d.stream = DefaultStream
            /\ e.stream # DefaultStream
            => RowOf(d) # RowOf(e)
=============================================================================
