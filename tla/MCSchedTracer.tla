---------------------------- MODULE MCSchedTracer ----------------------------
(* Values of the constants of SchedTracer for TLC.                         *)
EXTENDS SchedTracer

(* Thread 2 is a worker thread of process 1, whose main thread is 1.       *)
OneProcess == [t \in Threads |-> 1]
=============================================================================
