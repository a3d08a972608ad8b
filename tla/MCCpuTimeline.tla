---------------------------- MODULE MCCpuTimeline ----------------------------
(* Values of the constants of CpuTimeline for TLC.                         *)
EXTENDS CpuTimeline

OneProcess == [t \in Threads |-> 1]
=============================================================================
