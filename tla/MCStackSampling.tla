--------------------------- MODULE MCStackSampling ---------------------------
(* Values of the constants of StackSampling for TLC.                       *)
EXTENDS StackSampling

MixedOps == {"SYNC", "MEMCPY_ASYNC"}
=============================================================================
