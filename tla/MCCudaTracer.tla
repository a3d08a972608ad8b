---------------------------- MODULE MCCudaTracer ----------------------------
(***************************************************************************)
(* Values of the constants of CudaTracer for TLC.                          *)
(***************************************************************************)
EXTENDS CudaTracer

CONSTANTS t1, t2, t3

MCOps == {"MEMCPY", "MEMCPY_ASYNC"}

MCSyncOp == {"MEMCPY"}

(* The two threads belong to the processes 1 and 2.                        *)
MCTgid == (t1 :> 1) @@ (t2 :> 2)

MCcuda_funcs ==
    << <<"entry", "MEMCPY">>, <<"return", "MEMCPY">>,
       <<"entry", "MEMCPY_ASYNC">>, <<"return", "MEMCPY_ASYNC">> >>

MCSyncFuncs == << <<"entry", "MEMCPY">>, <<"return", "MEMCPY">> >>

(* Two threads of process 1 and one of process 2.                          *)
MCTgid3 == (t1 :> 1) @@ (t2 :> 2) @@ (t3 :> 1)
=============================================================================
