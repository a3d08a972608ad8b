------------------------------- MODULE CudaOps -------------------------------
(***************************************************************************)
(* The CUDA runtime calls the tracer probes, by whether their entry probe  *)
(* passes CUDA_EV_FLAG_ASYNC to record_entry (src/bpf/trace_cuda.bpf.c).   *)
(***************************************************************************)

AsyncOps == {"MEMCPY_ASYNC", "EVENT_RECORD", "LAUNCH_KERNEL_EX",
             "GRAPH_LAUNCH"}

SyncOps == {"MALLOC", "FREE", "MEMCPY", "LAUNCH_KERNEL", "SYNC",
            "STREAM_SYNC", "STREAM_CREATE", "STREAM_DESTROY", "EVENT_SYNC",
            "EVENT_QUERY"}

CudaOp == AsyncOps \cup SyncOps
=============================================================================
