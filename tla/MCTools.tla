------------------------------- MODULE MCTools -------------------------------
(* Values of the constants of Tools for TLC: who runs beside whom.         *)
EXTENDS Tools

CONSTANTS p1, p2

Pair(first, second) == [p \in {p1, p2} |-> IF p = p1 THEN first ELSE second]

MCLineUps ==
    { Pair("unified_trace", "trace_cuda"),
      Pair("trace_cuda", "trace_cuda"),
      Pair("count_packets", "count_packets"),
      Pair("trace_exec", "count_packets") }
=============================================================================
