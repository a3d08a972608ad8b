------------------------------- MODULE CallLog -------------------------------
(***************************************************************************)
(* What the CUDA tracer promises its user: a log of calls that really took *)
(* place.  A call is [tid, op, start, end].  A logged call is one that has *)
(* returned, with the times at which that very call began and returned; no *)
(* call is logged twice, and the calls of one thread are logged in the     *)
(* order in which they returned.  Calls may be missing: the tracer is      *)
(* allowed to drop, never to invent.                                       *)
(***************************************************************************)
EXTENDS Sequences, Naturals

VARIABLES
    done,   \* the calls that have returned
    log     \* the sequence of calls reported to the user

Init == done = {} /\ log = << >>

Entries(s) == {s[i] : i \in DOMAIN s}

(* Some threads return from calls: history only grows.                     *)
Finish ==
    /\ done \subseteq done'
    /\ done' # done
    /\ UNCHANGED log

(* A call that has returned is reported, after every reported call of its  *)
(* thread that returned before it, and only once.                          *)
Report ==
    /\ \E c \in done : 
          /\ \A d \in Entries(log) : d.tid = c.tid => d.end < c.end
          /\ log' = Append(log, c)
    /\ UNCHANGED done

Next == Finish \/ Report

Spec == Init /\ [][Next]_<<done, log>>
=============================================================================
