--------------------------- MODULE MCTraceReport ---------------------------
(***************************************************************************)
(* Values of the constants of TraceReport for TLC.                         *)
(***************************************************************************)
EXTENDS TraceReport

CONSTANTS python, server

(* Two stacks with one hash, one more of their bucket, and one of another  *)
(* bucket, which only the other users of the map take.                     *)
MCStacks == { <<1, 2, 3>>, <<3, 1>>, <<2>>, <<4, 1>> }
MCHash ==
    [stack \in MCStacks |->
        CASE stack = <<1, 2, 3>> -> 0
          [] stack = <<3, 1>>    -> 0
          [] stack = <<2>>       -> 4
          [] stack = <<4, 1>>    -> 1]

(* Names with everything to escape; cut or not; inlined beyond the room    *)
(* for frames; without a name; unknown.                                    *)
Long == <<"quote", "quote", "quote", "quote", "a">>
MCCode ==
    [program \in {python, server} |->
        IF program = python
        THEN << << Long, <<"a">>, <<"b">>, <<"c">>, <<"d">>, <<"e">> >>,
                << <<"f", "quote">>, <<"g">>, <<"h">>, <<"i">> >>,
                << << >> >>, << >> >>
        ELSE << << <<"x", "ctrl", "ctrl">> >>, << >>,
                << <<"y", "x">>, <<"ctrl">> >>, << <<"z">> >> >>]

MCStacksOf ==
    [program \in {python, server} |->
        IF program = python THEN { <<1, 2, 3>>, <<3, 1>> }
        ELSE { <<2>> }]

(* Handles are heap pointers of one process: aligned, with the same upper  *)
(* half, 0x7f30, which 0x1030 mixes with to 0 in its low byte.             *)
MCStreamAt ==
    [stack \in MCStacks |->
        IF stack = <<1, 2, 3>> THEN DefaultStream ELSE <<32560, 4144>>]
=============================================================================
