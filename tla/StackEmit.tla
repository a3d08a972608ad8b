------------------------------ MODULE StackEmit ------------------------------
(***************************************************************************)
(* What emit_stack_json of src/user/unified_trace.c writes for a stack,    *)
(* and bsw_resolve of src/symbolize/blazesym_wrap.rs, which it calls.  Of  *)
(* a frame the symbol's name is kept; file, line and library go the same   *)
(* way.  Blazesym is external: Code tells what it finds at an address.     *)
(***************************************************************************)
EXTENDS JsonEscape

CONSTANTS
    Programs,   \* what a process may run
    Code,       \* [Programs -> [addresses -> Seq(names)]]: the symbol at an
                \* address and those inlined into it; << >> if unknown
    max_stack_frames_in_json

ASSUME StackEmitAssumption == max_stack_frames_in_json \in Nat \ {0}

Unresolved == <<"?", "?">>

Frame(name, inlined) == [sym |-> copy_str(name), inlined |-> inlined]

(* The frames bsw_resolve makes of one address.                            *)
FramesAt(program, addr) ==
    LET names == Code[program][addr]
    IN  IF names = << >> THEN << Frame(Unresolved, FALSE) >>
        ELSE [i \in DOMAIN names |-> Frame(names[i], i > 1)]

(* Mutant of WriteFrame: the test of out_cap is off by one.                *)
WriteFrameOneMore(out, frame, out_cap) ==
    IF Len(out) <= out_cap THEN Append(out, frame) ELSE out

WriteFrame(out, frame, out_cap) ==
    IF Len(out) < out_cap THEN Append(out, frame) ELSE out

(* out after each number of the frames of one address.                     *)
WriteFrames(out, frames, out_cap) ==
    LET after[n \in 0 .. Len(frames)] ==
            IF n = 0 THEN out
            ELSE WriteFrame(after[n - 1], frames[n], out_cap)
    IN  after

(* out after each number of addresses.                                     *)
Resolving(program, addrs, out_cap) ==
    LET after[n \in 0 .. Len(addrs)] ==
            IF n = 0 THEN << >>
            ELSE LET frames == FramesAt(program, addrs[n])
                 IN  WriteFrames(after[n - 1], frames, out_cap)[Len(frames)]
    IN  after

(* bsw_resolve, when blazesym succeeds: address by address and frame by    *)
(* frame until out is full.                                                *)
bsw_resolve(program, addrs, out_cap) ==
    Resolving(program, addrs, out_cap)[Len(addrs)]

-----------------------------------------------------------------------------
(* The addresses of a stack that are written or resolved.                  *)
Shown(stack) ==
    SubSeq(stack, 1, IF Len(stack) > max_stack_frames_in_json
                     THEN max_stack_frames_in_json ELSE Len(stack))

RawArray(addrs) == [i \in DOMAIN addrs |-> [addr |-> addrs[i]]]

frame_cap(addrs) == Len(addrs) * 4

(* The array written for a resolved stack.                                 *)
SymArray(program, addrs) ==
    LET frames == bsw_resolve(program, addrs, frame_cap(addrs))
    IN  [i \in DOMAIN frames |->
           [sym |-> json_escape(IF frames[i].sym = << >> THEN Unresolved
                                ELSE frames[i].sym),
            inlined |-> frames[i].inlined]]
=============================================================================
