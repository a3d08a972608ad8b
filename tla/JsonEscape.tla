----------------------------- MODULE JsonEscape -----------------------------
(***************************************************************************)
(* How a name of a symbol, file or library gets from the symbolizer into   *)
(* the JSON text: copy_str of blazesym_wrap.rs cuts it to a buffer of      *)
(* BSW_STR_MAX bytes, json_escape of unified_trace.c writes it escaped     *)
(* into one of twice that.  A name is a sequence of characters: "quote" (a *)
(* quote or a backslash), "ctrl" (a control character), or a plain one.    *)
(***************************************************************************)
EXTENDS Integers, SequencesExt

CONSTANT BSW_STR_MAX

ASSUME JsonEscapeAssumption == BSW_STR_MAX \in Nat \ {0}

(* What is written for c: \u00XX, a backslash and c, or c.                *)
Width(c) == CASE c = "ctrl"  -> 6
              [] c = "quote" -> 2
              [] OTHER       -> 1

(* The width of the first characters of text, by their number.             *)
Widths(text) ==
    LET after[n \in 0 .. Len(text)] ==
            IF n = 0 THEN 0 ELSE after[n - 1] + Width(text[n])
    IN  after

TextWidth(text) == Widths(text)[Len(text)]

copy_str(name) ==
    SubSeq(name, 1,
           IF Len(name) < BSW_STR_MAX THEN Len(name) ELSE BSW_STR_MAX - 1)

DstLen == 2 * BSW_STR_MAX

(* Mutant of Fits: room is kept for one character more.                    *)
FitsSpare(di, c) == di + Width(c) + 2 < DstLen

(* Room is left for the character and the NUL after it.                    *)
Fits(di, c) == di + Width(c) + 1 < DstLen

Unescaped == [text |-> << >>, di |-> 0, stopped |-> FALSE]

Escape(s, c) ==
    IF ~s.stopped /\ Fits(s.di, c)
    THEN [s EXCEPT !.text = Append(@, c), !.di = @ + Width(c)]
    ELSE [s EXCEPT !.stopped = TRUE]

(* What the loop has written after each number of characters of src.       *)
Escaping(src) ==
    LET after[n \in 0 .. Len(src)] ==
            IF n = 0 THEN Unescaped ELSE Escape(after[n - 1], src[n])
    IN  after

(* The characters of src up to the first that does not fit, in the order   *)
(* they are written; the NUL comes after them.                             *)
json_escape(src) == Escaping(src)[Len(src)].text
=============================================================================
