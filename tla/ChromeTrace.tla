----------------------------- MODULE ChromeTrace -----------------------------
(***************************************************************************)
(* What output_chrome_tracing_json of src/user/unified_trace.c writes for  *)
(* an array of collected events: which rows of which threads, in order.    *)
(* Text, names and arguments are left out, all but the CPU of a Begin row  *)
(* and the durations.                                                      *)
(*                                                                         *)
(* A CPU event is [event_type : {"ON", "OFF", "WAKEUP"}, timestamp, tid,   *)
(* cpu], a CUDA event [event_type : {"GPU"}, timestamp, tid, duration,     *)
(* stream].  A stream handle is the pair of its 32-bit halves.             *)
(***************************************************************************)
EXTENDS Integers, Sequences

CONSTANTS
    TidLimit,     \* entries of cpu_on_time, 10,000,000 in the code
    GpuTidBase    \* 1,000,000 in the code

ASSUME ChromeAssumption ==
    /\ TidLimit \in Nat \ {0}
    /\ GpuTidBase \in Nat

DefaultStream == <<0, 0>>

(* (m ^ n) & 0xFF, bit by bit.                                             *)
XorByte(m, n) ==
    CHOOSE byte \in 0 .. 255 :
        \A p \in {1, 2, 4, 8, 16, 32, 64, 128} :
            (byte \div p) % 2 = ((m \div p) + (n \div p)) % 2

(* Mutant of StreamOffset: no stream is moved off the default row.         *)
StreamOffsetUnguarded(stream) == XorByte(stream[2], stream[1])

(* (s ^ (s >> 32)) & 0xFF, and 1 for a stream that would get 0.            *)
StreamOffset(stream) ==
    LET mixed == XorByte(stream[2], stream[1])
    IN  IF stream = DefaultStream THEN 0
        ELSE IF mixed = 0 THEN 1
        ELSE mixed

GpuVirtualTid(tid, stream) == tid + GpuTidBase + StreamOffset(stream)

-----------------------------------------------------------------------------
(* The loop over the events carries the rows written so far, cpu_on_time   *)
(* and whether the name rows have been written.                            *)
Start == [rows |-> << >>, on_time |-> [tid \in 0 .. TidLimit - 1 |-> 0],
          named |-> FALSE]

NameRow(tid) == [ph |-> "M", tid |-> tid, ts |-> 0]

(* The first CPU event names its own thread's row and that of its GPU.     *)
NameRows(s, e) ==
    IF s.named \/ e.event_type = "GPU" THEN s
    ELSE [s EXCEPT !.named = TRUE,
                   !.rows = Append(Append(@, NameRow(e.tid)),
                                   NameRow(e.tid + GpuTidBase))]

BeginRow(e, ts) == [ph |-> "B", tid |-> e.tid, ts |-> ts, cpu |-> e.cpu]

OnRow(s, e, ts) ==
    [s EXCEPT !.rows = Append(@, BeginRow(e, ts)),
              !.on_time = IF e.tid < TidLimit
                          THEN [@ EXCEPT ![e.tid] = e.timestamp] ELSE @]

EndRow(s, e, ts) ==
    [ph |-> "E", tid |-> e.tid, ts |-> ts,
     dur |-> e.timestamp - s.on_time[e.tid]]

HasOnTime(s, e) == e.tid < TidLimit /\ s.on_time[e.tid] # 0

(* Mutant of OffRow: cpu_on_time is not reset.                             *)
OffRowKeepsTime(s, e, ts) ==
    IF HasOnTime(s, e)
    THEN [s EXCEPT !.rows = Append(@, EndRow(s, e, ts))]
    ELSE s

(* An OFF event ends the row its thread's last ON event began, and is left *)
(* out if there is none.                                                   *)
OffRow(s, e, ts) ==
    IF HasOnTime(s, e)
    THEN [s EXCEPT !.rows = Append(@, EndRow(s, e, ts)),
                   !.on_time = [@ EXCEPT ![e.tid] = 0]]
    ELSE s

WakeupRow(s, e, ts) ==
    [s EXCEPT !.rows = Append(@, [ph |-> "i", tid |-> e.tid, ts |-> ts])]

GpuRow(s, e, ts) ==
    [s EXCEPT !.rows = Append(@, [ph |-> "X", ts |-> ts, dur |-> e.duration,
                                  tid |-> GpuVirtualTid(e.tid, e.stream)])]

EmitEvent(s, e, ts) ==
    CASE e.event_type = "ON"     -> OnRow(s, e, ts)
      [] e.event_type = "OFF"    -> OffRow(s, e, ts)
      [] e.event_type = "WAKEUP" -> WakeupRow(s, e, ts)
      [] e.event_type = "GPU"    -> GpuRow(s, e, ts)

MinTimestamp(events) ==
    LET stamps == {events[i].timestamp : i \in DOMAIN events}
    IN  CHOOSE ts \in stamps : \A other \in stamps : ts <= other

(* The turn of the loop for e.                                             *)
Turn(s, e, base) == EmitEvent(NameRows(s, e), e, e.timestamp - base)

(* What the loop has carried along after each number of events.            *)
Loop(events, base) ==
    LET after[n \in 0 .. Len(events)] ==
            IF n = 0 THEN Start ELSE Turn(after[n - 1], events[n], base)
    IN  after

(* The rows written for events, whose timestamps count from the least one. *)
ChromeRows(events) ==
    IF events = << >> THEN << >>
    ELSE Loop(events, MinTimestamp(events))[Len(events)].rows
=============================================================================
