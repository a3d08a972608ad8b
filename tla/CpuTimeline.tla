----------------------------- MODULE CpuTimeline -----------------------------
(***************************************************************************)
(* The scheduler tracer and the timeline that is made of its events: what  *)
(* the user sees in chrome://tracing against what the scheduler did.       *)
(*                                                                         *)
(* The trace so far may be cut off at any time; what user space has read   *)
(* of it is sorted and written.  The position of an event in the trace is  *)
(* its timestamp.                                                          *)
(***************************************************************************)
EXTENDS SchedTracer, ChromeTrace

(* Thread ids index cpu_on_time: the kernel gives out less than 4,194,304, *)
(* and the array is for "PIDs (up to 10 million)".                         *)
ASSUME TimelineAssumption == \A tid \in Tids : tid < TidLimit

(* The history is kept until an event is dropped: from then on the trace   *)
(* no longer tells all.                                                    *)
VARIABLES
    since,   \* history: when a traced thread came on its CPU, 0 if unknown
    stays    \* history: the completed stays, [tid, cpu, from, to]

timeline_vars == <<vars, since, stays>>

NoHistory == [cpu \in CPUs |-> 0]

TimelineInit == Init /\ since = NoHistory /\ stays = {}

KeepHistory(new_since, new_stays) ==
    /\ since' = IF dropped' THEN NoHistory ELSE new_since
    /\ stays' = IF dropped' THEN {} ELSE new_stays

StayUntilNow(cpu) ==
    [tid |-> current[cpu], cpu |-> cpu, from |-> since[cpu], to |-> Len(trace')]

Off(cpu) ==
    /\ SwitchOff(cpu)
    /\ KeepHistory([since EXCEPT ![cpu] = 0],
                   IF since[cpu] = 0 THEN stays ELSE stays \cup {StayUntilNow(cpu)})

On(cpu) ==
    /\ SwitchOn(cpu)
    /\ KeepHistory([since EXCEPT ![cpu] =
                       IF Wanted(picked[cpu]) THEN Len(trace') ELSE 0], stays)

TimelineNext ==
    \/ \E cpu \in CPUs : Off(cpu) \/ On(cpu)
    \/ /\ \/ \E t \in Threads, cpu \in CPUs : Wakeup(t, cpu)
          \/ Read
       /\ KeepHistory(since, stays)

TimelineSpec == TimelineInit /\ [][TimelineNext]_timeline_vars

-----------------------------------------------------------------------------
(* The collected events, and the rows written for them. *)
Collected ==
    [i \in 1 .. Len(trace) - unread |->
        [event_type |-> trace[i].event_type, tid |-> trace[i].tid,
         cpu |-> trace[i].cpu, timestamp |-> i]]

(* Where the Begin and End rows of tid are.                                *)
BeginEnd(rows, tid) ==
    {i \in DOMAIN rows : rows[i].tid = tid /\ rows[i].ph \in {"B", "E"}}

(* The numbers of S that have none of S between them.                      *)
Consecutive(S) ==
    {p \in S \X S : p[1] < p[2] /\ \A k \in S : k <= p[1] \/ p[2] <= k}

(* The spans drawn for tid: a Begin row and the End row that follows it.   *)
(* Timestamps count from the first event, which is 1.                      *)
Spans(rows, tid) ==
    {[tid |-> tid, cpu |-> rows[p[1]].cpu,
      from |-> rows[p[1]].ts + 1, to |-> rows[p[2]].ts + 1] :
        p \in {q \in Consecutive(BeginEnd(rows, tid)) :
                  rows[q[1]].ph = "B" /\ rows[q[2]].ph = "E"}}

(* Whatever was lost, an End row closes a Begin row of its thread, the     *)
(* last one, and states the time since then: output_chrome_tracing_json    *)
(* leaves out an OFF event that has no ON event.                           *)
EndsCloseBegins ==
    LET rows == ChromeRows(Collected)
    IN  \A tid \in Tids : \A j \in BeginEnd(rows, tid) : rows[j].ph = "E" =>
            \E i \in BeginEnd(rows, tid) :
                /\ <<i, j>> \in Consecutive(BeginEnd(rows, tid))
                /\ rows[i].ph = "B"
                /\ rows[j].dur = rows[j].ts - rows[i].ts

(* If no event was dropped and all have been read, the spans drawn for a   *)
(* thread are exactly its stays on a CPU, each with its CPU and its times. *)
SpansAreStays ==
    ~dropped /\ unread = 0 =>
        LET rows == ChromeRows(Collected)
        IN  \A t \in Threads : Wanted(t) =>
                Spans(rows, t) = {s \in stays : s.tid = t}

(* unified_trace.c:334: "Keep name consistent as "On-CPU" so Begin/End     *)
(* events match": if no event was dropped, no row of a thread begins       *)
(* before the one before it has ended.                                     *)
BeginEndMatch ==
    ~dropped =>
        LET rows == ChromeRows(Collected)
        IN  \A tid \in Tids : \A p \in Consecutive(BeginEnd(rows, tid)) :
                rows[p[1]].ph # rows[p[2]].ph
=============================================================================
