# TLA+ development of the CPU/GPU tracer

This directory specifies and verifies the tracer of this repository: two eBPF
objects that record CUDA runtime calls and scheduler switches, and the user-space
program `unified_trace` that collects their events, resolves their stacks and
writes a Chrome trace; and the three smaller programs beside it.
Everything is translated from the source; paths below are relative to the
repository's root.

## The system

| Component | Source | State it keeps | Operations |
|---|---|---|---|
| CUDA call tracer | `src/bpf/trace_cuda.bpf.c` | hash of in-flight calls by thread (`cuda_calls`), ring of events (`cuda_events`), per-CPU sample counter | entry probes (`record_entry`), return probes (`submit_event`), 14 functions |
| scheduler tracer | `src/bpf/trace_cpu_sched.bpf.c` | ring of events (`cpu_events`) | `sched_switch` (an OFF and an ON event), `sched_wakeup` |
| shared stack map | `include/maps.h` | `stack_traces`, pinned, used by both objects and by user space | `bpf_get_stackid`, lookup |
| start-up of `unified_trace` | `src/user/unified_trace.c` (`main`) | objects, links, rings, read-only configuration | options, load, attach loop, clean-up |
| collection | `src/user/unified_trace.c` (`handle_*_event`, poll loop, `sig_handler`, `compare_events`) | `events[MAX_EVENTS]`, `event_count`, `exiting` | poll one ring and then the other, stop, sort |
| Chrome trace writer | `src/user/unified_trace.c` (`output_chrome_tracing_json`) | `cpu_on_time[]` by thread, rows written | one pass over the sorted array |
| stack emission | `src/user/unified_trace.c` (`read_stack_addrs`, `emit_stack_json`, `json_escape`) | none | look up, resolve or fall back, escape |
| symbolizer | `src/symbolize/blazesym_wrap.rs` | set of PIDs whose failure was logged | `bsw_new`, `bsw_resolve`, `bsw_free` |
| single-ring tools | `src/user/trace_cuda.c`, `src/user/trace_exec.c`, `src/bpf/trace_exec.bpf.c` | ring, `exiting` | attach, poll and print, exit status |
| packet counter | `src/user/count_packets.c`, `src/bpf/count_packets.bpf.c` | XDP attachment, counter | attach, poll once a second, clean up |
| tests, mock CUDA runtime, build, scripts, examples | `tests/`, `Makefile`, `tools/`, `scripts/`, `examples/` | - | read for what they say of the code |

How they interact.  Application threads run the probes of the CUDA tracer on
their way into and out of a function; every CPU runs the scheduler tracer at each
switch.  Both write into rings that `main` drains in turn, on one thread, through
callbacks that append to one array.  A signal (Ctrl-C, SIGTERM or the alarm of
`--duration`) ends the loop; the array is sorted and written, and only then are the
links destroyed.  Both BPF objects, of every loader, put user stacks into one map that
stays pinned when a program ends; events carry ids of it, which are looked up and
resolved while the trace is written.  The tools meet in the kernel: loaders of the
CUDA object at the pinned map, instances of `count_packets` at an interface.

What makes it hard: the hash has one slot for each thread, so that nested calls,
probes that do not fire, and threads that die in a call leave it with entries of
other calls; reserve and submit of a record are two steps and other CPUs run in
between; every table is bounded and drops silently; the events of a switch are
written before the switch; CUDA events arrive late, with the time at which their
call began; a signal may come at any point of the loop; stacks of earlier sessions
stay in the map, one bucket for a hash, and are compared by hash alone on one side;
processes are gone, or their pid is another's, when their addresses are resolved; each
start-up has a dozen steps that may fail.

What makes each component correct:

- CUDA tracer: it may drop but never invent: each event is the report of one real
  call; only the target process is reported; a call that makes no other is reported
  unless a limit is hit; what is submitted is handed over.
- Sampling: async captures are spaced, sync calls are captured at period 1, one in
  N async calls is captured.
- Scheduler tracer: events of a thread alternate and tell where it is; all switches
  of the target and nothing else.
- Collection: a hole-free prefix of each ring; time order; it stops when told.
- Writer: what is drawn is what happened: each span a stay on a CPU, each End row
  after its Begin row, no stream in its thread's default row.
- Stacks: an id names what was captured for it; what is written for it are the frames
  of that stack, each name whole and escaped; failures are told once.
- Programs: what was acquired is freed whatever fails, failures show in the status,
  Ctrl-C ends them, one map of stacks for all loaders, nothing left on an interface.

## Modules

| Module | What it is | Models |
|---|---|---|
| `CudaOps` | the operations and which of them are async | `include/common.h`, the entry probes |
| `Sampling` | `maybe_capture_stack` and its per-CPU counter | `trace_cuda.bpf.c:44-106` |
| `CudaTracer` | threads, probes, hash, ring, loader | `trace_cuda.bpf.c`, the attach loop, poll and detach of `unified_trace.c` |
| `CallLog` | abstract promise of the tracer: a log of calls that took place | - |
| `CudaTracerProofs` | theorems about `CudaTracer` | - |
| `CudaTracerLogProofs` | theorems about its log: refinement of `CallLog`, leaf calls | - |
| `StackSampling` | sequences of traced entries through `Sampling` | `record_entry` |
| `StackSamplingProofs` | theorems about `StackSampling` | - |
| `SchedTracer` | an external scheduler and the two tracepoints | `trace_cpu_sched.bpf.c` |
| `SchedTracerProofs` | theorems about `SchedTracer` | - |
| `Collector` | kernel, poll loop, signals, array, sort, output | `unified_trace.c:28-44, 100-126, 240-300, 766-814` |
| `CollectorProofs` | theorems about `Collector` | - |
| `ChromeTrace` | the rows written for an array of events | `unified_trace.c:249-468` |
| `CpuTimeline` | `SchedTracer` composed with `ChromeTrace` | the trace as the user sees it |
| `CpuTimelineProofs` | theorems about what `ChromeTrace` makes of the events of `SchedTracer` | - |
| `StackMap` | the pinned map of stacks, `bpf_get_stackid` and lookup | `maps.h:32-38`, `unified_trace.c:155-172` |
| `JsonEscape` | `copy_str` and `json_escape` | `blazesym_wrap.rs:77-86`, `unified_trace.c:132-151` |
| `StackEmit` | `bsw_resolve` and the array `emit_stack_json` writes | `blazesym_wrap.rs:88-224`, `unified_trace.c:182-238` |
| `StackReport` | sessions of capture, end and writing over one map, with processes that come and go | both tracers' captures, `unified_trace.c:322-451` |
| `StackReportProofs` | theorems about `StackReport` and `TraceReport` | - |
| `TraceReport` | `StackReport` with the rows of `ChromeTrace` | `unified_trace.c:386-396` |
| `Tools` | the four programs from start to exit, side by side | `main` of each file of `src/user/` |
| `ToolsProofs` | theorems about `Tools` | - |

`MCCudaTracer`, `MCStackSampling`, `MCSchedTracer`, `MCCpuTimeline`, `MCTraceReport`
and `MCTools` give constants values for TLC.  Operators introduced by a comment "Mutant of ..."
are faulty variants of the definition that follows them, used to make sure that a
property can fail; no specification refers to them.

### CudaTracer

`cuda_calls` maps a thread to its `cuda_call_info` or `None`; `cuda_events` is the
ring, each slot with the thread that reserved it and, once submitted, its event.
`stack` has the calls a thread has open, with the time each began, whether its
return is armed (a uretprobe only fires for a call that began while it was
attached), and whether both of its probes were attached.  `now` ticks once for each
entry and return, so no two of them have the same time.

- `Enter` is a call: the entry probe, if it fires, filters by process, decides on a
  stack and updates the hash (`record_entry`).  A full hash takes no new key.
- A return is one of `ReturnUnseen` (no return probe), `SubmitDrop` (no entry, an
  entry of another operation, or a full ring) and `SubmitReserve` followed by
  `SubmitCommit`, between which all other threads and the reader run.
- `ThreadExit`: a thread is killed in its calls; the same `pid_tgid` calls again.
- `Attach`, `StartPolling`, `Consume`, `StopPolling`, `Detach`: `main`.  An attach
  may fail, and the loop goes on.

`MayMiss` says which kinds of probes the kernel may skip (a uprobe may be skipped,
e.g. a uretprobe when its instance limit is hit).  `Reentrant` are operations that
may be open twice in a thread.  Sizes, pointers, stream, return value and flags of a
call are carried along by the code and are left out.

### Sampling and StackSampling

The step of the counter is atomic per CPU.  `StackSampling` takes `bpf_get_stackid`
to succeed, to tell sampling from failure.

### SchedTracer

`target_pid` is what `--pid` was set to before the programs were loaded; 0 traces
every thread.  The scheduler is external: each CPU has a current thread; a switch is `SwitchOff`
(choice of the next thread, OFF event) and `SwitchOn` (ON event, then the switch
itself), between which other CPUs run; `Wakeup` puts a sleeping thread on the run
queue.  With a target the code writes only one of the two events, which the filter
on each event expresses.  `stack_id` names the thread whose stack was walked: that of
the thread that is current.  Idle threads have id 0 on every CPU.  The trace is in
the order of its timestamps.

### Collector

`pc` and `polled` are the place of `main` in its loop.  A poll is `EnterPoll`
(before it sleeps), then `wait`, left by `Ready`, by `Timeout` (10 ms) or by a
signal with `-EINTR`, and `drain`, which hands over records until the ring is empty.
A signal between the loop's test and the wait only sets `exiting`.  Errors of a poll
other than `-EINTR` are ignored by the code and lead on as a timeout does.
Records are numbered per ring; numbers and clock saturate, so that the kernel may
submit for ever and the state stays finite (`MaxNumber` is large enough that the
array is full before two records have the same number).
The sort is any permutation of the array (a `Bijection` of its indices) after which the
timestamps go forward, as `qsort` says nothing of the order of equal ones.

### ChromeTrace, CpuTimeline

The writer is a pure function of the array.  `Loop` is what its loop carries along,
`cpu_on_time` and the rows written, after each number of events; it is a recursive
function, as are the loops of `JsonEscape` and `StackEmit`, so that proofs can go from one
turn to the next.  The byte of a stream's row is an exclusive or, bit by bit
(`XorByte`).  `CpuTimeline` applies the writer to what has been read of the trace of
`SchedTracer`, at any time, and keeps the real stays of threads on CPUs as history;
the history ends with the first dropped event.  Rows are told apart by their places:
`BeginEnd` are those of a thread's Begin and End rows, and a span is two consecutive ones.
Thread ids are below `TidLimit` (`TimelineAssumption`): the code has room for 10 million
of them, and the kernel gives out less than 4,194,304; ids beyond are written by
`OnRow` without a time, so that their OFF events are left out.  The text arguments of a row are left
out; its stack is that of `StackReport`.

### StackMap, StackReport

An id is a bucket, chosen by the stack's hash.  `GetStackId` returns the bucket if it
holds the stack (the CUDA tracer, with `BPF_F_FAST_STACK_CMP`, compares hashes alone:
`fast`), fills it if it is empty and elements are left, and else returns an error;
without `BPF_F_REUSE_STACKID` nothing is ever replaced.  `NewSession` starts over
all but the map, at any time, so that sessions may also be killed.

In a session `CaptureOn` is an ON event, whose stack is that of the thread that goes
off (`owner`) while its pid is that of the thread that comes on; `CaptureCall` a CUDA
call; `OthersCapture` another loader's probe or this one's while it writes
(its links are destroyed after the output).  `Become` is the life of processes: exit,
exec, and another process under the same pid.  `WriteEvent` is `emit_stack_json` for the next event
that has an id.  That events are lost in rings, sorted and dropped is the matter of
the other modules and does not touch the stacks.  A CUDA event is captured and
recorded in one step: between the two only the map and the process can change, and
the map never loses an entry.

### JsonEscape, StackEmit

A name is a sequence of characters of three widths: plain, to be escaped with a
backslash, and control characters.  The buffers are `BSW_STR_MAX` and twice that, as in
the code, with 5 for 512.  Blazesym is external: `Code` says what is known of
an address: nothing, a name, or a name and those inlined into it.

### Tools

Each `main` before its loop is a table of steps: what it does, what it gets, and
whether a failure returns, goes to `cleanup` or is warned of.  The actions run the
tables: `Do`, `CreateMaps` and `PinMaps` (the two halves of `bpf_object__load`
that other loaders can come between), `AttachXdp`, `Fail`.  The loop is `LoopTest`,
`GoToSleep`, then `Timeout`, `RecordsCome` and `Consumed`, or `PollFails`; the two
polls of `unified_trace` are one here and two in `Collector`.  `Signal` interrupts a
wait, is noted elsewhere, and kills (`Killed`) before the handlers are installed.
`Cleanup` and `AtExit` are the end.  `held` are the links, objects, rings and so on;
`err` is kept with its sign, as the status depends on it.  The objects `open` gets
are closed by `cleanup`; the XDP attachment is not held by the process and survives it.

## Runs

Passing runs:

| Run | Asks | Bounds |
|---|---|---|
| `tracer_garbage` | `TypeOK`, `GenuineLog`, refinement of `CallLog` (`ImplementsCallLog`) | 2 threads of 2 processes, 2 operations, hash and ring of 1, return probes may be skipped, 4 ticks, depth 2 |
| `tracer_leaf` | `LeafCallsReported`, `OnlyTarget`, `GenuineLog` where the same operation may be open twice, and under fairness `EventuallyHandedOver` | 3 threads, two of them of the target process, 1 operation, hash of 2, ring of 4, 4 ticks, depth 2 |
| `sampling` | `AsyncCapturesSpaced`, `EverySyncCaptured`, `AsyncRunsSampled` | 2 CPUs, periods 1 and 3, 6 entries on each CPU |
| `collector` | `TypeOK`, `KeepsPrefixes`, `TimelineOrdered`, `StopsWhenTold`, `GpuCollected` | array of 2, rings of 2, clock to 1 |
| `timeline` | of the tracer `TypeOK`, `Alternates`, `TraceTellsState`, `EverySwitchTraced`; of what is drawn `EndsCloseBegins`, `SpansAreStays` | 2 CPUs, 2 threads, no target or thread 1, ring of 2, 4 events |
| `report` | `TypeOK`, `IdsNameStacks`, `FramesOfOwnStack`, `NamesWhole`, `ErrorsToldOnce`, and `OwnDefaultRowClean` of the rows | 2 pids, 2 programs, 4 stacks, 4 buckets for 2 elements, 2 events a session, any number of sessions, 2 frames shown, names to 6 characters in buffers of 5 |
| `mains` | `TypeOK`, `NothingHeld`, `StatusTells`, `OneStackMap`, `XdpDetached`, `CtrlCStops` | 2 processes, four pairs of programs |

Why the bounds are enough: what can go wrong in `CudaTracer` takes one outer call,
one call inside it or after it, and a second thread for the full hash, the full ring
and the record in between; tables of size one make every limit a matter of one step.
Six entries on a CPU hold two async periods, so that a capture, the next one and
every offset sync calls can give the counter occur.
A switch takes two events; a stay on a CPU with the switch before it and the switch
after it takes four, on each of the CPUs, while the other switches in between.  A
ring of 2 is full after one unread switch.  The array of the collector is filled from
both rings and overflows; equal and reversed timestamps need only two values of the
clock.  The three threads of `tracer_leaf` are two that may be in submission at once
and one of another process; its ring never overflows, as 4 ticks let no more than four
calls begin.  The stacks of `report` are two of one hash, a third of their bucket, and one
of another bucket, which only the other users of the map take; they are shorter than, as
long as and longer than the frames shown.  A stack that finds no element left would add
nothing: all it can get is an error, and `GetStackId` may return one to any capture.
Of the names one fills its buffers with characters
to escape, one is cut, one is empty, one address is unknown, and one has more
inlined frames than there is room for.  Two events are an error and a repeated one, or a stack of each tracer.  One
stream handle is the default stream, the other mixes to 0, the value kept for it.
In `mains` the pairs are those that meet in the kernel, and each program is in one;
`ToolsProofs` covers all other line-ups.
`CHECK_DEADLOCK FALSE` is set where a run ends when a bound is reached or the programs
end; `report` never ends.

Runs that find a disagreement between the code and what a document or a comment
says of it:

| Run | The text | What happens |
|---|---|---|
| `tracer_missed_entry` | `trace_cuda.bpf.c:151` "Drop rather than emit garbage" | with a skipped entry probe, the entry of an earlier call of the same operation is taken, and the event is false |
| `stack_fallback` | `unified_trace.c:175` "If symbolization is disabled or fails, falls back to a list of raw hex addresses", and `QUICK_START.md:185` | `bsw_resolve` returns 0, and `[]` is written |
| `sched_on_stack` | `trace_cpu_sched.bpf.c:90` "for the thread being scheduled on" | it is the stack of the thread going off |
| `sched_worker_thread` | `README.md:86` "Only trace this PID (also filters CPU sched events)" | thread ids are compared with a process id: worker threads are not traced |
| `timeline_idle` | `unified_trace.c:334` "so Begin/End events match" | the idle threads of two CPUs share id 0: Begin, Begin, End |

Observed while modelling, with no property that claims otherwise:

- A thread that dies inside a call leaves its entry in the hash until the same
  `pid_tgid` calls again (its slot is lost; no false event comes of it, which
  `GenuineLog` covers).
- `README.md:93` has "1-in-N async calls", but sync and async calls share one counter:
  async calls in a regular mix with sync ones may never be due.  `AsyncRunsSampled`
  is about async calls in a row.
- Streams whose handles agree in the byte kept share a row, and the row of one
  thread's stream may be the base row of another thread (the row number is chosen so
  on purpose).
- `README.md:94` truncates stacks to the top N frames; N addresses are resolved, which may
  give 4 N frames with those inlined.
- `json_escape` stops at `dst_len-2` bytes for some texts, where its comment has `dst_len-1`.
- `--no-stacks` says that stacks are omitted, but does not reach the scheduler tracer, whose
  ON events still carry them.
- `trace_cuda` and `trace_exec` return `err != 0`: on Ctrl-C that is 0 if the wait was
  interrupted, and 1 if the signal came while records were printed, as `err` is then their
  number.  A failure after a successful load (no uprobe attached, no ring) gives 0.
- `count_packets` cannot detach its program before its globals are stored: a failing
  map lookup, or a signal before its handlers, leaves it attached.  `cleanup_xdp` runs
  twice, and a second instance's program is detached by the first one's end.
- The stack of a CUDA event may be another of the same hash.

## Fairness

`CudaTracer`: weak fairness of `Attach`, `StartPolling`, `Consume` (`main` is a loop
that calls `ring_buffer__poll`) and of `SubmitCommit` (a BPF program runs to its end
once it has reserved).  Nothing is assumed of the threads: they need not call,
return or be quiet, and polling may stop at any time.  In `unified_trace` fairness of
`Consume` presumes that the poll of the CPU ring, which comes first, returns: that is
the premise of `GpuCollected`; `trace_cuda` has the one ring.

`Collector`: weak fairness of the steps of `main`, and strong fairness of leaving a
ring found empty (the reader compares the positions after each record).  The
liveness properties state as a premise that rings are empty again and again:
`ring_buffer__poll` does not return before it has caught up and the callbacks
never ask it to, so with producers that always keep ahead of the reader the loop
does not look at `exiting`.  The premise concerns the CPU ring alone in
`GpuCollected`.

`Tools`: weak fairness of each process's next step: the system calls of the start-up
return, a wait ends at its timeout at the latest, and the output ends.  Records,
errors and signals need not come.  Nothing is assumed of `Consumed`: as in `Collector` a
drain ends only when the ring is found empty, so `CtrlCStops` has the premise that the process
it speaks of keeps up (`KeepsUp`); `count_packets` has no ring and meets it always.

## Proofs

`CudaTracerProofs`, for all values of the constants (`SamplingAssumption`,
`TracerAssumption`: the constants have their types, nothing more):

- `TypeCorrect`: `Spec => []TypeOK`.  `TypeOK` is not inductive: that a duration is a
  natural number needs that entries lie in the past (`Past`), and the second half of
  `submit_event` reads the entry again that the first half has checked, so the
  invariant says that a thread in between still has it, and one slot (`MidSubmit`).
- `LogIsGenuine`: if `ProbesReliable`, `Spec => []GenuineLog`.  `ProbesReliable`:
  entry probes are never skipped, and return probes only if no operation is open
  twice in one thread.  The premise is needed: `tracer_missed_entry` is the
  counterexample without it.  The heart of the invariant is `EntryOfInnermost`: of
  the open calls of the entry's operation whose return is armed, the innermost is the
  one that made the entry.  A return only uses an entry of its own operation, so the
  call it is in is that one.  `StillAttached` says why nothing else can be met while
  polling: until links are destroyed an armed call keeps its return probe, and an
  operation with an entry its entry probe.  Once links are destroyed the ring is no
  longer read, which is why `GenuineRing` is claimed up to then and `GenuineLog`
  for ever.

- `TargetOnly`: `Spec => []OnlyTarget`.  Only `record_entry` filters by process;
  `submit_event` reports whatever entry it finds.  The invariant (`TargetInv`) carries
  the filter from the entry to the event and to the log: entries are of target
  threads and hold the process id of their own thread, and an event takes both from
  its entry.  No premise on the probes is needed.

What the theorems share is what a step can do to the ring and the log: an event in
the ring was there before or is that of `SubmitCommit` (`RingOrigin`), one in the log
was in the log or is the head of the ring (`LogOrigin`), and calls once done stay
done (`HistoryGrows`).

`CudaTracerLogProofs`, from the same assumptions:

- `LogImplementsCallLog`: if `ProbesReliable`, `Spec => ImplementsCallLog`.  `Init` maps to
  `Init`; `Consume` maps to `Report`, and every other step to `Finish` or a stutter.  That
  an event handed over is of a call that has returned is `GenuineRing`.  That it is, of its
  thread, later than all in the log needs the order of the events (`Ordered`): a thread
  has one record in the ring that is being written, nothing of its own lies behind it, its
  events lie in the ring in the order of their ends, and those in the log are older.
- `LeafCallsNotMissed`: if the kernel skips no probe (`MayMiss = {}`),
  `Spec /\ []RoomLeft => []LeafCallsReported`.  `RoomLeft` says that no limit is hit: the
  ring can take a record, and the hash an entry of each traced thread.  It is a
  hypothesis on the behaviour and not on the constants, because bounds do not stop
  producers; it holds throughout `tracer_leaf`, and there are long behaviours of any
  size in which it does.  Without it the code drops, as its comments say.  The invariant
  (`EntriesKept`) is about the calls that are open: the calls of a thread began one after the
  other, and each that is probed and has made no call so far has its own entry in the
  hash.  A call made destroys the entry, but then the call under it is no leaf.
  `LeavesReported` adds that what has returned was reported on the spot, and
  `SubmittedGrows` that it stays so.

`StackSamplingProofs` (`SamplingAssumption`, `StackSamplingAssumption`):

- The invariant (`CountInv`, theorem `Counting`) says that the counter of a CPU is the number
  of entries on it, of both classes, and that entry i captured only if the period of its
  own class divides i - 1, and did if stacks are captured and `bpf_get_stackid` does not fail.
- `AsyncSpaced`: `Spec => []AsyncCapturesSpaced`, with no premise: of two multiples of the
  period the larger is larger by one period (`MultiplesApart`).
- `SyncAlwaysCaptured` and `AsyncRunsCaptured`: `Spec => []EverySyncCaptured` and
  `Spec => []AsyncRunsSampled`, if `CaptureStacks` and `NoStack \notin StackResults` (a failing
  `bpf_get_stackid` gives no stack and is not retried).  The second is that n
  numbers in a row have a multiple of n among them (`MultipleInRow`).

`SchedTracerProofs`, for any CPUs and threads (`SchedAssumption`):

- `TraceTells` (`Spec => []TraceTellsState`) and `SwitchesAlternate` (`Spec => []Alternates`)
  are one invariant (`Inv`), since the next
  event of a thread alternates with its last because the last tells its place.  It is
  inductive with `Filtered` (only wanted threads have events) and `Exclusive`: a thread is current or picked on one CPU at most, which is what keeps the
  two halves of a switch on one CPU apart from the other CPUs' choices.
- `SchedTypeCorrect`: `Spec => []TypeOK`; `SwitchesTraced`: `Spec => EverySwitchTraced`, an
  action property.

`CpuTimelineProofs`, for any CPUs and threads and arrays of any length (`SchedAssumption`,
`ChromeAssumption`, `TimelineAssumption`).  `LoopIs` says that the loop of the writer goes
through the events one by one; the rest is induction over their number, which is stated
for sets of numbers (`Induction`, from the well-foundedness of `<`).

- `EndsClose`: `TimelineSpec => []EndsCloseBegins`.  What a turn keeps (`Written`) ties the
  rows so far to `cpu_on_time`: the last Begin row of a thread is not closed exactly if its
  entry is not 0, and the entry is then that row's time.  Nothing is asked of the
  events but that they are numbered in order, so losses and a ring read in part are covered.
- `SpansTellStays`: `TimelineSpec => []SpansAreStays`.  The spans are first said in terms of the
  array (`RowsDrawn`): an ON event and the next switch event of the thread, an OFF event.  The
  invariant (`HistoryInv`, theorem `TimelineInvariance`) says of the trace what `since` and
  `stays` say of the scheduler: the time of a thread's last ON event while it is current
  (`SinceOn`, `OnSince`), and its completed stays (`StaysTold`).  It rests on the invariant of
  `SchedTracerProofs`, that events alternate and tell where a thread is.

`CollectorProofs` (`CollectorAssumption`):

- `OutputInOrder`: `Spec => []TimelineOrdered`, and `CollectorTypes`: `Spec => []TypeOK`.  The
  invariant (`TypeInv`) adds that from the sort to the output the array is in order
  (`SortedForOutput`), so that its first event has the least time (`FirstIsMin`) and no
  difference written is negative.
- `ArrayKeepsPrefixes`: `Spec => []KeepsPrefixes`.  The invariant (`PrefixInv`) says that for
  some k the array holds the first k[r] records of each ring r, each once, and until
  the array is full these are all that were read and the rings hold those that follow.
  The bound on record numbers cannot be met before the array is full (`NumbersGoOn`).

`StackReportProofs`, for all stacks, hashes, bucket counts, programs and pids
(`StackMapAssumption`, `StackEmitAssumption`, `JsonEscapeAssumption`,
`StackReportAssumption`, `TraceReportAssumption`, `ChromeAssumption`):

- `IdsAreStable`: `Spec => []IdsNameStacks`.  The invariant adds the types and says that the bucket of an
  event's id is in use and holds a stack of the event's hash, the very stack if the
  scheduler captured it.  It is kept because `GetStackId` only ever fills an empty
  bucket (`GetStackIdCorrect`), whoever calls it in whichever session.
- `ReportTypeCorrect`: `Spec => []TypeOK`: events have ids of the map and processes that
  ran, and the arrays written are those of the events in order.
- `ToldOnce`: `Spec => []ErrorsToldOnce`.  The invariant ties the log's lines to
  `LOGGED_ERR_PIDS`: the pids told are exactly those remembered.
- `ArraysListOwnFrames`: `Spec => []FramesOfOwnStack`.  The invariant (`ArraysInv`) says that each
  array is that of the stack its id names now and of the program noted with it, which the
  stability of ids carries through all later captures.  The other half is about `bsw_resolve`
  (`ResolveCorrect`): its two nested loops write all frames of all addresses, in order, up to
  `out_cap` (`CutAt` is kept by each turn of both).
- `NamesAreWhole`: `Spec => []NamesWhole`, from `ArraysInv` and the loop of `json_escape`: what
  it has written is the beginning of the name, `di` its width and less than the buffer
  (`Escaped`, `JsonEscapeFits`); and if no character takes six bytes `di` is at most twice
  their number, so that it never stops (`JsonEscapeWhole`).
- `DefaultRowKept`: `Spec => []OwnDefaultRowClean`: eight bits make a byte (`Bits`), so that the
  offset of a stream is a number, and not 0 (`StreamOffsets`).

`ToolsProofs`, for any processes and line-ups (`ToolsAssumption`).  The tables of steps are
used through `TableFact` alone, proved step by step for each program: a map is pinned
right after it is created, steps that only warn create and pin nothing and are never the
last, steps that return come before the handlers and when at most the library's path is
held, the globals are stored before the handlers, and all that is acquired is on the
list of what is freed.

- `ToolsTypeCorrect`: `Spec => []TypeOK`, with `HasStep`: who is starting has a step left.
- `NothingLeaks`: `Spec => []NothingHeld`.  `HeldInv`: what is held was got in a step made.
- `StackMapShared`: `Spec => []OneStackMap`.  `PinInv`: an object loaded uses the pinned map, and
  one created has a map that can be pinned.
- `NoXdpLeftBehind`: `Spec => []XdpDetached`.  `XdpInv`: only a `count_packets` is
  attached, and none that has handlers and has exited.
- `StatusIsRight`: `Spec => []StatusTells`.  `StatusInv`: from the end of the start-up or the
  loop on, `err` tells what ended it, until `cleanup` has made the status of it; a failing
  step is told from a failing poll by `TableFact`.

The invariants were checked by TLC on small instances before they were proved.  Every
module with a theorem is free of assumptions beyond the named ones of the constants.

Every invariant that a passing run checks is stated by a theorem, and so are the refinement
`ImplementsCallLog` and the action property `EverySwitchTraced`.  Sequences need care with
the provers: the encoding of `Len` for SMT takes every value to have the domain
`1 .. Len(s)`.  The proofs state the domains of sequences where they use them, and were
also checked with that axiom confined to values known to have such a domain.

Only model-checked:

- Liveness, which needs `ENABLED` and fairness: `EventuallyHandedOver`, `StopsWhenTold`,
  `GpuCollected`, `CtrlCStops`.
- The five disagreements with the texts, whose runs are counterexamples.

## Not modelled

- Options, and the bytes of `.rodata`: whether the lookup by name finds the map is a
  matter of the version of libbpf.
- Formatting of JSON, names, sizes and other arguments of rows; file, line and library
  of a frame, which take the path of the name; `comm`, written without escaping.
- The BPF sides of `trace_exec` (one record from the current task) and `count_packets`
  (one atomic addition), and what the tools print.
- The tests, the mock CUDA runtime, build and scripts: they are not part of the
  running tracer.
- Preemption of a probe by another on the same CPU in the middle of its counter's
  increment.

## Plan

1. `CudaTracer` with `Sampling`, `CallLog`, `StackSampling`, and its theorems (done).
2. `SchedTracer`, `Collector`, `ChromeTrace`, `CpuTimeline` (done).
3. `StackMap`, `JsonEscape`, `StackEmit`, `StackReport`, `TraceReport`, and
   `StackReportProofs` (done).
4. `Tools` and `ToolsProofs` (done).
5. `CudaTracerLogProofs`, `StackSamplingProofs`, `SchedTracerProofs`, `CollectorProofs`, and
   the exit status in `ToolsProofs` (done).
6. `CpuTimelineProofs`, and the arrays, names and rows in `StackReportProofs` (done).

Left open: liveness (above), and the hazards of `PROJECT.json` that no property covers.
