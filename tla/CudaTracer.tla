----------------------------- MODULE CudaTracer -----------------------------
(***************************************************************************)
(* The CUDA call tracer: the entry and return probes of                    *)
(* src/bpf/trace_cuda.bpf.c, the hash of in-flight calls and the ring      *)
(* buffer between them and user space, and the life of the probes as       *)
(* src/user/unified_trace.c attaches them, polls, and detaches them.       *)
(*                                                                         *)
(* Threads call CUDA functions, which may call others.  A probe that is    *)
(* not attached does not fire; a uretprobe fires only for a call that      *)
(* began while it was attached; and the kernel may skip the program of a   *)
(* probe of the kinds in MayMiss.  The submit of an event is two steps, as *)
(* other CPUs run between bpf_ringbuf_reserve and bpf_ringbuf_submit.      *)
(***************************************************************************)
EXTENDS Sampling, FiniteSets, SequencesExt

CONSTANTS
    Threads,        \* the values of pid_tgid
    Tgid,           \* [Threads -> process ids]
    TargetPid,      \* cfg.target_pid, 0 for every process
    Ops,            \* the operations the threads call
    Reentrant,      \* operations that may be open twice in one thread
    cuda_funcs,     \* the probes in the order main attaches them
    MayMiss,        \* kinds of probes the kernel may skip
    CallsMax,       \* max_entries of cuda_calls
    RingMax,        \* how many events fit in cuda_events
    None,
    MaxTime,        \* bound: no call begins at or after this time
    MaxDepth        \* bound: open calls of one thread

Probes == {"entry", "return"} \X Ops

CallInfo ==
    [op_type : Ops, timestamp : Nat, pid : Nat,
     stack_id : Nat \cup {NoStack}]

Event ==
    [op_type : Ops, timestamp : Nat, duration_ns : Nat, pid : Nat,
     tid : Threads, stack_id : Nat \cup {NoStack}]

RingSlot == [owner : Threads, event : Event \cup {None}]

ASSUME TracerAssumption ==
    /\ Tgid \in [Threads -> Nat]
    /\ TargetPid \in Nat
    /\ Ops \subseteq CudaOp
    /\ Reentrant \subseteq Ops
    /\ cuda_funcs \in Seq(Probes)
    /\ MayMiss \subseteq {"entry", "return"}
    /\ CallsMax \in Nat
    /\ RingMax \in Nat
    /\ None \notin CallInfo
    /\ None \notin Event
    /\ MaxTime \in Nat

VARIABLES
    phase,       \* "attach", "poll" or "detach"
    next,        \* how far the attach or detach loop has come
    attached,    \* the probes attached
    now,         \* the clock, one tick for each entry and return
    stack,       \* for each thread the open calls, the innermost last
    cuda_calls,  \* the in-flight hash: [op_type, timestamp, ...] or None
    cuda_events, \* the ring: [owner, event], event None until submitted
    done,        \* history: the calls that have returned
    log          \* history: the events handed to the ring's callback

loader  == <<phase, next, attached>>
threads == <<now, stack, done>>
maps    == <<cuda_calls, cuda_events, counter>>
vars    == <<loader, threads, maps, log>>

Frame == [op : Ops, start : Nat, armed : BOOLEAN, probed : BOOLEAN]

Call == [tid : Threads, op : Ops, start : Nat, end : Nat, probed : BOOLEAN]

TypeOK ==
    /\ SamplingTypeOK
    /\ phase \in {"attach", "poll", "detach"}
    /\ next \in 1 .. Len(cuda_funcs) + 1
    /\ attached \subseteq Probes
    /\ now \in Nat
    /\ stack \in [Threads -> Seq(Frame)]
    /\ cuda_calls \in [Threads -> CallInfo \cup {None}]
    /\ cuda_events \in Seq(RingSlot)
    /\ done \subseteq Call
    /\ log \in Seq(Event)

Init ==
    /\ SamplingInit
    /\ phase = "attach"
    /\ next = 1
    /\ attached = {}
    /\ now = 0
    /\ stack = [t \in Threads |-> << >>]
    /\ cuda_calls = [t \in Threads |-> None]
    /\ cuda_events = << >>
    /\ done = {}
    /\ log = << >>

-----------------------------------------------------------------------------
(* The loader *)

(* One turn of the attach loop: the probe is attached, or the attach fails *)
(* and the loop goes on.                                                   *)
Attach ==
    /\ phase = "attach"
    /\ next <= Len(cuda_funcs)
    /\ attached' \in {attached, attached \cup {cuda_funcs[next]}}
    /\ next' = next + 1
    /\ UNCHANGED <<phase, threads, maps, log>>

StartPolling ==
    /\ phase = "attach"
    /\ next > Len(cuda_funcs)
    /\ phase' = "poll"
    /\ UNCHANGED <<next, attached, threads, maps, log>>

(* The poll loop has ended; the ring is not read again.                    *)
StopPolling ==
    /\ phase = "poll"
    /\ phase' = "detach"
    /\ next' = 1
    /\ UNCHANGED <<attached, threads, maps, log>>

(* The links are destroyed in the order in which they were made.           *)
Detach ==
    /\ phase = "detach"
    /\ next <= Len(cuda_funcs)
    /\ attached' = attached \ {cuda_funcs[next]}
    /\ next' = next + 1
    /\ UNCHANGED <<phase, threads, maps, log>>

(* Mutant of Consume: the consumer position is not advanced.               *)
ConsumeTwice ==
    /\ phase = "poll"
    /\ cuda_events # << >>
    /\ Head(cuda_events).event # None
    /\ log' = Append(log, Head(cuda_events).event)
    /\ UNCHANGED <<loader, threads, maps>>

(* Mutant of Consume: the reader is only woken by a full ring.             *)
ConsumeWhenFull ==
    /\ phase = "poll"
    /\ Len(cuda_events) >= RingMax
    /\ Head(cuda_events).event # None
    /\ log' = Append(log, Head(cuda_events).event)
    /\ cuda_events' = Tail(cuda_events)
    /\ UNCHANGED <<loader, threads, cuda_calls, counter>>

(* ring_buffer__poll hands the oldest record to the callback, unless it is *)
(* still being written.                                                    *)
Consume ==
    /\ phase = "poll"
    /\ cuda_events # << >>
    /\ Head(cuda_events).event # None
    /\ log' = Append(log, Head(cuda_events).event)
    /\ cuda_events' = Tail(cuda_events)
    /\ UNCHANGED <<loader, threads, cuda_calls, counter>>

-----------------------------------------------------------------------------
(* The entry probes *)

Traced(t) == TargetPid = 0 \/ Tgid[t] = TargetPid

InFlight == {t \in Threads : cuda_calls[t] # None}

(* Mutant of MapUpdate: BPF_NOEXIST, an entry left behind stays.           *)
MapUpdateKeepsOld(t, info) ==
    IF t \notin InFlight /\ Cardinality(InFlight) < CallsMax
    THEN [cuda_calls EXCEPT ![t] = info]
    ELSE cuda_calls

(* bpf_map_update_elem(BPF_ANY): a full hash takes no new key, and the     *)
(* caller ignores the failure.                                             *)
MapUpdate(t, info) ==
    IF t \in InFlight \/ Cardinality(InFlight) < CallsMax
    THEN [cuda_calls EXCEPT ![t] = info]
    ELSE cuda_calls

(* Mutant of RecordEntry: no PID filter.                                   *)
RecordEntryOfAnyone(t, op, cpu) ==
    \E sid \in StackResults \cup {NoStack} :
       /\ MaybeCaptureStack(cpu, op, sid)
       /\ cuda_calls' = MapUpdate(t,
              [op_type |-> op, timestamp |-> now, pid |-> Tgid[t],
               stack_id |-> sid])

RecordEntry(t, op, cpu) ==
    \/ /\ ~Traced(t)
       /\ UNCHANGED <<cuda_calls, counter>>
    \/ /\ Traced(t)
       /\ \E sid \in StackResults \cup {NoStack} :
             /\ MaybeCaptureStack(cpu, op, sid)
             /\ cuda_calls' = MapUpdate(t,
                    [op_type |-> op, timestamp |-> now, pid |-> Tgid[t],
                     stack_id |-> sid])

(* A thread is inside submit_event, between reserve and submit.            *)
Slot(t) == {i \in DOMAIN cuda_events : cuda_events[i].owner = t
                                       /\ cuda_events[i].event = None}
Submitting(t) == Slot(t) # {}

MayCall(t, op) ==
    /\ now < MaxTime
    /\ Len(stack[t]) < MaxDepth
    /\ op \in Reentrant \/ \A i \in DOMAIN stack[t] : stack[t][i].op # op
    /\ ~Submitting(t)

Attached(kind, op) == <<kind, op>> \in attached

(* Thread t, running on cpu, calls op.                                     *)
Enter(t, op, cpu) ==
    /\ MayCall(t, op)
    /\ stack' = [stack EXCEPT ![t] = Append(@,
          [op |-> op, start |-> now, armed |-> Attached("return", op),
           probed |-> Attached("entry", op) /\ Attached("return", op)])]
    /\ now' = now + 1
    /\ \/ Attached("entry", op) /\ RecordEntry(t, op, cpu)
       \/ /\ ~Attached("entry", op) \/ "entry" \in MayMiss
          /\ UNCHANGED <<cuda_calls, counter>>
    /\ UNCHANGED <<loader, cuda_events, done, log>>

-----------------------------------------------------------------------------
(* The return probes *)

Top(t) == Last(stack[t])

CanReturn(t) == stack[t] # << >> /\ ~Submitting(t)

ReturnFires(t) == Top(t).armed /\ Attached("return", Top(t).op)

(* The innermost call of t returns now.                                    *)
Pop(t) ==
    /\ stack' = [stack EXCEPT ![t] = Front(@)]
    /\ done' = done \cup {[tid |-> t, op |-> Top(t).op, start |-> Top(t).start,
                           end |-> now, probed |-> Top(t).probed]}
    /\ now' = now + 1

(* Mutant of Forget: the entry outlives the event made of it.              *)
ForgetNothing(t) == cuda_calls' = [cuda_calls EXCEPT ![t] = @]

Forget(t) == cuda_calls' = [cuda_calls EXCEPT ![t] = None]

Matches(t) == cuda_calls[t] # None /\ cuda_calls[t].op_type = Top(t).op

ReturnUnseen(t) ==
    /\ CanReturn(t)
    /\ ~ReturnFires(t) \/ "return" \in MayMiss
    /\ Pop(t)
    /\ UNCHANGED <<loader, maps, log>>

(* submit_event without an event: no entry, the entry of another           *)
(* operation, or a full ring.                                              *)
SubmitDrop(t) ==
    /\ CanReturn(t)
    /\ ReturnFires(t)
    /\ ~Matches(t) \/ Len(cuda_events) >= RingMax
    /\ Forget(t)
    /\ Pop(t)
    /\ UNCHANGED <<loader, cuda_events, counter, log>>

SubmitReserve(t) ==
    /\ CanReturn(t)
    /\ ReturnFires(t)
    /\ Matches(t)
    /\ Len(cuda_events) < RingMax
    /\ cuda_events' = Append(cuda_events, [owner |-> t, event |-> None])
    /\ UNCHANGED <<loader, threads, cuda_calls, counter, log>>

(* Mutant of EventOf: the difference of the two clocks is taken the wrong  *)
(* way round.                                                              *)
EventOfReversed(t) ==
    [op_type |-> Top(t).op,
     timestamp |-> cuda_calls[t].timestamp,
     duration_ns |-> cuda_calls[t].timestamp - now,
     pid |-> cuda_calls[t].pid,
     tid |-> t,
     stack_id |-> cuda_calls[t].stack_id]

EventOf(t) ==
    [op_type |-> Top(t).op,
     timestamp |-> cuda_calls[t].timestamp,
     duration_ns |-> now - cuda_calls[t].timestamp,
     pid |-> cuda_calls[t].pid,
     tid |-> t,
     stack_id |-> cuda_calls[t].stack_id]

SubmitCommit(t) ==
    /\ \E i \in Slot(t) :
          cuda_events' = [cuda_events EXCEPT ![i].event = EventOf(t)]
    /\ Forget(t)
    /\ Pop(t)
    /\ UNCHANGED <<loader, counter, log>>

(* A thread is killed inside its calls; none of them returns, and its      *)
(* pid_tgid may be used again.                                             *)
ThreadExit(t) ==
    /\ CanReturn(t)
    /\ stack' = [stack EXCEPT ![t] = << >>]
    /\ UNCHANGED <<loader, now, done, maps, log>>

-----------------------------------------------------------------------------
ThreadStep(t) ==
    \/ \E op \in Ops, cpu \in CPUs : Enter(t, op, cpu)
    \/ ReturnUnseen(t)
    \/ SubmitDrop(t)
    \/ SubmitReserve(t)
    \/ SubmitCommit(t)
    \/ ThreadExit(t)

Next ==
    \/ Attach
    \/ StartPolling
    \/ Consume
    \/ StopPolling
    \/ Detach
    \/ \E t \in Threads : ThreadStep(t)

Spec == Init /\ [][Next]_vars

(* main goes through its attach loop to the poll loop, which calls         *)
(* ring_buffer__poll again and again; a BPF program runs to its end once   *)
(* started.                                                                *)
Fairness ==
    /\ WF_vars(Attach)
    /\ WF_vars(StartPolling)
    /\ WF_vars(Consume)
    /\ \A t \in Threads : WF_vars(SubmitCommit(t))

FairSpec == Spec /\ Fairness

-----------------------------------------------------------------------------
(* The properties *)

EndOf(e) == e.timestamp + e.duration_ns

(* Event e is the true report of call c.                                   *)
Reports(e, c) ==
    /\ e.tid = c.tid
    /\ e.op_type = c.op
    /\ e.timestamp = c.start
    /\ EndOf(e) = c.end

(* The events that have been submitted: handed over, or still in the ring. *)
Submitted ==
    {log[i] : i \in DOMAIN log} \cup
    {cuda_events[i].event :
        i \in {j \in DOMAIN cuda_events : cuda_events[j].event # None}}

(* "Drop rather than emit garbage": every event the user is handed is the  *)
(* report of one call that really took place, of the thread, operation,    *)
(* start and end it states.  In danger when an entry outlives its call     *)
(* (return not probed, thread killed, nested call) and meets a return.     *)
GenuineLog ==
    \A i \in DOMAIN log : \E c \in done : Reports(log[i], c)

(* The PID filter of record_entry is enough: although submit_event does    *)
(* not filter, no event of another process is ever submitted.              *)
OnlyTarget ==
    \A e \in Submitted : Traced(e.tid) /\ e.pid = Tgid[e.tid]

(* While polling, a probed call that calls no other is never lost unless a *)
(* limit is hit: some event reports it.  (A call that made another loses   *)
(* its entry to it, see the README.)                                       *)
IsLeaf(c) ==
    ~ \E d \in done : d.tid = c.tid /\ c.start < d.start /\ d.end < c.end
LeafCallsReported ==
    phase = "poll" =>
        \A c \in done : c.probed /\ IsLeaf(c) /\ Traced(c.tid) =>
            \E e \in Submitted : Reports(e, c)

(* The log is a CallLog of the calls that have returned.                   *)
CallOf(e) == [tid |-> e.tid, op |-> e.op_type, start |-> e.timestamp,
              end |-> EndOf(e)]
Promise ==
    INSTANCE CallLog WITH
        done <- {[tid |-> c.tid, op |-> c.op, start |-> c.start,
                  end |-> c.end] : c \in done},
        log  <- [i \in DOMAIN log |-> CallOf(log[i])]

(* The tracer implements CallLog: the user never sees an invented event,   *)
(* one twice, or a thread's calls out of the order of their returns.       *)
ImplementsCallLog == Promise!Spec

(* A submitted event is handed to user space unless polling stops first:   *)
(* a record still being written delays those behind it, not for ever.      *)
(* Calls start at distinct times, so the time stands for the event.        *)
HasEventAt(events, ts) == \E e \in events : e.timestamp = ts
EventuallyHandedOver ==
    \A ts \in 0 .. MaxTime - 1 :
        HasEventAt(Submitted, ts) ~>
            (HasEventAt({log[i] : i \in DOMAIN log}, ts) \/ phase = "detach")
=============================================================================
