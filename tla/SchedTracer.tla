----------------------------- MODULE SchedTracer -----------------------------
(***************************************************************************)
(* The scheduler tracer, src/bpf/trace_cpu_sched.bpf.c: the sched_switch   *)
(* and sched_wakeup tracepoints, their PID filter and their ring buffer.   *)
(*                                                                         *)
(* The scheduler itself is external: it says which thread a CPU runs,      *)
(* picks the next one and wakes sleepers.  The tracepoint of a switch runs *)
(* before the switch: `current' is still the thread going off, and it is   *)
(* the stack of `current' that bpf_get_stackid walks.  Between the two     *)
(* events of a switch other CPUs run.                                      *)
(***************************************************************************)
EXTENDS Integers, Sequences, FiniteSets

CONSTANTS
    CPUs,
    Threads,       \* thread ids, without the idle thread
    Tgid,          \* [Threads -> process ids]
    Targets,       \* the values of --pid considered, 0 for none
    RingMax,       \* how many events fit in cpu_events
    MaxEvents      \* bound: events submitted

Idle == 0          \* the idle thread of every CPU has pid 0

Tids == Threads \cup {Idle}

NoStack == -1

ASSUME SchedAssumption ==
    /\ Threads \subseteq Nat \ {Idle}
    /\ Tgid \in [Threads -> Threads]
    /\ Targets \subseteq Tids
    /\ RingMax \in Nat

VARIABLES
    target_pid, \* set before the programs are loaded; 0 traces all
    current,   \* the thread each CPU runs
    picked,    \* the thread a CPU is switching to, its current one if none
    runnable,  \* the threads that wait for a CPU
    trace,     \* the events submitted, in the order of their timestamps
    unread,    \* how many of them are still in the ring
    dropped    \* history: a reserve has failed

vars == <<target_pid, current, picked, runnable, trace, unread, dropped>>

Types == {"ON", "OFF", "WAKEUP"}

(* stack_id is an id of the stack of the thread it names, or -1.           *)
Event == [event_type : Types, tid : Tids, cpu : CPUs,
          stack_id : Threads \cup {NoStack}]

TypeOK ==
    /\ target_pid \in Targets
    /\ current \in [CPUs -> Tids]
    /\ picked \in [CPUs -> Tids]
    /\ runnable \subseteq Threads
    /\ trace \in Seq(Event)
    /\ unread \in 0 .. RingMax
    /\ dropped \in BOOLEAN

OnCpu == {current[cpu] : cpu \in CPUs} \cup {picked[cpu] : cpu \in CPUs}

(* The tracepoints are attached to a running system.                       *)
Init ==
    /\ target_pid \in Targets
    /\ current \in [CPUs -> Tids]
    /\ \A c, d \in CPUs : current[c] = current[d] => c = d \/ current[c] = Idle
    /\ picked = current
    /\ runnable \in SUBSET {t \in Threads : \A cpu \in CPUs : current[cpu] # t}
    /\ trace = << >>
    /\ unread = 0
    /\ dropped = FALSE

-----------------------------------------------------------------------------
Wanted(tid) == target_pid = 0 \/ tid = target_pid

(* bpf_get_stackid(BPF_F_USER_STACK) on cpu: the stack of the thread that  *)
(* is current; the idle thread has none.                                   *)
UserStackId(cpu) == IF current[cpu] = Idle THEN NoStack ELSE current[cpu]

(* Mutant of Submit: a ring with one slot too many.                        *)
SubmitOverfull(e) ==
    /\ Len(trace) < MaxEvents
    /\ \/ /\ unread <= RingMax
          /\ trace' = Append(trace, e)
          /\ unread' = unread + 1
          /\ UNCHANGED dropped
       \/ /\ unread > RingMax
          /\ dropped' = TRUE
          /\ UNCHANGED <<trace, unread>>

(* bpf_ringbuf_reserve and bpf_ringbuf_submit; a full ring drops the event.*)
Submit(e) ==
    /\ Len(trace) < MaxEvents
    /\ \/ /\ unread < RingMax
          /\ trace' = Append(trace, e)
          /\ unread' = unread + 1
          /\ UNCHANGED dropped
       \/ /\ unread >= RingMax
          /\ dropped' = TRUE
          /\ UNCHANGED <<trace, unread>>

EmitIfWanted(e) ==
    \/ Wanted(e.tid) /\ Submit(e)
    \/ ~Wanted(e.tid) /\ UNCHANGED <<trace, unread, dropped>>

(* Mutant of SwitchOff: only a thread that blocks is reported.             *)
SwitchOffBlocked(cpu) ==
    /\ picked[cpu] = current[cpu]
    /\ \E next \in (runnable \ OnCpu) \cup ({Idle} \ {current[cpu]}) :
          /\ picked' = [picked EXCEPT ![cpu] = next]
          /\ \/ /\ runnable' = (runnable \ {next}) \cup ({current[cpu]} \ {Idle})
                /\ UNCHANGED <<trace, unread, dropped>>
             \/ /\ runnable' = runnable \ {next}
                /\ EmitIfWanted([event_type |-> "OFF", tid |-> current[cpu],
                                 cpu |-> cpu, stack_id |-> NoStack])
    /\ UNCHANGED <<target_pid, current>>

(* sched_switch, the thread going off the CPU: it sleeps or it is          *)
(* preempted.                                                              *)
SwitchOff(cpu) ==
    /\ picked[cpu] = current[cpu]
    /\ \E next \in (runnable \ OnCpu) \cup ({Idle} \ {current[cpu]}) :
          /\ picked' = [picked EXCEPT ![cpu] = next]
          /\ \E preempted \in BOOLEAN :
                runnable' = (runnable \ {next})
                    \cup IF preempted THEN {current[cpu]} \ {Idle} ELSE {}
    /\ EmitIfWanted([event_type |-> "OFF", tid |-> current[cpu], cpu |-> cpu,
                     stack_id |-> NoStack])
    /\ UNCHANGED <<target_pid, current>>

(* Mutant of SwitchOn: the event names the thread that goes off.           *)
SwitchOnPrev(cpu) ==
    /\ picked[cpu] # current[cpu]
    /\ EmitIfWanted([event_type |-> "ON", tid |-> current[cpu], cpu |-> cpu,
                     stack_id |-> UserStackId(cpu)])
    /\ current' = [current EXCEPT ![cpu] = picked[cpu]]
    /\ UNCHANGED <<target_pid, picked, runnable>>

(* sched_switch, the thread going on; then the switch itself.              *)
SwitchOn(cpu) ==
    /\ picked[cpu] # current[cpu]
    /\ EmitIfWanted([event_type |-> "ON", tid |-> picked[cpu], cpu |-> cpu,
                     stack_id |-> UserStackId(cpu)])
    /\ current' = [current EXCEPT ![cpu] = picked[cpu]]
    /\ UNCHANGED <<target_pid, picked, runnable>>

(* sched_wakeup of a sleeping thread, on any CPU.                          *)
Wakeup(t, cpu) ==
    /\ t \notin runnable \cup OnCpu
    /\ runnable' = runnable \cup {t}
    /\ EmitIfWanted([event_type |-> "WAKEUP", tid |-> t, cpu |-> cpu,
                     stack_id |-> NoStack])
    /\ UNCHANGED <<target_pid, current, picked>>

(* User space reads an event.                                              *)
Read ==
    /\ unread > 0
    /\ unread' = unread - 1
    /\ UNCHANGED <<target_pid, current, picked, runnable, trace, dropped>>

Next ==
    \/ \E cpu \in CPUs : SwitchOff(cpu) \/ SwitchOn(cpu)
    \/ \E t \in Threads, cpu \in CPUs : Wakeup(t, cpu)
    \/ Read

Spec == Init /\ [][Next]_vars

-----------------------------------------------------------------------------
(* The properties *)

(* Where in the trace the switches of t are.                               *)
Of(t) == {i \in DOMAIN trace :
             trace[i].tid = t /\ trace[i].event_type # "WAKEUP"}

(* As long as nothing is dropped, the events of a thread alternate between *)
(* ON and OFF, and a thread leaves the CPU it came on: what the Begin/End  *)
(* pairs of the Chrome trace rest on.                                      *)
Follows(j, i, t) == i < j /\ \A k \in Of(t) : k <= i \/ j <= k
Alternates ==
    ~dropped =>
        \A t \in Threads : \A i, j \in Of(t) : Follows(j, i, t) =>
            /\ trace[i].event_type # trace[j].event_type
            /\ trace[i].event_type = "ON" => trace[j].cpu = trace[i].cpu

(* As long as nothing is dropped, the last event of a thread tells where   *)
(* the thread is: ON and which CPU, or OFF.                                *)
Running(t, cpu) == current[cpu] = t /\ picked[cpu] = t
TraceTellsState ==
    ~dropped =>
        \A t \in Threads : \A i \in Of(t) : (\A k \in Of(t) : k <= i) =>
            IF trace[i].event_type = "ON" THEN Running(t, trace[i].cpu)
            ELSE \A cpu \in CPUs : ~Running(t, cpu)

(* trace_cpu_sched.bpf.c:90: "Capture user-space stack trace for the       *)
(* thread being scheduled on".                                             *)
StackOfThreadOn ==
    \A i \in DOMAIN trace :
        trace[i].event_type = "ON" => trace[i].stack_id \in {trace[i].tid, NoStack}

(* Unless the ring was full, the step that switches to a thread submits    *)
(* its ON event, on that CPU, if the thread is to be traced; whatever the  *)
(* other CPUs submitted since the thread before it went off.               *)
OnSubmitted(cpu) ==
    /\ Len(trace') = Len(trace) + 1
    /\ trace'[Len(trace')].event_type = "ON"
    /\ trace'[Len(trace')].tid = current'[cpu]
    /\ trace'[Len(trace')].cpu = cpu

SwitchedTo(t, cpu) == current[cpu] # t /\ current'[cpu] = t

EverySwitchTraced ==
    [][\A t \in Tids, cpu \in CPUs :
          SwitchedTo(t, cpu) /\ Wanted(t) /\ ~dropped' => OnSubmitted(cpu)]_vars

(* README.md:86: "Only trace this PID (also filters CPU sched events)":    *)
(* with the process id of a process every switch to one of its threads is  *)
(* in the trace.                                                           *)
TargetProcessTraced ==
    [][\A t \in Threads, cpu \in CPUs :
          /\ SwitchedTo(t, cpu)
          /\ target_pid = Tgid[t]
          /\ ~dropped'
          => OnSubmitted(cpu)]_vars
=============================================================================
