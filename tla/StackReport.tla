----------------------------- MODULE StackReport -----------------------------
(***************************************************************************)
(* The life of the captured stacks: two tracers put them in the pinned map *)
(* while a session runs, the events carry their ids, and when tracing has  *)
(* ended unified_trace.c looks each id up, resolves the addresses in the   *)
(* process that has the event's pid then, and writes the array.  Processes *)
(* come and go meanwhile, pids are used again, sessions end or are killed, *)
(* and other users of the pinned map (trace_cuda) keep filling it.         *)
(***************************************************************************)
EXTENDS StackMap, StackEmit

CONSTANTS
    Pids,
    Gone,          \* what a pid without a process runs
    StacksOf,      \* [Programs -> SUBSET Stacks]: the stacks it may have
    StreamAt,      \* [Stacks -> stream handles]: the stream used there
    MaxEvents      \* bound: events of a session that carry a stack

(* An address is looked up in whatever program runs under the pid then,    *)
(* whose stack it need not be of.                                          *)
ASSUME StackReportAssumption ==
    /\ Gone \notin Programs
    /\ StacksOf \in [Programs -> SUBSET Stacks]
    /\ DOMAIN StreamAt = Stacks
    /\ MaxEvents \in Nat
    /\ \A program \in Programs, stack \in Stacks : \A i \in DOMAIN stack :
          Code[program][stack[i]] \in Seq(Seq(STRING))

VARIABLES
    phase,        \* "trace" or "write"
    symbolizer,   \* whether symbolize_enabled and there is a symbolizer
    events,       \* the events of this session that carry a stack id
    running,      \* [Pids -> Programs \cup {Gone}]
    logged,       \* LOGGED_ERR_PIDS
    told,         \* history: the pids of the error lines of this session
    written       \* history: [event, program, outcome, array] for each event

vars == <<stack_traces, phase, symbolizer, events, running, logged,
          told, written>>

(* An ON event or a CUDA event.  stack, owner and program are history: the *)
(* stack that was captured, whose it was, and what the owner ran.          *)
Event ==
    [source : {"CPU"}, pid : Pids, stack_id : Ids,
     stack : Stacks, owner : Pids, program : Programs]
    \cup [source : {"GPU"}, pid : Pids, stack_id : Ids, stack : Stacks,
          owner : Pids, program : Programs,
          stream : {StreamAt[s] : s \in Stacks}]

TypeOK ==
    /\ StackMapTypeOK
    /\ phase \in {"trace", "write"}
    /\ symbolizer \in BOOLEAN
    /\ events \in Seq(Event)
    /\ running \in [Pids -> Programs \cup {Gone}]
    /\ logged \subseteq Pids
    /\ told \in Seq(Pids)
    /\ \A i \in DOMAIN written :
          /\ i \in DOMAIN events
          /\ written[i].event = events[i]

Init ==
    /\ StackMapInit
    /\ phase = "trace"
    /\ symbolizer \in BOOLEAN
    /\ events = << >>
    /\ running \in [Pids -> Programs \cup {Gone}]
    /\ logged = {}
    /\ told = << >>
    /\ written = << >>

-----------------------------------------------------------------------------
(* Tracing *)

(* A probe takes the user stack of owner, the process that is current.     *)
(* The events of interest are those that get an id.                        *)
Capture(owner, stack, fast, sid) ==
    /\ phase = "trace"
    /\ Len(events) < MaxEvents
    /\ running[owner] # Gone
    /\ stack \in StacksOf[running[owner]]
    /\ GetStackId(stack, fast, sid)
    /\ UNCHANGED <<phase, symbolizer, running, logged, told, written>>

(* Mutant of Record: the test of stack_id is dropped.                      *)
RecordAny(e, sid) == events' = Append(events, e)

Record(e, sid) == events' = IF sid < 0 THEN events ELSE Append(events, e)

(* sched_switch: the ON event of a thread of pid.  Current is still the    *)
(* thread that goes off, of the same process or of another.                *)
CaptureOn(prev, pid, stack, sid) ==
    /\ running[pid] # Gone
    /\ Capture(prev, stack, FALSE, sid)
    /\ Record([source |-> "CPU", pid |-> pid, stack_id |-> sid,
               stack |-> stack, owner |-> prev,
               program |-> running[prev]], sid)

(* A CUDA call that is sampled, from its entry to its event.               *)
CaptureCall(pid, stack, sid) ==
    /\ Capture(pid, stack, TRUE, sid)
    /\ Record([source |-> "GPU", pid |-> pid, stack_id |-> sid,
               stack |-> stack, owner |-> pid, program |-> running[pid],
               stream |-> StreamAt[stack]], sid)

(* The probes of another loader, or those of this one while it writes.     *)
OthersCapture(stack, sid) ==
    /\ GetStackId(stack, TRUE, sid)
    /\ UNCHANGED <<phase, symbolizer, events, running, logged, told, written>>

StopTracing ==
    /\ phase = "trace"
    /\ phase' = "write"
    /\ UNCHANGED <<stack_traces, symbolizer, events, running, logged,
                   told, written>>

(* A process exits, or a new one gets the pid, or it executes a program.   *)
Become(pid, program) ==
    /\ running' = [running EXCEPT ![pid] = program]
    /\ UNCHANGED <<stack_traces, phase, symbolizer, events, logged,
                   told, written>>

-----------------------------------------------------------------------------
(* Writing *)

Written(e, outcome, array) ==
    written' = Append(written, [event |-> e, program |-> running[e.pid],
                                outcome |-> outcome, array |-> array])

(* Mutant of LogError: the pid is not remembered.                          *)
LogErrorAlways(pid) ==
    /\ told' = Append(told, pid)
    /\ UNCHANGED logged

(* already_logged: one line for each pid.                                  *)
LogError(pid) ==
    /\ told' = IF pid \in logged THEN told ELSE Append(told, pid)
    /\ logged' = logged \cup {pid}

(* emit_stack_json for e: an empty array if the map was not found, or      *)
(* calloc fails; raw addresses without a symbolizer; and an empty array if *)
(* blazesym fails, as it does when there is no such process.               *)
EmitStack(e) ==
    LET addrs == Shown(read_stack_addrs(e.stack_id))
    IN  \/ /\ Written(e, "failed", << >>)
           /\ UNCHANGED <<logged, told>>
        \/ /\ ~symbolizer
           /\ Written(e, "raw", RawArray(addrs))
           /\ UNCHANGED <<logged, told>>
        \/ /\ symbolizer
           /\ Written(e, "error", << >>)
           /\ LogError(e.pid)
        \/ /\ symbolizer
           /\ running[e.pid] # Gone
           /\ Written(e, "resolved", SymArray(running[e.pid], addrs))
           /\ UNCHANGED <<logged, told>>

(* The next event in the array.                                            *)
WriteEvent ==
    /\ phase = "write"
    /\ Len(written) < Len(events)
    /\ EmitStack(events[Len(written) + 1])
    /\ UNCHANGED <<stack_traces, phase, symbolizer, events, running>>

(* The session has ended or is killed, and another begins: a new process,  *)
(* with or without --no-symbolize, on the same map.                        *)
NewSession ==
    /\ phase' = "trace"
    /\ symbolizer' \in BOOLEAN
    /\ events' = << >>
    /\ logged' = {}
    /\ told' = << >>
    /\ written' = << >>
    /\ UNCHANGED <<stack_traces, running>>

Next ==
    \/ \E pid \in Pids, stack \in Stacks, sid \in Ids \cup {-1} :
          \/ \E prev \in Pids : CaptureOn(prev, pid, stack, sid)
          \/ CaptureCall(pid, stack, sid)
    \/ \E stack \in Stacks, sid \in Ids \cup {-1} : OthersCapture(stack, sid)
    \/ StopTracing
    \/ \E pid \in Pids, program \in Programs \cup {Gone} : Become(pid, program)
    \/ WriteEvent
    \/ NewSession

Spec == Init /\ [][Next]_vars

-----------------------------------------------------------------------------
(* The properties *)

(* The bucket an event names is never another's, however many stacks       *)
(* collide, fill the map or come from other sessions and tracers: the      *)
(* scheduler's ids name the very stack that was captured, those of the     *)
(* CUDA tracer, which compares hashes alone, one with the same hash.       *)
Names(e, stack) ==
    /\ Hash[stack] = Hash[e.stack]
    /\ e.source = "CPU" => stack = e.stack
IdsNameStacks ==
    \A i \in DOMAIN events :
        Names(events[i], stack_traces[events[i].stack_id])

(* What is due for a stack: its first frames with all that is inlined into *)
(* them, cut at four frames for each address.                              *)
Due(stack, program) ==
    LET addrs  == Shown(stack)
        frames == FlattenSeq([i \in DOMAIN addrs |->
                                 FramesAt(program, addrs[i])])
    IN  IF symbolizer
        THEN SubSeq(frames, 1, IF Len(frames) < 4 * Len(addrs)
                               THEN Len(frames) ELSE 4 * Len(addrs))
        ELSE addrs

(* If the stack is that of a thread of the event's process, and that still *)
(* runs what it ran then, the array written lists, in order, the frames of *)
(* that stack: no frame of another session, process or event, none twice   *)
(* and none beyond the room for them.  (The other ON events carry stacks   *)
(* of another process, see StackOfThreadOn of SchedTracer.)                *)
Lists(array, due) ==
    /\ Len(array) = Len(due)
    /\ \A i \in DOMAIN due :
          IF symbolizer
          THEN /\ array[i].inlined = due[i].inlined
               /\ due[i].sym # << >> => IsPrefix(array[i].sym, due[i].sym)
          ELSE array[i].addr = due[i]
FramesOfOwnStack ==
    \A i \in DOMAIN written :
        LET w == written[i]
        IN  /\ w.outcome \in {"raw", "resolved"}
            /\ \/ ~symbolizer
               \/ w.event.owner = w.event.pid /\ w.program = w.event.program
            => \E stack \in Stacks :
                  Names(w.event, stack) /\ Lists(w.array, Due(stack, w.event.program))

(* No name is lost on the way: what is written fits its buffer with the    *)
(* NUL, and unless the name has control characters it is the whole of what *)
(* bsw_resolve handed over, up to one character less than BSW_STR_MAX.     *)
HasCtrl(name) == \E i \in DOMAIN name : name[i] = "ctrl"
NamesWhole ==
    \A i \in DOMAIN written :
        written[i].outcome = "resolved" =>
            LET w      == written[i]
                stack  == stack_traces[w.event.stack_id]
                frames == bsw_resolve(w.program, Shown(stack),
                                      frame_cap(Shown(stack)))
            IN  \A j \in DOMAIN w.array :
                   LET text == w.array[j].sym
                   IN  /\ TextWidth(text) < DstLen
                       /\ Len(frames[j].sym) < BSW_STR_MAX
                       /\ frames[j].sym # << >> /\ ~HasCtrl(frames[j].sym)
                          => text = frames[j].sym

(* An array left empty because its process could not be read is owned up   *)
(* to, in one line for each process and session and no more.               *)
ErrorsToldOnce ==
    /\ \A i \in DOMAIN written :
          written[i].outcome = "error" =>
              \E j \in DOMAIN told : told[j] = written[i].event.pid
    /\ \A i, j \in DOMAIN told : told[i] = told[j] => i = j

(* unified_trace.c:175: "If symbolization is disabled or fails, falls back *)
(* to a list of raw hex addresses so the caller still has something to     *)
(* grep on."                                                               *)
FallsBackToAddresses ==
    \A i \in DOMAIN written :
        written[i].outcome \in {"raw", "error"} =>
            LET stack == stack_traces[written[i].event.stack_id]
            IN  written[i].array = RawArray(Shown(stack))
=============================================================================
