-------------------------------- MODULE Tools --------------------------------
(***************************************************************************)
(* The four programs of src/user/ from start to exit, running side by side *)
(* on one machine: what main acquires step by step, what it does when a    *)
(* step fails, its loop, the signals, the clean-up and the exit status.    *)
(* They meet in the kernel: unified_trace and trace_cuda share the pinned  *)
(* map of stacks, instances of count_packets the XDP hook of an interface. *)
(***************************************************************************)
EXTENDS Integers, Sequences

CONSTANTS
    Processes,
    LineUps,    \* what the processes run: a set of [Processes -> Program]
    None

Program == {"unified_trace", "trace_cuda", "trace_exec", "count_packets"}
Object  == {"obj", "cpu_obj", "gpu_obj"}

ASSUME ToolsAssumption ==
    /\ LineUps \subseteq [Processes -> Program]
    /\ None \notin Processes
    /\ None \notin Processes \X Object

-----------------------------------------------------------------------------
(* The steps of each main before its loop: what it does and acquires, and  *)
(* what follows if it fails.  Attaching links succeeds if one probe gets   *)
(* attached.  Options and banners are left out.                            *)
Step(does, gets, onfail) == [does |-> does, gets |-> gets, onfail |-> onfail]

Signals == Step("signals", {}, "never")

unified_trace ==
    << Step("find_library", {}, "return"),
       Step("open", {"cpu_obj"}, "cleanup"),
       Step("cpu_rodata", {}, "go_on"),
       Step("create", {"cpu_obj"}, "cleanup"),
       Step("pin", {"cpu_obj"}, "cleanup"),
       Step("attach", {"sched_switch_link"}, "go_on"),
       Step("attach", {"sched_wakeup_link"}, "go_on"),
       Step("open", {"gpu_obj"}, "cleanup"),
       Step("gpu_rodata", {}, "go_on"),
       Step("create", {"gpu_obj"}, "cleanup"),
       Step("pin", {"gpu_obj"}, "cleanup"),
       Step("attach", {"gpu_links"}, "go_on"),
       Step("bsw_new", {"symbolizer"}, "go_on"),
       Step("ring_buffer__new", {"cpu_rb"}, "cleanup"),
       Step("ring_buffer__new", {"gpu_rb"}, "cleanup"),
       Signals >>

trace_cuda ==
    << Step("find_library", {"cuda_lib_path"}, "return"),
       Step("open", {"obj"}, "return"),
       Step("create", {"obj"}, "cleanup"),
       Step("pin", {"obj"}, "cleanup"),
       Step("attach", {"links"}, "cleanup"),
       Step("ring_buffer__new", {"rb"}, "cleanup"),
       Signals >>

trace_exec ==
    << Step("open", {"obj"}, "return"),
       Step("load", {}, "cleanup"),
       Step("find_program", {}, "cleanup"),
       Step("attach", {"link"}, "cleanup"),
       Step("ring_buffer__new", {"rb"}, "cleanup"),
       Signals >>

(* Mutant of count_packets: the globals of cleanup_xdp are not stored.     *)
count_packets_no_globals ==
    << Step("if_nametoindex", {}, "return"),
       Step("open", {"obj"}, "return"),
       Step("load", {}, "cleanup"),
       Step("find_program", {}, "cleanup"),
       Step("bpf_xdp_attach", {}, "cleanup"),
       Step("find_map", {}, "cleanup"),
       Signals,
       Step("atexit", {}, "never") >>

count_packets ==
    << Step("if_nametoindex", {}, "return"),
       Step("open", {"obj"}, "return"),
       Step("load", {}, "cleanup"),
       Step("find_program", {}, "cleanup"),
       Step("bpf_xdp_attach", {}, "cleanup"),
       Step("find_map", {}, "cleanup"),
       Step("globals", {}, "never"),
       Signals,
       Step("atexit", {}, "never") >>

Steps ==
    [unified_trace |-> unified_trace, trace_cuda |-> trace_cuda,
     trace_exec |-> trace_exec, count_packets |-> count_packets]

(* The steps whose result is kept in err.                                  *)
KeepsErr(step) == step.does \in {"load", "create", "pin", "bpf_xdp_attach"}

(* Mutant of Freed: the ring of the CUDA events is forgotten.              *)
FreedButOne ==
    [unified_trace |-> {"cpu_rb", "sched_switch_link",
                        "sched_wakeup_link", "gpu_links",
                        "cpu_obj", "gpu_obj", "symbolizer"},
     trace_cuda    |-> {"rb", "links", "obj", "cuda_lib_path"},
     trace_exec    |-> {"rb", "link", "obj"},
     count_packets |-> {"obj"}]

(* What each main frees after its label cleanup.                           *)
Freed ==
    [unified_trace |-> {"cpu_rb", "gpu_rb", "sched_switch_link",
                        "sched_wakeup_link", "gpu_links",
                        "cpu_obj", "gpu_obj", "symbolizer"},
     trace_cuda    |-> {"rb", "links", "obj", "cuda_lib_path"},
     trace_exec    |-> {"rb", "link", "obj"},
     count_packets |-> {"obj"}]

-----------------------------------------------------------------------------
VARIABLES
    program,     \* what each process runs
    at,          \* "start", "test", "tested", "wait", "consume", "output",
                 \* "cleanup", "atexit" or "exited"
    done,        \* how many of its steps each process has made
    err,         \* "ok", "records" (a positive number) or "error"
    held,        \* what each process has acquired and not freed
    exiting,     \* set by sig_handler
    status,      \* 0 or 1 when main has returned, else None
    cause,       \* history: what ended the start-up or the loop
    maps,        \* for each process and object the map of stacks it uses
    pinned,      \* the map of stacks pinned at /sys/fs/bpf, or None
    xdp          \* whose XDP program is attached to the interface, or None

own    == <<done, at, err, held, exiting, status, cause>>
kernel == <<maps, pinned, xdp>>
vars   == <<program, own, kernel>>

TypeOK ==
    /\ program \in LineUps
    /\ at \in [Processes -> {"start", "test", "tested", "wait", "consume",
                             "output", "cleanup", "atexit", "exited"}]
    /\ done \in [Processes -> Nat]
    /\ \A p \in Processes : done[p] <= Len(Steps[program[p]])
    /\ err \in [Processes -> {"ok", "records", "error"}]
    /\ exiting \in [Processes -> BOOLEAN]
    /\ status \in [Processes -> {0, 1, None}]
    /\ maps \in [Processes -> [Object -> (Processes \X Object) \cup {None}]]
    /\ pinned \in (Processes \X Object) \cup {None}
    /\ xdp \in Processes \cup {None}

Init ==
    /\ program \in LineUps
    /\ at = [p \in Processes |-> "start"]
    /\ done = [p \in Processes |-> 0]
    /\ err = [p \in Processes |-> "ok"]
    /\ held = [p \in Processes |-> {}]
    /\ exiting = [p \in Processes |-> FALSE]
    /\ status = [p \in Processes |-> None]
    /\ cause = [p \in Processes |-> None]
    /\ maps = [p \in Processes |-> [obj \in Object |-> None]]
    /\ pinned = None
    /\ xdp = None

-----------------------------------------------------------------------------
(* Start-up *)

Starting(p) == at[p] = "start"

Now(p) == Steps[program[p]][done[p] + 1]

HasDone(p, does) ==
    \E i \in 1 .. done[p] : Steps[program[p]][i].does = does

(* The step succeeds; after the last one comes the loop.                   *)
Succeed(p) ==
    /\ done' = [done EXCEPT ![p] = @ + 1]
    /\ held' = [held EXCEPT ![p] = @ \cup Now(p).gets]
    /\ at' = [at EXCEPT ![p] = IF done'[p] = Len(Steps[program[p]])
                              THEN "test" ELSE @]
    /\ UNCHANGED <<program, err, exiting, status, cause>>

(* A step that acts on this process alone.                                 *)
Do(p) ==
    /\ Starting(p)
    /\ Now(p).does \notin {"create", "pin", "bpf_xdp_attach"}
    /\ Succeed(p)
    /\ UNCHANGED kernel

(* bpf_object__load: a map that is pinned by its name is used again,       *)
(* otherwise the map is created ...                                        *)
CreateMaps(p) ==
    /\ Starting(p)
    /\ Now(p).does = "create"
    /\ Succeed(p)
    /\ \E obj \in Now(p).gets :
          maps' = [maps EXCEPT ![p][obj] =
                      IF pinned # None THEN pinned ELSE <<p, obj>>]
    /\ UNCHANGED <<pinned, xdp>>

(* Mutant of Pin: a map that cannot be pinned is used as it is.            *)
PinNoRetry(p, obj) ==
    /\ pinned' = IF pinned = None THEN maps[p][obj] ELSE pinned
    /\ UNCHANGED maps

(* ... and pinned, and dropped for the one pinned by another meanwhile.    *)
Pin(p, obj) ==
    \/ /\ pinned = None
       /\ pinned' = maps[p][obj]
       /\ UNCHANGED maps
    \/ /\ pinned # None
       /\ maps' = [maps EXCEPT ![p][obj] = pinned]
       /\ UNCHANGED pinned

PinMaps(p) ==
    /\ Starting(p)
    /\ Now(p).does = "pin"
    /\ Succeed(p)
    /\ \E obj \in Now(p).gets : Pin(p, obj)
    /\ UNCHANGED xdp

(* bpf_xdp_attach takes the place of whatever program is attached.         *)
AttachXdp(p) ==
    /\ Starting(p)
    /\ Now(p).does = "bpf_xdp_attach"
    /\ Succeed(p)
    /\ xdp' = p
    /\ UNCHANGED <<maps, pinned>>

(* A step fails: main returns, cleans up, or warns and goes on.            *)
FailReturns(p) ==
    /\ Now(p).onfail = "return"
    /\ held' = [held EXCEPT ![p] = @ \ {"cuda_lib_path"}]
    /\ at' = [at EXCEPT ![p] = "exited"]
    /\ status' = [status EXCEPT ![p] = 1]
    /\ UNCHANGED <<done, err>>

FailCleansUp(p) ==
    /\ Now(p).onfail = "cleanup"
    /\ at' = [at EXCEPT ![p] = "cleanup"]
    /\ err' = [err EXCEPT ![p] = IF KeepsErr(Now(p)) THEN "error" ELSE @]
    /\ UNCHANGED <<done, held, status>>

FailGoesOn(p) ==
    /\ Now(p).onfail = "go_on"
    /\ done' = [done EXCEPT ![p] = @ + 1]
    /\ UNCHANGED <<at, err, held, status>>

Fail(p) ==
    /\ Starting(p)
    /\ FailReturns(p) \/ FailCleansUp(p) \/ FailGoesOn(p)
    /\ cause' = [cause EXCEPT ![p] = IF at'[p] = "start" THEN @ ELSE Now(p).does]
    /\ UNCHANGED <<program, exiting, kernel>>

-----------------------------------------------------------------------------
(* The loop *)

Polls(p) == program[p] # "count_packets"

Handled(p) == HasDone(p, "signals")

(* Where main goes on when its loop has ended.                             *)
EndLoop(p, why) ==
    /\ at' = [at EXCEPT ![p] = IF program[p] = "unified_trace"
                              THEN "output" ELSE "cleanup"]
    /\ cause' = [cause EXCEPT ![p] = why]

LoopUnchanged == UNCHANGED <<program, done, held, status, kernel>>

(* while (!exiting): ring_buffer__poll, or sleep(1).                       *)
LoopTest(p) ==
    /\ at[p] = "test"
    /\ IF exiting[p] THEN EndLoop(p, "told")
       ELSE at' = [at EXCEPT ![p] = "tested"] /\ UNCHANGED cause
    /\ UNCHANGED <<err, exiting>>
    /\ LoopUnchanged

(* A signal that comes before this is seen by neither test nor wait.       *)
GoToSleep(p) ==
    /\ at[p] = "tested"
    /\ at' = [at EXCEPT ![p] = "wait"]
    /\ UNCHANGED <<err, exiting, cause>>
    /\ LoopUnchanged

(* Mutant of Timeout: ring_buffer__poll(rb, -1).                           *)
TimeoutNever(p) == at[p] = "wait" /\ ~Polls(p) /\ UNCHANGED vars

(* Nothing has come, or the second is over and the count is printed.       *)
Timeout(p) ==
    /\ at[p] = "wait"
    /\ at' = [at EXCEPT ![p] = "test"]
    /\ err' = [err EXCEPT ![p] = "ok"]
    /\ UNCHANGED <<exiting, cause>>
    /\ LoopUnchanged

RecordsCome(p) ==
    /\ at[p] = "wait" /\ Polls(p)
    /\ at' = [at EXCEPT ![p] = "consume"]
    /\ UNCHANGED <<err, exiting, cause>>
    /\ LoopUnchanged

(* The callback has had all records, and the ring is found empty: not      *)
(* before the programs that fill it pause.  The number is the result.      *)
Consumed(p) ==
    /\ at[p] = "consume"
    /\ at' = [at EXCEPT ![p] = "test"]
    /\ err' = [err EXCEPT ![p] = "records"]
    /\ UNCHANGED <<exiting, cause>>
    /\ LoopUnchanged

(* Another error than -EINTR, to which unified_trace pays no heed.         *)
PollFails(p) ==
    /\ at[p] = "wait" /\ Polls(p)
    /\ IF program[p] = "unified_trace"
       THEN at' = [at EXCEPT ![p] = "test"] /\ UNCHANGED cause
       ELSE EndLoop(p, "poll")
    /\ err' = [err EXCEPT ![p] = "error"]
    /\ UNCHANGED exiting
    /\ LoopUnchanged

(* Mutant of Interrupt: -EINTR stays in err.                               *)
InterruptKeepsErr(p) ==
    /\ EndLoop(p, "interrupted")
    /\ err' = [err EXCEPT ![p] = "error"]

(* -EINTR ends the loop, with err = 0 (unified_trace does not use err).    *)
Interrupt(p) ==
    /\ EndLoop(p, "interrupted")
    /\ err' = [err EXCEPT ![p] = "ok"]

(* A signal comes, SIGALRM of unified_trace included: it kills a process   *)
(* that has not installed its handlers yet, interrupts a wait or a sleep,  *)
(* and else is only noted.                                                 *)
Signal(p) ==
    /\ at[p] # "exited"
    /\ Handled(p)
    /\ exiting' = [exiting EXCEPT ![p] = TRUE]
    /\ \/ at[p] = "wait" /\ Polls(p) /\ Interrupt(p)
       \/ /\ at[p] = "wait" /\ ~Polls(p)
          /\ at' = [at EXCEPT ![p] = "test"]
          /\ UNCHANGED <<err, cause>>
       \/ at[p] # "wait" /\ UNCHANGED <<at, err, cause>>
    /\ LoopUnchanged

Killed(p) ==
    /\ at[p] # "exited"
    /\ ~Handled(p)
    /\ at' = [at EXCEPT ![p] = "exited"]
    /\ cause' = [cause EXCEPT ![p] = "killed"]
    /\ UNCHANGED <<err, exiting>>
    /\ LoopUnchanged

-----------------------------------------------------------------------------
(* The end *)

(* unified_trace sorts and writes its file.                                *)
Output(p) ==
    /\ at[p] = "output"
    /\ at' = [at EXCEPT ![p] = "cleanup"]
    /\ UNCHANGED <<err, exiting, cause>>
    /\ LoopUnchanged

(* cleanup_xdp detaches whatever program is attached to the interface.     *)
CleanupXdp(p) == xdp' = IF HasDone(p, "globals") THEN None ELSE xdp

(* Mutant of ExitStatus: return err, say after a poll of two records.      *)
ExitStatusRaw(p) ==
    IF program[p] = "unified_trace" \/ err[p] = "ok" THEN 0
    ELSE IF err[p] = "records" THEN 2 ELSE 1

(* return err != 0; but unified_trace returns 0.                           *)
ExitStatus(p) ==
    IF program[p] = "unified_trace" \/ err[p] = "ok" THEN 0 ELSE 1

Cleanup(p) ==
    /\ at[p] = "cleanup"
    /\ CleanupXdp(p)
    /\ held' = [held EXCEPT ![p] = @ \ Freed[program[p]]]
    /\ status' = [status EXCEPT ![p] = ExitStatus(p)]
    /\ at' = [at EXCEPT ![p] = IF HasDone(p, "atexit") THEN "atexit"
                              ELSE "exited"]
    /\ UNCHANGED <<program, done, err, exiting, cause, maps, pinned>>

AtExit(p) ==
    /\ at[p] = "atexit"
    /\ CleanupXdp(p)
    /\ at' = [at EXCEPT ![p] = "exited"]
    /\ UNCHANGED <<program, done, err, held, exiting, status, cause, maps, pinned>>

-----------------------------------------------------------------------------
Run(p) ==
    \/ Do(p) \/ CreateMaps(p) \/ PinMaps(p) \/ AttachXdp(p) \/ Fail(p)
    \/ LoopTest(p) \/ GoToSleep(p) \/ Timeout(p)
    \/ Output(p) \/ Cleanup(p) \/ AtExit(p)

Next ==
    \E p \in Processes :
       \/ Run(p) \/ Consumed(p)
       \/ RecordsCome(p) \/ PollFails(p) \/ Signal(p) \/ Killed(p)

Spec == Init /\ [][Next]_vars

(* A process that can go on does; records, errors and signals need not     *)
(* come, and they need not cease: a drain may go on for ever.              *)
FairSpec == Spec /\ \A p \in Processes : WF_vars(Run(p))

-----------------------------------------------------------------------------
(* The properties *)

(* Whatever step failed, main has freed all it had acquired when it        *)
(* returns; the XDP program is not among it, see XdpDetached.              *)
NothingHeld ==
    \A p \in Processes : status[p] # None /\ at[p] = "exited" => held[p] = {}

(* trace_cuda and trace_exec exit with status 1 if the load or a poll      *)
(* failed, and with 0 if a signal interrupted the wait.  (If it came while *)
(* records were being printed the status is 1, see the README.)            *)
StatusTells ==
    \A p \in Processes :
        program[p] \in {"trace_cuda", "trace_exec"} /\ at[p] = "exited" =>
            /\ cause[p] \in {"create", "pin", "load", "poll"} => status[p] = 1
            /\ cause[p] = "interrupted" => status[p] = 0

(* maps.h:15: all "reference the same stack-ID address space": objects     *)
(* that are loaded use one map of stacks, even when two programs that find *)
(* none pinned start at the same time.                                     *)
Loaded(p, obj) ==
    \E i \in 1 .. done[p] :
        /\ Steps[program[p]][i].does = "pin"
        /\ obj \in Steps[program[p]][i].gets
OneStackMap ==
    \A p, q \in Processes, obj, other \in Object :
        Loaded(p, obj) /\ Loaded(q, other) => maps[p][obj] = maps[q][other]

(* A count_packets that has installed its handlers leaves no program of    *)
(* its own attached when it has exited, whatever the others attach and     *)
(* detach meanwhile.                                                       *)
XdpDetached ==
    \A p \in Processes : at[p] = "exited" /\ Handled(p) => xdp # p

(* The process keeps up with its ring: it leaves each ring_buffer__poll.   *)
KeepsUp(p) == []<>(at[p] # "consume")

(* Ctrl+C ends each program that keeps up with its ring, even if the       *)
(* signal comes just before it goes to sleep or while records are handed   *)
(* to the callback, and whether or not the others keep up.                 *)
CtrlCStops ==
    \A p \in Processes : KeepsUp(p) => (exiting[p] ~> at[p] = "exited")
=============================================================================
