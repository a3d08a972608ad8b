------------------------------ MODULE Collector ------------------------------
(***************************************************************************)
(* The collection of events by src/user/unified_trace.c: the poll loop     *)
(* over the two ring buffers, the callbacks that fill the array of at most *)
(* MAX_EVENTS events, the signals that end the loop, the sort and the      *)
(* output.                                                                 *)
(*                                                                         *)
(* The kernel fills the rings all the while.  A CPU event is stamped when  *)
(* it is submitted, a CUDA event with the earlier time at which its call   *)
(* began.  ring_buffer__poll waits up to 10 ms for a record, is cut short  *)
(* by a signal that arrives while it waits, and then hands records to the  *)
(* callback until the ring is empty.                                       *)
(***************************************************************************)
EXTENDS Integers, Sequences, FiniteSets, Functions

CONSTANTS
    MAX_EVENTS,
    RingMax,       \* how many records fit in a ring
    MaxTime,       \* bound: the clock stops there
    None

Rings == {"cpu", "gpu"}

(* Records are numbered; past this bound all have the same number.  By     *)
(* then the array is full.                                                 *)
MaxNumber == MAX_EVENTS + RingMax + 1

ASSUME CollectorAssumption ==
    /\ MAX_EVENTS \in Nat \ {0}
    /\ RingMax \in Nat \ {0}
    /\ MaxTime \in Nat
    /\ None \notin Seq(Nat)

VARIABLES
    now,        \* the clock, coarse
    ring,       \* the records of each ring
    made,       \* history: the number of the last record of each ring
    pc,         \* where main is in its poll loop
    polled,     \* the ring it polls
    exiting,    \* set by sig_handler
    events,     \* the array, events[event_count] being the last
    output      \* the timestamps written to the output file, or None

kernel == <<now, ring, made>>
user   == <<pc, polled, events, output>>
vars   == <<kernel, user, exiting>>

UnifiedEvent == [type : Rings, number : 1 .. MaxNumber, timestamp : 0 .. MaxTime]

TypeOK ==
    /\ now \in 0 .. MaxTime
    /\ ring \in [Rings -> Seq(UnifiedEvent)]
    /\ \A r \in Rings : Len(ring[r]) <= RingMax
    /\ made \in [Rings -> 0 .. MaxNumber]
    /\ pc \in {"test", "enter", "wait", "drain", "sort", "output", "done"}
    /\ polled \in Rings
    /\ exiting \in BOOLEAN
    /\ events \in Seq(UnifiedEvent)
    /\ Len(events) <= MAX_EVENTS
    /\ output = None \/ output \in Seq(0 .. MaxTime)

Init ==
    /\ now = 0
    /\ ring = [r \in Rings |-> << >>]
    /\ made = [r \in Rings |-> 0]
    /\ pc = "test"
    /\ polled = "cpu"
    /\ exiting = FALSE
    /\ events = << >>
    /\ output = None

-----------------------------------------------------------------------------
(* The kernel *)

Tick ==
    /\ now < MaxTime
    /\ now' = now + 1
    /\ UNCHANGED <<ring, made, user, exiting>>

(* A program submits a record; a full ring takes none.                     *)
Submit(r) ==
    /\ Len(ring[r]) < RingMax
    /\ made' = [made EXCEPT ![r] = IF @ < MaxNumber THEN @ + 1 ELSE @]
    /\ \E ts \in IF r = "cpu" THEN {now} ELSE 0 .. now :
          ring' = [ring EXCEPT ![r] =
             Append(@, [type |-> r, number |-> made'[r], timestamp |-> ts])]
    /\ UNCHANGED <<now, user, exiting>>

-----------------------------------------------------------------------------
(* The poll loop *)

Break == pc' = "sort" /\ UNCHANGED polled

(* while (!exiting)                                                        *)
LoopTest ==
    /\ pc = "test"
    /\ \/ exiting /\ Break
       \/ ~exiting /\ pc' = "enter" /\ polled' = "cpu"
    /\ UNCHANGED <<kernel, exiting, events, output>>

(* ring_buffer__poll goes to sleep, if it must.                            *)
EnterPoll ==
    /\ pc = "enter"
    /\ pc' = "wait"
    /\ UNCHANGED <<kernel, polled, exiting, events, output>>

Ready ==
    /\ pc = "wait"
    /\ ring[polled] # << >>
    /\ pc' = "drain"
    /\ UNCHANGED <<kernel, polled, exiting, events, output>>

(* Mutant of PollReturns: the loop goes on at once if the CPU ring had     *)
(* nothing.                                                                *)
PollReturnsEarly ==
    \/ polled = "cpu" /\ pc = "drain" /\ pc' = "enter" /\ polled' = "gpu"
    \/ (polled = "gpu" \/ pc = "wait") /\ pc' = "test" /\ UNCHANGED polled

(* After the CPU ring the CUDA ring, then the test of the loop again.      *)
PollReturns ==
    \/ polled = "cpu" /\ pc' = "enter" /\ polled' = "gpu"
    \/ polled = "gpu" /\ pc' = "test" /\ UNCHANGED polled

(* Mutant of Timeout: ring_buffer__poll(rb, -1).                           *)
TimeoutNever == pc = "wait" /\ FALSE /\ UNCHANGED vars

Timeout ==
    /\ pc = "wait"
    /\ ring[polled] = << >>
    /\ PollReturns
    /\ UNCHANGED <<kernel, exiting, events, output>>

(* Mutant of Store: a full array takes the event in its last place.        *)
StoreLast(e) ==
    events' = IF Len(events) < MAX_EVENTS THEN Append(events, e)
              ELSE [events EXCEPT ![Len(events)] = e]

(* Mutant of Store: one event too many.                                    *)
StoreOneMore(e) ==
    events' = IF Len(events) <= MAX_EVENTS THEN Append(events, e) ELSE events

(* handle_cpu_event and handle_gpu_event: a full array takes no event.     *)
Store(e) ==
    events' = IF Len(events) < MAX_EVENTS THEN Append(events, e) ELSE events

Drain ==
    /\ pc = "drain"
    /\ ring[polled] # << >>
    /\ Store(Head(ring[polled]))
    /\ ring' = [ring EXCEPT ![polled] = Tail(@)]
    /\ UNCHANGED <<now, made, pc, polled, exiting, output>>

Drained ==
    /\ pc = "drain"
    /\ ring[polled] = << >>
    /\ PollReturns
    /\ UNCHANGED <<kernel, exiting, events, output>>

(* SIGINT, SIGTERM or SIGALRM: sig_handler, and -EINTR if main sleeps.     *)
Signal ==
    /\ pc # "done"
    /\ exiting' = TRUE
    /\ \/ pc = "wait" /\ Break
       \/ pc # "wait" /\ UNCHANGED <<pc, polled>>
    /\ UNCHANGED <<kernel, events, output>>

-----------------------------------------------------------------------------
(* Sort and output *)

(* Mutant of InOrder: the comparison of types comes first.                 *)
InOrderByType(d, e) ==
    d.type = e.type => d.timestamp <= e.timestamp

(* compare_events(d, e) <= 0                                               *)
InOrder(d, e) == d.timestamp <= e.timestamp

(* qsort may put events with the same timestamp in any order.              *)
Sort ==
    /\ pc = "sort"
    /\ \E p \in Bijection(DOMAIN events, DOMAIN events) :
          /\ events' = [i \in DOMAIN events |-> events[p[i]]]
          /\ \A i, j \in DOMAIN events : i < j => InOrder(events'[i], events'[j])
    /\ pc' = "output"
    /\ UNCHANGED <<kernel, polled, exiting, output>>

MinTimestamp ==
    CHOOSE ts \in 0 .. MaxTime :
        /\ \E i \in DOMAIN events : events[i].timestamp = ts
        /\ \A i \in DOMAIN events : ts <= events[i].timestamp

(* The file is written with times that count from the first event, or      *)
(* cannot be opened.  Then the rings and the links go.                     *)
Output ==
    /\ pc = "output"
    /\ output' \in {None,
          [i \in DOMAIN events |-> events[i].timestamp - MinTimestamp]}
    /\ pc' = "done"
    /\ UNCHANGED <<kernel, polled, exiting, events>>

-----------------------------------------------------------------------------
Loop == LoopTest \/ EnterPoll \/ Ready \/ Timeout \/ Drain

Next ==
    \/ Tick
    \/ pc # "done" /\ \E r \in Rings : Submit(r)
    \/ Loop
    \/ Drained
    \/ Signal
    \/ Sort
    \/ Output

Spec == Init /\ [][Next]_vars

(* main runs on, and leaves a ring it finds empty.                         *)
Fairness == WF_vars(Loop) /\ SF_vars(Drained) /\ WF_vars(Sort) /\ WF_vars(Output)

FairSpec == Spec /\ Fairness

-----------------------------------------------------------------------------
(* The properties *)

Numbers(r) == {events[i].number : i \in {j \in DOMAIN events : events[j].type = r}}

NumberRead(r) == made[r] - Len(ring[r])

(* The array holds, of each ring, the first records with none missing or   *)
(* twice: all that were read, unless the array is full.                    *)
KeepsPrefixes ==
    /\ \A r \in Rings : Numbers(r) = 1 .. Cardinality(Numbers(r))
    /\ Cardinality(Numbers("cpu")) + Cardinality(Numbers("gpu")) = Len(events)
    /\ Len(events) < MAX_EVENTS =>
          \A r \in Rings : Cardinality(Numbers(r)) = NumberRead(r)

(* Although CUDA events come late and the rings are read in turns, what is *)
(* written goes forward in time and starts at 0.                           *)
TimelineOrdered ==
    output # None /\ output # << >> =>
        /\ output[1] = 0
        /\ \A i \in 1 .. Len(output) - 1 : output[i] <= output[i + 1]

(* The reader keeps up with a ring: it is empty again and again.           *)
KeepsUp(r) == []<>(ring[r] = << >>)

(* README.md:87 "Stop after N seconds", unified_trace.c:797 "Press Ctrl+C  *)
(* to stop early": whenever the signal comes, the loop ends and the output *)
(* is written, provided the reader keeps up.                               *)
StopsWhenTold ==
    KeepsUp("cpu") /\ KeepsUp("gpu") => (exiting ~> pc = "done")

(* A flood of CPU events does not keep the CUDA ring from being read: each *)
(* of its records gets into the array unless that is full or the loop ends.*)
Waiting(r, n) == \E i \in DOMAIN ring[r] : ring[r][i].number = n
GpuCollected ==
    KeepsUp("cpu") =>
        \A n \in 1 .. MaxNumber :
            Waiting("gpu", n) ~> \/ n \in Numbers("gpu")
                                 \/ Len(events) = MAX_EVENTS
                                 \/ exiting
=============================================================================
