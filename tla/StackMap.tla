------------------------------ MODULE StackMap ------------------------------
(***************************************************************************)
(* The pinned map of stacks of include/maps.h, BPF_MAP_TYPE_STACK_TRACE,   *)
(* and the kernel's bpf_get_stackid and lookup on it.  Every BPF object    *)
(* shares it by name and nothing deletes from it, so it outlives sessions. *)
(* An id is a bucket: one stack per bucket, chosen by its hash.            *)
(***************************************************************************)
EXTENDS Integers, FiniteSets, Sequences

CONSTANTS
    Stacks,       \* user stacks, innermost address first
    Hash,         \* [Stacks -> Nat], the kernel's jhash2
    NBuckets,     \* max_entries rounded up to a power of two, 16384
    max_entries,  \* elements for stacks, 10000
    NoEntry       \* an empty bucket

Ids == 0 .. NBuckets - 1

ASSUME StackMapAssumption ==
    /\ Hash \in [Stacks -> Nat]
    /\ NBuckets \in Nat \ {0}
    /\ max_entries \in 1 .. NBuckets
    /\ NoEntry \notin Stacks
    /\ Stacks \subseteq Seq(Nat \ {0})

VARIABLE stack_traces   \* [Ids -> Stacks \cup {NoEntry}]

StackMapTypeOK == stack_traces \in [Ids -> Stacks \cup {NoEntry}]

StackMapInit == stack_traces = [id \in Ids |-> NoEntry]

Bucket(stack) == Hash[stack] % NBuckets

InUse == {id \in Ids : stack_traces[id] # NoEntry}

(* The stack in id may be taken for stack: with BPF_F_FAST_STACK_CMP       *)
(* (fast) the hashes are compared alone.                                   *)
SameStack(id, stack, fast) ==
    /\ id \in InUse
    /\ Hash[stack_traces[id]] = Hash[stack]
    /\ fast \/ stack_traces[id] = stack

(* Mutant of GetStackId: BPF_F_REUSE_STACKID, the newer stack takes the    *)
(* bucket.                                                                 *)
GetStackIdReuse(stack, fast, sid) ==
    /\ sid = Bucket(stack)
    /\ stack_traces' = [stack_traces EXCEPT ![sid] = stack]

(* bpf_get_stackid returns sid: the bucket of a known stack; a negative    *)
(* error when the bucket is taken by another, no element is left or the    *)
(* walk of the user stack fails; else the bucket filled now.               *)
GetStackId(stack, fast, sid) ==
    LET id == Bucket(stack)
    IN  \/ /\ SameStack(id, stack, fast)
           /\ sid = id
           /\ UNCHANGED stack_traces
        \/ /\ id \notin InUse
           /\ Cardinality(InUse) < max_entries
           /\ sid = id
           /\ stack_traces' = [stack_traces EXCEPT ![id] = stack]
        \/ /\ sid = -1
           /\ UNCHANGED stack_traces

(* read_stack_addrs: what user space finds under an id.                    *)
read_stack_addrs(sid) ==
    IF sid \in InUse THEN stack_traces[sid] ELSE << >>
=============================================================================
