------------------------ MODULE StackSamplingProofs ------------------------
(***************************************************************************)
(* Proofs about StackSampling: what the shared counter of a CPU makes of   *)
(* the two sampling periods, for any periods and any mix of calls.         *)
(***************************************************************************)
EXTENDS StackSampling, SequenceTheorems, TLAPS

-----------------------------------------------------------------------------
(* Lemmas on multiples *)

LEMMA Quotient ==
  ASSUME NEW a \in Nat, NEW n \in Nat \ {0}
  PROVE  /\ a = n * (a \div n) + (a % n)
         /\ a % n \in 0 .. n - 1
         /\ a \div n \in Nat
BY SMT

LEMMA MultipleOf ==
  ASSUME NEW q \in Nat, NEW n \in Nat \ {0}
  PROVE  (n * q) % n = 0
BY SMT

(* Of two multiples of n the larger is larger by at least n.               *)
LEMMA MultiplesApart ==
  ASSUME NEW a \in Nat, NEW b \in Nat, NEW n \in Nat \ {0},
         a % n = 0, b % n = 0, a < b
  PROVE  b - a >= n
<1>1. PICK q \in Nat : a = n * q
  <2>1. a = n * (a \div n) /\ a \div n \in Nat
    BY Quotient
  <2> QED
    BY <2>1
<1>2. PICK p \in Nat : b = n * p
  <2>1. b = n * (b \div n) /\ b \div n \in Nat
    BY Quotient
  <2> QED
    BY <2>1
<1>3. n * q < n * p
  BY <1>1, <1>2
<1>4. q + 1 <= p
  BY <1>3
<1>5. n * (q + 1) <= n * p
  BY <1>4
<1> QED
  BY <1>1, <1>2, <1>5

(* Of n numbers in a row one is a multiple of n.                           *)
LEMMA MultipleInRow ==
  ASSUME NEW a \in Nat, NEW n \in Nat \ {0}
  PROVE  \E k \in 0 .. n - 1 : (a + k) % n = 0
<1>1. CASE a % n = 0
  BY <1>1
<1>2. CASE a % n # 0
  <2>1. PICK q \in Nat, r \in 0 .. n - 1 : a = n * q + r /\ r = a % n
    BY Quotient
  <2>2. n - r \in 0 .. n - 1 /\ q + 1 \in Nat
    BY <1>2, <2>1
  <2>3. a + (n - r) = n * (q + 1)
    BY <2>1
  <2> QED
    BY <2>2, <2>3, MultipleOf
<1> QED
  BY <1>1, <1>2

-----------------------------------------------------------------------------
(* The inductive invariant *)

EntryInfo == [async : BOOLEAN, sid : Nat \cup {NoStack}]

AsyncPeriod == Period("MEMCPY_ASYNC")

SyncPeriod == Period("SYNC")

PeriodOf(e) == IF e.async THEN AsyncPeriod ELSE SyncPeriod

SamplingInv ==
    /\ counter \in [CPUs -> Nat]
    /\ entries \in [CPUs -> Seq(EntryInfo)]

(* The counter of a CPU counts the entries on it, of both classes.         *)
CounterCounts ==
    CaptureStacks => \A cpu \in CPUs : counter[cpu] = Len(entries[cpu])

(* Entry i captures only where its own period divides the count before it, *)
(* and does so there if bpf_get_stackid does not fail.                     *)
CapturesWhenDue ==
    \A cpu \in CPUs : \A i \in DOMAIN entries[cpu] :
        /\ Captured(cpu, i) => (i - 1) % PeriodOf(entries[cpu][i]) = 0
        /\ CaptureStacks /\ NoStack \notin StackResults =>
              ((i - 1) % PeriodOf(entries[cpu][i]) = 0 => Captured(cpu, i))

CountInv == SamplingInv /\ CounterCounts /\ CapturesWhenDue

LEMMA PeriodType ==
  /\ AsyncPeriod \in Nat \ {0}
  /\ SyncPeriod \in Nat \ {0}
  /\ \A e \in EntryInfo : PeriodOf(e) \in Nat \ {0}
  /\ \A op : Period(op) = IF op \in AsyncOps THEN AsyncPeriod ELSE SyncPeriod
  /\ SamplePeriodSync <= 1 => SyncPeriod = 1
<1>1. "MEMCPY_ASYNC" \in AsyncOps /\ "SYNC" \notin AsyncOps
  BY DEF AsyncOps
<1>2. AsyncPeriod \in Nat \ {0}
  BY <1>1, SamplingAssumption DEF AsyncPeriod, Period
<1>3. /\ SyncPeriod \in Nat \ {0}
      /\ SamplePeriodSync <= 1 => SyncPeriod = 1
  BY <1>1, SamplingAssumption DEF SyncPeriod, Period
<1>4. \A op : Period(op) = IF op \in AsyncOps THEN AsyncPeriod ELSE SyncPeriod
  BY <1>1 DEF Period, AsyncPeriod, SyncPeriod
<1> QED
  BY <1>2, <1>3, <1>4 DEF PeriodOf

LEMMA EntriesTypes ==
  ASSUME SamplingInv, NEW cpu \in CPUs
  PROVE  /\ entries[cpu] \in Seq(EntryInfo)
         /\ Len(entries[cpu]) \in Nat
         /\ DOMAIN entries[cpu] = 1 .. Len(entries[cpu])
         /\ \A i \in DOMAIN entries[cpu] : entries[cpu][i] \in EntryInfo
BY LenProperties, ElementOfSeq DEF SamplingInv

(* One entry on a CPU: the sequence grows by it, the counter by one, and   *)
(* the entry captures as its period says.                                  *)
LEMMA EntryEffect ==
  ASSUME CountInv, NEW cpu \in CPUs, NEW op \in Ops, Entry(cpu, op),
         NEW n \in Nat, n = Len(entries[cpu])
  PROVE  /\ SamplingInv'
         /\ \A c \in CPUs \ {cpu} : entries'[c] = entries[c]
         /\ \A c \in CPUs \ {cpu} : counter'[c] = counter[c]
         /\ CaptureStacks => counter'[cpu] = counter[cpu] + 1
         /\ Len(entries'[cpu]) = n + 1
         /\ DOMAIN entries'[cpu] = 1 .. n + 1
         /\ \A i \in 1 .. n : entries'[cpu][i] = entries[cpu][i]
         /\ entries'[cpu][n + 1].sid # NoStack =>
               n % PeriodOf(entries'[cpu][n + 1]) = 0
         /\ CaptureStacks /\ NoStack \notin StackResults =>
               (n % PeriodOf(entries'[cpu][n + 1]) = 0 =>
                   entries'[cpu][n + 1].sid # NoStack)
<1>1. PICK sid \in StackResults \cup {NoStack} :
         /\ MaybeCaptureStack(cpu, op, sid)
         /\ entries' = [entries EXCEPT ![cpu] =
               Append(@, [async |-> op \in AsyncOps, sid |-> sid])]
  BY DEF Entry
<1> DEFINE e == [async |-> op \in AsyncOps, sid |-> sid]
<1>2. e \in EntryInfo /\ e.sid = sid /\ PeriodOf(e) = Period(op)
  <2>1. sid \in Nat \cup {NoStack}
    BY SamplingAssumption
  <2>2. (op \in AsyncOps) \in BOOLEAN
    OBVIOUS
  <2>3. e \in EntryInfo /\ e.sid = sid /\ e.async = (op \in AsyncOps)
    BY <2>1, <2>2 DEF EntryInfo
  <2> QED
    BY <2>3, PeriodType DEF PeriodOf
<1>3. entries' = [entries EXCEPT ![cpu] = Append(entries[cpu], e)]
  BY <1>1
<1> HIDE DEF e
<1>4. /\ SamplingInv
      /\ entries[cpu] \in Seq(EntryInfo)
      /\ Append(entries[cpu], e) \in Seq(EntryInfo)
      /\ Len(Append(entries[cpu], e)) = n + 1
      /\ \A i \in 1 .. n : Append(entries[cpu], e)[i] = entries[cpu][i]
      /\ Append(entries[cpu], e)[n + 1] = e
  BY <1>2, EntriesTypes, AppendProperties DEF CountInv
<1>5. /\ entries'[cpu] = Append(entries[cpu], e)
      /\ entries' \in [CPUs -> Seq(EntryInfo)]
      /\ \A c \in CPUs \ {cpu} : entries'[c] = entries[c]
  BY <1>3, <1>4 DEF SamplingInv
<1>6. DOMAIN entries'[cpu] = 1 .. n + 1
  BY <1>4, <1>5, LenProperties
<1>7. /\ counter' \in [CPUs -> Nat]
      /\ \A c \in CPUs \ {cpu} : counter'[c] = counter[c]
      /\ CaptureStacks => counter'[cpu] = counter[cpu] + 1
  <2>1. counter \in [CPUs -> Nat]
    BY <1>4 DEF SamplingInv
  <2>2. counter' = IF CaptureStacks
                   THEN [counter EXCEPT ![cpu] = counter[cpu] + 1] ELSE counter
    BY <1>1 DEF MaybeCaptureStack
  <2> QED
    BY <2>1, <2>2
<1>8. sid # NoStack => n % Period(op) = 0
  BY <1>1 DEF MaybeCaptureStack, Due, CountInv, CounterCounts
<1>9. CaptureStacks /\ NoStack \notin StackResults =>
         (n % Period(op) = 0 => sid # NoStack)
  BY <1>1 DEF MaybeCaptureStack, Due, CountInv, CounterCounts
<1> QED
  BY <1>2, <1>4, <1>5, <1>6, <1>7, <1>8, <1>9 DEF SamplingInv

(* Entries are only added; the new one is counted by its CPU alone.        *)
LEMMA CountInvStep == CountInv /\ [Next]_vars => CountInv'
<1> SUFFICES ASSUME CountInv, [Next]_vars
             PROVE  CountInv'
  OBVIOUS
<1>1. CASE UNCHANGED vars
  BY <1>1 DEF vars, CountInv, SamplingInv, CounterCounts, CapturesWhenDue, Captured
<1>2. ASSUME NEW cpu \in CPUs, NEW op \in Ops, Entry(cpu, op)
      PROVE  CountInv'
  <2>1. PICK n \in Nat : n = Len(entries[cpu])
    BY EntriesTypes DEF CountInv
  <2>2. CounterCounts'
    BY <1>2, <2>1, EntryEffect DEF CountInv, CounterCounts
  <2>3. ASSUME NEW c \in CPUs, NEW i \in DOMAIN entries'[c]
        PROVE  /\ Captured(c, i)' => (i - 1) % PeriodOf(entries'[c][i]) = 0
               /\ CaptureStacks /\ NoStack \notin StackResults =>
                     ((i - 1) % PeriodOf(entries'[c][i]) = 0 => Captured(c, i)')
    <3>1. CASE c # cpu
      BY <1>2, <2>1, <2>3, <3>1, EntryEffect
         DEF CountInv, CapturesWhenDue, Captured
    <3>2. CASE c = cpu /\ i \in 1 .. n
      <4>1. i \in DOMAIN entries[cpu] /\ entries'[cpu][i] = entries[cpu][i]
        BY <1>2, <2>1, <3>2, EntryEffect, EntriesTypes DEF CountInv
      <4> QED
        BY <3>2, <4>1 DEF CountInv, CapturesWhenDue, Captured
    <3>3. CASE c = cpu /\ i = n + 1
      <4>1. i - 1 = n
        BY <3>3
      <4> QED
        BY <1>2, <2>1, <3>3, <4>1, EntryEffect DEF Captured
    <3> QED
      BY <1>2, <2>1, <2>3, <3>1, <3>2, <3>3, EntryEffect
  <2>4. CapturesWhenDue'
    BY <2>3 DEF CapturesWhenDue
  <2> QED
    BY <1>2, <2>1, <2>2, <2>4, EntryEffect DEF CountInv
<1> QED
  BY <1>1, <1>2 DEF Next

LEMMA CountInvInit == Init => CountInv
<1> SUFFICES ASSUME Init PROVE CountInv
  OBVIOUS
<1>1. /\ counter = [cpu \in CPUs |-> 0]
      /\ entries = [cpu \in CPUs |-> << >>]
  BY DEF Init, SamplingInit
<1>2. << >> \in Seq(EntryInfo) /\ Len(<< >>) = 0 /\ DOMAIN << >> = {}
  BY EmptySeq
<1> QED
  BY <1>1, <1>2 DEF CountInv, SamplingInv, CounterCounts, CapturesWhenDue

(* The invariant from which the three promises follow: each CPU counts its *)
(* entries of both classes, and its captures are where the count is a      *)
(* multiple of the period of the entry's own class.                        *)
THEOREM Counting == Spec => []CountInv
BY CountInvInit, CountInvStep, PTL DEF Spec

-----------------------------------------------------------------------------
(* The promises *)

(* Overhead: two async calls of one CPU that both capture a stack are at   *)
(* least one async period of entries apart, whatever bpf_get_stackid       *)
(* returns and however sync calls mix in.                                  *)
THEOREM AsyncSpaced == Spec => []AsyncCapturesSpaced
<1>1. CountInv => AsyncCapturesSpaced
  <2> SUFFICES ASSUME CountInv, NEW cpu \in CPUs,
                      NEW i \in DOMAIN entries[cpu], NEW j \in DOMAIN entries[cpu],
                      i < j, Async(cpu, i), Async(cpu, j),
                      Captured(cpu, i), Captured(cpu, j)
               PROVE  j - i >= AsyncPeriod
    BY DEF AsyncCapturesSpaced, AsyncPeriod
  <2>1. (i - 1) % AsyncPeriod = 0 /\ (j - 1) % AsyncPeriod = 0
    BY DEF CountInv, CapturesWhenDue, PeriodOf, Async
  <2>2. i \in Nat \ {0} /\ j \in Nat \ {0}
    BY EntriesTypes DEF CountInv
  <2>3. AsyncPeriod \in Nat \ {0}
    BY PeriodType
  <2>4. (j - 1) - (i - 1) >= AsyncPeriod
    <3> DEFINE a == i - 1
               b == j - 1
    <3>1. a \in Nat /\ b \in Nat /\ a < b
      BY <2>2
    <3>2. a % AsyncPeriod = 0 /\ b % AsyncPeriod = 0
      BY <2>1
    <3> HIDE DEF a, b
    <3>3. b - a >= AsyncPeriod
      BY <2>3, <3>1, <3>2, MultiplesApart
    <3> QED
      BY <3>3 DEF a, b
  <2> QED
    BY <2>2, <2>3, <2>4
<1> QED
  BY <1>1, Counting, PTL

(* With a sync period of 0 or 1 every sync call has its stack, as long as  *)
(* bpf_get_stackid finds one.                                              *)
THEOREM SyncAlwaysCaptured ==
  ASSUME CaptureStacks, NoStack \notin StackResults
  PROVE  Spec => []EverySyncCaptured
<1>1. CountInv => EverySyncCaptured
  <2> SUFFICES ASSUME CountInv, SamplePeriodSync <= 1, NEW cpu \in CPUs,
                      NEW i \in DOMAIN entries[cpu], ~Async(cpu, i)
               PROVE  Captured(cpu, i)
    BY DEF EverySyncCaptured
  <2>1. PeriodOf(entries[cpu][i]) = 1
    BY PeriodType DEF PeriodOf, Async
  <2>2. i \in Nat \ {0}
    BY EntriesTypes DEF CountInv
  <2>3. (i - 1) % 1 = 0
    BY <2>2
  <2> QED
    BY <2>1, <2>3 DEF CountInv, CapturesWhenDue
<1> QED
  BY <1>1, Counting, PTL

(* Of one async period of async calls in a row on one CPU one captures,    *)
(* wherever the calls before them left the counter.                        *)
THEOREM AsyncRunsCaptured ==
  ASSUME CaptureStacks, NoStack \notin StackResults
  PROVE  Spec => []AsyncRunsSampled
<1>1. CountInv => AsyncRunsSampled
  <2> SUFFICES ASSUME CountInv, NEW cpu \in CPUs,
                      NEW i \in 1 .. Len(entries[cpu]) - AsyncPeriod + 1,
                      \A j \in i .. i + AsyncPeriod - 1 : Async(cpu, j)
               PROVE  \E j \in i .. i + AsyncPeriod - 1 : Captured(cpu, j)
    BY DEF AsyncRunsSampled, AsyncPeriod
  <2>1. AsyncPeriod \in Nat \ {0}
    BY PeriodType
  <2>2. /\ Len(entries[cpu]) \in Nat /\ DOMAIN entries[cpu] = 1 .. Len(entries[cpu])
    BY EntriesTypes DEF CountInv
  <2>3. i - 1 \in Nat
    BY <2>1, <2>2
  <2>4. PICK k \in 0 .. AsyncPeriod - 1 : ((i - 1) + k) % AsyncPeriod = 0
    BY <2>1, <2>3, MultipleInRow
  <2>5. PICK j \in Nat : j = i + k
    BY <2>1, <2>3
  <2>6. /\ j \in i .. i + AsyncPeriod - 1
        /\ j \in DOMAIN entries[cpu]
        /\ j - 1 = (i - 1) + k
    BY <2>1, <2>2, <2>3, <2>5
  <2>7. (j - 1) % PeriodOf(entries[cpu][j]) = 0
    BY <2>4, <2>6 DEF PeriodOf, Async
  <2> QED
    BY <2>6, <2>7 DEF CountInv, CapturesWhenDue
<1> QED
  BY <1>1, Counting, PTL
=============================================================================
