------------------------- MODULE CpuTimelineProofs -------------------------
(***************************************************************************)
(* Proofs about CpuTimeline: what the writer makes of the scheduler's      *)
(* events, for arrays of any length, by induction over the events.         *)
(*                                                                         *)
(* The loop of the writer is a recursive function.  That there is such a   *)
(* function is shown by induction over the length of the array, where the  *)
(* induction is stated for sets of numbers: a set with 0 and, with each    *)
(* number, the next.                                                       *)
(***************************************************************************)
EXTENDS CpuTimeline, SchedTracerProofs, WellFoundedInduction

-----------------------------------------------------------------------------
(* Induction *)

LEMMA Induction ==
  ASSUME NEW S \in SUBSET Nat, 0 \in S, \A n \in S : n + 1 \in S
  PROVE  S = Nat
<1> SUFFICES ASSUME Nat \ S # {} PROVE FALSE
  OBVIOUS
<1>1. \E x \in Nat \ S : \A y \in Nat \ S : ~(<<y, x>> \in OpToRel(<, Nat))
  <2>1. IsWellFoundedOn(OpToRel(<, Nat), Nat)
    BY NatLessThanWellFounded
  <2> HIDE DEF OpToRel
  <2> QED
    BY <2>1, WFMin
<1>2. PICK x \in Nat \ S : \A y \in Nat \ S : ~(y < x)
  BY <1>1 DEF OpToRel
<1>3. x # 0 /\ x - 1 \in Nat /\ x - 1 < x
  BY <1>2
<1> QED
  BY <1>2, <1>3

(* Up to a bound it is enough that the bound is not yet reached.           *)
LEMMA InductionTo ==
  ASSUME NEW N \in Nat, NEW S, 0 \in S,
         \A n \in 0 .. N - 1 : n \in S => n + 1 \in S
  PROVE  0 .. N \subseteq S
<1> DEFINE T == {n \in Nat : n <= N => n \in S}
<1>1. 0 \in T
  OBVIOUS
<1>2. \A n \in T : n + 1 \in T
  OBVIOUS
<1>3. T = Nat
  <2> HIDE DEF T
  <2>1. T \in SUBSET Nat
    BY DEF T
  <2> QED
    BY <1>1, <1>2, <2>1, Induction
<1> QED
  BY <1>3

(* The loop of the writer goes through the events one by one.              *)
LEMMA LoopIs ==
  ASSUME NEW events, Len(events) \in Nat, NEW base
  PROVE  /\ Loop(events, base)[0] = Start
         /\ \A n \in 1 .. Len(events) :
               Loop(events, base)[n] =
                  Turn(Loop(events, base)[n - 1], events[n], base)
<1> DEFINE Body(f, m) ==
              [n \in 0 .. m |-> IF n = 0 THEN Start
                                ELSE Turn(f[n - 1], events[n], base)]
           Defined == {m \in Nat : \E f : f = Body(f, m)}
<1>1. 0 \in Defined
  <2>1. [n \in 0 .. 0 |-> Start] = Body([n \in 0 .. 0 |-> Start], 0)
    OBVIOUS
  <2> QED
    BY <2>1
<1>2. ASSUME NEW m \in Defined PROVE m + 1 \in Defined
  <2>1. PICK f : f = Body(f, m)
    OBVIOUS
  <2> DEFINE g == [n \in 0 .. m + 1 |->
                      IF n = m + 1 THEN Turn(f[m], events[n], base) ELSE f[n]]
  <2>2. ASSUME NEW n \in 0 .. m + 1
        PROVE  g[n] = IF n = 0 THEN Start ELSE Turn(g[n - 1], events[n], base)
    <3>1. CASE n = m + 1
      <4>1. g[n] = Turn(f[m], events[n], base)
        BY <3>1
      <4>2. n # 0 /\ n - 1 = m /\ g[m] = f[m]
        BY <3>1
      <4> QED
        BY <4>1, <4>2
    <3>2. CASE n # m + 1
      <4>1. n \in 0 .. m /\ g[n] = f[n]
        BY <3>2
      <4>2. f[n] = IF n = 0 THEN Start ELSE Turn(f[n - 1], events[n], base)
        BY <2>1, <4>1
      <4>3. n # 0 => g[n - 1] = f[n - 1]
        BY <4>1
      <4> QED
        BY <4>1, <4>2, <4>3
    <3> QED
      BY <3>1, <3>2
  <2>3. g = Body(g, m + 1)
    BY <2>2
  <2>4. \E h : h = Body(h, m + 1)
    BY <2>3
  <2> HIDE DEF Body
  <2> QED
    BY <2>4
<1>3. Defined = Nat
  <2> HIDE DEF Defined
  <2>1. Defined \in SUBSET Nat
    BY DEF Defined
  <2> QED
    BY <1>1, <1>2, <2>1, Induction
<1>4. \E f : f = Body(f, Len(events))
  BY <1>3
<1>5. Loop(events, base) = Body(Loop(events, base), Len(events))
  BY <1>4, Zenon DEF Loop
<1> DEFINE loop == Loop(events, base)
<1> HIDE DEF loop
<1>6. loop = Body(loop, Len(events))
  BY <1>5 DEF loop
<1> QED
  BY <1>6 DEF loop

-----------------------------------------------------------------------------
(* Consecutive numbers *)

LastIn(i, S) == i \in S /\ \A k \in S : k <= i

LEMMA ConsecutiveIs ==
  ASSUME NEW S, NEW i, NEW j
  PROVE  <<i, j>> \in Consecutive(S) <=>
            /\ i \in S /\ j \in S /\ i < j
            /\ \A k \in S : k <= i \/ j <= k
BY DEF Consecutive

(* A number beyond those of S comes after the last of them.                *)
LEMMA ConsecutiveGrows ==
  ASSUME NEW S \in SUBSET Nat, NEW m \in Nat, \A k \in S : k < m,
         NEW i, NEW j
  PROVE  <<i, j>> \in Consecutive(S \cup {m}) <=>
            <<i, j>> \in Consecutive(S) \/ (j = m /\ LastIn(i, S))
<1>1. ASSUME <<i, j>> \in Consecutive(S \cup {m})
      PROVE  <<i, j>> \in Consecutive(S) \/ (j = m /\ LastIn(i, S))
  <2>1. /\ i \in S \cup {m} /\ j \in S \cup {m} /\ i < j
        /\ \A k \in S \cup {m} : k <= i \/ j <= k
    BY <1>1, ConsecutiveIs
  <2>2. i \in S
    BY <2>1
  <2>3. CASE j = m
    <3>1. ASSUME NEW k \in S PROVE k <= i
      <4>1. k < m /\ (k <= i \/ m <= k)
        BY <2>1, <2>3
      <4> QED
        BY <4>1, <2>2
    <3> QED
      BY <2>2, <2>3, <3>1 DEF LastIn
  <2>4. CASE j # m
    <3>1. j \in S
      BY <2>1, <2>4
    <3> QED
      BY <2>1, <2>2, <3>1, ConsecutiveIs
  <2> QED
    BY <2>3, <2>4
<1>2. ASSUME <<i, j>> \in Consecutive(S)
      PROVE  <<i, j>> \in Consecutive(S \cup {m})
  <2>1. /\ i \in S /\ j \in S /\ i < j
        /\ \A k \in S : k <= i \/ j <= k
    BY <1>2, ConsecutiveIs
  <2>2. \A k \in S \cup {m} : k <= i \/ j <= k
    BY <2>1
  <2>3. i \in S \cup {m} /\ j \in S \cup {m}
    BY <2>1
  <2> QED
    BY <2>1, <2>2, <2>3, ConsecutiveIs
<1>3. ASSUME j = m, LastIn(i, S)
      PROVE  <<i, j>> \in Consecutive(S \cup {m})
  <2>1. \A k \in S \cup {m} : k <= i \/ j <= k
    BY <1>3 DEF LastIn
  <2>2. i \in S \cup {m} /\ j \in S \cup {m} /\ i < j
    BY <1>3 DEF LastIn
  <2> DEFINE T == S \cup {m}
  <2> HIDE DEF T
  <2>3. /\ i \in T /\ j \in T /\ i < j
        /\ \A k \in T : k <= i \/ j <= k
    BY <2>1, <2>2 DEF T
  <2>4. <<i, j>> \in Consecutive(T)
    BY <2>3, ConsecutiveIs
  <2> QED
    BY <2>4 DEF T
<1> QED
  BY <1>1, <1>2, <1>3

LEMMA LastOfMore ==
  ASSUME NEW S \in SUBSET Nat, NEW m \in Nat, \A k \in S : k < m
  PROVE  \A i : LastIn(i, S \cup {m}) <=> i = m
<1>1. LastIn(m, S \cup {m})
  BY DEF LastIn
<1>2. ASSUME NEW i, LastIn(i, S \cup {m}) PROVE i = m
  <2>1. i \in S \cup {m} /\ m <= i
    BY <1>2 DEF LastIn
  <2> QED
    BY <2>1
<1> QED
  BY <1>1, <1>2

LEMMA LastIsOne ==
  ASSUME NEW S \in SUBSET Nat, NEW i, NEW j, LastIn(i, S), LastIn(j, S)
  PROVE  i = j
<1>1. i \in Nat /\ j \in Nat /\ i <= j /\ j <= i
  BY DEF LastIn
<1> QED
  BY <1>1

-----------------------------------------------------------------------------
(* Rows *)

RowSet ==
    [ph : {"M", "i"}, tid : Nat, ts : Int]
    \cup [ph : {"B"}, tid : Nat, ts : Int, cpu : CPUs]
    \cup [ph : {"E"}, tid : Nat, ts : Int, dur : Int]

(* new goes on after rows with rows that neither begin nor end for tid.    *)
Prolongs(rows, new, tid) ==
    /\ Len(rows) <= Len(new)
    /\ \A i \in 1 .. Len(rows) : new[i] = rows[i]
    /\ \A i \in Len(rows) + 1 .. Len(new) :
          ~(new[i].tid = tid /\ new[i].ph \in {"B", "E"})

LEMMA RowsTypes ==
  ASSUME NEW rows \in Seq(RowSet)
  PROVE  /\ Len(rows) \in Nat /\ DOMAIN rows = 1 .. Len(rows)
         /\ \A i \in DOMAIN rows :
               rows[i] \in RowSet /\ rows[i].ts \in Int /\ rows[i].tid \in Nat
         /\ \A tid : BeginEnd(rows, tid) \in SUBSET (1 .. Len(rows))
<1>1. /\ Len(rows) \in Nat /\ DOMAIN rows = 1 .. Len(rows)
      /\ \A i \in DOMAIN rows : rows[i] \in RowSet
  BY LenProperties, ElementOfSeq
<1>2. \A r \in RowSet : r.ts \in Int /\ r.tid \in Nat
  BY DEF RowSet
<1> QED
  BY <1>1, <1>2 DEF BeginEnd

LEMMA Prolonged ==
  ASSUME NEW rows \in Seq(RowSet), NEW new \in Seq(RowSet), NEW tid,
         Prolongs(rows, new, tid)
  PROVE  /\ BeginEnd(new, tid) = BeginEnd(rows, tid)
         /\ \A i \in BeginEnd(rows, tid) : new[i] = rows[i]
<1>1. /\ Len(rows) \in Nat /\ DOMAIN rows = 1 .. Len(rows)
      /\ Len(new) \in Nat /\ DOMAIN new = 1 .. Len(new)
  BY RowsTypes
<1> QED
  BY <1>1 DEF Prolongs, BeginEnd

LEMMA ProlongsOn ==
  ASSUME NEW rows \in Seq(RowSet), NEW mid \in Seq(RowSet),
         NEW new \in Seq(RowSet), NEW tid,
         Prolongs(rows, mid, tid), Prolongs(mid, new, tid)
  PROVE  Prolongs(rows, new, tid)
<1>1. Len(rows) \in Nat /\ Len(mid) \in Nat /\ Len(new) \in Nat
  BY RowsTypes
<1>2. Len(rows) <= Len(new)
  BY <1>1 DEF Prolongs
<1>3. ASSUME NEW i \in 1 .. Len(rows) PROVE new[i] = rows[i]
  <2>1. i \in 1 .. Len(mid)
    BY <1>1 DEF Prolongs
  <2> QED
    BY <2>1 DEF Prolongs
<1>4. ASSUME NEW i \in Len(rows) + 1 .. Len(new)
      PROVE  ~(new[i].tid = tid /\ new[i].ph \in {"B", "E"})
  <2>1. CASE i <= Len(mid)
    <3>1. i \in 1 .. Len(mid) /\ i \in Len(rows) + 1 .. Len(mid)
      BY <1>1, <2>1
    <3> QED
      BY <3>1 DEF Prolongs
  <2>2. CASE ~(i <= Len(mid))
    <3>1. i \in Len(mid) + 1 .. Len(new)
      BY <1>1, <2>2
    <3> QED
      BY <3>1 DEF Prolongs
  <2> QED
    BY <2>1, <2>2
<1> QED
  BY <1>2, <1>3, <1>4 DEF Prolongs

(* One more row.                                                           *)
LEMMA RowAppended ==
  ASSUME NEW rows \in Seq(RowSet), NEW r \in RowSet, NEW tid
  PROVE  /\ Append(rows, r) \in Seq(RowSet)
         /\ ~(r.tid = tid /\ r.ph \in {"B", "E"}) =>
               Prolongs(rows, Append(rows, r), tid)
<1>1. /\ Append(rows, r) \in Seq(RowSet)
      /\ Len(Append(rows, r)) = Len(rows) + 1
      /\ \A i \in 1 .. Len(rows) : Append(rows, r)[i] = rows[i]
      /\ Append(rows, r)[Len(rows) + 1] = r
  BY AppendProperties
<1>2. Len(rows) \in Nat
  BY RowsTypes
<1>3. \A i \in Len(rows) + 1 .. Len(rows) + 1 : i = Len(rows) + 1
  BY <1>2
<1> QED
  BY <1>1, <1>2, <1>3 DEF Prolongs

LEMMA BeginEndAppended ==
  ASSUME NEW rows \in Seq(RowSet), NEW r \in RowSet, r.ph \in {"B", "E"}
  PROVE  /\ BeginEnd(Append(rows, r), r.tid) =
               BeginEnd(rows, r.tid) \cup {Len(rows) + 1}
         /\ \A i \in BeginEnd(rows, r.tid) : Append(rows, r)[i] = rows[i]
         /\ Append(rows, r)[Len(rows) + 1] = r
<1>1. /\ Append(rows, r) \in Seq(RowSet)
      /\ Len(Append(rows, r)) = Len(rows) + 1
      /\ \A i \in 1 .. Len(rows) : Append(rows, r)[i] = rows[i]
      /\ Append(rows, r)[Len(rows) + 1] = r
  BY AppendProperties
<1>2. /\ Len(rows) \in Nat /\ DOMAIN rows = 1 .. Len(rows)
      /\ DOMAIN Append(rows, r) = 1 .. Len(rows) + 1
  BY <1>1, RowsTypes
<1> DEFINE new == Append(rows, r)
<1> HIDE DEF new
<1>3. BeginEnd(new, r.tid) = BeginEnd(rows, r.tid) \cup {Len(rows) + 1}
  BY <1>1, <1>2 DEF BeginEnd, new
<1>4. \A i \in BeginEnd(rows, r.tid) : new[i] = rows[i]
  BY <1>1, <1>2 DEF BeginEnd, new
<1> QED
  BY <1>1, <1>3, <1>4 DEF new

-----------------------------------------------------------------------------
(* One turn of the loop *)

WriterState ==
    [rows : Seq(RowSet), on_time : [0 .. TidLimit - 1 -> Nat], named : BOOLEAN]

CpuEvent == [event_type : Types, tid : Tids, cpu : CPUs, timestamp : Nat \ {0}]

LEMMA TidsAre ==
  /\ TidLimit \in Nat \ {0} /\ GpuTidBase \in Nat
  /\ \A tid \in Tids : tid \in Nat /\ tid \in 0 .. TidLimit - 1
BY SchedAssumption, ChromeAssumption, TimelineAssumption DEF Tids, Idle

LEMMA NameRowsEffect ==
  ASSUME NEW s \in WriterState, NEW e \in CpuEvent, NEW tid
  PROVE  /\ NameRows(s, e) \in WriterState
         /\ NameRows(s, e).on_time = s.on_time
         /\ Prolongs(s.rows, NameRows(s, e).rows, tid)
<1>1. s.rows \in Seq(RowSet) /\ s.on_time \in [0 .. TidLimit - 1 -> Nat]
  BY DEF WriterState
<1>2. NameRow(e.tid) \in RowSet /\ NameRow(e.tid + GpuTidBase) \in RowSet
  <2>1. e.tid \in Nat /\ e.tid + GpuTidBase \in Nat
    BY TidsAre DEF CpuEvent
  <2> QED
    BY <2>1 DEF NameRow, RowSet
<1>3. CASE s.named \/ e.event_type = "GPU"
  <2>1. Prolongs(s.rows, s.rows, tid)
    BY <1>1, RowsTypes DEF Prolongs
  <2> QED
    BY <1>3, <2>1 DEF NameRows
<1>4. CASE ~(s.named \/ e.event_type = "GPU")
  <2> DEFINE mid == Append(s.rows, NameRow(e.tid))
             new == Append(mid, NameRow(e.tid + GpuTidBase))
  <2>1. NameRows(s, e) = [s EXCEPT !.named = TRUE, !.rows = new]
    BY <1>4 DEF NameRows
  <2>2. /\ NameRows(s, e).rows = new
        /\ NameRows(s, e).on_time = s.on_time
        /\ new \in Seq(RowSet) => NameRows(s, e) \in WriterState
    BY <2>1 DEF WriterState
  <2>3. mid \in Seq(RowSet) /\ Prolongs(s.rows, mid, tid)
    <3>1. NameRow(e.tid).ph = "M"
      BY DEF NameRow
    <3> QED
      BY <1>1, <1>2, <3>1, RowAppended
  <2>4. new \in Seq(RowSet) /\ Prolongs(mid, new, tid)
    <3>1. NameRow(e.tid + GpuTidBase).ph = "M"
      BY DEF NameRow
    <3> QED
      BY <1>2, <2>3, <3>1, RowAppended
  <2>5. Prolongs(s.rows, new, tid)
    BY <1>1, <2>3, <2>4, ProlongsOn
  <2> QED
    BY <2>2, <2>4, <2>5
<1> QED
  BY <1>3, <1>4

(* r is the only row of new that begins or ends for tid and is not in rows.*)
Adds(rows, new, tid, r) ==
    \E m \in Nat :
        /\ BeginEnd(new, tid) = BeginEnd(rows, tid) \cup {m}
        /\ \A k \in BeginEnd(rows, tid) : k < m /\ new[k] = rows[k]
        /\ new[m] = r

LEMMA AddsRow ==
  ASSUME NEW rows \in Seq(RowSet), NEW mid \in Seq(RowSet), NEW tid,
         Prolongs(rows, mid, tid),
         NEW r \in RowSet, r.tid = tid, r.ph \in {"B", "E"}
  PROVE  Adds(rows, Append(mid, r), tid, r)
<1>1. /\ BeginEnd(mid, tid) = BeginEnd(rows, tid)
      /\ \A i \in BeginEnd(rows, tid) : mid[i] = rows[i]
  BY Prolonged
<1>2. /\ BeginEnd(Append(mid, r), tid) = BeginEnd(mid, tid) \cup {Len(mid) + 1}
      /\ \A i \in BeginEnd(mid, tid) : Append(mid, r)[i] = mid[i]
      /\ Append(mid, r)[Len(mid) + 1] = r
  BY BeginEndAppended
<1>3. Len(mid) + 1 \in Nat /\ \A k \in BeginEnd(mid, tid) : k < Len(mid) + 1
  <2>1. Len(mid) \in Nat /\ BeginEnd(mid, tid) \in SUBSET (1 .. Len(mid))
    BY RowsTypes
  <2> QED
    BY <2>1
<1> QED
  BY <1>1, <1>2, <1>3 DEF Adds

(* What a turn for e does to the rows and the on-time of tid.              *)
QuietTurn(s, new, tid) ==
    /\ Prolongs(s.rows, new.rows, tid)
    /\ new.on_time[tid] = s.on_time[tid]

OnTurn(s, e, new, tid) ==
    /\ Adds(s.rows, new.rows, tid, BeginRow(e, e.timestamp - 1))
    /\ new.on_time[tid] = e.timestamp

OffTurn(s, e, new, tid) ==
    /\ Adds(s.rows, new.rows, tid,
            [ph |-> "E", tid |-> tid, ts |-> e.timestamp - 1,
             dur |-> e.timestamp - s.on_time[tid]])
    /\ new.on_time[tid] = 0

LEMMA TurnEffect ==
  ASSUME NEW s \in WriterState, NEW e \in CpuEvent, NEW tid \in Tids
  PROVE  LET new == Turn(s, e, 1)
         IN  /\ new \in WriterState
             /\ e.tid # tid \/ e.event_type = "WAKEUP" =>
                   QuietTurn(s, new, tid)
             /\ e.tid = tid /\ e.event_type = "ON" => OnTurn(s, e, new, tid)
             /\ e.tid = tid /\ e.event_type = "OFF" =>
                   IF s.on_time[tid] = 0 THEN QuietTurn(s, new, tid)
                   ELSE OffTurn(s, e, new, tid)
<1> DEFINE mid == NameRows(s, e)
           ts == e.timestamp - 1
           new == Turn(s, e, 1)
<1>1. /\ mid \in WriterState /\ mid.on_time = s.on_time
      /\ Prolongs(s.rows, mid.rows, tid)
  BY NameRowsEffect
<1>2. /\ s.rows \in Seq(RowSet) /\ mid.rows \in Seq(RowSet)
      /\ s.on_time \in [0 .. TidLimit - 1 -> Nat]
  BY <1>1 DEF WriterState
<1>3. /\ e.timestamp \in Nat \ {0} /\ ts \in Int /\ e.cpu \in CPUs
      /\ e.tid \in Tids /\ e.tid \in Nat /\ e.tid \in 0 .. TidLimit - 1
      /\ e.tid < TidLimit /\ tid \in 0 .. TidLimit - 1
      /\ e.event_type \in {"ON", "OFF", "WAKEUP"}
  BY TidsAre DEF CpuEvent, Types
<1>4. new = EmitEvent(mid, e, ts)
  BY DEF Turn
<1> HIDE DEF mid, ts, new
<1>5. CASE e.event_type = "ON"
  <2> DEFINE r == BeginRow(e, ts)
             on_time == [s.on_time EXCEPT ![e.tid] = e.timestamp]
  <2>1. new = [mid EXCEPT !.rows = Append(mid.rows, r), !.on_time = on_time]
    BY <1>1, <1>3, <1>4, <1>5 DEF EmitEvent, OnRow
  <2>2. r \in RowSet /\ r.tid = e.tid /\ r.ph = "B"
    BY <1>3 DEF RowSet, BeginRow
  <2>3. Append(mid.rows, r) \in Seq(RowSet)
    BY <1>2, <2>2, RowAppended
  <2>4. on_time \in [0 .. TidLimit - 1 -> Nat]
    BY <1>2, <1>3
  <2>5. /\ new \in WriterState
        /\ new.rows = Append(mid.rows, r) /\ new.on_time = on_time
    BY <1>1, <2>1, <2>3, <2>4 DEF WriterState
  <2>6. CASE e.tid # tid
    <3>1. Prolongs(mid.rows, new.rows, tid)
      BY <1>2, <2>2, <2>5, <2>6, RowAppended
    <3>2. Prolongs(s.rows, new.rows, tid)
      BY <1>1, <1>2, <2>3, <2>5, <3>1, ProlongsOn
    <3>3. new.on_time[tid] = s.on_time[tid]
      BY <1>2, <1>3, <2>5, <2>6
    <3> QED
      BY <1>5, <2>5, <2>6, <3>2, <3>3 DEF QuietTurn, new
  <2>7. CASE e.tid = tid
    <3>1. Adds(s.rows, new.rows, tid, r)
      BY <1>1, <1>2, <2>2, <2>5, <2>7, AddsRow
    <3>2. new.on_time[tid] = e.timestamp
      BY <1>2, <1>3, <2>5, <2>7
    <3> QED
      BY <1>5, <2>5, <2>7, <3>1, <3>2 DEF OnTurn, ts, new
  <2> QED
    BY <2>6, <2>7
<1>6. CASE e.event_type = "OFF"
  <2>1. CASE s.on_time[e.tid] = 0
    <3>1. new = mid
      BY <1>1, <1>4, <1>6, <2>1 DEF EmitEvent, OffRow, HasOnTime
    <3> QED
      BY <1>1, <1>6, <2>1, <3>1 DEF QuietTurn, new
  <2>2. CASE s.on_time[e.tid] # 0
    <3> DEFINE r == EndRow(mid, e, ts)
               on_time == [s.on_time EXCEPT ![e.tid] = 0]
    <3>1. new = [mid EXCEPT !.rows = Append(mid.rows, r), !.on_time = on_time]
      BY <1>1, <1>3, <1>4, <1>6, <2>2 DEF EmitEvent, OffRow, HasOnTime
    <3>2. r = [ph |-> "E", tid |-> e.tid, ts |-> ts,
               dur |-> e.timestamp - s.on_time[e.tid]]
      BY <1>1 DEF EndRow
    <3>3. r \in RowSet /\ r.tid = e.tid /\ r.ph = "E"
      <4>1. e.timestamp - s.on_time[e.tid] \in Int
        <5>1. s.on_time[e.tid] \in Nat /\ e.timestamp \in Nat
          BY <1>2, <1>3
        <5>2. \A m, n \in Nat : m - n \in Int
          OBVIOUS
        <5> QED
          BY <5>1, <5>2
      <4> QED
        BY <1>3, <3>2, <4>1 DEF RowSet
    <3>4. Append(mid.rows, r) \in Seq(RowSet)
      BY <1>2, <3>3, RowAppended
    <3>5. on_time \in [0 .. TidLimit - 1 -> Nat]
      BY <1>2, <1>3
    <3> HIDE DEF r
    <3>6. /\ new \in WriterState
          /\ new.rows = Append(mid.rows, r) /\ new.on_time = on_time
      BY <1>1, <3>1, <3>4, <3>5 DEF WriterState
    <3>7. CASE e.tid # tid
      <4>1. Prolongs(mid.rows, new.rows, tid)
        BY <1>2, <3>3, <3>6, <3>7, RowAppended
      <4>2. Prolongs(s.rows, new.rows, tid)
        BY <1>1, <1>2, <3>4, <3>6, <4>1, ProlongsOn
      <4>3. new.on_time[tid] = s.on_time[tid]
        BY <1>2, <1>3, <3>6, <3>7
      <4> QED
        BY <1>6, <3>6, <3>7, <4>2, <4>3 DEF QuietTurn, new
    <3>8. CASE e.tid = tid
      <4>1. Adds(s.rows, new.rows, tid, r)
        BY <1>1, <1>2, <3>3, <3>6, <3>8, AddsRow
      <4>2. new.on_time[tid] = 0
        BY <1>2, <1>3, <3>6, <3>8
      <4> QED
        BY <1>6, <2>2, <3>2, <3>6, <3>8, <4>1, <4>2 DEF OffTurn, ts, new
    <3> QED
      BY <3>7, <3>8
  <2> QED
    BY <2>1, <2>2
<1>7. CASE e.event_type = "WAKEUP"
  <2> DEFINE r == [ph |-> "i", tid |-> e.tid, ts |-> ts]
  <2>1. new = [mid EXCEPT !.rows = Append(mid.rows, r)]
    BY <1>4, <1>7 DEF EmitEvent, WakeupRow
  <2>2. r \in RowSet /\ r.ph = "i"
    BY <1>3 DEF RowSet
  <2>3. Append(mid.rows, r) \in Seq(RowSet) /\ Prolongs(mid.rows, Append(mid.rows, r), tid)
    BY <1>2, <2>2, RowAppended
  <2>4. /\ new \in WriterState
        /\ new.rows = Append(mid.rows, r) /\ new.on_time = mid.on_time
    BY <1>1, <2>1, <2>3 DEF WriterState
  <2>5. Prolongs(s.rows, new.rows, tid)
    BY <1>1, <1>2, <2>3, <2>4, ProlongsOn
  <2> QED
    BY <1>1, <1>7, <2>4, <2>5 DEF QuietTurn, new
<1> QED
  BY <1>3, <1>5, <1>6, <1>7
-----------------------------------------------------------------------------
(* The spans drawn, row by row *)

SpanOf(rows, tid, i, j) ==
    [tid |-> tid, cpu |-> rows[i].cpu, from |-> rows[i].ts + 1,
     to |-> rows[j].ts + 1]

LEMMA SpanDrawn ==
  ASSUME NEW rows, NEW tid, NEW i, NEW j,
         <<i, j>> \in Consecutive(BeginEnd(rows, tid)),
         rows[i].ph = "B", rows[j].ph = "E"
  PROVE  SpanOf(rows, tid, i, j) \in Spans(rows, tid)
BY DEF Spans, SpanOf

DrawnAs(rows, tid, i, j, span) ==
    /\ <<i, j>> \in Consecutive(BeginEnd(rows, tid))
    /\ i \in BeginEnd(rows, tid) /\ j \in BeginEnd(rows, tid)
    /\ rows[i].ph = "B" /\ rows[j].ph = "E"
    /\ span = SpanOf(rows, tid, i, j)

LEMMA DrawnSpan ==
  ASSUME NEW rows, NEW tid, NEW span \in Spans(rows, tid)
  PROVE  \E i, j : DrawnAs(rows, tid, i, j, span)
<1>1. PICK p \in Consecutive(BeginEnd(rows, tid)) :
         /\ rows[p[1]].ph = "B" /\ rows[p[2]].ph = "E"
         /\ span = SpanOf(rows, tid, p[1], p[2])
  BY DEF Spans, SpanOf
<1>2. p = <<p[1], p[2]>>
  BY DEF Consecutive
<1>3. DrawnAs(rows, tid, p[1], p[2], span)
  BY <1>1, <1>2, ConsecutiveIs DEF DrawnAs
<1> QED
  BY <1>3

(* Each End row closes the Begin row before it.                            *)
Closed(rows, tid) ==
    \A j \in BeginEnd(rows, tid) : rows[j].ph = "E" =>
        \E i \in BeginEnd(rows, tid) :
            /\ <<i, j>> \in Consecutive(BeginEnd(rows, tid))
            /\ rows[i].ph = "B"
            /\ rows[j].dur = rows[j].ts - rows[i].ts

(* What is drawn for tid depends on its Begin and End rows alone.          *)
LEMMA RowsKeepSpans ==
  ASSUME NEW rows, NEW new, NEW tid,
         \A i, j : <<i, j>> \in Consecutive(BeginEnd(rows, tid)) =>
                      <<i, j>> \in Consecutive(BeginEnd(new, tid)),
         \A i \in BeginEnd(rows, tid) : new[i] = rows[i]
  PROVE  Spans(rows, tid) \subseteq Spans(new, tid)
<1> SUFFICES ASSUME NEW span \in Spans(rows, tid)
             PROVE  span \in Spans(new, tid)
  OBVIOUS
<1>1. PICK i, j : DrawnAs(rows, tid, i, j, span)
  BY DrawnSpan
<1>2. /\ <<i, j>> \in Consecutive(BeginEnd(new, tid))
      /\ new[i].ph = "B" /\ new[j].ph = "E"
      /\ SpanOf(new, tid, i, j) = SpanOf(rows, tid, i, j)
  BY <1>1 DEF SpanOf, DrawnAs
<1> QED
  BY <1>1, <1>2, SpanDrawn DEF DrawnAs

LEMMA SameRows ==
  ASSUME NEW rows, NEW new, NEW tid,
         BeginEnd(new, tid) = BeginEnd(rows, tid),
         \A i \in BeginEnd(rows, tid) : new[i] = rows[i]
  PROVE  /\ Spans(new, tid) = Spans(rows, tid)
         /\ Closed(rows, tid) => Closed(new, tid)
<1>1. Spans(rows, tid) \subseteq Spans(new, tid)
  BY RowsKeepSpans
<1>2. \A i \in BeginEnd(new, tid) : rows[i] = new[i]
  OBVIOUS
<1>3. Spans(new, tid) \subseteq Spans(rows, tid)
  BY <1>2, RowsKeepSpans
<1>4. Closed(rows, tid) => Closed(new, tid)
  BY DEF Closed
<1> QED
  BY <1>1, <1>3, <1>4

(* A Begin row adds no span yet.                                           *)
LEMMA BeginAdded ==
  ASSUME NEW rows \in Seq(RowSet), NEW new, NEW tid, NEW r, r.ph = "B",
         Adds(rows, new, tid, r)
  PROVE  /\ Spans(new, tid) = Spans(rows, tid)
         /\ Closed(rows, tid) => Closed(new, tid)
         /\ \E m : LastIn(m, BeginEnd(new, tid)) /\ new[m] = r
<1> DEFINE S == BeginEnd(rows, tid)
<1>1. PICK m \in Nat : /\ BeginEnd(new, tid) = S \cup {m}
                       /\ \A k \in S : k < m /\ new[k] = rows[k]
                       /\ new[m] = r
  BY DEF Adds
<1>2. S \in SUBSET Nat
  <2>1. Len(rows) \in Nat /\ S \in SUBSET (1 .. Len(rows))
    BY RowsTypes
  <2> QED
    BY <2>1
<1> HIDE DEF S
<1>3. \A i, j : <<i, j>> \in Consecutive(S \cup {m}) <=>
                   <<i, j>> \in Consecutive(S) \/ (j = m /\ LastIn(i, S))
  BY <1>1, <1>2, ConsecutiveGrows
<1>4. \A i, j : <<i, j>> \in Consecutive(S) => i \in S /\ j \in S
  BY ConsecutiveIs
<1>5. Spans(new, tid) = Spans(rows, tid)
  <2>1. Spans(rows, tid) \subseteq Spans(new, tid)
    BY <1>1, <1>3, RowsKeepSpans DEF S
  <2>2. ASSUME NEW span \in Spans(new, tid) PROVE span \in Spans(rows, tid)
    <3>0. PICK i, j : DrawnAs(new, tid, i, j, span)
      BY <2>2, DrawnSpan
    <3>1. /\ <<i, j>> \in Consecutive(S \cup {m})
          /\ new[i].ph = "B" /\ new[j].ph = "E"
          /\ span = SpanOf(new, tid, i, j)
      BY <1>1, <3>0 DEF DrawnAs
    <3>2. <<i, j>> \in Consecutive(S) /\ i \in S /\ j \in S
      BY <1>1, <1>3, <1>4, <3>1
    <3>3. /\ rows[i].ph = "B" /\ rows[j].ph = "E"
          /\ SpanOf(new, tid, i, j) = SpanOf(rows, tid, i, j)
      BY <1>1, <3>1, <3>2 DEF SpanOf
    <3> QED
      BY <3>1, <3>2, <3>3, SpanDrawn DEF S
  <2> QED
    BY <2>1, <2>2
<1>6. ASSUME Closed(rows, tid) PROVE Closed(new, tid)
  <2> SUFFICES ASSUME NEW j \in S \cup {m}, new[j].ph = "E"
               PROVE  \E i \in S \cup {m} :
                         /\ <<i, j>> \in Consecutive(S \cup {m})
                         /\ new[i].ph = "B"
                         /\ new[j].dur = new[j].ts - new[i].ts
    BY <1>1 DEF Closed
  <2>1. j \in S /\ rows[j].ph = "E"
    BY <1>1
  <2>2. PICK i \in S : /\ <<i, j>> \in Consecutive(S)
                       /\ rows[i].ph = "B"
                       /\ rows[j].dur = rows[j].ts - rows[i].ts
    BY <1>6, <2>1 DEF Closed, S
  <2> QED
    BY <1>1, <1>3, <2>1, <2>2
<1>7. LastIn(m, BeginEnd(new, tid))
  BY <1>1, <1>2, LastOfMore
<1> QED
  BY <1>1, <1>5, <1>6, <1>7

(* An End row after a Begin row adds the span of the two.                  *)
LEMMA EndAdded ==
  ASSUME NEW rows \in Seq(RowSet), NEW new, NEW tid, NEW r, r.ph = "E",
         Adds(rows, new, tid, r),
         NEW b, LastIn(b, BeginEnd(rows, tid)), rows[b].ph = "B"
  PROVE  /\ Spans(new, tid) =
               Spans(rows, tid) \cup {[tid |-> tid, cpu |-> rows[b].cpu,
                                       from |-> rows[b].ts + 1,
                                       to |-> r.ts + 1]}
         /\ Closed(rows, tid) /\ r.dur = r.ts - rows[b].ts =>
               Closed(new, tid)
<1> DEFINE S == BeginEnd(rows, tid)
           added == [tid |-> tid, cpu |-> rows[b].cpu,
                     from |-> rows[b].ts + 1, to |-> r.ts + 1]
<1>1. PICK m \in Nat : /\ BeginEnd(new, tid) = S \cup {m}
                       /\ \A k \in S : k < m /\ new[k] = rows[k]
                       /\ new[m] = r
  BY DEF Adds
<1>2. S \in SUBSET Nat /\ LastIn(b, S) /\ b \in S
  <2>1. Len(rows) \in Nat /\ S \in SUBSET (1 .. Len(rows))
    BY RowsTypes
  <2> QED
    BY <2>1 DEF LastIn
<1> HIDE DEF S
<1>3. \A i, j : <<i, j>> \in Consecutive(S \cup {m}) <=>
                   <<i, j>> \in Consecutive(S) \/ (j = m /\ LastIn(i, S))
  BY <1>1, <1>2, ConsecutiveGrows
<1>4. \A i, j : <<i, j>> \in Consecutive(S) => i \in S /\ j \in S
  BY ConsecutiveIs
<1>5. /\ m \notin S /\ new[b] = rows[b]
      /\ \A i : LastIn(i, S) => i = b
  <2>1. m \notin S
    <3>1. m \in S => m < m
      BY <1>1
    <3> QED
      BY <3>1
  <2> QED
    BY <1>1, <1>2, <2>1, LastIsOne
<1>6. SpanOf(new, tid, b, m) = added
  BY <1>1, <1>5 DEF SpanOf
<1>7. Spans(new, tid) = Spans(rows, tid) \cup {added}
  <2>1. Spans(rows, tid) \subseteq Spans(new, tid)
    BY <1>1, <1>3, RowsKeepSpans DEF S
  <2>2. added \in Spans(new, tid)
    <3>1. <<b, m>> \in Consecutive(BeginEnd(new, tid))
      BY <1>1, <1>2, <1>3
    <3>2. new[b].ph = "B" /\ new[m].ph = "E"
      BY <1>1, <1>5
    <3> QED
      BY <1>6, <3>1, <3>2, SpanDrawn
  <2>3. ASSUME NEW span \in Spans(new, tid)
        PROVE  span \in Spans(rows, tid) \cup {added}
    <3>0. PICK i, j : DrawnAs(new, tid, i, j, span)
      BY <2>3, DrawnSpan
    <3>1. /\ <<i, j>> \in Consecutive(S \cup {m})
          /\ new[i].ph = "B" /\ new[j].ph = "E"
          /\ span = SpanOf(new, tid, i, j)
      BY <1>1, <3>0 DEF DrawnAs
    <3>2. CASE <<i, j>> \in Consecutive(S)
      <4>1. i \in S /\ j \in S
        BY <1>4, <3>2
      <4>2. /\ rows[i].ph = "B" /\ rows[j].ph = "E"
            /\ SpanOf(new, tid, i, j) = SpanOf(rows, tid, i, j)
        BY <1>1, <3>1, <4>1 DEF SpanOf
      <4> QED
        BY <3>1, <3>2, <4>2, SpanDrawn DEF S
    <3>3. CASE j = m /\ LastIn(i, S)
      BY <1>5, <1>6, <3>1, <3>3
    <3> QED
      BY <1>3, <3>1, <3>2, <3>3
  <2> QED
    BY <2>1, <2>2, <2>3
<1>8. ASSUME Closed(rows, tid), r.dur = r.ts - rows[b].ts
      PROVE  Closed(new, tid)
  <2> SUFFICES ASSUME NEW j \in S \cup {m}, new[j].ph = "E"
               PROVE  \E i \in S \cup {m} :
                         /\ <<i, j>> \in Consecutive(S \cup {m})
                         /\ new[i].ph = "B"
                         /\ new[j].dur = new[j].ts - new[i].ts
    BY <1>1 DEF Closed
  <2>1. CASE j = m
    <3>1. /\ <<b, j>> \in Consecutive(S \cup {m})
          /\ new[b].ph = "B" /\ b \in S \cup {m}
          /\ new[j].dur = new[j].ts - new[b].ts
      BY <1>1, <1>2, <1>3, <1>5, <1>8, <2>1
    <3> QED
      BY <3>1
  <2>2. CASE j # m
    <3>1. j \in S /\ rows[j].ph = "E"
      BY <1>1, <2>2
    <3>2. PICK i \in S : /\ <<i, j>> \in Consecutive(S)
                         /\ rows[i].ph = "B"
                         /\ rows[j].dur = rows[j].ts - rows[i].ts
      BY <1>8, <3>1 DEF Closed, S
    <3> QED
      BY <1>1, <1>3, <3>1, <3>2
  <2> QED
    BY <2>1, <2>2
<1> QED
  BY <1>7, <1>8
-----------------------------------------------------------------------------
(* The stays that the events tell of *)

SwitchesOf(events, n, tid) ==
    {i \in 1 .. n : events[i].tid = tid /\ events[i].event_type # "WAKEUP"}

EventStay(events, tid, i, j) ==
    [tid |-> tid, cpu |-> events[i].cpu, from |-> i, to |-> j]

(* An ON event of tid and the OFF event that follows it.                   *)
EventStays(events, n, tid) ==
    {EventStay(events, tid, p[1], p[2]) :
        p \in {q \in Consecutive(SwitchesOf(events, n, tid)) :
                  /\ events[q[1]].event_type = "ON"
                  /\ events[q[2]].event_type = "OFF"}}

LEMMA StayTold ==
  ASSUME NEW events, NEW n, NEW tid, NEW i, NEW j,
         <<i, j>> \in Consecutive(SwitchesOf(events, n, tid)),
         events[i].event_type = "ON", events[j].event_type = "OFF"
  PROVE  EventStay(events, tid, i, j) \in EventStays(events, n, tid)
BY DEF EventStays

ToldAs(events, n, tid, i, j, stay) ==
    /\ <<i, j>> \in Consecutive(SwitchesOf(events, n, tid))
    /\ events[i].event_type = "ON" /\ events[j].event_type = "OFF"
    /\ stay = EventStay(events, tid, i, j)

LEMMA ToldStay ==
  ASSUME NEW events, NEW n, NEW tid, NEW stay \in EventStays(events, n, tid)
  PROVE  \E i, j : ToldAs(events, n, tid, i, j, stay)
<1>1. PICK p \in Consecutive(SwitchesOf(events, n, tid)) :
         /\ events[p[1]].event_type = "ON" /\ events[p[2]].event_type = "OFF"
         /\ stay = EventStay(events, tid, p[1], p[2])
  BY DEF EventStays
<1>2. p = <<p[1], p[2]>>
  BY DEF Consecutive
<1>3. ToldAs(events, n, tid, p[1], p[2], stay)
  BY <1>1, <1>2 DEF ToldAs
<1> QED
  BY <1>3

(* The arrays agree on the switches of tid.                                *)
LEMMA SameStays ==
  ASSUME NEW old, NEW n, NEW new, NEW m, NEW tid,
         SwitchesOf(new, m, tid) = SwitchesOf(old, n, tid),
         \A i \in SwitchesOf(old, n, tid) :
            /\ new[i].event_type = old[i].event_type
            /\ new[i].cpu = old[i].cpu
  PROVE  EventStays(new, m, tid) = EventStays(old, n, tid)
<1> DEFINE S == SwitchesOf(old, n, tid)
<1> HIDE DEF S
<1>1. \A i, j : <<i, j>> \in Consecutive(S) => i \in S /\ j \in S
  BY ConsecutiveIs
<1>2. ASSUME NEW stay \in EventStays(old, n, tid)
      PROVE  stay \in EventStays(new, m, tid)
  <2>1. PICK i, j : ToldAs(old, n, tid, i, j, stay)
    BY <1>2, ToldStay
  <2>2. /\ i \in S /\ j \in S
        /\ new[i].event_type = old[i].event_type /\ new[i].cpu = old[i].cpu
        /\ new[j].event_type = old[j].event_type
    BY <1>1, <2>1 DEF ToldAs, S
  <2>3. EventStay(new, tid, i, j) = stay
    BY <2>1, <2>2 DEF ToldAs, EventStay
  <2> QED
    BY <2>1, <2>2, <2>3, StayTold DEF ToldAs
<1>3. ASSUME NEW stay \in EventStays(new, m, tid)
      PROVE  stay \in EventStays(old, n, tid)
  <2>1. PICK i, j : ToldAs(new, m, tid, i, j, stay)
    BY <1>3, ToldStay
  <2>2. /\ i \in S /\ j \in S
        /\ new[i].event_type = old[i].event_type /\ new[i].cpu = old[i].cpu
        /\ new[j].event_type = old[j].event_type
    BY <1>1, <2>1 DEF ToldAs, S
  <2>3. EventStay(old, tid, i, j) = stay
    BY <2>1, <2>2 DEF ToldAs, EventStay
  <2> QED
    BY <2>1, <2>2, <2>3, StayTold DEF ToldAs
<1> QED
  BY <1>2, <1>3

(* What an m-th event that is a switch of tid adds.                        *)
SwitchAdds(old, n, new, m, tid) ==
    /\ SwitchesOf(new, m, tid) = SwitchesOf(old, n, tid) \cup {m}
    /\ \A i : LastIn(i, SwitchesOf(new, m, tid)) <=> i = m
    /\ \A stay : stay \in EventStays(new, m, tid) <=>
          \/ stay \in EventStays(old, n, tid)
          \/ /\ new[m].event_type = "OFF"
             /\ \E i : /\ LastIn(i, SwitchesOf(old, n, tid))
                       /\ old[i].event_type = "ON"
                       /\ stay = EventStay(old, tid, i, m)

LEMMA SwitchAdded ==
  ASSUME NEW n \in Nat, NEW m, m = n + 1, NEW old, NEW new, NEW tid,
         \A i \in 1 .. n : new[i] = old[i],
         new[m].tid = tid, new[m].event_type # "WAKEUP"
  PROVE  SwitchAdds(old, n, new, m, tid)
<1> DEFINE S == SwitchesOf(old, n, tid)
           T == SwitchesOf(new, m, tid)
<1>1. T = S \cup {m}
  BY DEF SwitchesOf
<1>2. /\ S \in SUBSET Nat /\ m \in Nat /\ m \notin S
      /\ \A k \in S : k < m
      /\ \A k \in S : new[k] = old[k]
  BY DEF SwitchesOf
<1> HIDE DEF S, T
<1>3. \A i, j : <<i, j>> \in Consecutive(T) <=>
                   <<i, j>> \in Consecutive(S) \/ (j = m /\ LastIn(i, S))
  BY <1>1, <1>2, ConsecutiveGrows
<1>4. \A i, j : <<i, j>> \in Consecutive(S) => i \in S /\ j \in S
  BY ConsecutiveIs
<1>5. \A i : LastIn(i, T) <=> i = m
  BY <1>1, <1>2, LastOfMore
<1>6. ASSUME NEW stay \in EventStays(old, n, tid)
      PROVE  stay \in EventStays(new, m, tid)
  <2>1. PICK i, j : ToldAs(old, n, tid, i, j, stay)
    BY <1>6, ToldStay
  <2>2. i \in S /\ j \in S /\ <<i, j>> \in Consecutive(T)
    BY <1>3, <1>4, <2>1 DEF ToldAs, S
  <2>3. new[i] = old[i] /\ new[j] = old[j]
    BY <1>2, <2>2
  <2>4. EventStay(new, tid, i, j) = stay
    BY <2>1, <2>3 DEF ToldAs, EventStay
  <2> QED
    BY <2>1, <2>2, <2>3, <2>4, StayTold DEF ToldAs, T
<1>7. ASSUME NEW i, LastIn(i, S), old[i].event_type = "ON",
             new[m].event_type = "OFF"
      PROVE  EventStay(old, tid, i, m) \in EventStays(new, m, tid)
  <2>1. i \in S /\ <<i, m>> \in Consecutive(T) /\ new[i] = old[i]
    BY <1>2, <1>3, <1>7 DEF LastIn
  <2>2. EventStay(new, tid, i, m) = EventStay(old, tid, i, m)
    BY <2>1 DEF EventStay
  <2> QED
    BY <1>7, <2>1, <2>2, StayTold DEF T
<1>8. ASSUME NEW stay \in EventStays(new, m, tid)
      PROVE  \/ stay \in EventStays(old, n, tid)
             \/ /\ new[m].event_type = "OFF"
                /\ \E i : /\ LastIn(i, S)
                          /\ old[i].event_type = "ON"
                          /\ stay = EventStay(old, tid, i, m)
  <2>1. PICK i, j : ToldAs(new, m, tid, i, j, stay)
    BY <1>8, ToldStay
  <2>2. CASE <<i, j>> \in Consecutive(S)
    <3>1. new[i] = old[i] /\ new[j] = old[j]
      BY <1>2, <1>4, <2>2
    <3>2. EventStay(old, tid, i, j) = stay
      BY <2>1, <3>1 DEF ToldAs, EventStay
    <3> QED
      BY <2>1, <2>2, <3>1, <3>2, StayTold DEF ToldAs, S
  <2>3. CASE j = m /\ LastIn(i, S)
    <3>1. new[i] = old[i]
      BY <1>2, <2>3 DEF LastIn
    <3>2. EventStay(old, tid, i, m) = stay
      BY <2>1, <2>3, <3>1 DEF ToldAs, EventStay
    <3> QED
      BY <2>1, <2>3, <3>1, <3>2 DEF ToldAs
  <2>4. <<i, j>> \in Consecutive(T)
    BY <2>1 DEF ToldAs, T
  <2> QED
    BY <1>3, <2>2, <2>3, <2>4
<1> QED
  BY <1>1, <1>5, <1>6, <1>7, <1>8 DEF S, T, SwitchAdds

(* The next event is not a switch of tid.                                  *)
LEMMA OtherAdded ==
  ASSUME NEW n \in Nat, NEW old, NEW new, NEW tid,
         \A i \in 1 .. n : new[i] = old[i],
         new[n + 1].tid # tid \/ new[n + 1].event_type = "WAKEUP"
  PROVE  /\ SwitchesOf(new, n + 1, tid) = SwitchesOf(old, n, tid)
         /\ \A i \in SwitchesOf(old, n, tid) : new[i] = old[i]
         /\ EventStays(new, n + 1, tid) = EventStays(old, n, tid)
<1>1. /\ SwitchesOf(new, n + 1, tid) = SwitchesOf(old, n, tid)
      /\ \A i \in SwitchesOf(old, n, tid) : new[i] = old[i]
  BY DEF SwitchesOf
<1> QED
  BY <1>1, SameStays
-----------------------------------------------------------------------------
(* The invariant of the loop *)

(* The Begin row of event i is the last row that begins or ends for tid.   *)
BegunBy(rows, tid, events, i) ==
    \E b : /\ LastIn(b, BeginEnd(rows, tid))
           /\ rows[b] = BeginRow(events[i], i - 1)

(* After n events, s has drawn for tid the stays that they tell of; its    *)
(* on-time is the time of the ON event that is its last switch, if it is.  *)
Written(s, events, n, tid) ==
    /\ s \in WriterState
    /\ s.on_time[tid] # 0 =>
          /\ LastIn(s.on_time[tid], SwitchesOf(events, n, tid))
          /\ events[s.on_time[tid]].event_type = "ON"
          /\ BegunBy(s.rows, tid, events, s.on_time[tid])
    /\ s.on_time[tid] = 0 =>
          \A i : LastIn(i, SwitchesOf(events, n, tid)) =>
                    events[i].event_type # "ON"
    /\ Closed(s.rows, tid)
    /\ Spans(s.rows, tid) = EventStays(events, n, tid)

LEMMA StartWritten ==
  ASSUME NEW events, NEW tid \in Tids
  PROVE  Written(Start, events, 0, tid)
<1>1. Start \in WriterState /\ Start.on_time[tid] = 0 /\ Start.rows = << >>
  <2>1. << >> \in Seq(RowSet)
    OBVIOUS
  <2> QED
    BY <2>1, TidsAre DEF Start, WriterState
<1>2. BeginEnd(<< >>, tid) = {}
  BY DEF BeginEnd
<1>3. SwitchesOf(events, 0, tid) = {}
  BY DEF SwitchesOf
<1>4. Consecutive({}) = {}
  BY DEF Consecutive
<1>5. Closed(<< >>, tid) /\ Spans(<< >>, tid) = {}
  BY <1>2, <1>4 DEF Closed, Spans
<1>6. EventStays(events, 0, tid) = {}
  BY <1>3, <1>4 DEF EventStays
<1> QED
  BY <1>1, <1>3, <1>5, <1>6 DEF Written, LastIn

LEMMA TurnWritten ==
  ASSUME NEW events, NEW n \in Nat, events[n + 1] \in CpuEvent,
         events[n + 1].timestamp = n + 1,
         NEW tid \in Tids, NEW s, Written(s, events, n, tid)
  PROVE  Written(Turn(s, events[n + 1], 1), events, n + 1, tid)
<1> DEFINE e == events[n + 1]
           new == Turn(s, e, 1)
           S == SwitchesOf(events, n, tid)
           on == s.on_time[tid]
<1>1. s \in WriterState /\ s.rows \in Seq(RowSet) /\ on \in Nat
  BY TidsAre DEF Written, WriterState
<1>2. /\ new \in WriterState
      /\ e.tid # tid \/ e.event_type = "WAKEUP" => QuietTurn(s, new, tid)
      /\ e.tid = tid /\ e.event_type = "ON" => OnTurn(s, e, new, tid)
      /\ e.tid = tid /\ e.event_type = "OFF" =>
            IF on = 0 THEN QuietTurn(s, new, tid) ELSE OffTurn(s, e, new, tid)
  BY <1>1, TurnEffect
<1>3. new.rows \in Seq(RowSet) /\ e.event_type \in {"ON", "OFF", "WAKEUP"}
  BY <1>2 DEF WriterState, CpuEvent, Types
<1> HIDE DEF e, new
<1>4. ASSUME QuietTurn(s, new, tid)
      PROVE  /\ new.on_time[tid] = on
             /\ Closed(new.rows, tid)
             /\ Spans(new.rows, tid) = EventStays(events, n, tid)
             /\ \A i : BegunBy(s.rows, tid, events, i) =>
                          BegunBy(new.rows, tid, events, i)
  <2>1. /\ BeginEnd(new.rows, tid) = BeginEnd(s.rows, tid)
        /\ \A i \in BeginEnd(s.rows, tid) : new.rows[i] = s.rows[i]
    BY <1>1, <1>3, <1>4, Prolonged DEF QuietTurn
  <2>2. /\ Spans(new.rows, tid) = Spans(s.rows, tid)
        /\ Closed(s.rows, tid) => Closed(new.rows, tid)
    BY <2>1, SameRows
  <2> QED
    BY <1>4, <2>1, <2>2 DEF QuietTurn, Written, BegunBy, LastIn
<1>5. CASE e.tid # tid \/ e.event_type = "WAKEUP"
  <2>1. QuietTurn(s, new, tid)
    BY <1>2, <1>5
  <2>2. /\ SwitchesOf(events, n + 1, tid) = S
        /\ EventStays(events, n + 1, tid) = EventStays(events, n, tid)
    BY <1>5, OtherAdded DEF e
  <2> QED
    BY <1>2, <1>4, <2>1, <2>2 DEF Written, new, e
<1>6. ASSUME e.tid = tid, e.event_type # "WAKEUP"
      PROVE  /\ \A i : LastIn(i, SwitchesOf(events, n + 1, tid)) <=> i = n + 1
             /\ \A stay : stay \in EventStays(events, n + 1, tid) <=>
                   \/ stay \in EventStays(events, n, tid)
                   \/ /\ e.event_type = "OFF"
                      /\ \E i : /\ LastIn(i, S)
                                /\ events[i].event_type = "ON"
                                /\ stay = EventStay(events, tid, i, n + 1)
  <2> DEFINE m == n + 1
  <2>1. m = n + 1
    OBVIOUS
  <2> HIDE DEF m
  <2>2. events[m].tid = tid /\ events[m].event_type # "WAKEUP"
    BY <1>6, <2>1 DEF e
  <2>3. SwitchAdds(events, n, events, m, tid)
    BY <2>1, <2>2, SwitchAdded
  <2> QED
    BY <2>3 DEF e, m, SwitchAdds
<1>7. CASE e.tid = tid /\ e.event_type = "ON"
  <2>1. /\ Adds(s.rows, new.rows, tid, BeginRow(e, n))
        /\ new.on_time[tid] = n + 1
    <3>1. e.timestamp = n + 1 /\ n + 1 - 1 = n
      BY DEF e
    <3> QED
      BY <1>2, <1>7, <3>1 DEF OnTurn
  <2>2. BeginRow(e, n).ph = "B"
    BY DEF BeginRow
  <2>3. /\ Spans(new.rows, tid) = Spans(s.rows, tid)
        /\ Closed(s.rows, tid) => Closed(new.rows, tid)
        /\ \E m : LastIn(m, BeginEnd(new.rows, tid))
                  /\ new.rows[m] = BeginRow(e, n)
    BY <1>1, <2>1, <2>2, BeginAdded
  <2>4. BegunBy(new.rows, tid, events, n + 1)
    <3>1. n + 1 - 1 = n
      OBVIOUS
    <3> QED
      BY <2>3, <3>1 DEF BegunBy, e
  <2>5. EventStays(events, n + 1, tid) = EventStays(events, n, tid)
    BY <1>6, <1>7
  <2>6. Closed(new.rows, tid) /\ Spans(new.rows, tid) = EventStays(events, n + 1, tid)
    BY <2>3, <2>5 DEF Written
  <2>7. LastIn(n + 1, SwitchesOf(events, n + 1, tid)) /\ n + 1 # 0
    BY <1>6, <1>7
  <2> QED
    BY <1>2, <1>7, <2>1, <2>4, <2>6, <2>7 DEF Written, new, e
<1>8. CASE e.tid = tid /\ e.event_type = "OFF" /\ on = 0
  <2>1. QuietTurn(s, new, tid)
    BY <1>2, <1>8
  <2>2. EventStays(events, n + 1, tid) = EventStays(events, n, tid)
    BY <1>6, <1>8 DEF Written
  <2>3. \A i : LastIn(i, SwitchesOf(events, n + 1, tid)) =>
                  events[i].event_type # "ON"
    BY <1>6, <1>8 DEF e
  <2> QED
    BY <1>2, <1>4, <1>8, <2>1, <2>2, <2>3 DEF Written, new, e
<1>9. CASE e.tid = tid /\ e.event_type = "OFF" /\ on # 0
  <2> DEFINE r == [ph |-> "E", tid |-> tid, ts |-> n, dur |-> n + 1 - on]
  <2>1. Adds(s.rows, new.rows, tid, r) /\ new.on_time[tid] = 0
    <3>1. e.timestamp = n + 1 /\ n + 1 - 1 = n
      BY DEF e
    <3>2. e.timestamp - 1 = n /\ e.timestamp - on = n + 1 - on
      BY <1>1, <3>1
    <3> QED
      BY <1>2, <1>9, <3>2 DEF OffTurn
  <2>2. /\ LastIn(on, S) /\ events[on].event_type = "ON"
        /\ BegunBy(s.rows, tid, events, on)
    BY <1>9 DEF Written
  <2>3. PICK b : /\ LastIn(b, BeginEnd(s.rows, tid))
                 /\ s.rows[b] = BeginRow(events[on], on - 1)
    BY <2>2 DEF BegunBy
  <2>4. /\ s.rows[b].ph = "B" /\ s.rows[b].cpu = events[on].cpu
        /\ s.rows[b].ts = on - 1
    BY <2>3 DEF BeginRow
  <2>5. /\ r.ph = "E" /\ r.ts = n /\ r.ts + 1 = n + 1
        /\ r.dur = r.ts - s.rows[b].ts /\ s.rows[b].ts + 1 = on
    BY <1>1, <2>4
  <2> HIDE DEF r
  <2>6. /\ Spans(new.rows, tid) =
              Spans(s.rows, tid) \cup {[tid |-> tid, cpu |-> s.rows[b].cpu,
                                        from |-> s.rows[b].ts + 1,
                                        to |-> r.ts + 1]}
        /\ Closed(s.rows, tid) => Closed(new.rows, tid)
    BY <1>1, <2>1, <2>3, <2>4, <2>5, EndAdded
  <2>7. Spans(new.rows, tid) =
           EventStays(events, n, tid) \cup {EventStay(events, tid, on, n + 1)}
    BY <2>4, <2>5, <2>6 DEF Written, EventStay
  <2>8. \A i : LastIn(i, S) => i = on
    <3>1. S \in SUBSET Nat
      BY DEF SwitchesOf
    <3> QED
      BY <2>2, <3>1, LastIsOne
  <2>9. EventStays(events, n + 1, tid) =
           EventStays(events, n, tid) \cup {EventStay(events, tid, on, n + 1)}
    BY <1>6, <1>9, <2>2, <2>8
  <2>10. \A i : LastIn(i, SwitchesOf(events, n + 1, tid)) =>
                   events[i].event_type # "ON"
    BY <1>6, <1>9 DEF e
  <2>11. Closed(new.rows, tid)
    BY <2>6 DEF Written
  <2> QED
    BY <1>2, <2>1, <2>7, <2>9, <2>10, <2>11 DEF Written, new, e
<1> QED
  BY <1>3, <1>5, <1>7, <1>8, <1>9

(* The events of one run of the tracer, in the order of their timestamps.  *)
Traced(events) ==
    /\ events \in Seq(CpuEvent)
    /\ \A i \in 1 .. Len(events) : events[i].timestamp = i

LEMMA TracedTypes ==
  ASSUME NEW events, Traced(events)
  PROVE  /\ Len(events) \in Nat /\ DOMAIN events = 1 .. Len(events)
         /\ \A i \in 1 .. Len(events) :
               events[i] \in CpuEvent /\ events[i].timestamp = i
         /\ Len(events) = 0 => events = << >>
<1>1. events \in Seq(CpuEvent)
  BY DEF Traced
<1>2. events # << >> => Len(events) \in Nat \ {0}
  BY <1>1, EmptySeq
<1> QED
  BY <1>1, <1>2, LenProperties, ElementOfSeq DEF Traced

LEMMA LoopWritten ==
  ASSUME NEW events, Traced(events), NEW tid \in Tids
  PROVE  Written(Loop(events, 1)[Len(events)], events, Len(events), tid)
<1> DEFINE N == Len(events)
           after == Loop(events, 1)
           S == {n \in 0 .. N : Written(after[n], events, n, tid)}
<1>1. /\ after[0] = Start
      /\ \A n \in 1 .. N : after[n] = Turn(after[n - 1], events[n], 1)
  BY LoopIs, TracedTypes
<1>2. N \in Nat /\ \A i \in 1 .. N : events[i] \in CpuEvent /\ events[i].timestamp = i
  BY TracedTypes
<1> HIDE DEF N, after
<1>3. 0 \in S
  BY <1>1, <1>2, StartWritten
<1>4. ASSUME NEW n \in 0 .. N - 1, n \in S PROVE n + 1 \in S
  <2>1. n \in Nat /\ n + 1 \in 1 .. N /\ n + 1 \in 0 .. N /\ n + 1 - 1 = n /\ n + 1 # 0
    BY <1>2
  <2>2. after[n + 1] = Turn(after[n], events[n + 1], 1)
    <3> DEFINE m == n + 1
    <3>1. m \in 1 .. N /\ m - 1 = n
      BY <2>1
    <3> HIDE DEF m
    <3>2. after[m] = Turn(after[m - 1], events[m], 1)
      BY <1>1, <3>1
    <3>3. after[m] = Turn(after[n], events[m], 1)
      BY <3>1, <3>2
    <3> QED
      BY <3>3 DEF m
  <2>3. Written(after[n + 1], events, n + 1, tid)
    BY <1>2, <1>4, <2>1, <2>2, TurnWritten
  <2> QED
    BY <2>1, <2>3
<1>5. 0 .. N \subseteq S
  <2> HIDE DEF S
  <2> QED
    BY <1>2, <1>3, <1>4, InductionTo
<1> QED
  BY <1>2, <1>5 DEF N, after

(* What is drawn of the events of a run.                                   *)
LEMMA RowsDrawn ==
  ASSUME NEW events, Traced(events), NEW tid \in Tids
  PROVE  /\ Closed(ChromeRows(events), tid)
         /\ Spans(ChromeRows(events), tid) =
               EventStays(events, Len(events), tid)
<1>1. CASE events = << >>
  <2>1. Start.rows = << >> /\ Len(<< >>) = 0
    BY DEF Start
  <2> QED
    BY <1>1, <2>1, StartWritten DEF ChromeRows, Written
<1>2. CASE events # << >>
  <2> DEFINE stamps == {events[i].timestamp : i \in DOMAIN events}
             N == Len(events)
  <2>1. stamps = 1 .. N /\ N \in Nat
    BY TracedTypes
  <2>2. N # 0
    BY <1>2, TracedTypes
  <2>3. MinTimestamp(events) = 1
    <3> HIDE DEF stamps, N
    <3>1. MinTimestamp(events) =
             CHOOSE ts \in stamps : \A other \in stamps : ts <= other
      BY DEF MinTimestamp, stamps
    <3>2. 1 \in stamps /\ \A other \in stamps : 1 <= other /\ other \in Int
      BY <2>1, <2>2
    <3>3. \A ts \in stamps : (\A other \in stamps : ts <= other) => ts = 1
      <4> SUFFICES ASSUME NEW ts \in stamps, \A other \in stamps : ts <= other
                   PROVE  ts = 1
        OBVIOUS
      <4>1. ts <= 1 /\ 1 <= ts /\ ts \in Int
        BY <3>2
      <4> QED
        BY <4>1
    <3> QED
      BY <3>1, <3>2, <3>3
  <2>4. ChromeRows(events) = Loop(events, 1)[Len(events)].rows
    BY <1>2, <2>3 DEF ChromeRows
  <2> QED
    BY <2>4, LoopWritten DEF Written
<1> QED
  BY <1>1, <1>2
-----------------------------------------------------------------------------
(* The history and the trace *)

(* The history knows when the thread that runs came on its CPU just if its *)
(* ON event is the last of its switches.                                   *)
SinceOn ==
    \A cpu \in CPUs : since[cpu] # 0 /\ current[cpu] \in Threads =>
        /\ LastIn(since[cpu], Of(current[cpu]))
        /\ trace[since[cpu]].event_type = "ON"
        /\ trace[since[cpu]].cpu = cpu

OnSince ==
    \A t \in Threads : \A i \in Of(t) :
        LastIn(i, Of(t)) /\ trace[i].event_type = "ON" =>
            since[trace[i].cpu] = i

StaysOf(t) == {stay \in stays : stay.tid = t}

StaysTold ==
    \A t \in Threads : StaysOf(t) = EventStays(trace, Len(trace), t)

HistoryInv ==
    /\ since \in [CPUs -> Nat]
    /\ unread <= Len(trace)
    /\ ~dropped => SinceOn /\ OnSince /\ StaysTold

LEMMA SeqEvents ==
  ASSUME NEW events \in Seq(Event)
  PROVE  /\ Len(events) \in Nat /\ DOMAIN events = 1 .. Len(events)
         /\ \A i \in DOMAIN events : events[i] \in Event
BY ElementOfSeq, LenProperties

LEMMA OfSwitches ==
  ASSUME TypeOK
  PROVE  \A t : Of(t) = SwitchesOf(trace, Len(trace), t)
BY SeqEvents DEF TypeOK, Of, SwitchesOf

LEMMA OfSwitchesNext ==
  ASSUME trace' \in Seq(Event)
  PROVE  \A t : Of(t)' = SwitchesOf(trace', Len(trace'), t)
BY SeqEvents DEF Of, SwitchesOf

(* A switch in the trace is one of a wanted thread.                        *)
LEMMA OfWanted ==
  ASSUME Inv, NEW t \in Threads, NEW i \in Of(t)
  PROVE  /\ i \in Nat \ {0} /\ i \in DOMAIN trace
         /\ trace[i] \in Event /\ trace[i].cpu \in CPUs
         /\ Wanted(t)
<1>1. i \in DOMAIN trace /\ trace[i].tid = t
  BY DEF Of
<1>2. i \in Nat \ {0} /\ trace[i] \in Event
  BY <1>1, TraceType DEF Inv
<1> QED
  BY <1>1, <1>2 DEF Inv, Filtered, Wanted, Event

(* What is known of a thread that e is not a switch of.                    *)
LEMMA Untouched ==
  ASSUME TypeOK, NEW e \in Event, EmitIfWanted(e), ~dropped',
         NEW t \in Threads,
         t # e.tid \/ e.event_type = "WAKEUP" \/ ~Wanted(t)
  PROVE  /\ ~dropped
         /\ Of(t)' = Of(t)
         /\ \A i \in Of(t) : trace'[i] = trace[i]
         /\ EventStays(trace', Len(trace'), t) =
               EventStays(trace, Len(trace), t)
<1>1. /\ ~dropped
      /\ Of(t)' = Of(t)
      /\ \A i \in Of(t) : trace'[i] = trace[i]
  BY OfSame
<1>2. trace' \in Seq(Event)
  BY Emitted
<1>3. /\ SwitchesOf(trace', Len(trace'), t) = SwitchesOf(trace, Len(trace), t)
      /\ \A i \in SwitchesOf(trace, Len(trace), t) : trace'[i] = trace[i]
  BY <1>1, <1>2, OfSwitches, OfSwitchesNext
<1>4. EventStays(trace', Len(trace'), t) = EventStays(trace, Len(trace), t)
  BY <1>3, SameStays
<1> QED
  BY <1>1, <1>4

(* What is known of the thread that e is a switch of.                      *)
LEMMA Touched ==
  ASSUME TypeOK, NEW e \in Event, EmitIfWanted(e), ~dropped',
         e.event_type # "WAKEUP", Wanted(e.tid)
  PROVE  /\ ~dropped
         /\ Len(trace) \in Nat
         /\ Len(trace') = Len(trace) + 1
         /\ trace'[Len(trace')] = e
         /\ \A i : LastIn(i, Of(e.tid)') <=> i = Len(trace')
         /\ \A stay : stay \in EventStays(trace', Len(trace'), e.tid) <=>
               \/ stay \in EventStays(trace, Len(trace), e.tid)
               \/ /\ e.event_type = "OFF"
                  /\ \E i : /\ LastIn(i, Of(e.tid))
                            /\ trace[i].event_type = "ON"
                            /\ stay = EventStay(trace, e.tid, i, Len(trace'))
<1> DEFINE n == Len(trace)
           m == Len(trace')
<1>1. Submitted(e) /\ trace' \in Seq(Event)
  BY Emitted DEF Skipped
<1>2. ~dropped
  BY <1>1 DEF Submitted
<1>3. /\ n \in Nat /\ m = n + 1 /\ trace'[m] = e
      /\ \A i \in 1 .. n : trace'[i] = trace[i]
  BY <1>1, TraceType DEF Submitted
<1>4. trace'[m].tid = e.tid /\ trace'[m].event_type # "WAKEUP"
  BY <1>3
<1> HIDE DEF n, m
<1>5. SwitchAdds(trace, n, trace', m, e.tid)
  BY <1>3, <1>4, SwitchAdded
<1>6. /\ Of(e.tid) = SwitchesOf(trace, n, e.tid)
      /\ Of(e.tid)' = SwitchesOf(trace', m, e.tid)
  BY <1>1, OfSwitches, OfSwitchesNext DEF n, m
<1>7. \A i : LastIn(i, Of(e.tid)') <=> i = m
  <2>1. \A i : LastIn(i, SwitchesOf(trace', m, e.tid)) <=> i = m
    BY <1>5 DEF SwitchAdds
  <2> QED
    BY <1>6, <2>1
<1>8. \A stay : stay \in EventStays(trace', m, e.tid) <=>
         \/ stay \in EventStays(trace, n, e.tid)
         \/ /\ e.event_type = "OFF"
            /\ \E i : /\ LastIn(i, Of(e.tid))
                      /\ trace[i].event_type = "ON"
                      /\ stay = EventStay(trace, e.tid, i, m)
  BY <1>3, <1>5, <1>6 DEF SwitchAdds
<1> QED
  BY <1>2, <1>3, <1>7, <1>8 DEF n, m

LEMMA UnreadStep ==
  ASSUME TypeOK, unread <= Len(trace), NEW e \in Event, EmitIfWanted(e)
  PROVE  unread' <= Len(trace')
<1>1. unread \in Nat /\ Len(trace) \in Nat /\ trace \in Seq(Event)
  BY TraceType, SchedAssumption DEF TypeOK
<1>2. \/ trace' = Append(trace, e) /\ unread' = unread + 1
      \/ trace' = trace /\ unread' = unread
  BY DEF EmitIfWanted, Submit
<1> QED
  BY <1>1, <1>2, AppendProperties

(* Who is on one CPU is on no other.                                       *)
LEMMA OnlyThere ==
  ASSUME Inv, NEW c \in CPUs, NEW d \in CPUs, NEW t \in Threads,
         Has(c, t), Has(d, t)
  PROVE  c = d
BY DEF Inv, Exclusive

(* The last switch of t is an ON event: it runs there.                     *)
LEMMA OnRuns ==
  ASSUME Inv, ~dropped, NEW t \in Threads, NEW i \in Of(t),
         LastIn(i, Of(t)), trace[i].event_type = "ON"
  PROVE  current[trace[i].cpu] = t /\ picked[trace[i].cpu] = t
BY DEF Inv, TraceTellsState, LastIn, Running

-----------------------------------------------------------------------------
(* The steps keep the history *)

(* After a loss the history is empty, and nothing is said of it.           *)
LEMMA HistoryLost ==
  ASSUME dropped', since' = NoHistory, unread' <= Len(trace')
  PROVE  HistoryInv'
BY DEF HistoryInv, NoHistory

LEMMA HistoryOff ==
  ASSUME Inv, HistoryInv, NEW cpu \in CPUs, Off(cpu)
  PROVE  HistoryInv'
<1> DEFINE e == OffEvent(cpu)
           u == current[cpu]
<1>1. TypeOK /\ Exclusive /\ SwitchOff(cpu)
  BY DEF Inv, Off
<1>2. /\ e \in Event /\ EmitIfWanted(e) /\ current' = current
      /\ e.event_type = "OFF" /\ e.tid = u /\ e.cpu = cpu
      /\ current \in [CPUs -> Tids]
  BY <1>1, SwitchOffEffect, EventTypes DEF OffEvent, TypeOK
<1>3. unread' <= Len(trace')
  BY <1>1, <1>2, UnreadStep DEF HistoryInv
<1>4. KeepHistory([since EXCEPT ![cpu] = 0],
                  IF since[cpu] = 0 THEN stays ELSE stays \cup {StayUntilNow(cpu)})
  BY DEF Off
<1>5. CASE dropped'
  BY <1>3, <1>4, <1>5, HistoryLost DEF KeepHistory
<1>6. CASE ~dropped'
  <2>1. /\ since' = [since EXCEPT ![cpu] = 0]
        /\ stays' = IF since[cpu] = 0 THEN stays
                    ELSE stays \cup {StayUntilNow(cpu)}
    BY <1>4, <1>6 DEF KeepHistory
  <2>2. ~dropped
    BY <1>1, <1>2, <1>6, Emitted DEF Submitted, Skipped
  <2>3. since \in [CPUs -> Nat] /\ SinceOn /\ OnSince /\ StaysTold
    BY <2>2 DEF HistoryInv
  <2>4. ASSUME NEW t \in Threads, t # u \/ ~Wanted(t)
        PROVE  /\ Of(t)' = Of(t)
               /\ \A i \in Of(t) : trace'[i] = trace[i]
               /\ EventStays(trace', Len(trace'), t) =
                     EventStays(trace, Len(trace), t)
    BY <1>1, <1>2, <1>6, <2>4, Untouched
  <2>5. SinceOn'
    <3> SUFFICES ASSUME NEW c \in CPUs, NEW t \in Threads,
                        since'[c] # 0, current'[c] = t
                 PROVE  /\ LastIn(since'[c], Of(t)')
                        /\ trace'[since'[c]].event_type = "ON"
                        /\ trace'[since'[c]].cpu = c
      BY DEF SinceOn
    <3>1. c # cpu /\ since'[c] = since[c] /\ current[c] = t
      BY <1>2, <2>1, <2>3
    <3>2. t # u
      BY <1>2, <3>1, OnlyThere DEF Has
    <3>3. /\ LastIn(since[c], Of(t))
          /\ trace[since[c]].event_type = "ON" /\ trace[since[c]].cpu = c
      BY <2>3, <3>1 DEF SinceOn
    <3>4. since[c] \in Of(t)
      BY <3>3 DEF LastIn
    <3> QED
      BY <2>4, <3>1, <3>2, <3>3, <3>4
  <2>6. OnSince'
    <3> SUFFICES ASSUME NEW t \in Threads, NEW i \in Of(t)', LastIn(i, Of(t)'),
                        trace'[i].event_type = "ON"
                 PROVE  since'[trace'[i].cpu] = i
      BY DEF OnSince
    <3>1. ~(t = u /\ Wanted(t))
      <4> SUFFICES ASSUME t = u, Wanted(t) PROVE FALSE
        OBVIOUS
      <4>1. i = Len(trace') /\ trace'[Len(trace')] = e
        BY <1>1, <1>2, <1>6, Touched
      <4> QED
        BY <1>2, <4>1
    <3>2. /\ i \in Of(t) /\ LastIn(i, Of(t)) /\ trace'[i] = trace[i]
      BY <2>4, <3>1
    <3>3. Wanted(t) /\ trace[i].cpu \in CPUs
      BY <3>2, OfWanted
    <3>4. t # u
      BY <3>1, <3>3
    <3>5. since[trace[i].cpu] = i /\ current[trace[i].cpu] = t
      BY <2>2, <2>3, <3>2, OnRuns DEF OnSince
    <3>6. trace[i].cpu # cpu
      BY <3>4, <3>5
    <3> QED
      BY <2>1, <2>3, <3>2, <3>3, <3>5, <3>6
  <2>7. StaysTold'
    <3> SUFFICES ASSUME NEW t \in Threads
                 PROVE  StaysOf(t)' = EventStays(trace', Len(trace'), t)
      BY DEF StaysTold
    <3>1. StaysOf(t) = EventStays(trace, Len(trace), t)
      BY <2>3 DEF StaysTold
    <3>2. StayUntilNow(cpu) = [tid |-> u, cpu |-> cpu, from |-> since[cpu],
                               to |-> Len(trace')]
      BY DEF StayUntilNow
    <3>3. CASE t # u
      <4>1. StaysOf(t)' = StaysOf(t)
        BY <2>1, <3>2, <3>3 DEF StaysOf
      <4> QED
        BY <2>4, <3>1, <3>3, <4>1
    <3>4. t = u /\ since[cpu] # 0 =>
             /\ LastIn(since[cpu], Of(t))
             /\ trace[since[cpu]].event_type = "ON"
             /\ trace[since[cpu]].cpu = cpu
             /\ Wanted(t)
      BY <2>3, OfWanted DEF SinceOn, LastIn
    <3>5. CASE t = u /\ ~Wanted(t)
      <4>1. since[cpu] = 0
        BY <3>4, <3>5
      <4>2. StaysOf(t)' = StaysOf(t)
        BY <2>1, <4>1 DEF StaysOf
      <4> QED
        BY <2>4, <3>1, <3>5, <4>2
    <3>6. CASE t = u /\ Wanted(t)
      <4> DEFINE m == Len(trace')
      <4>1. \A stay : stay \in EventStays(trace', m, t) <=>
               \/ stay \in EventStays(trace, Len(trace), t)
               \/ \E i : /\ LastIn(i, Of(t))
                         /\ trace[i].event_type = "ON"
                         /\ stay = EventStay(trace, t, i, m)
        BY <1>1, <1>2, <1>6, <3>6, Touched
      <4> HIDE DEF m
      <4>2. ASSUME NEW i, LastIn(i, Of(t)), trace[i].event_type = "ON"
            PROVE  i = since[cpu] /\ i # 0
        <5>1. i \in Of(t)
          BY <4>2 DEF LastIn
        <5>2. i # 0 /\ trace[i].cpu \in CPUs
          BY <5>1, OfWanted
        <5>3. since[trace[i].cpu] = i /\ current[trace[i].cpu] = t
          BY <2>2, <2>3, <4>2, <5>1, OnRuns DEF OnSince
        <5>4. trace[i].cpu = cpu
          BY <3>6, <5>2, <5>3, OnlyThere DEF Has
        <5> QED
          BY <5>2, <5>3, <5>4
      <4>3. CASE since[cpu] = 0
        <5>1. StaysOf(t)' = StaysOf(t)
          BY <2>1, <4>3 DEF StaysOf
        <5>2. EventStays(trace', m, t) = EventStays(trace, Len(trace), t)
          BY <4>1, <4>2, <4>3
        <5> QED
          BY <3>1, <5>1, <5>2 DEF m
      <4>4. CASE since[cpu] # 0
        <5>1. EventStay(trace, t, since[cpu], m) = StayUntilNow(cpu)
          BY <3>2, <3>4, <3>6, <4>4 DEF EventStay, m
        <5>2. EventStays(trace', m, t) =
                 EventStays(trace, Len(trace), t) \cup {StayUntilNow(cpu)}
          BY <3>4, <3>6, <4>1, <4>2, <4>4, <5>1
        <5>3. StaysOf(t)' = StaysOf(t) \cup {StayUntilNow(cpu)}
          <6>1. StayUntilNow(cpu).tid = t
            BY <3>2, <3>6
          <6>2. stays' = stays \cup {StayUntilNow(cpu)}
            BY <2>1, <4>4
          <6> QED
            BY <6>1, <6>2 DEF StaysOf
        <5> QED
          BY <3>1, <5>2, <5>3 DEF m
      <4> QED
        BY <4>3, <4>4
    <3> QED
      BY <3>3, <3>5, <3>6
  <2>8. since' \in [CPUs -> Nat]
    BY <2>1, <2>3
  <2> QED
    BY <1>3, <2>5, <2>6, <2>7, <2>8 DEF HistoryInv
<1> QED
  BY <1>5, <1>6

LEMMA HistoryOn ==
  ASSUME Inv, HistoryInv, NEW cpu \in CPUs, On(cpu)
  PROVE  HistoryInv'
<1> DEFINE e == OnEvent(cpu)
           u == picked[cpu]
<1>1. TypeOK /\ Exclusive /\ SwitchOn(cpu)
  BY DEF Inv, On
<1>2. /\ e \in Event /\ EmitIfWanted(e)
      /\ current' = [current EXCEPT ![cpu] = u] /\ u # current[cpu]
      /\ e.event_type = "ON" /\ e.tid = u /\ e.cpu = cpu
      /\ current \in [CPUs -> Tids]
  BY <1>1, SwitchOnEffect, EventTypes DEF OnEvent, TypeOK, SwitchOn
<1>3. unread' <= Len(trace')
  BY <1>1, <1>2, UnreadStep DEF HistoryInv
<1>4. KeepHistory([since EXCEPT ![cpu] = IF Wanted(u) THEN Len(trace') ELSE 0],
                  stays)
  BY DEF On
<1>5. CASE dropped'
  BY <1>3, <1>4, <1>5, HistoryLost DEF KeepHistory
<1>6. CASE ~dropped'
  <2>1. /\ since' = [since EXCEPT ![cpu] = IF Wanted(u) THEN Len(trace') ELSE 0]
        /\ stays' = stays
    BY <1>4, <1>6 DEF KeepHistory
  <2>2. ~dropped
    BY <1>1, <1>2, <1>6, Emitted DEF Submitted, Skipped
  <2>3. since \in [CPUs -> Nat] /\ SinceOn /\ OnSince /\ StaysTold
    BY <2>2 DEF HistoryInv
  <2>4. ASSUME NEW t \in Threads, t # u \/ ~Wanted(t)
        PROVE  /\ Of(t)' = Of(t)
               /\ \A i \in Of(t) : trace'[i] = trace[i]
               /\ EventStays(trace', Len(trace'), t) =
                     EventStays(trace, Len(trace), t)
    BY <1>1, <1>2, <1>6, <2>4, Untouched
  <2>5. ASSUME NEW t \in Threads, t = u, Wanted(t)
        PROVE  /\ trace'[Len(trace')] = e
               /\ \A i : LastIn(i, Of(t)') <=> i = Len(trace')
               /\ EventStays(trace', Len(trace'), t) =
                     EventStays(trace, Len(trace), t)
    <3>1. /\ trace'[Len(trace')] = e
          /\ \A i : LastIn(i, Of(t)') <=> i = Len(trace')
      BY <1>1, <1>2, <1>6, <2>5, Touched
    <3>2. \A stay : stay \in EventStays(trace', Len(trace'), t) <=>
                       stay \in EventStays(trace, Len(trace), t)
      BY <1>1, <1>2, <1>6, <2>5, Touched
    <3> QED
      BY <3>1, <3>2
  <2>6. SinceOn'
    <3> SUFFICES ASSUME NEW c \in CPUs, NEW t \in Threads,
                        since'[c] # 0, current'[c] = t
                 PROVE  /\ LastIn(since'[c], Of(t)')
                        /\ trace'[since'[c]].event_type = "ON"
                        /\ trace'[since'[c]].cpu = c
      BY DEF SinceOn
    <3>1. CASE c = cpu
      <4>1. t = u /\ Wanted(t) /\ since'[c] = Len(trace')
        BY <1>2, <2>1, <2>3, <3>1
      <4> QED
        BY <1>2, <2>5, <3>1, <4>1
    <3>2. CASE c # cpu
      <4>1. since'[c] = since[c] /\ current[c] = t
        BY <1>2, <2>1, <2>3, <3>2
      <4>2. t # u
        BY <1>2, <3>2, <4>1, OnlyThere DEF Has
      <4>3. /\ LastIn(since[c], Of(t)) /\ since[c] \in Of(t)
            /\ trace[since[c]].event_type = "ON" /\ trace[since[c]].cpu = c
        BY <2>3, <4>1 DEF SinceOn, LastIn
      <4> QED
        BY <2>4, <4>1, <4>2, <4>3
    <3> QED
      BY <3>1, <3>2
  <2>7. OnSince'
    <3> SUFFICES ASSUME NEW t \in Threads, NEW i \in Of(t)', LastIn(i, Of(t)'),
                        trace'[i].event_type = "ON"
                 PROVE  since'[trace'[i].cpu] = i
      BY DEF OnSince
    <3>1. CASE t = u /\ Wanted(t)
      <4>1. i = Len(trace') /\ trace'[i].cpu = cpu
        BY <1>2, <2>5, <3>1
      <4> QED
        BY <2>1, <2>3, <3>1, <4>1
    <3>2. CASE ~(t = u /\ Wanted(t))
      <4>1. /\ i \in Of(t) /\ LastIn(i, Of(t)) /\ trace'[i] = trace[i]
        BY <2>4, <3>2
      <4>2. Wanted(t) /\ trace[i].cpu \in CPUs
        BY <4>1, OfWanted
      <4>3. t # u
        BY <3>2, <4>2
      <4>4. since[trace[i].cpu] = i /\ picked[trace[i].cpu] = t
        BY <2>2, <2>3, <4>1, OnRuns DEF OnSince
      <4>5. trace[i].cpu # cpu
        BY <4>3, <4>4
      <4> QED
        BY <2>1, <2>3, <4>1, <4>2, <4>4, <4>5
    <3> QED
      BY <3>1, <3>2
  <2>8. StaysTold'
    <3> SUFFICES ASSUME NEW t \in Threads
                 PROVE  StaysOf(t)' = EventStays(trace', Len(trace'), t)
      BY DEF StaysTold
    <3>1. StaysOf(t)' = EventStays(trace, Len(trace), t)
      BY <2>1, <2>3 DEF StaysTold, StaysOf
    <3> QED
      BY <2>4, <2>5, <3>1
  <2>9. since' \in [CPUs -> Nat]
    <3>1. Len(trace') \in Nat
      BY <1>1, <1>2, Emitted, SeqEvents
    <3> QED
      BY <2>1, <2>3, <3>1
  <2> QED
    BY <1>3, <2>6, <2>7, <2>8, <2>9 DEF HistoryInv
<1> QED
  BY <1>5, <1>6

LEMMA HistoryWakeup ==
  ASSUME Inv, HistoryInv, NEW w \in Threads, NEW cpu \in CPUs, Wakeup(w, cpu),
         KeepHistory(since, stays)
  PROVE  HistoryInv'
<1> DEFINE e == [event_type |-> "WAKEUP", tid |-> w, cpu |-> cpu,
                 stack_id |-> NoStack]
<1>1. TypeOK /\ EmitIfWanted(e) /\ current' = current
  BY DEF Wakeup, Inv
<1>2. e \in Event /\ e.event_type = "WAKEUP"
  BY DEF Event, Types, Tids
<1>3. unread' <= Len(trace')
  BY <1>1, <1>2, UnreadStep DEF HistoryInv
<1>4. CASE dropped'
  BY <1>3, <1>4, HistoryLost DEF KeepHistory
<1>5. CASE ~dropped'
  <2>1. since' = since /\ stays' = stays
    BY <1>5 DEF KeepHistory
  <2>2. ~dropped
    BY <1>1, <1>2, <1>5, Emitted DEF Submitted, Skipped
  <2>3. since \in [CPUs -> Nat] /\ SinceOn /\ OnSince /\ StaysTold
    BY <2>2 DEF HistoryInv
  <2>4. ASSUME NEW t \in Threads
        PROVE  /\ Of(t)' = Of(t)
               /\ \A i \in Of(t) : trace'[i] = trace[i]
               /\ EventStays(trace', Len(trace'), t) =
                     EventStays(trace, Len(trace), t)
    BY <1>1, <1>2, <1>5, Untouched
  <2>5. SinceOn'
    <3> SUFFICES ASSUME NEW c \in CPUs, NEW t \in Threads,
                        since[c] # 0, current[c] = t
                 PROVE  /\ LastIn(since[c], Of(t)')
                        /\ trace'[since[c]].event_type = "ON"
                        /\ trace'[since[c]].cpu = c
      BY <1>1, <2>1 DEF SinceOn
    <3>1. /\ LastIn(since[c], Of(t)) /\ since[c] \in Of(t)
          /\ trace[since[c]].event_type = "ON" /\ trace[since[c]].cpu = c
      BY <2>3 DEF SinceOn, LastIn
    <3> QED
      BY <2>4, <3>1
  <2>6. OnSince'
    <3> SUFFICES ASSUME NEW t \in Threads, NEW i \in Of(t)', LastIn(i, Of(t)'),
                        trace'[i].event_type = "ON"
                 PROVE  since[trace'[i].cpu] = i
      BY <2>1 DEF OnSince
    <3> QED
      BY <2>3, <2>4 DEF OnSince
  <2>7. StaysTold'
    <3> SUFFICES ASSUME NEW t \in Threads
                 PROVE  StaysOf(t)' = EventStays(trace', Len(trace'), t)
      BY DEF StaysTold
    <3>1. StaysOf(t)' = EventStays(trace, Len(trace), t)
      BY <2>1, <2>3 DEF StaysTold, StaysOf
    <3> QED
      BY <2>4, <3>1
  <2> QED
    BY <1>3, <2>1, <2>3, <2>5, <2>6, <2>7 DEF HistoryInv
<1> QED
  BY <1>4, <1>5

LEMMA HistoryQuiet ==
  ASSUME Inv, HistoryInv,
         (Read /\ KeepHistory(since, stays)) \/ UNCHANGED timeline_vars
  PROVE  HistoryInv'
<1>1. /\ current' = current /\ trace' = trace /\ dropped' = dropped
      /\ unread' <= Len(trace')
  <2>1. unread \in Int /\ Len(trace) \in Int /\ unread <= Len(trace)
    BY TraceType, SchedAssumption DEF HistoryInv, Inv, TypeOK
  <2>2. CASE Read
    BY <2>1, <2>2 DEF Read
  <2>3. CASE UNCHANGED timeline_vars
    BY <2>1, <2>3 DEF timeline_vars, vars
  <2> QED
    BY <2>2, <2>3
<1>2. CASE dropped'
  <2>1. since' = NoHistory \/ since' = since
    BY <1>2 DEF KeepHistory, timeline_vars
  <2>2. since' \in [CPUs -> Nat]
    BY <2>1 DEF NoHistory, HistoryInv
  <2> QED
    BY <1>1, <1>2, <2>2 DEF HistoryInv
<1>3. CASE ~dropped'
  <2>1. since' = since /\ stays' = stays
    BY <1>3 DEF KeepHistory, timeline_vars
  <2> QED
    BY <1>1, <1>3, <2>1
       DEF HistoryInv, SinceOn, OnSince, StaysTold, StaysOf, Of
<1> QED
  BY <1>2, <1>3

LEMMA HistoryInit == TimelineInit => HistoryInv
<1> SUFFICES ASSUME TimelineInit
             PROVE  HistoryInv
  OBVIOUS
<1>1. /\ trace = << >> /\ unread = 0 /\ since = [cpu \in CPUs |-> 0]
      /\ stays = {}
  BY DEF TimelineInit, Init, NoHistory
<1>2. Len(trace) = 0
  BY <1>1
<1>3. since \in [CPUs -> Nat] /\ unread <= Len(trace)
  BY <1>1, <1>2
<1>4. \A t : Of(t) = {} /\ SwitchesOf(trace, Len(trace), t) = {}
  <2>1. \A i \in 1 .. 0 : FALSE
    OBVIOUS
  <2> QED
    BY <1>1, <1>2, <2>1 DEF Of, SwitchesOf
<1>5. \A t : EventStays(trace, Len(trace), t) = {}
  <2>1. Consecutive({}) = {}
    BY DEF Consecutive
  <2> QED
    BY <1>4, <2>1 DEF EventStays
<1>6. SinceOn /\ OnSince /\ StaysTold
  BY <1>1, <1>4, <1>5 DEF SinceOn, OnSince, StaysTold, StaysOf
<1> QED
  BY <1>3, <1>6 DEF HistoryInv

LEMMA HistoryStep ==
  ASSUME Inv, HistoryInv, [TimelineNext]_timeline_vars
  PROVE  Inv' /\ HistoryInv'
<1>1. [Next]_vars
  BY DEF TimelineNext, timeline_vars, Next, On, Off
<1>2. Inv'
  BY <1>1, InvStep
<1>3. HistoryInv'
  BY HistoryOff, HistoryOn, HistoryWakeup, HistoryQuiet DEF TimelineNext
<1> QED
  BY <1>2, <1>3

-----------------------------------------------------------------------------
(* The theorems *)

(* What the theorems below rest on: the invariant of the scheduler tracer  *)
(* (Inv), and that the history of stays is what the events of the trace    *)
(* say until one is dropped (HistoryInv).                                  *)
THEOREM TimelineInvariance == TimelineSpec => [](Inv /\ HistoryInv)
<1>1. TimelineInit => Inv /\ HistoryInv
  BY InvInit, HistoryInit DEF TimelineInit
<1>2. Inv /\ HistoryInv /\ [TimelineNext]_timeline_vars => (Inv /\ HistoryInv)'
  BY HistoryStep
<1> QED
  BY <1>1, <1>2, PTL DEF TimelineSpec

LEMMA CollectedTraced ==
  ASSUME Inv, HistoryInv
  PROVE  /\ Traced(Collected)
         /\ Len(Collected) = Len(trace) - unread
<1> DEFINE n == Len(trace) - unread
<1>1. /\ n \in Nat /\ n <= Len(trace) /\ DOMAIN trace = 1 .. Len(trace)
      /\ Len(trace) \in Nat
      /\ \A i \in DOMAIN trace : trace[i] \in Event
  <2>1. unread \in Nat /\ Len(trace) \in Nat /\ unread <= Len(trace)
    BY TraceType, SchedAssumption DEF HistoryInv, Inv, TypeOK
  <2> QED
    BY <2>1, TraceType DEF Inv
<1>2. ASSUME NEW i \in 1 .. n
      PROVE  /\ Collected[i] \in CpuEvent
             /\ Collected[i].timestamp = i
  <2>1. trace[i] \in Event
    BY <1>1
  <2>2. Collected[i] = [event_type |-> trace[i].event_type, tid |-> trace[i].tid,
                        cpu |-> trace[i].cpu, timestamp |-> i]
    BY DEF Collected
  <2>3. i \in Nat \ {0}
    BY <1>1
  <2> QED
    BY <2>1, <2>2, <2>3 DEF CpuEvent, Event
<1>3. DOMAIN Collected = 1 .. n
  BY DEF Collected
<1> HIDE DEF n
<1>4. Collected \in Seq(CpuEvent)
  <2>1. Collected = [i \in 1 .. n |-> Collected[i]]
    BY <1>3 DEF Collected, n
  <2>2. Collected \in [1 .. n -> CpuEvent]
    BY <1>2, <2>1
  <2> QED
    BY <1>1, <2>2
<1>5. Len(Collected) = n
  <2>1. DOMAIN Collected = 1 .. Len(Collected) /\ Len(Collected) \in Nat
    BY <1>4, LenProperties
  <2> QED
    BY <1>1, <1>3, <2>1
<1> QED
  BY <1>2, <1>4, <1>5 DEF Traced, n

(* However many events were lost, and whichever part of the trace has been *)
(* read: every End row that output_chrome_tracing_json writes closes a     *)
(* Begin row of its thread, the last one, and states the time since then.  *)
THEOREM EndsClose == TimelineSpec => []EndsCloseBegins
<1>1. Inv /\ HistoryInv => EndsCloseBegins
  <2> SUFFICES ASSUME Inv, HistoryInv, NEW tid \in Tids
               PROVE  Closed(ChromeRows(Collected), tid)
    BY DEF EndsCloseBegins, Closed
  <2> QED
    BY CollectedTraced, RowsDrawn
<1> QED
  BY <1>1, TimelineInvariance, PTL

(* Until an event is dropped, the spans that the whole trace draws for a   *)
(* thread are its stays on a CPU since the tracer was attached, none more  *)
(* and none less, each with its CPU and its times.                         *)
THEOREM SpansTellStays == TimelineSpec => []SpansAreStays
<1>1. Inv /\ HistoryInv => SpansAreStays
  <2> SUFFICES ASSUME Inv, HistoryInv, ~dropped, unread = 0,
                      NEW t \in Threads
               PROVE  Spans(ChromeRows(Collected), t) = StaysOf(t)
    BY DEF SpansAreStays, StaysOf
  <2>1. Len(Collected) = Len(trace) /\ Len(trace) \in Nat
    BY CollectedTraced, TraceType DEF Inv
  <2>2. t \in Tids
    BY DEF Tids
  <2>3. Spans(ChromeRows(Collected), t) =
           EventStays(Collected, Len(trace), t)
    BY <2>1, <2>2, CollectedTraced, RowsDrawn
  <2>4. \A i \in 1 .. Len(trace) :
           /\ Collected[i].event_type = trace[i].event_type
           /\ Collected[i].tid = trace[i].tid
           /\ Collected[i].cpu = trace[i].cpu
    BY <2>1 DEF Collected
  <2>5. /\ SwitchesOf(Collected, Len(trace), t) =
              SwitchesOf(trace, Len(trace), t)
        /\ \A i \in SwitchesOf(trace, Len(trace), t) :
              /\ Collected[i].event_type = trace[i].event_type
              /\ Collected[i].cpu = trace[i].cpu
    BY <2>4 DEF SwitchesOf
  <2>6. EventStays(Collected, Len(trace), t) = EventStays(trace, Len(trace), t)
    BY <2>5, SameStays
  <2>7. EventStays(trace, Len(trace), t) = StaysOf(t)
    BY DEF HistoryInv, StaysTold
  <2> QED
    BY <2>3, <2>6, <2>7
<1> QED
  BY <1>1, TimelineInvariance, PTL
=============================================================================
