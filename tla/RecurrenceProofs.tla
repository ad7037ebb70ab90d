--------------------------- MODULE RecurrenceProofs ---------------------------
(***************************************************************************)
(* Recurrence keeps a series without gaps and never ahead of its time, for *)
(* every set of series, interval, clock bound and number of copies.        *)
(***************************************************************************)
EXTENDS Recurrence, TLAPS

\* What the two properties rest on: a row's date is its own due date or the
\* next, and the job only holds rows whose date has come.
DateIsNear == \A i \in DOMAIN bills : bills[i].next \in {i.due, NextDue(i)}
TodoIsDue == \A i \in todo : bills[i].next <= now

RecInv == RecTypeOK /\ DateIsNear /\ TodoIsDue /\ NeverAhead /\ NoPeriodSkipped

\* An INSERT makes a new row of the series and date asked for; when it makes
\* none, there is one already.
LEMMA InsertedRow ==
    ASSUME NEW s \in Series, NEW d \in Nat
    PROVE  /\ Inserted(s, d) \subseteq RowId
           /\ \A k \in Inserted(s, d) : k.of = s /\ k.due = d /\ k \notin DOMAIN bills
           /\ Inserted(s, d) = {} => DueOn(s, d) # {}
<1> DEFINE free == {c \in 1..Copies : BillOn(s, d, c) \notin DOMAIN bills}
<1>1. CASE free = {}
  <2>1. 1 \in 1..Copies
    BY RecurrenceAssumption
  <2>2. BillOn(s, d, 1) \in DueOn(s, d)
    BY <1>1, <2>1 DEF DueOn, BillOn
  <2> QED
    BY <1>1, <2>2 DEF Inserted
<1>2. CASE free # {}
  <2> DEFINE c == CHOOSE x \in free : TRUE
  <2>1. c \in free
    BY <1>2
  <2>2. Inserted(s, d) = {BillOn(s, d, c)}
    BY <1>2 DEF Inserted
  <2> HIDE DEF c
  <2>3. c \in 1..Copies /\ BillOn(s, d, c) \notin DOMAIN bills
    BY <2>1
  <2>4. BillOn(s, d, c) \in RowId
    BY <2>3 DEF BillOn, RowId
  <2>5. BillOn(s, d, c).of = s /\ BillOn(s, d, c).due = d
    BY DEF BillOn
  <2>6. Inserted(s, d) # {}
    BY <2>2
  <2> QED
    BY <2>2, <2>3, <2>4, <2>5, <2>6
<1> QED
  BY <1>1, <1>2

\* The first state has no bills.
LEMMA RecInitInv == RecInit => RecInv
BY DEF RecInit, RecInv, RecTypeOK, DateIsNear, TodoIsDue, NeverAhead, NoPeriodSkipped

\* The first bill of a series follows none.
LEMMA CreateInv ==
    ASSUME RecInv, NEW s \in Series, NEW due \in 0..Horizon, CreateScheduledBill(s, due)
    PROVE  RecInv'
<1> DEFINE first == Inserted(s, due)
<1>1. /\ first \subseteq RowId
      /\ \A k \in first : k.of = s /\ k.due = due /\ k \notin DOMAIN bills
  <2>1. due \in Nat
    BY RecurrenceAssumption
  <2> QED
    BY <2>1, InsertedRow
<1>2. /\ DOMAIN bills' = DOMAIN bills \cup first
      /\ \A i \in DOMAIN bills : i \notin first /\ bills'[i] = bills[i]
      /\ \A i \in first : bills'[i] = Scheduled(i)
      /\ \A i \in DOMAIN bills : i.of # s
      /\ bills' = [i \in DOMAIN bills' |-> bills'[i]]
      /\ now' = now /\ todo' = todo
  BY <1>1 DEF CreateScheduledBill
<1>3. RecTypeOK'
  <2>1. \A i \in first : Scheduled(i) \in RecRow
    BY <1>1 DEF Scheduled, RecRow, RecStatus, RowId
  <2>2. \A i \in DOMAIN bills : bills[i] \in RecRow
    BY DEF RecInv, RecTypeOK
  <2>3. \A i \in DOMAIN bills' : bills'[i] \in RecRow
    BY <1>2, <2>1, <2>2
  <2> QED
    BY <1>1, <1>2, <2>3 DEF RecInv, RecTypeOK
<1>4. DateIsNear' /\ TodoIsDue'
  BY <1>2 DEF RecInv, RecTypeOK, DateIsNear, TodoIsDue, Scheduled, NextDue
<1>5. \A i, j \in DOMAIN bills' :
          Follows(i, j) => i \in DOMAIN bills /\ j \in DOMAIN bills
  <2> SUFFICES ASSUME NEW i \in DOMAIN bills', NEW j \in DOMAIN bills', Follows(i, j)
               PROVE  i \in DOMAIN bills /\ j \in DOMAIN bills
    OBVIOUS
  <2>1. i.of = j.of /\ j.due < i.due
    BY DEF Follows
  <2>2. CASE i \in first /\ j \in first
    BY <1>1, <2>1, <2>2 DEF RowId
  <2> QED
    BY <1>1, <1>2, <2>1, <2>2
<1>6. NeverAhead'
  BY <1>2, <1>5 DEF RecInv, NeverAhead
<1>7. \A t, d : DueOn(t, d) # {} => DueOn(t, d)' # {}
  BY <1>2 DEF DueOn
<1>8. NoPeriodSkipped'
  BY <1>2, <1>5, <1>7 DEF RecInv, NoPeriodSkipped, Scheduled
<1> QED
  BY <1>3, <1>4, <1>6, <1>8 DEF RecInv

\* A spawned bill is one period after a row whose own date has come, so it is
\* neither early nor without a predecessor.
LEMMA SpawnInv ==
    ASSUME RecInv, NEW i \in todo, SpawnNext(i)
    PROVE  RecInv'
<1> DEFINE next == Inserted(i.of, NextDue(i))
<1>1. i \in DOMAIN bills /\ i \in RowId /\ NextDue(i) \in Nat /\ Interval[i.of] \in Nat \ {0}
      /\ i.due \in Nat /\ i.of \in Series
  BY RecurrenceAssumption DEF RecInv, RecTypeOK, RowId, NextDue
<1>2. /\ next \subseteq RowId
      /\ \A k \in next : k.of = i.of /\ k.due = NextDue(i) /\ k \notin DOMAIN bills
      /\ next = {} => DueOn(i.of, NextDue(i)) # {}
  BY <1>1, InsertedRow
<1>3. /\ DOMAIN bills' = DOMAIN bills \cup next
      /\ \A j \in next : bills'[j] = Scheduled(j)
      /\ \A j \in DOMAIN bills : j # i => bills'[j] = bills[j]
      /\ bills'[i] = [bills[i] EXCEPT !.next = NextDue(i)]
      /\ bills' = [j \in DOMAIN bills' |-> bills'[j]]
      /\ now' = now /\ todo' = todo \ {i}
  BY <1>1, <1>2 DEF SpawnNext, SpawnWith
<1>4. RecTypeOK'
  <2>1. \A j \in next : Scheduled(j) \in RecRow
    BY <1>2 DEF Scheduled, RecRow, RecStatus, RowId
  <2>2. \A j \in DOMAIN bills : bills[j] \in RecRow
    BY DEF RecInv, RecTypeOK
  <2>3. [bills[i] EXCEPT !.next = NextDue(i)] \in RecRow
    BY <1>1, <2>2 DEF RecRow
  <2>4. \A j \in DOMAIN bills' : bills'[j] \in RecRow
    BY <1>3, <2>1, <2>2, <2>3
  <2> QED
    BY <1>2, <1>3, <2>4 DEF RecInv, RecTypeOK
<1>5. bills'[i].next = NextDue(i)
  BY <1>1, <1>3 DEF RecInv, RecTypeOK, RecRow
<1>6. DateIsNear'
  <2> SUFFICES ASSUME NEW k \in DOMAIN bills'
               PROVE  bills'[k].next \in {k.due, NextDue(k)}
    BY DEF DateIsNear, NextDue
  <2>1. CASE k \in next
    BY <1>3, <2>1 DEF Scheduled
  <2>2. CASE k \in DOMAIN bills /\ k # i
    BY <1>3, <2>2 DEF RecInv, DateIsNear
  <2> QED
    BY <1>3, <1>5, <2>1, <2>2
<1>7. TodoIsDue'
  BY <1>3 DEF RecInv, RecTypeOK, TodoIsDue
<1>8. i.due <= now
  <2>1. bills[i].next <= now /\ bills[i].next \in {i.due, NextDue(i)}
    BY <1>1 DEF RecInv, TodoIsDue, DateIsNear
  <2> QED
    BY <1>1, <2>1 DEF NextDue, RecInv, RecTypeOK
<1>9. NeverAhead'
  <2> SUFFICES ASSUME NEW k \in DOMAIN bills', NEW j \in DOMAIN bills', Follows(k, j)
               PROVE  k.due - Interval[k.of] <= now
    BY <1>3 DEF NeverAhead
  <2>1. CASE k \in next
    BY <1>1, <1>2, <1>8, <2>1 DEF NextDue
  <2>2. CASE k \in DOMAIN bills /\ j \in DOMAIN bills
    BY <2>2 DEF RecInv, NeverAhead
  <2>3. CASE k \in DOMAIN bills /\ j \in next
    <3>1. k \in RowId
      BY <2>3 DEF RecInv, RecTypeOK
    <3>2. Follows(k, i)
      BY <1>1, <1>2, <2>3, <3>1 DEF Follows, NextDue, RowId
    <3> QED
      BY <1>1, <2>3, <3>2 DEF RecInv, NeverAhead
  <2> QED
    BY <1>3, <2>1, <2>2, <2>3
<1>10. \A t, d : DueOn(t, d) # {} => DueOn(t, d)' # {}
  BY <1>3 DEF DueOn
<1>11. DueOn(i.of, NextDue(i))' # {}
  <2>1. CASE next = {}
    BY <1>2, <1>10, <2>1
  <2>2. CASE next # {}
    BY <1>2, <1>3, <2>2 DEF DueOn
  <2> QED
    BY <2>1, <2>2
<1>12. NoPeriodSkipped'
  <2>1. ASSUME NEW k \in DOMAIN bills', NEW j \in DOMAIN bills', Follows(k, j)
        PROVE  DueOn(k.of, k.due - Interval[k.of])' # {}
    <3>1. CASE k \in next
      <4>1. i \in DueOn(i.of, i.due) /\ NextDue(i) - Interval[i.of] = i.due
        BY <1>1 DEF DueOn, NextDue
      <4> QED
        BY <1>2, <1>10, <3>1, <4>1
    <3>2. CASE k \in DOMAIN bills /\ j \in DOMAIN bills
      BY <1>10, <2>1, <3>2 DEF RecInv, NoPeriodSkipped
    <3>3. CASE k \in DOMAIN bills /\ j \in next
      <4>1. k \in RowId
        BY <3>3 DEF RecInv, RecTypeOK
      <4>2. Follows(k, i)
        BY <1>1, <1>2, <2>1, <3>3, <4>1 DEF Follows, NextDue, RowId
      <4> QED
        BY <1>1, <1>10, <3>3, <4>2 DEF RecInv, NoPeriodSkipped
    <3> QED
      BY <1>3, <3>1, <3>2, <3>3
  <2>2. ASSUME NEW k \in DOMAIN bills', bills'[k].next # k.due
        PROVE  \E j \in DOMAIN bills' : j.of = k.of /\ j.due = bills'[k].next
    <3>1. CASE k = i
      BY <1>5, <1>11, <3>1 DEF DueOn
    <3>2. CASE k \in DOMAIN bills /\ k # i
      <4>1. bills'[k] = bills[k]
        BY <1>3, <3>2
      <4>2. DueOn(k.of, bills[k].next) # {}
        BY <2>2, <3>2, <4>1 DEF RecInv, NoPeriodSkipped
      <4> QED
        BY <1>3, <4>1, <4>2 DEF DueOn
    <3>3. CASE k \in next
      BY <1>3, <2>2, <3>3 DEF Scheduled
    <3> QED
      BY <1>3, <3>1, <3>2, <3>3
  <2> QED
    BY <2>1, <2>2 DEF NoPeriodSkipped, DueOn
<1> QED
  BY <1>4, <1>6, <1>7, <1>9, <1>12 DEF RecInv

\* A step that leaves the rows' identities and dates alone, does not turn the
\* clock back and adds nothing to the job's list keeps the invariant.
LEMMA DatesKept ==
    ASSUME RecInv, RecTypeOK',
           now <= now', todo' \subseteq todo, DOMAIN bills' = DOMAIN bills,
           \A i \in DOMAIN bills : bills'[i].next = bills[i].next
    PROVE  RecInv'
<1>1. now \in Nat /\ now' \in Nat
  BY DEF RecInv, RecTypeOK
<1>2. \A i \in DOMAIN bills : i \in RowId /\ Interval[i.of] \in Nat /\ bills[i].next \in Nat
  BY RecurrenceAssumption DEF RecInv, RecTypeOK, RowId, RecRow
<1>3. DateIsNear' /\ TodoIsDue'
  BY <1>1, <1>2 DEF RecInv, RecTypeOK, DateIsNear, TodoIsDue
<1>4. NeverAhead'
  BY <1>1, <1>2 DEF RecInv, NeverAhead, RowId
<1>5. \A t, d : DueOn(t, d)' = DueOn(t, d)
  BY DEF DueOn
<1>6. NoPeriodSkipped'
  BY <1>5 DEF RecInv, NoPeriodSkipped
<1> QED
  BY <1>3, <1>4, <1>6 DEF RecInv

\* Selecting the due rows only fills the job's list.
LEMMA SelectInv == ASSUME RecInv, SelectRecurring PROVE RecInv'
<1>1. todo' \subseteq DOMAIN bills /\ TodoIsDue' /\ now' = now /\ bills' = bills
  BY DEF SelectRecurring, TodoIsDue, DueForNext
<1>2. RecTypeOK' /\ DateIsNear'
  BY <1>1 DEF RecInv, RecTypeOK, DateIsNear
<1>3. NeverAhead' /\ NoPeriodSkipped'
  BY <1>1 DEF RecInv, NeverAhead, NoPeriodSkipped, DueOn
<1> QED
  BY <1>1, <1>2, <1>3 DEF RecInv

\* Every step of the specification keeps the invariant.
LEMMA RecStepInv == RecInv /\ [RecNext]_recVars => RecInv'
<1> SUFFICES ASSUME RecInv, [RecNext]_recVars PROVE RecInv'
  OBVIOUS
<1>1. CASE \E s \in Series : \E due \in 0..Horizon : CreateScheduledBill(s, due)
  BY <1>1, CreateInv
<1>2. CASE Tick
  <2>1. now <= now' /\ now' \in Nat /\ UNCHANGED <<bills, todo>>
    BY <1>2 DEF Tick, RecInv, RecTypeOK
  <2>2. RecTypeOK'
    BY <2>1 DEF RecInv, RecTypeOK
  <2> QED
    BY <2>1, <2>2, DatesKept
<1>3. CASE SelectRecurring
  BY <1>3, SelectInv
<1>4. ASSUME NEW i \in todo, SpawnNext(i)
      PROVE  RecInv'
  BY <1>4, SpawnInv
<1>5. CASE Stop \/ (\E i \in todo : SkipNext(i)) \/ UNCHANGED recVars
  <2>1. now' = now /\ bills' = bills /\ todo' \subseteq todo
    BY <1>5 DEF Stop, SkipNext, recVars
  <2>2. RecTypeOK' /\ now <= now'
    BY <2>1 DEF RecInv, RecTypeOK
  <2> QED
    BY <2>1, <2>2, DatesKept
<1>6. ASSUME NEW i \in DOMAIN bills,
             (\E outcome \in {"paid", "failed"} : PayoutEnds(i, outcome)) \/ CancelBill(i)
      PROVE  RecInv'
  <2>1. PICK status \in RecStatus : bills' = [bills EXCEPT ![i].status = status]
    BY <1>6 DEF PayoutEnds, CancelBill, RecStatus
  <2>2. now' = now /\ todo' = todo
    BY <1>6 DEF PayoutEnds, CancelBill
  <2>3. /\ bills[i] \in RecRow
        /\ [bills[i] EXCEPT !.status = status] \in RecRow
        /\ [bills[i] EXCEPT !.status = status].next = bills[i].next
    BY <2>1 DEF RecInv, RecTypeOK, RecRow
  <2>4. bills' \in [DOMAIN bills -> RecRow]
    BY <2>1, <2>3 DEF RecInv, RecTypeOK
  <2>5. RecTypeOK' /\ now <= now' /\ DOMAIN bills' = DOMAIN bills
    BY <2>2, <2>4 DEF RecInv, RecTypeOK
  <2>6. \A j \in DOMAIN bills : bills'[j].next = bills[j].next
    BY <2>1, <2>3 DEF RecInv, RecTypeOK
  <2> QED
    BY <2>2, <2>5, <2>6, DatesKept
<1> QED
  BY <1>1, <1>2, <1>3, <1>4, <1>5, <1>6 DEF RecNext

\* The invariant holds of every state of the specification.
THEOREM RecInductive == RecSpec => []RecInv
BY RecInitInv, RecStepInv, PTL DEF RecSpec

\* Rows, dates and the job's list keep their types.
THEOREM RecTypeCorrect == RecSpec => []RecTypeOK
<1>1. RecInv => RecTypeOK
  BY DEF RecInv
<1> QED
  BY <1>1, RecInductive, PTL

\* A user is never billed more than one period ahead.
THEOREM BilledInTime == RecSpec => []NeverAhead
<1>1. RecInv => NeverAhead
  BY DEF RecInv
<1> QED
  BY <1>1, RecInductive, PTL

\* A series of bills has no gap, whatever fails and whenever the job restarts.
THEOREM SeriesWithoutGaps == RecSpec => []NoPeriodSkipped
<1>1. RecInv => NoPeriodSkipped
  BY DEF RecInv
<1> QED
  BY <1>1, RecInductive, PTL
=============================================================================
