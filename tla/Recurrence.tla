------------------------------ MODULE Recurrence ------------------------------
(***************************************************************************)
(* Recurring bills: /schedule creates the first bill of a series, and every*)
(* six hours _process_recurring_bills spawns the next bill of each row     *)
(* whose next_recurrence_date has come.  The job reads the ids in one      *)
(* transaction and handles each in a transaction of its own; payouts and   *)
(* cancellations go on meanwhile (a payout is one step here: module Payout *)
(* has its inside) and a restart loses the ids still to do.                *)
(*                                                                         *)
(* Rows of one series and due date are told apart up to Copies of them; a  *)
(* further one would behave as those do and is not recorded.               *)
(***************************************************************************)
EXTENDS Integers

CONSTANTS
    Series,     \* the schedules users have confirmed as recurring
    Interval,   \* Interval[s]: 7 or 30 days, in ticks
    Horizon,    \* bound on the clock
    Copies      \* bound on the rows of one series and due date

ASSUME RecurrenceAssumption ==
    /\ Interval \in [Series -> Nat \ {0}]
    /\ Horizon \in Nat /\ Copies \in Nat \ {0}

VARIABLES
    now,        \* the clock
    bills,      \* the rows of bills: status and next_recurrence_date
    todo        \* the ids the running job has yet to handle

recVars == <<now, bills, todo>>

RowId == [of : Series, due : Nat, copy : 1..Copies]
RecStatus == {"scheduled", "paid", "failed", "cancelled"}
RecRow == [status : RecStatus, next : Nat]

BillOn(s, d, c) == [of |-> s, due |-> d, copy |-> c]
DueOn(s, d) == {i \in DOMAIN bills : i.of = s /\ i.due = d}
NextDue(i) == i.due + Interval[i.of]

\* Mutant: the column's default status is left in place.
Defaulted(i) == [status |-> "pending", next |-> i.due]

Scheduled(i) == [status |-> "scheduled", next |-> i.due]
\* The row an INSERT makes for a series and due date.
Inserted(s, d) ==
    LET free == {c \in 1..Copies : BillOn(s, d, c) \notin DOMAIN bills}
    IN IF free = {} THEN {} ELSE {BillOn(s, d, CHOOSE c \in free : TRUE)}

\* create_scheduled_bill: the due date is not in the past.
CreateScheduledBill(s, due) ==
    /\ due >= now
    /\ \A i \in DOMAIN bills : i.of # s
    /\ LET first == Inserted(s, due)
       IN bills' = [i \in DOMAIN bills \cup first |->
                       IF i \in first THEN Scheduled(i) ELSE bills[i]]
    /\ UNCHANGED <<now, todo>>

Tick == now < Horizon /\ now' = now + 1 /\ UNCHANGED <<bills, todo>>

\* Mutant: looks a tick ahead.
DueEarly(i) == bills[i].next <= now + 1

\* Mutant: takes only the rows that are still to be paid.
DueScheduled(i) == bills[i].next <= now /\ bills[i].status = "scheduled"

\* The job's WHERE clause: nothing is asked of the bill's status.
DueForNext(i) == bills[i].next <= now

SelectRecurring ==
    /\ todo = {}
    /\ todo' = {i \in DOMAIN bills : DueForNext(i)}
    /\ UNCHANGED <<now, bills>>

\* Row i's next_recurrence_date becomes date and the rows of next appear.
SpawnWith(i, date, next) ==
    /\ i \in todo
    /\ todo' = todo \ {i}
    /\ bills' = [j \in DOMAIN bills \cup next |->
                    IF j \in next THEN Scheduled(j)
                    ELSE IF j = i THEN [bills[i] EXCEPT !.next = date]
                    ELSE bills[j]]
    /\ UNCHANGED now

\* schedule_recurrence and its commit: the date moved forward and the next
\* bill appear together; both are counted from the row's own due date.
SpawnNext(i) == SpawnWith(i, NextDue(i), Inserted(i.of, NextDue(i)))

\* Mutant: the moved date is committed before the insert fails.
SkipBumped(i) == SpawnWith(i, NextDue(i), {})

\* An exception is logged; the session closes without a commit.
SkipNext(i) == i \in todo /\ todo' = todo \ {i} /\ UNCHANGED <<now, bills>>

\* A payout by the scheduler or the user ends.
PayoutEnds(i, outcome) ==
    /\ bills[i].status \in {"scheduled", "failed"}
    /\ bills' = [bills EXCEPT ![i].status = outcome]
    /\ UNCHANGED <<now, todo>>

CancelBill(i) ==
    /\ bills[i].status # "paid"
    /\ bills' = [bills EXCEPT ![i].status = "cancelled"]
    /\ UNCHANGED <<now, todo>>

Stop == todo' = {} /\ UNCHANGED <<now, bills>>

RecInit == now = 0 /\ bills = [i \in {} |-> Scheduled(i)] /\ todo = {}

RecNext ==
    \/ \E s \in Series : \E due \in 0..Horizon : CreateScheduledBill(s, due)
    \/ Tick
    \/ SelectRecurring
    \/ \E i \in todo : SpawnNext(i) \/ SkipNext(i)
    \/ \E i \in DOMAIN bills :
          \/ \E outcome \in {"paid", "failed"} : PayoutEnds(i, outcome)
          \/ CancelBill(i)
    \/ Stop

\* Time passes and the job runs every six hours; it neither crashes nor fails
\* on the bills of one due date for ever.  Neither users nor payouts owe
\* anything.
RecFairness ==
    /\ WF_recVars(Tick)
    /\ WF_recVars(SelectRecurring)
    /\ \A s \in Series : \A d \in 0..Horizon :
          SF_recVars(\E c \in 1..Copies : SpawnNext(BillOn(s, d, c)))

RecSpec == RecInit /\ [][RecNext]_recVars
FairRecSpec == RecSpec /\ RecFairness
-----------------------------------------------------------------------------
RecTypeOK ==
    /\ now \in Nat
    /\ DOMAIN bills \subseteq RowId
    /\ bills \in [DOMAIN bills -> RecRow]
    /\ todo \subseteq DOMAIN bills

Follows(i, j) == i.of = j.of /\ j.due < i.due

\* No bill of a series is made before the one it follows is due: a user is
\* never billed more than one period ahead, however often the job runs,
\* fails or is restarted half-way through its list.
NeverAhead ==
    \A i \in DOMAIN bills :
        (\E j \in DOMAIN bills : Follows(i, j)) => i.due - Interval[i.of] <= now

\* A series has no gap: every bill but the first has one a period earlier,
\* and a row whose next_recurrence_date was moved forward has the bill of that
\* date, since schedule_recurrence commits both together.
NoPeriodSkipped ==
    \A i \in DOMAIN bills :
        /\ (\E j \in DOMAIN bills : Follows(i, j)) => DueOn(i.of, i.due - Interval[i.of]) # {}
        /\ bills[i].next # i.due => DueOn(i.of, bills[i].next) # {}

\* A bill that was paid has its successor in the end, whether it was paid
\* before its due date or long after, by the first attempt or after failed
\* ones, and however often spawns fail and the job is restarted.
PaidBillsRecur ==
    \A s \in Series : \A d \in 0..Horizon :
        (\E i \in DueOn(s, d) : bills[i].status = "paid") ~> DueOn(s, d + Interval[s]) # {}

\* DOCUMENTATION.md:268: a recurring bill, "once paid", has its next occurrence
\* spawned; bill.py:68-69 has it "after each successful payout".  So a bill
\* that follows another of its series has a paid one a period earlier.
OnlyPaidRecur ==
    \A i \in DOMAIN bills :
        (\E j \in DOMAIN bills : Follows(i, j)) =>
            \E j \in DueOn(i.of, i.due - Interval[i.of]) : bills[j].status = "paid"

\* bill.py:68-71 says that the spawned occurrence bumps the original's date
\* "so the same row isn't processed twice": one bill for each period.
OneBillPerPeriod ==
    \A i, j \in DOMAIN bills : i.of = j.of /\ i.due = j.due => i = j
=============================================================================
