------------------------------ MODULE MCScheduler ------------------------------
(***************************************************************************)
(* The scheduler's jobs for TLC: autopay and reconciliation of module      *)
(* Payout, and the job of module Recurrence.  A behaviour is of one of the *)
(* two subjects; the other's state stays where no fair step of it is due,  *)
(* and each property is of one subject's variables only.                   *)
(***************************************************************************)
EXTENDS MCPayout, Recurrence

CONSTANT power

VARIABLE subject   \* "payouts" or "recurrence": what this behaviour is about

EachTick == [s \in Series |-> 1]

NoPayouts == Init /\ \A b \in Bills : bill[b].status = "scheduled"
NoSeries == now = Horizon /\ bills = [i \in {} |-> Scheduled(i)] /\ todo = {}

SchedulerInit ==
    \/ subject = "payouts" /\ Init /\ NoSeries
    \/ subject = "recurrence" /\ NoPayouts /\ RecInit

SchedulerNext ==
    \/ subject = "payouts" /\ Next /\ UNCHANGED <<subject, recVars>>
    \/ subject = "recurrence" /\ RecNext /\ UNCHANGED <<subject, vars>>

SchedulerSpec ==
    /\ SchedulerInit /\ [][SchedulerNext]_<<subject, vars, recVars>>
    /\ Fairness /\ RecFairness
=============================================================================
