------------------------------- MODULE Payout --------------------------------
(***************************************************************************)
(* The payout path as a whole: payments, confirmations and cancellations   *)
(* in any interleaving, over a provider that settles transfers on its own  *)
(* and a process that may be killed at any moment.                         *)
(***************************************************************************)
EXTENDS ExecutePayout, ConfirmPayout, FiniteSetsExt

-----------------------------------------------------------------------------
(* POST /bills/{id}/cancel, a thread; no row is locked for the check.      *)

CancelLoad(w, b) ==
    /\ CanOpen(w, "cancel")
    /\ bill[b].status \notin {"paid", "processing", "cancelled"}
    /\ Become(w, [NewSession("cancel", "cancelling", b, NoRef) EXCEPT !.status = bill[b].status])
    /\ UNCHANGED <<tables, remote, lock, loop>>

CancelCommit(w) ==
    /\ sess[w].pc = "cancelling"
    /\ LockFree(w, sess[w].bill)
    /\ bill' = [bill EXCEPT ![sess[w].bill].status = "cancelled"]
    /\ Close(w)
    /\ UNCHANGED <<balance, txn, events, remote>>

-----------------------------------------------------------------------------
(* Postgres: a session that waits for a lock in a cycle of waits is rolled *)
(* back.  A wait for the event loop is not a wait the database can see.    *)

Wanted(w) ==
    CASE sess[w].pc \in {"loaded", "cancelling"} -> {sess[w].bill}
      [] sess[w].pc = "bill_locked" -> {Owner[sess[w].bill]}
      [] sess[w].pc = "otp_loaded" -> {sess[w].ref}
      [] sess[w].pc = "flushing" -> Flushed(w)
      [] OTHER -> {}

WaitsFor(w, v) == v # w /\ \E row \in Wanted(w) : lock[row] = v

DeadlockAbort(w) ==
    /\ \E W \in SUBSET Workers :
         /\ w \in W
         /\ \A v \in W : /\ \E x \in W : WaitsFor(v, x)
                         /\ \E x \in W : WaitsFor(x, v)
    /\ Rollback(w)

-----------------------------------------------------------------------------
(* The provider and the process                                            *)

RemoteSettle(r) ==
    /\ \/ remote[r] = "pending" /\ \E s \in {"success", "failed"} :
                                      remote' = [remote EXCEPT ![r] = s]
       \/ remote[r] = "otp" /\ remote' = [remote EXCEPT ![r] = "failed"]
       \/ /\ "reversal" \in Faults /\ remote[r] = "success"
          /\ remote' = [remote EXCEPT ![r] = "reversed"]
    /\ UNCHANGED <<tables, lock, loop, sess>>

\* The process dies: open transactions are lost, committed rows stay.
Crash ==
    /\ "crash" \in Faults
    /\ sess' = [w \in Workers |-> Idle]
    /\ lock' = [row \in Rows |-> Nobody]
    /\ loop' = Nobody
    /\ UNCHANGED <<tables, remote>>

-----------------------------------------------------------------------------
PayStep(w) ==
    \/ \E r \in Refs : PayRequest(w, r) \/ AutopayRecheck(w, r)
    \/ PayLoadBill(w) \/ LockBill(w) \/ RefusePayout(w) \/ StartPayout(w)
    \/ CommitDebit(w) \/ CommitRefund(w)
CallStep(w) == CallRejected(w) \/ CallRaises(w) \/ CallAccepted(w) \/ CallLost(w)
WebhookStep(w) ==
    \E r \in Refs, e \in EventKinds : WebhookIgnored(w, r, e) \/ WebhookRead(w, r, e)
ReconcileStep(w) ==
    \/ \E r \in Refs : ReconcilePick(w, r)
    \/ ReconcilePolled(w) \/ ReconcileError(w) \/ ReconcileSettle(w) \/ ReconcileSkip(w)
OtpStep(w) ==
    \/ \E r \in Refs : OtpRequest(w, r) \/ OtpCommand(w, r)
    \/ OtpLoadBill(w) \/ OtpLock(w) \/ OtpNotFound(w) \/ OtpAccepted(w)
    \/ OtpRejected(w) \/ OtpPending(w) \/ OtpSettle(w)
ConfirmStep(w) ==
    \/ ConfirmReadBill(w) \/ ConfirmReadUser(w) \/ FlushRow(w)
    \/ ConfirmSuccess(w) \/ ConfirmFailure(w)
CancelStep(w) == (\E b \in Bills : CancelLoad(w, b)) \/ CancelCommit(w)

StepOf(w) ==
    \/ PayStep(w) \/ CallStep(w) \/ WebhookStep(w) \/ ReconcileStep(w)
    \/ OtpStep(w) \/ ConfirmStep(w) \/ CancelStep(w) \/ DeadlockAbort(w)

Next ==
    \/ \E w \in Workers : StepOf(w)
    \/ \E r \in Refs : RemoteSettle(r)
    \/ Crash

Spec == Init /\ [][Next]_vars

\* What the scheduling guarantees.  An open session that can go on does: the
\* loop and the threads run what is ready, the provider's answer arrives or
\* the HTTP client times out.  Postgres queues lock waits, so a wait for a row
\* that keeps getting free ends.  The reconciliation job runs every five
\* minutes and takes every debit still processing, the provider does not fail
\* it for ever, and the age of a parked transfer does pass _OTP_TTL.  The
\* provider settles what is pending.  Nothing makes a user, a webhook or the
\* approval of an OTP come.
Working(w) ==
    \/ PayLoadBill(w) \/ CommitDebit(w) \/ CommitRefund(w) \/ CallStep(w)
    \/ OtpLoadBill(w) \/ OtpNotFound(w) \/ OtpAccepted(w) \/ OtpRejected(w)
    \/ OtpPending(w) \/ OtpSettle(w)
    \/ ReconcilePolled(w) \/ ReconcileSettle(w) \/ ReconcileSkip(w)
    \/ ConfirmReadBill(w) \/ ConfirmReadUser(w) \/ ConfirmSuccess(w) \/ ConfirmFailure(w)
Locking(w) ==
    \/ LockBill(w) \/ RefusePayout(w) \/ StartPayout(w) \/ OtpLock(w)
    \/ FlushRow(w) \/ CancelCommit(w)
PendingEnds(r) == remote[r] = "pending" /\ RemoteSettle(r)

Reconcilers == {w \in Workers : "reconcile" \in Jobs[w]}

Fairness ==
    /\ \A w \in Workers : WF_vars(Working(w)) /\ SF_vars(Locking(w))
    /\ \A w \in Reconcilers :
         /\ SF_vars(ReconcilePolled(w)) /\ SF_vars(ReconcileSettle(w))
         /\ \A r \in Refs : SF_vars(ReconcilePick(w, r))
    /\ \A r \in Refs : WF_vars(PendingEnds(r))

FairSpec == Spec /\ Fairness

-----------------------------------------------------------------------------
(* Properties                                                              *)

\* The wallet never goes below zero, whatever stale balance a session writes
\* back: the balance a payout checks is the one it charges (payout.py,
\* invariant 2 of the module's docstring).
NonNegativeBalance == \A u \in Users : balance[u] >= 0

\* A bill is shown as paid only if the provider completed a transfer made for
\* it: no timeout, OTP answer or cancelled request makes it paid.
PaidMeansTransferred ==
    \A b \in Bills : bill[b].status = "paid" =>
        \E r \in Refs : BillOf[r] = b /\ remote[r] \in {"success", "reversed"}

\* A committed debit that still counts against the wallet belongs to a
\* transfer the provider accepted, across crashes and lost answers.
ChargedMeansAccepted ==
    \A r \in Refs : txn[r].status \in {"processing", "success"} => remote[r] # "none"

\* The scheduler never sees a bill that has used up its retries.
RetryBudget ==
    \A b \in Bills : bill[b].status = "scheduled" => bill[b].retry < MaxRetries

\* Of the payouts of one wallet, one at a time is past its checks and at the
\* provider or about to commit: the balance it checked is still the one the
\* next payout waits for (payout.py, invariant 1, "the two transactions
\* serialize").
Holding == {"calling", "accepted", "refunding"}
OnePayoutPerWallet ==
    \A v, w \in Workers :
        v # w /\ sess[v].pc \in Holding /\ sess[w].pc \in Holding
            => Owner[sess[v].bill] # Owner[sess[w].bill]

\* The vendor of a bill is being paid, or has been paid, by one transfer at
\* most (two concurrent payments of a bill exclude each other).
Live(r) == remote[r] \in {"otp", "pending", "success"}
OneLiveTransfer ==
    \A r, q \in Refs : BillOf[r] = BillOf[q] /\ Live(r) /\ Live(q) => r = q

\* What the debits of a user that are not failed add up to.
Counts(r) == txn[r].status \in {"processing", "success"}
DebitsOf(u) == {r \in Refs : Owner[BillOf[r]] = u /\ Counts(r)}
SumOfCharges(R) == MapThenSumSet(LAMBDA r : Charge(BillOf[r]), R)
Charged(u) == SumOfCharges(DebitsOf(u))

\* No user is ever charged more than the debits on record: a failed transfer
\* is refunded in full, and no refund is written over.
NeverOvercharged == \A u \in Users : balance[u] >= Deposit[u] - Charged(u)

\* The wallet and the debits agree exactly: nothing is charged twice,
\* refunded twice or written over with a stale balance (payout.py,
\* invariant 4; DOCUMENTATION.md, section 5.3).
Conserved == \A u \in Users : balance[u] = Deposit[u] - Charged(u)

\* A bill is processing exactly while a debit of its own is.
ProcessingIsBacked ==
    \A b \in Bills : bill[b].status = "processing" <=>
        \E r \in Refs : BillOf[r] = b /\ txn[r].status = "processing"

\* No debit stays processing for ever: with every webhook lost and nobody to
\* approve a parked transfer, the reconciliation job still ends it.
EveryDebitSettles ==
    \A r \in Refs : txn[r].status = "processing" ~> txn[r].status \in {"success", "failed"}

\* A request to pay a bill is answered, whoever else is paying: concurrent
\* requests queue up for the rows (DOCUMENTATION.md, section 5.3, point 1).
PayIsAnswered == \A w \in Workers : sess[w].job = "pay" ~> sess[w].job # "pay"

\* Money given back to a wallet was not also sent to the vendor.
RefundedStaysUnpaid ==
    \A r \in Refs : txn[r].status = "failed" => remote[r] # "success"
=============================================================================
