---------------------------- MODULE ExecutePayout ----------------------------
(***************************************************************************)
(* execute_payout and its two callers: the endpoint POST /bills/{id}/pay,  *)
(* a coroutine on the event loop whose session has loaded the user and the *)
(* bill before the locks are taken, and the scheduler's autopay, a thread  *)
(* whose session is fresh.  The rows stay locked while the provider is     *)
(* called; the debit is committed, or marked failed, afterwards.           *)
(***************************************************************************)
EXTENDS PayoutState

\* Mutant: a reference is only compared with the rows.
UnusedInRows(r) == txn[r] = NoTxn /\ remote[r] = "none"

\* uuid4: no row, no transfer and no open session has the reference.
Unused(r) ==
    /\ txn[r] = NoTxn /\ remote[r] = "none"
    /\ \A w \in Workers : sess[w].ref # r

\* get_current_user loads the user row, in the request's own session.
PayRequest(w, r) ==
    /\ CanOpen(w, "pay") /\ Unused(r)
    /\ Become(w, [Opened("pay", "authed", r) EXCEPT !.balance = balance[Owner[BillOf[r]]]])
    /\ UNCHANGED <<tables, remote, lock, loop>>

\* pay_bill: bill = session.get(Bill, bill_id).
PayLoadBill(w) ==
    /\ sess[w].pc = "authed" /\ sess[w].job = "pay" /\ CanRun(w)
    /\ LET row == bill[sess[w].bill] IN
       Become(w, [sess[w] EXCEPT !.pc = "loaded", !.status = row.status,
                                     !.retry = row.retry])
    /\ Hold(w)
    /\ UNCHANGED <<tables, remote, lock>>

\* _autopay_one_bill: the bill is still scheduled and the agent says pay_now
\* (it is due, so only the balance matters); that session is then closed.
AutopayRecheck(w, r) ==
    /\ CanOpen(w, "autopay") /\ Unused(r)
    /\ bill[BillOf[r]].status = "scheduled"
    /\ balance[Owner[BillOf[r]]] >= Charge(BillOf[r])
    /\ Become(w, Opened("autopay", "loaded", r))
    /\ UNCHANGED <<tables, remote, lock, loop>>

-----------------------------------------------------------------------------
(* SELECT ... FOR UPDATE on the bill, then on the user                     *)

\* Mutant: the bill is not read under its lock.
CachedBillOnly(w) == [status |-> sess[w].status, retry |-> sess[w].retry]

\* The columns FOR UPDATE hands to the session: what it had cached, or the
\* committed row when the session had not loaded it.
CachedBill(w) ==
    IF sess[w].job = "pay"
    THEN [status |-> sess[w].status, retry |-> sess[w].retry]
    ELSE bill[sess[w].bill]
CachedBalance(w) ==
    IF sess[w].job = "pay" THEN sess[w].balance ELSE balance[Owner[sess[w].bill]]

LockBill(w) ==
    /\ sess[w].pc = "loaded" /\ CanRun(w)
    /\ TakeLock(w, sess[w].bill)
    /\ LET row == CachedBill(w) IN
       Become(w, [sess[w] EXCEPT !.pc = "bill_locked", !.status = row.status,
                                     !.retry = row.retry])
    /\ UNCHANGED <<tables, remote, loop>>

\* Mutants: the committed balance is checked and the cached one charged; a
\* bill in flight is not refused.
RefusedOnCommitted(w) ==
    \/ sess[w].status \in {"paid", "cancelled", "processing"}
    \/ balance[Owner[sess[w].bill]] < Charge(sess[w].bill)
RefusedUnlessInFlight(w) ==
    \/ sess[w].status \in {"paid", "cancelled"}
    \/ CachedBalance(w) < Charge(sess[w].bill)

\* The guards of step 3 and 4: 409 for the bill's status, 402 for the wallet.
Refused(w) ==
    \/ sess[w].status \in {"paid", "cancelled", "processing"}
    \/ CachedBalance(w) < Charge(sess[w].bill)

\* The caller rolls back, so the 402 path's status change is lost with it.
RefusePayout(w) ==
    /\ sess[w].pc = "bill_locked" /\ CanRun(w)
    /\ LockFree(w, Owner[sess[w].bill])
    /\ Refused(w)
    /\ Rollback(w)

\* The bill is flushed as processing with its debit row; then the provider
\* is awaited and the event loop is free for others.
StartPayout(w) ==
    /\ sess[w].pc = "bill_locked" /\ CanRun(w)
    /\ TakeLock(w, Owner[sess[w].bill])
    /\ ~Refused(w)
    /\ Become(w, [sess[w] EXCEPT !.pc = "calling", !.balance = CachedBalance(w)])
    /\ Await(w)
    /\ UNCHANGED <<tables, remote>>

-----------------------------------------------------------------------------
(* resolve_account, create_transfer_recipient, initiate_transfer           *)

\* Mutant: the provider's error is swallowed.
CallSwallowed(w) ==
    /\ sess[w].pc = "calling"
    /\ Move(w, "accepted")
    /\ UNCHANGED <<tables, remote, lock, loop>>

\* An account that is missing or not matched, a refused recipient, or a
\* transfer the provider turns down: _refund_on_failure follows.
CallRejected(w) ==
    /\ sess[w].pc = "calling"
    /\ Move(w, "refunding")
    /\ UNCHANGED <<tables, remote, lock, loop>>

\* resolve_account fails with anything but InvalidAccountError: not caught
\* in execute_payout, and every caller rolls back.
CallRaises(w) ==
    /\ sess[w].pc = "calling" /\ CanRun(w)
    /\ Rollback(w)

\* The transfer is accepted, perhaps parked until an OTP is given.
CallAccepted(w) ==
    /\ sess[w].pc = "calling"
    /\ \/ /\ remote' = [remote EXCEPT ![sess[w].ref] = "pending"]
          /\ Move(w, "accepted")
       \/ /\ "otp" \in Faults
          /\ remote' = [remote EXCEPT ![sess[w].ref] = "otp"]
          /\ \/ Become(w, [sess[w] EXCEPT !.pc = "accepted", !.code = TRUE])
             \/ Move(w, "refunding")   \* no transfer_code: refund now
    /\ UNCHANGED <<tables, lock, loop>>

\* The transfer is accepted but the answer never arrives: the transport
\* error is a ProviderError, handled like a rejection.
CallLost(w) ==
    /\ sess[w].pc = "calling" /\ "reply_lost" \in Faults
    /\ remote' = [remote EXCEPT ![sess[w].ref] = "pending"]
    /\ Move(w, "refunding")
    /\ UNCHANGED <<tables, lock, loop>>

\* Step 8: the wallet is charged and everything is committed.
CommitDebit(w) ==
    LET b == sess[w].bill IN
    /\ sess[w].pc = "accepted" /\ CanRun(w)
    /\ balance' = [balance EXCEPT ![Owner[b]] = sess[w].balance - Charge(b)]
    /\ bill' = [bill EXCEPT ![b].status = "processing"]
    /\ txn' = [txn EXCEPT ![sess[w].ref] = [status |-> "processing", code |-> sess[w].code]]
    /\ Close(w)
    /\ UNCHANGED <<events, remote>>

\* Mutant: the wallet is credited with a charge it never paid.
CommitRefundCredits(w) ==
    LET b == sess[w].bill
        retry == sess[w].retry + 1
    IN
    /\ sess[w].pc = "refunding" /\ CanRun(w)
    /\ balance' = [balance EXCEPT ![Owner[b]] = @ + Charge(b)]
    /\ bill' = [bill EXCEPT ![b] = [status |-> RetryStatus(retry), retry |-> retry]]
    /\ txn' = [txn EXCEPT ![sess[w].ref] = [status |-> "failed", code |-> FALSE]]
    /\ Close(w)
    /\ UNCHANGED <<events, remote>>

\* _refund_on_failure and the commit after it: the wallet was not charged.
CommitRefund(w) ==
    LET b == sess[w].bill
        retry == sess[w].retry + 1
    IN
    /\ sess[w].pc = "refunding" /\ CanRun(w)
    /\ bill' = [bill EXCEPT ![b] = [status |-> RetryStatus(retry), retry |-> retry]]
    /\ txn' = [txn EXCEPT ![sess[w].ref] = [status |-> "failed", code |-> FALSE]]
    /\ Close(w)
    /\ UNCHANGED <<balance, events, remote>>
=============================================================================
