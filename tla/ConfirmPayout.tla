---------------------------- MODULE ConfirmPayout ----------------------------
(***************************************************************************)
(* confirm_payout, which ends a transfer, and its three callers: the       *)
(* provider's webhook (a coroutine), the reconciliation job (a thread that *)
(* asks the provider) and the submission of an OTP (a coroutine that holds *)
(* the transaction's row while the provider answers).                      *)
(***************************************************************************)
EXTENDS PayoutState

-----------------------------------------------------------------------------
(* The webhook: deliveries may be lost, late, repeated or out of order.    *)

\* Mutant: whatever is not transfer.success ends the transfer as failed,
\* also the event of one that is still pending.
EmittedLoosely(r) ==
    CASE remote[r] \in {"success", "failed"} -> {remote[r]}
      [] remote[r] = "reversed" -> {"success", "reversed"}
      [] remote[r] = "pending" -> {"failed"}
      [] OTHER -> {}

\* The events the provider has had a reason to send for a transfer.
Emitted(r) ==
    CASE remote[r] \in {"success", "failed"} -> {remote[r]}
      [] remote[r] = "reversed" -> {"success", "reversed"}
      [] OTHER -> {}

\* A delivery whose (provider, event_id) is new.  A repeated one changes no
\* row of the model: it is answered 200 with an audit entry.
Accepts(w, r, e) ==
    /\ CanOpen(w, "webhook") /\ loop = Nobody
    /\ e \in Emitted(r) /\ <<r, e>> \notin events

\* confirm_payout finds no row, or a settled one: only the event is stored.
WebhookIgnored(w, r, e) ==
    /\ Accepts(w, r, e)
    /\ txn[r].status # "processing"
    /\ events' = events \cup {<<r, e>>}
    /\ UNCHANGED <<balance, bill, txn, remote, lock, loop, sess>>

WebhookRead(w, r, e) ==
    /\ Accepts(w, r, e)
    /\ txn[r].status = "processing"
    /\ Become(w, [Opened("webhook", "txn_read", r) EXCEPT !.outcome = e])
    /\ loop' = w
    /\ UNCHANGED <<tables, remote, lock>>

-----------------------------------------------------------------------------
(* _reconcile_processing_transfers                                         *)

\* A debit that has been processing for a while, skipping locked rows; the
\* select's locks are released before the provider is asked.
ReconcilePick(w, r) ==
    /\ CanOpen(w, "reconcile")
    /\ txn[r].status = "processing" /\ lock[r] = Nobody
    /\ Become(w, [Opened("reconcile", "polling", r) EXCEPT !.code = txn[r].code])
    /\ UNCHANGED <<tables, remote, lock, loop>>

\* Mutants: the raw status is passed on; everything that has not failed is
\* done; a failure is taken for pending.
PolledRaw(status) == status
PolledEagerly(status) == IF status \in {"failed", "reversed"} THEN status ELSE "success"
PolledMildly(status) == IF status = "success" THEN status ELSE "pending"

\* get_transfer's mapping of the provider's statuses.
Polled(status) == IF status \in EventKinds THEN status ELSE "pending"

ReconcilePolled(w) ==
    /\ sess[w].pc = "polling"
    /\ Become(w, [sess[w] EXCEPT !.pc = "polled", !.outcome = Polled(remote[sess[w].ref])])
    /\ UNCHANGED <<tables, remote, lock, loop>>

\* get_transfer raised: logged, and the next transfer's turn.
ReconcileError(w) ==
    /\ sess[w].pc = "polling"
    /\ Rollback(w)

\* The row is read again in a new session; a transfer still pending is
\* failed when it has a transfer_code and _OTP_TTL has passed.
ReconcileSettle(w) ==
    /\ sess[w].pc = "polled"
    /\ txn[sess[w].ref].status = "processing"
    /\ \/ sess[w].outcome \in EventKinds /\ Move(w, "txn_read")
       \/ /\ sess[w].outcome = "pending" /\ sess[w].code
          /\ Become(w, [sess[w] EXCEPT !.pc = "txn_read", !.outcome = "failed"])
    /\ UNCHANGED <<tables, remote, lock, loop>>

\* Settled meanwhile, or still pending with no OTP to expire yet.
ReconcileSkip(w) ==
    /\ sess[w].pc = "polled"
    /\ \/ txn[sess[w].ref].status # "processing"
       \/ sess[w].outcome = "pending"
    /\ Rollback(w)

-----------------------------------------------------------------------------
(* finalize_pending_transfer                                               *)

AwaitsOtp(r) == txn[r].status = "processing" /\ txn[r].code

\* POST /bills/{id}/transfer-otp: get_current_user loads the user.
OtpRequest(w, r) ==
    /\ CanOpen(w, "otp_api") /\ AwaitsOtp(r)
    /\ Become(w, [Opened("otp_api", "authed", r) EXCEPT !.balance = balance[Owner[BillOf[r]]]])
    /\ UNCHANGED <<tables, remote, lock, loop>>

\* ... and the endpoint the bill.
OtpLoadBill(w) ==
    /\ sess[w].pc = "authed" /\ sess[w].job = "otp_api" /\ CanRun(w)
    /\ LET row == bill[sess[w].bill] IN
       Become(w, [sess[w] EXCEPT !.pc = "otp_loaded", !.status = row.status,
                                     !.retry = row.retry])
    /\ Hold(w)
    /\ UNCHANGED <<tables, remote, lock>>

\* The bot's /otp loads the user only.
OtpCommand(w, r) ==
    /\ CanOpen(w, "otp_bot") /\ AwaitsOtp(r) /\ loop = Nobody
    /\ Become(w, [Opened("otp_bot", "otp_loaded", r) EXCEPT
                    !.balance = balance[Owner[BillOf[r]]]])
    /\ loop' = w
    /\ UNCHANGED <<tables, remote, lock>>

\* The debit is locked; the lock outlives the call to the provider.
OtpLock(w) ==
    /\ sess[w].pc = "otp_loaded" /\ CanRun(w)
    /\ TakeLock(w, sess[w].ref) /\ AwaitsOtp(sess[w].ref)
    /\ Move(w, "finalizing")
    /\ Await(w)
    /\ UNCHANGED <<tables, remote>>

\* Settled while the request waited: 404.
OtpNotFound(w) ==
    /\ sess[w].pc = "otp_loaded" /\ CanRun(w)
    /\ LockFree(w, sess[w].ref) /\ ~AwaitsOtp(sess[w].ref)
    /\ Rollback(w)

\* The answers finalize_pending_transfer gets for a transfer that goes ahead
\* without being done: "pending" and its like, or "processing", which
\* get_transfer takes for pending and this function for a failure.
InProgress == {"pending"} \cup IF "processing_reply" \in Faults THEN {"failed"} ELSE {}

\* The provider takes the OTP.
OtpAccepted(w) ==
    /\ sess[w].pc = "finalizing" /\ remote[sess[w].ref] = "otp"
    /\ \/ /\ remote' = [remote EXCEPT ![sess[w].ref] = "success"]
          /\ Become(w, [sess[w] EXCEPT !.pc = "replied", !.outcome = "success"])
       \/ /\ remote' = [remote EXCEPT ![sess[w].ref] = "pending"]
          /\ \E answer \in InProgress :
               Become(w, [sess[w] EXCEPT !.pc = "replied", !.outcome = answer])
    /\ UNCHANGED <<tables, lock, loop>>

\* A wrong or expired OTP, or no answer: 422, and nothing changes here.
OtpRejected(w) ==
    /\ sess[w].pc = "finalizing" /\ CanRun(w)
    /\ remote' \in {remote} \cup
         IF remote[sess[w].ref] = "otp" /\ "reply_lost" \in Faults
         THEN {[remote EXCEPT ![sess[w].ref] = "pending"]} ELSE {}
    /\ Close(w)
    /\ UNCHANGED tables

\* Accepted but not settled: left to the webhook and the reconciliation.
OtpPending(w) ==
    /\ sess[w].pc = "replied" /\ CanRun(w)
    /\ sess[w].outcome = "pending"
    /\ Rollback(w)

OtpSettle(w) ==
    /\ sess[w].pc = "replied" /\ CanRun(w)
    /\ sess[w].outcome # "pending"
    /\ Move(w, "txn_read")
    /\ Hold(w)
    /\ UNCHANGED <<tables, remote, lock>>

-----------------------------------------------------------------------------
(* confirm_payout                                                          *)

\* The bill and then the user are read, without a lock and after the
\* transaction's status was, unless the session holds them already.
ConfirmReadBill(w) ==
    LET row == IF sess[w].job = "otp_api"
               THEN [status |-> sess[w].status, retry |-> sess[w].retry]
               ELSE bill[sess[w].bill]
    IN
    /\ sess[w].pc = "txn_read" /\ CanRun(w)
    /\ Become(w, [sess[w] EXCEPT !.pc = "bill_read", !.status = row.status,
                                 !.retry = row.retry])
    /\ UNCHANGED <<tables, remote, lock, loop>>

ConfirmReadUser(w) ==
    LET wallet == IF sess[w].job \in {"otp_api", "otp_bot"} THEN sess[w].balance
                  ELSE balance[Owner[sess[w].bill]]
    IN
    /\ sess[w].pc = "bill_read" /\ CanRun(w)
    /\ Become(w, [sess[w] EXCEPT !.pc = "flushing", !.balance = wallet])
    /\ UNCHANGED <<tables, remote, lock, loop>>

\* The rows the flush locks: the transaction and the user (its balance, or
\* the audit row's foreign key), and the bill when a column of it changes.
Flushed(w) ==
    {sess[w].ref, Owner[sess[w].bill]} \cup
    IF sess[w].outcome = "success" /\ sess[w].status = "paid" THEN {} ELSE {sess[w].bill}

FlushRow(w) ==
    /\ sess[w].pc = "flushing" /\ CanRun(w)
    /\ \E row \in Flushed(w) : lock[row] = Nobody /\ TakeLock(w, row)
    /\ UNCHANGED <<tables, remote, loop, sess>>

\* The webhook's event row is part of the same transaction.
Deliver(w) ==
    events' = IF sess[w].job = "webhook"
              THEN events \cup {<<sess[w].ref, sess[w].outcome>>} ELSE events

FlushDone(w) ==
    /\ sess[w].pc = "flushing" /\ CanRun(w)
    /\ \A row \in Flushed(w) : lock[row] = w

ConfirmSuccess(w) ==
    LET b == sess[w].bill IN
    /\ FlushDone(w) /\ sess[w].outcome = "success"
    /\ txn' = [txn EXCEPT ![sess[w].ref].status = "success"]
    /\ bill' = [bill EXCEPT ![b].status = Written(sess[w].status, "paid", @)]
    /\ Deliver(w)
    /\ Close(w)
    /\ UNCHANGED <<balance, remote>>

\* Mutant: the fee is kept.
RefundWithoutFee(b) == Amount[b]

\* What is given back when a transfer failed: the fee was never spent.
Refund(b) == Amount[b] + Fee

ConfirmFailure(w) ==
    LET b == sess[w].bill
        retry == sess[w].retry + 1
    IN
    /\ FlushDone(w) /\ sess[w].outcome # "success"
    /\ txn' = [txn EXCEPT ![sess[w].ref].status = "failed"]
    /\ balance' = [balance EXCEPT ![Owner[b]] = sess[w].balance + Refund(b)]
    /\ bill' = [bill EXCEPT ![b] =
         [status |-> Written(sess[w].status, RetryStatus(retry), @.status),
          retry |-> retry]]
    /\ Deliver(w)
    /\ Close(w)
    /\ UNCHANGED remote
=============================================================================
