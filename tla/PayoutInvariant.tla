--------------------------- MODULE PayoutInvariant ---------------------------
(***************************************************************************)
(* The inductive invariant behind the safety theorems of Payout: what is   *)
(* true of an open session at each of its steps.                           *)
(***************************************************************************)
EXTENDS Payout

\* A session knows which bill it is about, and its reference is that bill's;
\* a webhook's session knows its event.
KnowsRows(s) ==
    /\ s.pc # "idle" => s.bill \in Bills
    /\ s.pc \notin {"idle", "cancelling"} => s.ref \in Refs /\ s.bill = BillOf[s.ref]
    /\ s.job = "webhook" => s.pc \in {"txn_read", "bill_read", "flushing"}
                            /\ s.outcome \in EventKinds

\* No session has read a negative balance, and what is about to be charged
\* was checked against the balance in hand.
Covered(s) ==
    /\ s.balance >= 0
    /\ s.pc \in {"calling", "accepted"} => s.balance >= Charge(s.bill)

\* A payout holds the rows it has locked until it closes.
HoldsRows(w) ==
    /\ sess[w].pc \in Holding \cup {"bill_locked"} => lock[sess[w].bill] = w
    /\ sess[w].pc \in Holding => lock[Owner[sess[w].bill]] = w

\* Up to the call, a payout's reference is its own and unknown outside.
Reserved(s) ==
    \/ s.pc \in {"loaded", "bill_locked", "calling"}
    \/ s.pc = "authed" /\ s.job = "pay"
Unknown(s) == Reserved(s) => remote[s.ref] = "none"
OwnReference(v, w) ==
    Reserved(sess[v]) /\ Reserved(sess[w]) /\ v # w => sess[v].ref # sess[w].ref

\* An accepted transfer exists at the provider, and a success that a session
\* is about to record is one.
Answered == {"polled", "replied", "txn_read", "bill_read", "flushing"}
Truthful(s) ==
    /\ s.pc = "accepted" => remote[s.ref] # "none"
    /\ s.pc \in Answered /\ s.outcome = "success" => remote[s.ref] \in {"success", "reversed"}

SessionInv ==
    \A w \in Workers : KnowsRows(sess[w]) /\ Covered(sess[w])
LockInv == \A w \in Workers : HoldsRows(w)
RemoteInv ==
    /\ \A w \in Workers : Unknown(sess[w]) /\ Truthful(sess[w])
    /\ \A v, w \in Workers : OwnReference(v, w)

IInv ==
    /\ TypeOK /\ NonNegativeBalance /\ SessionInv /\ LockInv /\ RemoteInv
    /\ ChargedMeansAccepted /\ PaidMeansTransferred

-----------------------------------------------------------------------------
(* The same when the provider's answers arrive and it parks no transfer:   *)
(* what is recorded of a transfer that failed is then true of it.          *)

AnswersArrive == Faults \cap {"reply_lost", "otp"} = {}

\* An attempt to pay has a reference that no other attempt has, with nothing
\* on record, and one that is refused was made with no transfer.  What a
\* session is about to record of a transfer has happened to it.
Attempting(s) == s.pc \in {"authed", "loaded", "bill_locked"} \cup Holding
Recording == {"txn_read", "bill_read", "flushing"}
KnowsOutcome(s) ==
    /\ s.job \notin {"otp_api", "otp_bot"} /\ ~s.code
    /\ s.pc \notin {"otp_loaded", "finalizing", "replied"}
    /\ Attempting(s) => txn[s.ref].status = "none"
    /\ s.pc = "refunding" => remote[s.ref] = "none"
    /\ s.pc \in {"polling", "polled"} \cup Recording => txn[s.ref].status # "none"
    /\ s.pc \in Recording => s.outcome \in EventKinds
    /\ s.pc \in Answered /\ s.outcome \in {"failed", "reversed"} =>
         remote[s.ref] \in {"failed", "reversed"}
OwnAttempt(v, w) ==
    v # w /\ Attempting(sess[v]) /\ Attempting(sess[w]) => sess[v].ref # sess[w].ref

\* No row waits for an OTP, and a failed debit's transfer is over.
NoneParked == \A r \in Refs : ~txn[r].code /\ remote[r] # "otp"
FailedIsOver ==
    \A r \in Refs : txn[r].status = "failed" => remote[r] \in {"none", "failed", "reversed"}

OutcomeInv ==
    /\ NoneParked /\ FailedIsOver
    /\ \A w \in Workers : KnowsOutcome(sess[w])
    /\ \A v, w \in Workers : OwnAttempt(v, w)
=============================================================================
