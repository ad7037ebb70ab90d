-------------------------- MODULE SchedulerInvariant --------------------------
(***************************************************************************)
(* What is true of the payout path while any number of threads pay and one *)
(* session at a time confirms: what a payout has read under its locks is   *)
(* what the rows say when it commits, and the balance a confirmation has   *)
(* read without one may be too high, by what was charged since.            *)
(***************************************************************************)
EXTENDS PayoutInvariant, PayoutLedger

Paying(w) == sess[w].pc \in {"loaded", "bill_locked"} \cup Holding
Confirming(w) == sess[w].pc \in {"polling", "polled", "txn_read", "bill_read", "flushing"}

\* Nobody pays by hand, whose session has read the wallet before it locks it;
\* and of the sessions that end a transfer one is open at a time.  The rest is
\* free: how many pay, cancel, and share a wallet or a bill.
Confirmers == {"webhook", "reconcile"}
OtpJobs == {"otp_api", "otp_bot"}
ConfirmJobs == Confirmers \cup OtpJobs
OneConfirmer ==
    /\ \A w \in Workers : "pay" \notin Jobs[w]
    /\ \A v, w \in Workers :
         Jobs[v] \cap ConfirmJobs # {} /\ Jobs[w] \cap ConfirmJobs # {} => v = w
NobodyCancels == \A w \in Workers : "cancel" \notin Jobs[w]

\* What execute_payout refuses to pay for.
NotPayable == {"paid", "cancelled", "processing"}

\* A payout's reference is its own until it commits.  What it has read under
\* the bill's lock, and then under the wallet's, is what the rows still say.
PaysFresh(w) ==
    LET s == sess[w] IN
    Paying(w) =>
        /\ s.job = "autopay" /\ txn[s.ref].status = "none"
        /\ \A v \in Workers : v # w => sess[v].ref # s.ref
        /\ s.pc = "bill_locked" => s.status = bill[s.bill].status
        /\ s.pc # "loaded" => s.retry = bill[s.bill].retry
        /\ s.pc \in Holding =>
             /\ bill[s.bill].status \notin NotPayable
             /\ s.balance = balance[Owner[s.bill]] /\ s.balance >= Charge(s.bill)

\* From its first read to its commit the one session that confirms finds the
\* debit processing, and no other attempt of the bill is counted meanwhile.
Settling(w) == Confirming(w) \/ sess[w].pc \in {"authed", "otp_loaded", "finalizing", "replied"}
HasWallet(s) == s.job \in OtpJobs \/ s.pc = "flushing"
HasBill(s) == s.pc \in {"bill_read", "flushing"} \/ (s.job = "otp_api" /\ s.pc # "authed")
SettlesFresh(w) ==
    LET s == sess[w] IN
    Settling(w) =>
        /\ s.job \in ConfirmJobs \cap Jobs[w] /\ txn[s.ref].status = "processing"
        /\ HasBill(s) => /\ s.retry = bill[s.bill].retry
                         /\ NobodyCancels => s.status = "processing"
CancelsIfMay(w) == sess[w].pc = "cancelling" => "cancel" \in Jobs[w]

\* A bill has one debit that counts, and shows it.
OneDebitABill ==
    \A r, q \in Refs : Counts(r) /\ Counts(q) /\ BillOf[r] = BillOf[q] => r = q
DebitsShow == \A r \in Refs : Counts(r) => bill[BillOf[r]].status \in NotPayable

\* However many payments are under way, the attempts to pay one bill, and the
\* debits of one wallet, come one after the other.
OneByOne ==
    /\ OneDebitABill /\ DebitsShow /\ RetryBudget
    /\ NobodyCancels => ProcessingIsBacked
    /\ \A w \in Workers : PaysFresh(w) /\ SettlesFresh(w) /\ CancelsIfMay(w)

\* The balance that confirm_payout has read is what the wallet holds, and what
\* other debits of it, still open, were charged since.
OpenDebits(u) == {r \in Refs : Owner[BillOf[r]] = u /\ txn[r].status = "processing"}
StaleByDebits ==
    \A w \in Workers :
        LET s == sess[w] IN
        Settling(w) /\ HasWallet(s) =>
            \E since \in SUBSET (OpenDebits(Owner[s.bill]) \ {s.ref}) :
                s.balance = balance[Owner[s.bill]] + SumOfCharges(since)

\* What every session will commit still fits the rows: a payout's columns are
\* theirs, and the one balance that is read without a lock and written back as
\* an absolute value (payout.py, confirm_payout) can have missed nothing but
\* debits that are still open, never a refund or another confirmation.
CommitsFit == OneByOne /\ StaleByDebits

\* A step takes from the balances what it adds to the debits that count, to
\* the unit, and the reverse.  Only the refund of a failed transfer may leave
\* a wallet better off, and by no more than other debits of it that are open:
\* those it wrote over (payout.py, the module's invariants 3 and 4).
OnlyRefundsGive ==
    [][\A u \in Users :
         \E given \in SUBSET OpenDebits(u) :
            /\ balance'[u] + Charged(u)' = balance[u] + Charged(u) + SumOfCharges(given)
            /\ given # {} => \E r \in OpenDebits(u) \ given : txn'[r].status = "failed"]_vars

\* With no crash, a transfer that is under way or done is on record, or its
\* payout is about to commit.
LiveMeansCounted ==
    \A r \in Refs : Live(r) =>
        Counts(r) \/ \E w \in Workers : sess[w].pc = "accepted" /\ sess[w].ref = r
===============================================================================
