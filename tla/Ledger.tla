-------------------------------- MODULE Ledger --------------------------------
(***************************************************************************)
(* What the payout path promises about money, without sessions, locks or   *)
(* messages: wallets, and a ledger with one entry for each attempt to pay  *)
(* a bill.  An attempt is declined, or opened by charging a wallet that    *)
(* can pay; an open entry is settled, or refunded in full, once.  A bill   *)
(* has at most one entry that is open or settled.  A refund is the one     *)
(* weak point: it may waive charges of other bills that are still open.    *)
(***************************************************************************)
EXTENDS Integers, FiniteSetsExt

CONSTANTS Users, Bills, Refs, Owner, BillOf, Amount, Fee, Deposit

VARIABLES
    balance,   \* what each wallet holds
    entry,     \* the ledger: how far the attempt of each reference has come
    tries      \* how many attempts to pay each bill have come to nothing

ledger == <<balance, entry, tries>>

Price(r) == Amount[BillOf[r]] + Fee
PriceOf(S) == MapThenSumSet(Price, S)
Debtor(r) == Owner[BillOf[r]]
AttemptsFor(r) == {q \in Refs : BillOf[q] = BillOf[r]}
OpenBeside(r) == {q \in Refs \ {r} : Debtor(q) = Debtor(r) /\ entry[q] = "open"}

\* A new attempt: nothing is under way or done for the bill, and the wallet
\* can pay.
MayAttempt(r) ==
    /\ entry[r] = "none"
    /\ \A q \in AttemptsFor(r) : entry[q] \notin {"open", "settled"}
    /\ balance[Debtor(r)] >= Price(r)

Decline(r) ==
    /\ MayAttempt(r)
    /\ entry' = [entry EXCEPT ![r] = "refunded"]
    /\ tries' = [tries EXCEPT ![BillOf[r]] = @ + 1]
    /\ UNCHANGED balance

Charge(r) ==
    /\ MayAttempt(r)
    /\ entry' = [entry EXCEPT ![r] = "open"]
    /\ balance' = [balance EXCEPT ![Debtor(r)] = @ - Price(r)]
    /\ UNCHANGED tries

Settle(r) ==
    /\ entry[r] = "open"
    /\ entry' = [entry EXCEPT ![r] = "settled"]
    /\ UNCHANGED <<balance, tries>>

\* The refund writes back a balance that was read without a lock, and with it
\* what was charged to the same wallet since.
Refund(r) ==
    /\ entry[r] = "open"
    /\ entry' = [entry EXCEPT ![r] = "refunded"]
    /\ \E waived \in SUBSET OpenBeside(r) :
         balance' = [balance EXCEPT ![Debtor(r)] = @ + Price(r) + PriceOf(waived)]
    /\ tries' = [tries EXCEPT ![BillOf[r]] = @ + 1]

LedgerInit ==
    /\ balance = Deposit
    /\ entry = [r \in Refs |-> "none"]
    /\ tries = [b \in Bills |-> 0]

LedgerNext == \E r \in Refs : Decline(r) \/ Charge(r) \/ Settle(r) \/ Refund(r)

LedgerSpec == LedgerInit /\ [][LedgerNext]_ledger
=============================================================================
