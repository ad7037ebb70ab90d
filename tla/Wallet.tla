-------------------------------- MODULE Wallet --------------------------------
(***************************************************************************)
(* One wallet between its two sides: payouts that lock the user's row for  *)
(* as long as the provider takes, and credits that read the balance first  *)
(* and wait for the row only when they write it.  They share the balance,  *)
(* the user's row lock and the event loop.                                 *)
(***************************************************************************)
EXTENDS Payout, Funding

walletVars == <<vars, fundVars>>

WalletInit == Init /\ FundingInit

\* A pending top-up's foreign key shares the user's row: execute_payout's
\* FOR UPDATE waits until the top-up is committed.
Shared(u) == \E w \in Workers : fund[w].pc = "initializing" /\ Payer[fund[w].top] = u
WaitsForShare(w) ==
    sess[w].pc = "bill_locked" /\ sess'[w].pc = "calling" => ~Shared(Owner[sess[w].bill])

\* The process dies with every session, whatever it was for.
Restart == Crash /\ fund' = [w \in Workers |-> NoFund]
                 /\ UNCHANGED <<credit, charge, told, credited>>

WalletNext ==
    \/ \E w \in Workers : StepOf(w) /\ WaitsForShare(w) /\ UNCHANGED fundVars
    \/ \E w \in Workers : FundingStep(w)
    \/ \E r \in Refs : RemoteSettle(r) /\ UNCHANGED fundVars
    \/ \E t \in Topups : Pay(t)
    \/ Restart

WalletSpec == WalletInit /\ [][WalletNext]_walletVars

-----------------------------------------------------------------------------
(* Properties                                                              *)

\* A credit on record was paid: no answer, retry or race makes money.
CreditedMeansPaid ==
    \A t \in Topups : credit[t] = "success" => charge[t] \in {"paid", "other"}

\* What was paid into the wallet of a user and is on record.
Credits(u) ==
    MapThenSumSet(Received, {t \in Topups : Payer[t] = u /\ credited[t] > 0})

\* The charges of the debits that were ever tried, and of those that failed.
TriedBy(u) == {r \in Refs : Owner[BillOf[r]] = u /\ txn[r].status # "none"}
FailedOf(u) == {r \in Refs : Owner[BillOf[r]] = u /\ txn[r].status = "failed"}
Spent(u) == SumOfCharges(TriedBy(u))
GivenBack(u) == SumOfCharges(FailedOf(u))

\* No credit is lost to a balance that was read before it (wallet.py, "to make
\* concurrent calls idempotent"): at worst the wallet lacks a refund, which a
\* credit writes over when it has read the balance before.
NoCreditLost == \A u \in Users : balance[u] >= Deposit[u] + Credits(u) - Spent(u)

\* However often a top-up is credited, by the webhook, the web and the bot, the
\* wallet gets its amount once: at best it has besides what was refunded.
CreditCountsOnce == \A u \in Users : balance[u] <= Deposit[u] + Credits(u) + GivenBack(u)

\* A top-up is credited by one of the webhook and the user's verification, not
\* by both (app/api/wallet.py, verify_topup).
CreditedOnce == \A t \in Topups : credited[t] <= 1
=============================================================================
