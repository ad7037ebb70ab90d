---------------------------- MODULE WalletInvariant ---------------------------
(***************************************************************************)
(* What is true of a wallet while the scheduler pays from it, one session  *)
(* at a time confirms, and credits are announced and verified: what a      *)
(* funding session and a confirmation have read, and what a second credit  *)
(* of the same top-up would write.                                         *)
(***************************************************************************)
EXTENDS Wallet, SchedulerInvariant

\* What may be written over a credit: a balance read before the provider was
\* asked, over the credit of another top-up of the user; and what a refund is
\* added to, unless it is the webhook's, which no credit interrupts.
Verifications == {"verify_api", "verify_bot"}
CreditsApart ==
    \/ \A w \in Workers : FundingJobs[w] \cap Verifications = {}
    \/ \A s, t \in Topups : Payer[s] = Payer[t] => s = t
RefundsByWebhook == \A w \in Workers : Jobs[w] \cap ConfirmJobs \subseteq {"webhook"}

\* What is on record as credited to a user, and to the payer of t for other
\* top-ups.
CreditedTo(u) == {t \in Topups : Payer[t] = u /\ credited[t] > 0}
Credit(S) == MapThenSumSet(Received, S)
CreditsBut(t) == Credit(CreditedTo(Payer[t]) \ {t})

\* A funding session is of a job its worker has, at one of that job's steps,
\* and has the event loop to itself from its read or its provider's answer to
\* its commit.
StepsOf(job) ==
    CASE job = "topup" -> {"inserting", "initializing"}
      [] job = "charge" -> {"crediting"}
      [] OTHER -> {"authed", "asking", "paid", "mismatch", "crediting", "failing"}
Uninterrupted == {"inserting", "crediting", "failing"}
AtItsFunding(w) ==
    LET f == fund[w] IN
    f.pc # "idle" =>
        /\ f.job \in FundingJobs[w] /\ f.pc \in StepsOf(f.job)
        /\ f.pc \in Uninterrupted => loop = w

\* A payment is of a job its worker has, and a webhook's has the event loop to
\* itself from its first read to its commit.
AtItsPayment(w) ==
    LET s == sess[w] IN
    s.pc # "idle" =>
        /\ s.job \in Jobs[w]
        /\ s.job = "webhook" => loop = w /\ s.pc \in {"txn_read", "bill_read", "flushing"}

\* The provider has the money of a top-up whose session has its answer.
Paid(t) == charge[t] \in {"paid", "other"}
KnowsCharge(w) ==
    LET f == fund[w] IN
    /\ f.pc \in {"paid", "mismatch", "crediting", "failing"} => Paid(f.top)
    /\ f.job \in Verifications =>
         /\ f.pc \in {"paid", "crediting"} => Received(f.top) = Asked[f.top]
         /\ f.pc \in {"mismatch", "failing"} => Received(f.top) # Asked[f.top]

\* The reference of a top-up that is being started is nobody else's.
Starts(w) == fund[w].pc \in {"inserting", "initializing"}
StartsOnce(w) ==
    Starts(w) =>
        /\ fund[w].top \notin VATransfers
        /\ credit[fund[w].top] = "none" /\ charge[fund[w].top] = "none"
        /\ \A v \in Workers : v # w /\ Starts(v) => fund[v].top # fund[w].top

\* A top-up that was credited is closed, only one the webhook credited may be
\* found not to be what was asked, and none is paid before it is on record.
Closed == {"success", "failed"}
CreditsAreClosed ==
    \A t \in Topups :
        /\ credited[t] > 0 =>
             credit[t] \in Closed /\ Paid(t) /\ (t \in told \/ Received(t) = Asked[t])
        /\ credit[t] = "failed" => Paid(t) /\ Received(t) # Asked[t]
        /\ charge[t] # "none" => credit[t] # "none" \/ t \in VATransfers

\* The bounds of a wallet: with every credit on record and every refund, and
\* with every debit that was tried taken from it.
AtMost(u, credits) == Deposit[u] + credits + GivenBack(u)
AtLeast(u, credits) == Deposit[u] + credits - Spent(u)

\* What is about to be credited was read before this top-up's first credit ...
MayCredit(f) ==
    /\ f.pc \in {"authed", "asking", "paid", "mismatch", "crediting", "failing"}
    /\ f.pc = "authed" => credit[f.top] \notin Closed
ReadsBefore(w) ==
    LET f == fund[w] IN
    MayCredit(f) => f.balance <= AtMost(Payer[f.top], CreditsBut(f.top))

\* ... and after every other credit of the user that is on record.
ReadsAfter(w) ==
    LET f == fund[w] IN
    CreditsApart /\ RefundsByWebhook /\ f.pc # "idle" /\ ~Starts(w) =>
        f.balance >= AtLeast(Payer[f.top], CreditsBut(f.top))

\* What a refund will be added to is in order too.
RefundsInOrder(w) ==
    LET s == sess[w] IN
    \A u \in Users :
        Settling(w) /\ HasWallet(s) /\ Owner[s.bill] = u =>
            /\ s.balance <= AtMost(u, Credits(u))
            /\ CreditsApart /\ RefundsByWebhook => s.balance >= AtLeast(u, Credits(u))

InOrder(w) ==
    /\ AtItsFunding(w) /\ KnowsCharge(w) /\ StartsOnce(w)
    /\ ReadsBefore(w) /\ ReadsAfter(w)
CreditsInOrder ==
    /\ CreditsAreClosed
    /\ \A w \in Workers : AtItsPayment(w) /\ InOrder(w) /\ RefundsInOrder(w)

\* Whatever was credited is in the wallet, once.
CreditsAddUp == CreditCountsOnce /\ (CreditsApart /\ RefundsByWebhook => NoCreditLost)

\* Payouts that come one by one, what the sessions on both sides have read and
\* what the wallets hold: together inductive while one session at a time
\* confirms, and the reason that execute_payout, confirm_payout and
\* verify_pending_topup may share a balance.
WalletInv == OneByOne /\ CreditsInOrder /\ CreditsAddUp
===============================================================================
