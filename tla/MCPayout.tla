------------------------------ MODULE MCPayout -------------------------------
(***************************************************************************)
(* Small instances of Payout for TLC.                                      *)
(***************************************************************************)
EXTENDS SchedulerInvariant, TLC

CONSTANTS ada, b1, b2, r1, r2, r3, w1, w2, w3

OneUser == {ada}
OneBill == {b1}
TwoBills == {b1, b2}
OwnedByAda == [b \in Bills |-> ada]
ForB1 == [r \in Refs |-> b1]
ForBoth == [r \in Refs |-> IF r = r3 THEN b2 ELSE b1]
Naira == [b \in Bills |-> 1]
MCDeposit(n) == [u \in Users |-> n]
Deposit3 == MCDeposit(3)
Deposit4 == MCDeposit(4)

\* Two sessions of any kinds, one of them on the event loop.
AnyJob == w1 :> {"pay", "otp_api", "otp_bot", "webhook"} @@ w2 :> JobKinds

\* Payments of the scheduler only, and one path that settles them.
FreshJobs == w1 :> {"autopay"} @@ w2 :> {"autopay"} @@ w3 :> {"webhook"}

\* The scheduler's two jobs: every webhook is lost.
SchedulerJobs == w1 :> {"autopay"} @@ w2 :> {"reconcile"}

\* Two requests to pay, and a request beside the scheduler.
TwoRequests == [w \in Workers |-> {"pay"}]
RequestAndAutopay == w1 :> {"pay"} @@ w2 :> {"autopay"}

\* One payment of the scheduler beside the webhook.
AutopayAndWebhook == w1 :> {"autopay"} @@ w2 :> {"webhook"}

Symmetry == Permutations(Refs)
=============================================================================
