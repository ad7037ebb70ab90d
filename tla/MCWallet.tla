------------------------------- MODULE MCWallet -------------------------------
(***************************************************************************)
(* A small instance of Wallet for TLC.                                     *)
(***************************************************************************)
EXTENDS Wallet

CONSTANTS ada, ben, b1, r1, r2, t1, t2, w1, w2, w3

TwoUsers == {ada, ben}
OneBill == {b1}
OwnedByAda == [b \in Bills |-> ada]
ForB1 == [r \in Refs |-> b1]
Naira == [b \in Bills |-> 1]
Deposit2 == [u \in Users |-> 2]
\* Ada pays at a checkout, Ben by a transfer into his virtual account.
OneEach == [t \in Topups |-> IF t = t1 THEN ada ELSE ben]
AskTwo == [t \in Topups |-> 2]
PayOne == [t \in Topups |-> 1]

\* The scheduler pays while a top-up is started, paid, announced and verified.
AutopayOnly == [w \in Workers |-> IF w = w1 THEN {"autopay"} ELSE {}]
FundingOnly == [w \in Workers |-> IF w = w1 THEN {} ELSE FundingKinds]
=============================================================================
