-------------------------------- MODULE MCDesk --------------------------------
(***************************************************************************)
(* Small instances of Accounts, TelegramLink, Intake and Wallet for TLC.   *)
(* They share no variable, so a behaviour of one says nothing of the       *)
(* others, and the run takes them one at a time: subject is the one that   *)
(* moves while the others are as they start.                               *)
(***************************************************************************)
EXTENDS Accounts, TelegramLink, Intake, WalletInvariant, TLC

VARIABLE subject

CONSTANTS ada, ben, x1, x2, x3, y1, y2, z1, z2, kolomoni, test,
          b1, r1, t1, t2, w1, w2, w3

\* A live institution and the test bank; a text for each way in which
\* resolve_name can answer, one that means both banks, and one for none.
OwnCode == [i \in Institutions |-> IF i = test THEN "001" ELSE "100025"]
TypedCode == [t \in Texts |-> IF t = "001" THEN t ELSE "none"]
KnownAlias == [t \in Texts |-> IF t = "kg" THEN "100025" ELSE "none"]
NamedBanks == [t \in Texts |-> CASE t = "bank" -> {kolomoni, test}
                                 [] t = "kg" -> {test} [] OTHER -> {}]

\* Ada pays at a checkout, Ben by a transfer into his virtual account, while
\* the scheduler pays a bill of Ada's and the webhook confirms its transfer.
OwnedByAda == [b \in Bills |-> ada]
ForB1 == [r \in Refs |-> b1]
Naira == [b \in Bills |-> 1]
Deposit2 == [u \in Users |-> 2]
OneEach == [t \in Topups |-> IF t = t1 THEN ada ELSE ben]
AskTwo == [t \in Topups |-> 2]
PayOne == [t \in Topups |-> 1]
PayAndConfirm == [w \in Workers |-> IF w = w1 THEN {"autopay", "webhook"} ELSE {}]
FundingOnly == [w \in Workers |-> IF w = w1 THEN {} ELSE FundingKinds]

WalletSymmetry == Permutations({w2, w3})

\* Nothing tells new tokens apart: they come in the order x1, x2, x3.
TokensInOrder ==
    /\ token[x2] # Unissued => token[x1] # Unissued
    /\ token[x3] # Unissued => token[x2] # Unissued

\* One member asks for two codes, the other for one.
CodesAsAsked ==
    \A k \in Codes : code[k].owner \in {NoMember, IF k = x3 THEN y2 ELSE y1}

\* Tokens and records meet at sign-up only: beside records at most one token is.
FewTokensBesideRecords ==
    \/ \A u \in People : va[u] = NoNumber /\ kyc[u] = NoBVN
    \/ token[x2] = Unissued

DeskInit ==
    /\ AccInit /\ LinkInit /\ IntakeInit /\ WalletInit
    /\ subject \in {"accounts", "links", "intake", "wallet"}
    /\ subject # "wallet" => \A b \in Bills : bill[b].status = "scheduled"

DeskNext ==
    /\ \/ subject = "accounts" /\ AccNext /\ UNCHANGED <<linkVars, intakeVars, walletVars>>
       \/ subject = "links" /\ LinkNext /\ UNCHANGED <<accVars, intakeVars, walletVars>>
       \/ subject = "intake" /\ IntakeNext /\ UNCHANGED <<accVars, linkVars, walletVars>>
       \/ subject = "wallet" /\ WalletNext /\ UNCHANGED <<accVars, linkVars, intakeVars>>
    /\ UNCHANGED subject

DeskSpec ==
    DeskInit /\ [][DeskNext]_<<subject, accVars, linkVars, intakeVars, walletVars>>
=============================================================================
