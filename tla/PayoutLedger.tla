----------------------------- MODULE PayoutLedger -----------------------------
(***************************************************************************)
(* Payout as an implementation of Ledger: the wallets are the committed    *)
(* balances, an entry is what the debit's row says, and the tries of a     *)
(* bill are its retry count.  What sessions have flushed and not committed *)
(* is on no ledger.                                                        *)
(***************************************************************************)
EXTENDS Payout

EntryOf(r) ==
    CASE txn[r].status = "processing" -> "open"
      [] txn[r].status = "success" -> "settled"
      [] txn[r].status = "failed" -> "refunded"
      [] OTHER -> "none"

Books == INSTANCE Ledger WITH
    entry <- [r \in Refs |-> EntryOf(r)],
    tries <- [b \in Bills |-> bill[b].retry]

\* Every step, of however many payments, cancellations and the one session
\* that confirms, is a step of the ledger or changes nothing on it: a bill is
\* charged when no other attempt of it is open or settled, by its price and
\* from a wallet that holds it, and an open debit ends once, with its full
\* price given back or kept (payout.py, the module's invariants 1 to 4).
ImplementsLedger == Books!LedgerSpec
=============================================================================
