-------------------------------- MODULE Intake --------------------------------
(***************************************************************************)
(* Where a bill is paid to: the bank and account a bill is created with,   *)
(* the correction of both while it is unpaid, and the payments that send   *)
(* the money there.  A correction looks at the bill's status before it     *)
(* waits for the bill's row; pay_bill loads the bill before it locks it.   *)
(***************************************************************************)
EXTENDS Banks

VARIABLES
    bills,       \* bills: whether paid or being paid, and where to
    payer,       \* the destination that an open pay_bill has loaded, for each bill
    sent,        \* the destination the provider was given
    overtaken    \* bills corrected, or loaded by pay_bill, across the other's commit

intakeVars == <<directory, heard, task, bills, payer, sent, overtaken>>
money == <<payer, sent, overtaken>>

Place == [bank : Institutions \cup {NoBank}, account : AccountNumbers \cup {NoAccount}]
Nowhere == [bank |-> NoBank, account |-> NoAccount]
BillRecord == [state : {"none", "open", "sent"}, to : Place]

\* ensure_loaded's commit makes durable the account the session has flushed.
Filling(w) ==
    bills' = IF task[w].flushed
             THEN [bills EXCEPT ![task[w].bill].to.account = task[w].account] ELSE bills

Held(b) == \E w \in Requests : task[w].bill = b /\ task[w].flushed

DirectoryStep(w) ==
    /\ \/ ListAnswer(w) \/ ListDiffed(w)
       \/ ListCommit(w) \/ ListConflict(w)
       \/ SearchStart(w) \/ Load(w) \/ SeedConflict(w)
       \/ TestBankRead(w) \/ TestBankConflict(w) \/ Resolve(w)
    /\ UNCHANGED <<bills, money>>

FillStep(w) ==
    /\ Seed(w) \/ TestBankInsert(w)
    /\ Filling(w)
    /\ UNCHANGED money

-----------------------------------------------------------------------------
(* create_bill                                                             *)

CreateStart(w) ==
    /\ At(w, "idle")
    /\ task' = [task EXCEPT ![w] = [NoTask EXCEPT !.kind = "create", !.pc = "load"]]
    /\ UNCHANGED <<directory, heard, bills, money>>

\* A bill without a bank is created at once.
CreateStore(w, b, account) ==
    /\ bills[b].state = "none"
    /\ \/ /\ At(w, "store") /\ task[w].kind = "create"
          /\ bills' = [bills EXCEPT ![b] =
                [state |-> "open", to |-> [bank |-> task[w].bank, account |-> account]]]
       \/ /\ At(w, "idle")
          /\ bills' = [bills EXCEPT ![b] =
                [state |-> "open", to |-> [bank |-> NoBank, account |-> account]]]
    /\ Ends(w)
    /\ UNCHANGED <<directory, heard, money>>

-----------------------------------------------------------------------------
(* update_bill_payout_account                                              *)

\* Mutant: any bill is corrected.
CorrectableAlways(b) == bills[b].state # "none"

\* A bill that is paid or being paid is a 409.
Correctable(b) == bills[b].state = "open"

\* The bill is loaded, and a new account (or none) is set.  A bank that is named
\* has to be resolved, a blank one is cleared, and with neither it stays.
PatchStart(w, b) ==
    /\ At(w, "idle") /\ Correctable(b)
    /\ \E account \in AccountNumbers \cup {NoAccount, Same}, bank \in {NoBank, Same} :
       \E pc \in IF bank = NoBank THEN {"store"} ELSE {"load", "store"} :
          /\ account # bills[b].to.account
          /\ task' = [task EXCEPT ![w] =
                [NoTask EXCEPT !.kind = "patch", !.pc = pc, !.bill = b, !.bank = bank,
                             !.account = account, !.was = bills[b].to.bank]]
    /\ UNCHANGED <<directory, heard, bills, money>>

\* The first query of ensure_loaded writes the account, which locks the row.
PatchFlush(w) ==
    /\ task[w].kind = "patch" /\ At(w, "load")
    /\ task[w].account # Same /\ ~task[w].flushed /\ ~Held(task[w].bill)
    /\ task' = [task EXCEPT ![w].flushed = TRUE]
    /\ UNCHANGED <<directory, heard, bills, money>>

\* Mutant: bank and account are taken for each other.
CorrectedSwapped(to, s) ==
    [bank |-> IF s.account = Same THEN to.bank ELSE s.account,
     account |-> IF s.bank \in {Same, s.was} THEN to.account ELSE s.bank]

\* What is new is written; a column as it was loaded is not.
Corrected(to, s) ==
    [bank |-> IF s.bank \in {Same, s.was} THEN to.bank ELSE s.bank,
     account |-> IF s.account = Same THEN to.account ELSE s.account]

\* The commit; the status is not looked at again.
PatchStore(w) ==
    LET b == task[w].bill IN
    /\ At(w, "store") /\ task[w].kind = "patch"
    /\ task[w].flushed \/ ~Held(b)
    /\ bills' = [bills EXCEPT ![b].to = Corrected(@, task[w])]
    /\ Ends(w)
    /\ UNCHANGED <<directory, heard, money>>

-----------------------------------------------------------------------------
(* Payments                                                                *)

\* A correction that has looked at the bill is still to be stored.
UnderCorrection(b) == \E w \in Requests : task[w].kind = "patch" /\ task[w].bill = b

Payable(to) == to.bank # NoBank /\ to.account # NoAccount

PayLoad(b) ==
    /\ bills[b].state = "open" /\ Payable(bills[b].to) /\ payer[b] = Nowhere
    /\ payer' = [payer EXCEPT ![b] = bills[b].to]
    /\ UNCHANGED <<bankVars, bills, sent, overtaken>>

\* execute_payout for pay_bill (late) or the scheduler, whose session is new.
PayOut(b, late) ==
    LET to == IF late THEN payer[b] ELSE bills[b].to IN
    /\ bills[b].state = "open" /\ Payable(to) /\ ~Held(b)
    /\ bills' = [bills EXCEPT ![b].state = "sent"]
    /\ sent' = [sent EXCEPT ![b] = to]
    /\ overtaken' = IF UnderCorrection(b) \/ (late /\ to # bills[b].to)
                    THEN overtaken \cup {b} ELSE overtaken
    /\ payer' = [payer EXCEPT ![b] = Nowhere]
    /\ UNCHANGED bankVars

\* The transfer fails: the bill is scheduled again, and may be corrected.
PayFails(b) ==
    /\ bills[b].state = "sent"
    /\ bills' = [bills EXCEPT ![b].state = "open"]
    /\ sent' = [sent EXCEPT ![b] = Nowhere]
    /\ overtaken' = overtaken \ {b}
    /\ UNCHANGED <<bankVars, payer>>

-----------------------------------------------------------------------------
\* A request dies: what it has not committed is lost.
RequestDies(w) ==
    /\ ~At(w, "idle")
    /\ Ends(w)
    /\ UNCHANGED <<directory, heard, bills, money>>

IntakeInit ==
    /\ DirectoryInit
    /\ bills = [b \in BillIds |-> [state |-> "none", to |-> Nowhere]]
    /\ payer = [b \in BillIds |-> Nowhere] /\ sent = [b \in BillIds |-> Nowhere]
    /\ overtaken = {}

IntakeNext ==
    \/ \E w \in Requests :
         \/ DirectoryStep(w) \/ FillStep(w) \/ PatchFlush(w) \/ PatchStore(w)
         \/ CreateStart(w) \/ RequestDies(w)
         \/ \E b \in BillIds :
               \/ PatchStart(w, b)
               \/ \E a \in AccountNumbers \cup {NoAccount} : CreateStore(w, b, a)
    \/ \E b \in BillIds : PayLoad(b) \/ PayFails(b) \/ \E late \in BOOLEAN : PayOut(b, late)

IntakeSpec == IntakeInit /\ [][IntakeNext]_intakeVars

-----------------------------------------------------------------------------
(* Properties                                                              *)

IntakeTypeOK ==
    /\ directory \in [Institutions -> Standing]
    /\ heard \in [Institutions -> Standing]
    /\ task \in [Requests -> Task]
    /\ bills \in [BillIds -> BillRecord]
    /\ payer \in [BillIds -> Place] /\ sent \in [BillIds -> Place]
    /\ overtaken \subseteq BillIds

\* What the provider last said of a bank in a refresh that committed is what
\* the directory says, whoever seeds the table before, meanwhile or after
\* (refresh, ensure_loaded, _ensure_test_banks).
RefreshIsHeeded ==
    \A i \in Institutions : heard[i] # "absent" => directory[i] = heard[i]

\* The bank of every bill stays on record, through any refresh: a retired
\* bank keeps its row (models/bank.py, refresh).
BankStaysOnRecord ==
    \A b \in BillIds : bills[b].to.bank \in Present(directory) \cup {NoBank}

\* The money of a bill that is paid or being paid went where the bill says,
\* unless a correction and a payment overlapped: one that starts when the
\* other has committed never parts them (update_bill_payout_account).
PaidAsRecorded ==
    \A b \in BillIds \ overtaken : bills[b].state = "sent" => sent[b] = bills[b].to
=============================================================================
