----------------------------- MODULE IntakeProofs -----------------------------
(***************************************************************************)
(* Proofs about Intake and Banks, for any banks, texts, requests and bills.*)
(*                                                                         *)
(* The directory only grows, and a request at work names a bank that is on *)
(* record; a bill that is paid without an overlap has no correction under  *)
(* way.  With these the four properties of Intake are inductive.           *)
(***************************************************************************)
EXTENDS Intake, TLAPS

\* What a request at work has read of the directory stays true.
TaskKnows(s) ==
    /\ s.flushed => s.kind = "patch" /\ s.account # Same
    /\ s.kind = "patch" => s.bill \in BillIds
    /\ s.bank \in Present(directory) \cup {NoBank, Same}
    /\ s.pc = "store" /\ s.kind = "create" => s.bank \in Present(directory)

TasksKnow == \A w \in Requests : TaskKnows(task[w])

\* A bill that is paid as recorded is under no correction.
PaidIsSettled ==
    \A b \in BillIds \ overtaken : bills[b].state = "sent" => ~UnderCorrection(b)

IntakeInv ==
    /\ IntakeTypeOK /\ TasksKnow /\ PaidIsSettled
    /\ RefreshIsHeeded /\ BankStaysOnRecord /\ PaidAsRecorded

-----------------------------------------------------------------------------
\* NoTask is a request that knows nothing.
LEMMA NoTaskKnows == NoTask \in Task /\ NoTask.kind = "none" /\ TaskKnows(NoTask)
<1>1. Nothing \in [Institutions -> Standing]
  BY DEF Nothing, Standing
<1>2. NoTask \in Task /\ NoTask.kind = "none"
  BY <1>1 DEF NoTask, Task, Kinds
<1>3. TaskKnows(NoTask)
  BY DEF NoTask, TaskKnows
<1> QED
  BY <1>2, <1>3

LEMMA IntakeInit_Inv == IntakeInit => IntakeInv
<1> SUFFICES ASSUME IntakeInit PROVE IntakeInv
  OBVIOUS
<1>1. directory = Nothing /\ heard = Nothing /\ task = [w \in Requests |-> NoTask]
  BY DEF IntakeInit, DirectoryInit
<1>2. Nowhere \in Place /\ [state |-> "none", to |-> Nowhere] \in BillRecord
  BY DEF Nowhere, Place, BillRecord
<1>3. Nothing \in [Institutions -> Standing] /\ \A i \in Institutions : Nothing[i] = "absent"
  BY DEF Nothing, Standing
<1>4. \A b \in BillIds : bills[b].state = "none" /\ bills[b].to = Nowhere
  BY DEF IntakeInit
<1>5. IntakeTypeOK
  BY <1>1, <1>2, <1>3, NoTaskKnows DEF IntakeInit, IntakeTypeOK
<1>6. TasksKnow
  BY <1>1, NoTaskKnows DEF TasksKnow
<1>7. RefreshIsHeeded /\ PaidIsSettled /\ PaidAsRecorded
  BY <1>1, <1>3, <1>4 DEF RefreshIsHeeded, PaidIsSettled, PaidAsRecorded
<1>8. BankStaysOnRecord
  BY <1>4 DEF BankStaysOnRecord, Nowhere
<1> QED
  BY <1>5, <1>6, <1>7, <1>8 DEF IntakeInv

-----------------------------------------------------------------------------
(* Requests                                                                *)

\* No bank leaves the directory.
Grows == Present(directory) \subseteq Present(directory)'

\* A step of one request: s is what it is afterwards.
Lawful(w, s) ==
    /\ s \in Task
    /\ task' = [task EXCEPT ![w] = s]
    /\ s.flushed => s.kind = "patch" /\ s.account # Same
    /\ s.kind = "patch" => s.bill \in BillIds
    /\ s.bank \in Present(directory) \cup {NoBank, Same}
    /\ s.pc = "store" /\ s.kind = "create" => s.bank \in Present(directory)

\* The same, when the request takes up no correction.
Onward(w, s) ==
    /\ Lawful(w, s)
    /\ s.kind = "patch" => task[w].kind = "patch" /\ s.bill = task[w].bill

LEMMA TasksStep ==
    ASSUME IntakeInv, NEW w \in Requests, NEW s, Lawful(w, s), Grows
    PROVE  task' \in [Requests -> Task] /\ TasksKnow'
<1>1. task \in [Requests -> Task] /\ \A v \in Requests : TaskKnows(task[v])
  BY DEF IntakeInv, IntakeTypeOK, TasksKnow
<1>2. task' \in [Requests -> Task]
  BY <1>1 DEF Lawful
<1>3. TaskKnows(s)'
  BY DEF Lawful, TaskKnows, Grows
<1>4. \A v \in Requests : task'[v] = s \/ task'[v] = task[v]
  BY <1>1 DEF Lawful
<1>5. ASSUME NEW v \in Requests PROVE TaskKnows(task[v])'
  <2>1. CASE task'[v] = s
    BY <1>3, <2>1 DEF TaskKnows
  <2>2. CASE task'[v] = task[v]
    BY <1>1, <2>2 DEF TaskKnows, Grows
  <2> QED
    BY <1>4, <2>1, <2>2
<1> QED
  BY <1>2, <1>5 DEF TasksKnow

\* No bill comes under correction.
LEMMA OnwardCorrects ==
    ASSUME IntakeInv, NEW w \in Requests, NEW s, Onward(w, s), NEW b \in BillIds,
           UnderCorrection(b)'
    PROVE  UnderCorrection(b)
<1>1. PICK v \in Requests : task'[v].kind = "patch" /\ task'[v].bill = b
  BY DEF UnderCorrection
<1>2. task \in [Requests -> Task] /\ task' = [task EXCEPT ![w] = s]
  BY DEF IntakeInv, IntakeTypeOK, Onward, Lawful
<1>3. CASE v = w
  BY <1>1, <1>2, <1>3 DEF Onward, UnderCorrection
<1>4. CASE v # w
  BY <1>1, <1>2, <1>4 DEF UnderCorrection
<1> QED
  BY <1>3, <1>4

LEMMA EndsOnward ==
    ASSUME IntakeInv, NEW w \in Requests, Ends(w)
    PROVE  Onward(w, NoTask)
<1>1. Lawful(w, NoTask)
  BY NoTaskKnows DEF Ends, Lawful, TaskKnows
<1> QED
  BY <1>1, NoTaskKnows DEF Onward

LEMMA GoesOnward ==
    ASSUME IntakeInv, NEW w \in Requests,
           NEW pc \in {"load", "seeding", "test", "testing", "resolve"}, Goes(w, pc)
    PROVE  \E s : Onward(w, s)
<1> DEFINE r == task[w]
           s == [r EXCEPT !.pc = pc]
<1>1. r \in Task /\ TaskKnows(r)
  BY DEF IntakeInv, IntakeTypeOK, TasksKnow
<1>2. s \in Task /\ task' = [task EXCEPT ![w] = s]
  BY <1>1 DEF Goes, Task
<1>3. s.pc = pc /\ s.kind = r.kind /\ s.bill = r.bill /\ s.bank = r.bank
      /\ s.flushed = r.flushed /\ s.account = r.account
  BY <1>1 DEF Task
<1> HIDE DEF s
<1>4. Onward(w, s)
  BY <1>1, <1>2, <1>3 DEF Onward, Lawful, TaskKnows
<1> QED
  BY <1>4

\* After a commit that fills the table.
LEMMA FilledOnward ==
    ASSUME IntakeInv, NEW w \in Requests, NEW pc \in {"test", "resolve"},
           task' = [task EXCEPT ![w] = [Filled(@) EXCEPT !.pc = pc]]
    PROVE  \E s : Onward(w, s)
<1> DEFINE r == task[w]
           f == Filled(r)
           s == [f EXCEPT !.pc = pc]
<1>1. task \in [Requests -> Task] /\ r \in Task /\ TaskKnows(r)
  BY DEF IntakeInv, IntakeTypeOK, TasksKnow
<1>2. /\ f \in Task /\ f.kind = r.kind /\ f.bill = r.bill /\ f.bank = r.bank
      /\ ~f.flushed
  <2> DEFINE account == IF r.flushed THEN Same ELSE r.account
  <2>1. account \in AccountNumbers \cup {NoAccount, Same}
    BY <1>1 DEF Task
  <2>2. CASE r.kind = "patch"
    <3>1. f = [r EXCEPT !.was = Same, !.flushed = FALSE, !.account = account]
      BY <2>2 DEF Filled
    <3> HIDE DEF r, f, account
    <3> QED
      BY <1>1, <2>1, <3>1 DEF Task
  <2>3. CASE r.kind # "patch"
    BY <1>1, <2>3 DEF Filled, TaskKnows
  <2> QED
    BY <2>2, <2>3
<1>3. task' = [task EXCEPT ![w] = s]
  BY <1>1
<1> HIDE DEF f
<1>4. s \in Task /\ s.pc = pc /\ s.kind = r.kind /\ s.bill = r.bill /\ s.bank = r.bank
      /\ s.flushed = f.flushed
  BY <1>2 DEF Task
<1> HIDE DEF s
<1>5. Onward(w, s)
  BY <1>1, <1>2, <1>3, <1>4 DEF Onward, Lawful, TaskKnows
<1> QED
  BY <1>5

-----------------------------------------------------------------------------
(* The directory                                                           *)

\* What a step of the directory keeps.
DirectoryKept ==
    /\ directory' \in [Institutions -> Standing] /\ heard' \in [Institutions -> Standing]
    /\ Grows /\ RefreshIsHeeded'

LEMMA DirectoryUnchanged ==
    ASSUME IntakeInv, UNCHANGED <<directory, heard>> PROVE DirectoryKept
BY DEF IntakeInv, IntakeTypeOK, DirectoryKept, Grows, Present, RefreshIsHeeded

\* The job, and the requests that store nothing.
LEMMA DirectorySteps ==
    ASSUME IntakeInv, NEW w \in Requests, DirectoryStep(w)
    PROVE  DirectoryKept /\ (\E s : Onward(w, s)) /\ UNCHANGED <<bills, money>>
<1> DEFINE r == task[w]
<1>1. r \in Task /\ TaskKnows(r)
  BY DEF IntakeInv, IntakeTypeOK, TasksKnow
<1>2. UNCHANGED <<bills, money>>
  BY DEF DirectoryStep
<1>3. CASE ListAnswer(w)
  <2>1. PICK list \in [Institutions -> Standing] :
           task' = [task EXCEPT ![w] = [NoTask EXCEPT !.kind = "refresh", !.pc = "answered",
                                                      !.answer = list]]
    BY <1>3 DEF ListAnswer
  <2> DEFINE s == [NoTask EXCEPT !.kind = "refresh", !.pc = "answered", !.answer = list]
  <2>2. s \in Task /\ s.kind = "refresh" /\ s.pc = "answered" /\ ~s.flushed /\ s.bank = Same
    BY DEF NoTask, Task, Kinds
  <2> HIDE DEF s
  <2>3. Onward(w, s)
    BY <2>1, <2>2 DEF Onward, Lawful, s
  <2> QED
    BY <1>2, <1>3, <2>3, DirectoryUnchanged DEF ListAnswer
<1>4. CASE ListDiffed(w)
  <2> DEFINE s == [r EXCEPT !.pc = "diffed", !.found = Present(directory)]
  <2>1. Present(directory) \subseteq Institutions
    BY DEF Present
  <2>2. task' = [task EXCEPT ![w] = s]
    BY <1>4 DEF ListDiffed
  <2>3. /\ s \in Task /\ s.pc = "diffed" /\ s.kind = r.kind /\ s.bill = r.bill
        /\ s.bank = r.bank /\ s.flushed = r.flushed /\ s.account = r.account
    BY <1>1, <2>1 DEF Task
  <2> HIDE DEF s
  <2>4. Onward(w, s)
    BY <1>1, <2>2, <2>3 DEF Onward, Lawful, TaskKnows
  <2> QED
    BY <1>2, <1>4, <2>4, DirectoryUnchanged DEF ListDiffed
<1>5. CASE ListCommit(w)
  <2> DEFINE s == [NoTask EXCEPT !.kind = "refresh", !.pc = "test"]
  <2>1. s \in Task /\ s.kind = "refresh" /\ s.pc = "test" /\ ~s.flushed /\ s.bank = Same
    BY NoTaskKnows DEF NoTask, Task, Kinds
  <2>2. task' = [task EXCEPT ![w] = s]
    BY <1>5 DEF ListCommit
  <2> HIDE DEF s
  <2>3. Onward(w, s)
    BY <2>1, <2>2 DEF Onward, Lawful
  <2>4. r.answer \in [Institutions -> Standing] /\ directory \in [Institutions -> Standing]
        /\ heard \in [Institutions -> Standing]
    BY <1>1 DEF Task, IntakeInv, IntakeTypeOK
  <2>5. /\ directory' = [i \in Institutions |->
                           IF r.answer[i] = "absent" THEN directory[i] ELSE r.answer[i]]
        /\ heard' = [i \in Institutions |->
                       IF r.answer[i] = "absent" THEN heard[i] ELSE r.answer[i]]
    BY <1>5 DEF ListCommit, Refreshed
  <2> HIDE DEF r
  <2>6. DirectoryKept
    BY <2>4, <2>5 DEF DirectoryKept, Grows, Present, RefreshIsHeeded, IntakeInv
  <2> QED
    BY <1>2, <2>3, <2>6
<1>6. CASE SearchStart(w)
  <2> DEFINE s == [NoTask EXCEPT !.kind = "search", !.pc = "load"]
  <2>1. s \in Task /\ s.kind = "search" /\ s.pc = "load" /\ ~s.flushed /\ s.bank = Same
    BY NoTaskKnows DEF NoTask, Task, Kinds
  <2>2. task' = [task EXCEPT ![w] = s]
    BY <1>6 DEF SearchStart
  <2> HIDE DEF s
  <2>3. Onward(w, s)
    BY <2>1, <2>2 DEF Onward, Lawful
  <2> QED
    BY <1>2, <1>6, <2>3, DirectoryUnchanged DEF SearchStart
<1>7. CASE Load(w)
  <2>1. UNCHANGED <<directory, heard>> /\ (Goes(w, "seeding") \/ Goes(w, "test"))
    BY <1>7 DEF Load
  <2> QED
    BY <1>2, <2>1, DirectoryUnchanged, GoesOnward
<1>8. CASE ListConflict(w) \/ SeedConflict(w) \/ TestBankConflict(w)
  <2>1. UNCHANGED <<directory, heard>> /\ Ends(w)
    BY <1>8 DEF ListConflict, SeedConflict, TestBankConflict
  <2> QED
    BY <1>2, <2>1, DirectoryUnchanged, EndsOnward
<1>9. CASE TestBankRead(w)
  <2>1. UNCHANGED <<directory, heard>> /\ (Goes(w, "testing") \/ Goes(w, "resolve") \/ Ends(w))
    BY <1>9 DEF TestBankRead, Loaded
  <2> QED
    BY <1>2, <2>1, DirectoryUnchanged, GoesOnward, EndsOnward
<1>10. CASE Resolve(w)
  <2>1. UNCHANGED <<directory, heard>>
    BY <1>10 DEF Resolve
  <2>2. CASE Ends(w)
    BY <1>2, <2>1, <2>2, DirectoryUnchanged, EndsOnward
  <2>3. ASSUME NEW t \in Texts, NEW i \in Candidates(t),
               task' = [task EXCEPT ![w] = [@ EXCEPT !.pc = "store", !.bank = i]]
        PROVE  \E s : Onward(w, s)
    <3> DEFINE s == [r EXCEPT !.pc = "store", !.bank = i]
    <3>1. i \in Present(directory) /\ i \in Institutions
      BY <2>3, BanksAssumption DEF Candidates, Coded, Present
    <3>2. task' = [task EXCEPT ![w] = s]
      BY <2>3
    <3>3. /\ s \in Task /\ s.pc = "store" /\ s.kind = r.kind /\ s.bill = r.bill
          /\ s.bank = i /\ s.flushed = r.flushed /\ s.account = r.account
      BY <1>1, <3>1 DEF Task
    <3> HIDE DEF s
    <3>4. Onward(w, s)
      BY <1>1, <3>1, <3>2, <3>3 DEF Onward, Lawful, TaskKnows
    <3> QED
      BY <3>4
  <2>4. \/ Ends(w)
        \/ \E t \in Texts : \E i \in Candidates(t) :
              task' = [task EXCEPT ![w] = [@ EXCEPT !.pc = "store", !.bank = i]]
    BY <1>10 DEF Resolve
  <2> QED
    BY <1>2, <2>1, <2>2, <2>3, <2>4, DirectoryUnchanged
<1> QED
  BY <1>3, <1>4, <1>5, <1>6, <1>7, <1>8, <1>9, <1>10 DEF DirectoryStep

\* A request fills the directory, or adds the test bank.
LEMMA FillSteps ==
    ASSUME IntakeInv, NEW w \in Requests, FillStep(w)
    PROVE  DirectoryKept /\ (\E s : Onward(w, s)) /\ Filling(w) /\ UNCHANGED money
<1>1. /\ directory \in [Institutions -> Standing] /\ heard \in [Institutions -> Standing]
      /\ RefreshIsHeeded
  BY DEF IntakeInv, IntakeTypeOK
<1>2. Filling(w) /\ UNCHANGED money
  BY DEF FillStep
<1>3. CASE Seed(w)
  <2>1. /\ Snapshot \cap Present(directory) = {} /\ heard' = heard
        /\ directory' = [i \in Institutions |-> IF i \in Snapshot THEN "active" ELSE directory[i]]
        /\ task' = [task EXCEPT ![w] = [Filled(@) EXCEPT !.pc = "test"]]
    BY <1>3 DEF Seed
  <2>2. \A i \in Snapshot \cap Institutions : directory[i] = "absent"
    BY <2>1 DEF Present
  <2>3. DirectoryKept
    BY <1>1, <2>1, <2>2 DEF DirectoryKept, Grows, Present, RefreshIsHeeded, Standing
  <2> QED
    BY <1>2, <2>1, <2>3, FilledOnward
<1>4. CASE TestBankInsert(w)
  <2>1. /\ directory[TestBank] = "absent" /\ heard' = heard
        /\ directory' = [directory EXCEPT ![TestBank] = "active"]
        /\ \/ task' = [task EXCEPT ![w] = [Filled(@) EXCEPT !.pc = "resolve"]]
           \/ Ends(w)
    BY <1>4 DEF TestBankInsert
  <2>2. DirectoryKept
    BY <1>1, <2>1 DEF DirectoryKept, Grows, Present, RefreshIsHeeded, Standing
  <2> QED
    BY <1>2, <2>1, <2>2, FilledOnward, EndsOnward
<1> QED
  BY <1>3, <1>4 DEF FillStep
-----------------------------------------------------------------------------
(* Bills                                                                   *)

\* A bill changes to what its bank allows, while what is paid stays.
BillsKept ==
    /\ bills' \in [BillIds -> BillRecord]
    /\ \A b \in BillIds :
          bills'[b].to.bank \in {bills[b].to.bank, NoBank} \cup Present(directory)
    /\ \A b \in BillIds \ overtaken : bills[b].state = "sent" => bills'[b] = bills[b]
    /\ \A b \in BillIds : bills'[b].state = "sent" => bills[b].state = "sent"

\* No payment moves, and no bill that is paid comes under correction.
LEMMA BillsStep ==
    ASSUME IntakeInv, BillsKept, DirectoryKept, UNCHANGED money, task' \in [Requests -> Task],
           TasksKnow',
           \A b \in BillIds : UnderCorrection(b)' => UnderCorrection(b) \/ bills[b].state # "sent"
    PROVE  IntakeInv'
<1>1. IntakeTypeOK'
  BY DEF IntakeInv, IntakeTypeOK, BillsKept, DirectoryKept, money
<1>2. BankStaysOnRecord'
  BY DEF IntakeInv, BankStaysOnRecord, BillsKept, DirectoryKept, Grows
<1>3. PaidIsSettled' /\ PaidAsRecorded'
  BY DEF IntakeInv, PaidIsSettled, PaidAsRecorded, BillsKept, money
<1> QED
  BY <1>1, <1>2, <1>3 DEF IntakeInv, DirectoryKept

\* The account a request has flushed is durable.
LEMMA FillingKeeps ==
    ASSUME IntakeInv, NEW w \in Requests, Filling(w) PROVE BillsKept
<1> DEFINE r == task[w]
           b == r.bill
<1>1. bills \in [BillIds -> BillRecord] /\ r \in Task /\ TaskKnows(r) /\ PaidIsSettled
  BY DEF IntakeInv, IntakeTypeOK, TasksKnow
<1>2. CASE r.flushed
  <2>1. /\ b \in BillIds /\ r.kind = "patch" /\ r.account \in AccountNumbers \cup {NoAccount}
        /\ bills' = [bills EXCEPT ![b].to.account = r.account]
    BY <1>1, <1>2 DEF Filling, TaskKnows, Task
  <2>2. bills[b].state = "sent" => b \in overtaken
    BY <1>1, <2>1 DEF PaidIsSettled, UnderCorrection
  <2> HIDE DEF r, b
  <2>3. bills[b] \in BillRecord
    BY <1>1, <2>1
  <2>4. [bills[b] EXCEPT !.to.account = r.account] \in BillRecord
    BY <2>1, <2>3 DEF BillRecord, Place
  <2>5. [bills[b] EXCEPT !.to.account = r.account].to.bank = bills[b].to.bank
        /\ [bills[b] EXCEPT !.to.account = r.account].state = bills[b].state
    BY <2>3 DEF BillRecord, Place
  <2>6. bills' = [bills EXCEPT ![b] = [bills[b] EXCEPT !.to.account = r.account]]
    BY <2>1
  <2> QED
    BY <1>1, <2>1, <2>2, <2>4, <2>5, <2>6 DEF BillsKept
<1>3. CASE ~r.flushed
  <2>1. bills' = bills
    BY <1>3 DEF Filling
  <2> QED
    BY <1>1, <2>1 DEF BillsKept
<1> QED
  BY <1>2, <1>3

LEMMA BillsUnchanged == ASSUME IntakeInv, bills' = bills PROVE BillsKept
BY DEF IntakeInv, IntakeTypeOK, BillsKept

\* The job, and the requests while they look for a bank.
LEMMA LookSteps ==
    ASSUME IntakeInv, NEW w \in Requests, DirectoryStep(w) \/ FillStep(w) \/ RequestDies(w)
    PROVE  IntakeInv'
<1>1. DirectoryKept /\ (\E s : Onward(w, s)) /\ UNCHANGED money /\ BillsKept
  <2>1. CASE DirectoryStep(w)
    BY <2>1, DirectorySteps, BillsUnchanged
  <2>2. CASE FillStep(w)
    BY <2>2, FillSteps, FillingKeeps
  <2>3. CASE RequestDies(w)
    BY <2>3, EndsOnward, DirectoryUnchanged, BillsUnchanged DEF RequestDies
  <2> QED
    BY <2>1, <2>2, <2>3
<1>2. PICK s : Onward(w, s)
  BY <1>1
<1>3. task' \in [Requests -> Task] /\ TasksKnow'
  BY <1>1, <1>2, TasksStep DEF Onward, DirectoryKept
<1>4. \A b \in BillIds : UnderCorrection(b)' => UnderCorrection(b)
  BY <1>2, OnwardCorrects
<1> QED
  BY <1>1, <1>3, <1>4, BillsStep

\* A bill is created.
LEMMA CreateSteps ==
    ASSUME IntakeInv, NEW w \in Requests,
           \/ CreateStart(w)
           \/ \E b \in BillIds, a \in AccountNumbers \cup {NoAccount} : CreateStore(w, b, a)
    PROVE  IntakeInv'
<1>1. task \in [Requests -> Task] /\ bills \in [BillIds -> BillRecord] /\ TaskKnows(task[w])
  BY DEF IntakeInv, IntakeTypeOK, TasksKnow
<1>2. \E s : Onward(w, s)
  <2>1. CASE CreateStart(w)
    <3> DEFINE s == [NoTask EXCEPT !.kind = "create", !.pc = "load"]
    <3>1. s \in Task /\ s.kind = "create" /\ s.pc = "load" /\ ~s.flushed /\ s.bank = Same
      BY NoTaskKnows DEF NoTask, Task, Kinds
    <3>2. task' = [task EXCEPT ![w] = s]
      BY <2>1 DEF CreateStart
    <3> HIDE DEF s
    <3>3. Onward(w, s)
      BY <3>1, <3>2 DEF Onward, Lawful
    <3> QED
      BY <3>3
  <2>2. CASE Ends(w)
    BY <2>2, EndsOnward
  <2> QED
    BY <2>1, <2>2 DEF CreateStore
<1>3. DirectoryKept /\ UNCHANGED money
  BY DirectoryUnchanged DEF CreateStart, CreateStore
<1>4. BillsKept
  <2>1. CASE CreateStart(w)
    BY <2>1, BillsUnchanged DEF CreateStart
  <2>2. ASSUME NEW b \in BillIds, NEW a \in AccountNumbers \cup {NoAccount}, CreateStore(w, b, a)
        PROVE  BillsKept
    <3> DEFINE Created(bank) == [state |-> "open", to |-> [bank |-> bank, account |-> a]]
    <3>1. PICK bank \in Present(directory) \cup {NoBank} :
             bills[b].state = "none" /\ bills' = [bills EXCEPT ![b] = Created(bank)]
      <4>1. At(w, "store") /\ task[w].kind = "create" => task[w].bank \in Present(directory)
        BY <1>1 DEF At, TaskKnows
      <4> QED
        BY <2>2, <4>1 DEF CreateStore
    <3>2. bank \in Institutions \cup {NoBank}
      BY <3>1 DEF Present
    <3>3. Created(bank) \in BillRecord
      BY <3>2 DEF BillRecord, Place
    <3> QED
      BY <1>1, <3>1, <3>3 DEF BillsKept
  <2> QED
    BY <2>1, <2>2
<1>5. PICK s : Onward(w, s)
  BY <1>2
<1>6. task' \in [Requests -> Task] /\ TasksKnow'
  BY <1>3, <1>5, TasksStep DEF Onward, DirectoryKept
<1>7. \A b \in BillIds : UnderCorrection(b)' => UnderCorrection(b)
  BY <1>5, OnwardCorrects
<1> QED
  BY <1>3, <1>4, <1>6, <1>7, BillsStep

\* A bill is corrected.
LEMMA PatchSteps ==
    ASSUME IntakeInv, NEW w \in Requests,
           PatchFlush(w) \/ PatchStore(w) \/ \E b \in BillIds : PatchStart(w, b)
    PROVE  IntakeInv'
<1> DEFINE r == task[w]
<1>1. /\ task \in [Requests -> Task] /\ r \in Task /\ TaskKnows(r)
      /\ bills \in [BillIds -> BillRecord] /\ PaidIsSettled /\ BankStaysOnRecord
  BY DEF IntakeInv, IntakeTypeOK, TasksKnow
<1>2. CASE PatchFlush(w)
  <2> DEFINE s == [r EXCEPT !.flushed = TRUE]
  <2>1. /\ r.kind = "patch" /\ r.account # Same /\ task' = [task EXCEPT ![w] = s]
        /\ r.pc = "load" /\ UNCHANGED <<directory, heard, bills, money>>
    BY <1>2 DEF PatchFlush, At
  <2>2. /\ s \in Task /\ s.pc = r.pc /\ s.kind = r.kind /\ s.bill = r.bill /\ s.bank = r.bank
        /\ s.account = r.account
    BY <1>1 DEF Task
  <2> HIDE DEF s
  <2>3. Onward(w, s)
    BY <1>1, <2>1, <2>2 DEF Onward, Lawful, TaskKnows
  <2>4. DirectoryKept /\ BillsKept
    BY <2>1, DirectoryUnchanged, BillsUnchanged
  <2>5. task' \in [Requests -> Task] /\ TasksKnow'
    BY <2>3, <2>4, TasksStep DEF Onward, DirectoryKept
  <2>6. \A b \in BillIds : UnderCorrection(b)' => UnderCorrection(b)
    BY <2>3, OnwardCorrects
  <2> QED
    BY <2>1, <2>4, <2>5, <2>6, BillsStep
<1>3. CASE PatchStore(w)
  <2> DEFINE b == r.bill
             to == Corrected(bills[b].to, r)
  <2>1. /\ r.kind = "patch" /\ b \in BillIds /\ Ends(w) /\ UNCHANGED <<directory, heard, money>>
        /\ bills' = [bills EXCEPT ![b].to = to]
    BY <1>1, <1>3 DEF PatchStore, TaskKnows
  <2>2. bills[b].to \in Place /\ bills[b].state \in {"none", "open", "sent"}
    BY <1>1, <2>1 DEF BillRecord
  <2>3. to \in Place /\ to.bank \in {bills[b].to.bank, NoBank} \cup Present(directory)
    BY <1>1, <2>2 DEF Corrected, Place, Task, TaskKnows
  <2>4. bills[b].state = "sent" => b \in overtaken
    BY <1>1, <2>1 DEF PaidIsSettled, UnderCorrection
  <2> HIDE DEF b, to
  <2>5. /\ bills' = [bills EXCEPT ![b] = [bills[b] EXCEPT !.to = to]]
        /\ [bills[b] EXCEPT !.to = to] \in BillRecord
        /\ [bills[b] EXCEPT !.to = to].to = to
        /\ [bills[b] EXCEPT !.to = to].state = bills[b].state
    <3>1. bills[b] \in BillRecord
      BY <1>1, <2>1
    <3>2. bills' = [bills EXCEPT ![b] = [bills[b] EXCEPT !.to = to]]
      BY <2>1
    <3> QED
      BY <2>3, <3>1, <3>2 DEF BillRecord
  <2>6. BillsKept
    BY <1>1, <2>1, <2>3, <2>4, <2>5 DEF BillsKept
  <2>7. DirectoryKept /\ Onward(w, NoTask)
    BY <2>1, DirectoryUnchanged, EndsOnward
  <2>8. task' \in [Requests -> Task] /\ TasksKnow'
    BY <2>7, TasksStep DEF Onward, DirectoryKept
  <2>9. \A c \in BillIds : UnderCorrection(c)' => UnderCorrection(c)
    BY <2>7, OnwardCorrects
  <2> QED
    BY <2>1, <2>6, <2>7, <2>8, <2>9, BillsStep
<1>4. ASSUME NEW b \in BillIds, PatchStart(w, b) PROVE IntakeInv'
  <2>1. PICK account \in AccountNumbers \cup {NoAccount, Same}, bank \in {NoBank, Same},
             pc \in {"load", "store"} :
          task' = [task EXCEPT ![w] =
                [NoTask EXCEPT !.kind = "patch", !.pc = pc, !.bill = b, !.bank = bank,
                               !.account = account, !.was = bills[b].to.bank]]
    BY <1>4 DEF PatchStart
  <2> DEFINE s == [NoTask EXCEPT !.kind = "patch", !.pc = pc, !.bill = b, !.bank = bank,
                                 !.account = account, !.was = bills[b].to.bank]
  <2>2. bills[b].to.bank \in Institutions \cup {NoBank}
    BY <1>1 DEF BillRecord, Place
  <2>3. /\ s \in Task /\ s.kind = "patch" /\ s.bill = b /\ s.bank = bank /\ ~s.flushed
    BY <2>2, NoTaskKnows DEF NoTask, Task, Kinds
  <2>4. bills[b].state = "open" /\ UNCHANGED <<directory, heard, bills, money>>
    BY <1>4 DEF PatchStart, Correctable
  <2>5. task' = [task EXCEPT ![w] = s]
    BY <2>1
  <2> HIDE DEF s
  <2>6. Lawful(w, s)
    BY <2>3, <2>5 DEF Lawful
  <2>7. DirectoryKept /\ BillsKept
    BY <2>4, DirectoryUnchanged, BillsUnchanged
  <2>8. task' \in [Requests -> Task] /\ TasksKnow'
    BY <2>6, <2>7, TasksStep DEF DirectoryKept
  <2>9. \A c \in BillIds : UnderCorrection(c)' => UnderCorrection(c) \/ c = b
    BY <1>1, <2>3, <2>5 DEF UnderCorrection
  <2> QED
    BY <2>4, <2>7, <2>8, <2>9, BillsStep
<1> QED
  BY <1>2, <1>3, <1>4

-----------------------------------------------------------------------------
\* A payment leaves the requests alone.
LEMMA PaySteps ==
    ASSUME IntakeInv, NEW b \in BillIds,
           PayLoad(b) \/ PayFails(b) \/ \E late \in BOOLEAN : PayOut(b, late)
    PROVE  IntakeInv'
<1>1. UNCHANGED bankVars
  BY DEF PayLoad, PayFails, PayOut
<1>2. /\ IntakeTypeOK /\ bills[b] \in BillRecord /\ payer[b] \in Place /\ Nowhere \in Place
      /\ \A c \in BillIds : bills[c].to.bank \in Present(directory) \cup {NoBank}
  BY DEF IntakeInv, IntakeTypeOK, BankStaysOnRecord, Nowhere, Place
<1>3. RefreshIsHeeded' /\ TasksKnow' /\ \A c \in BillIds : UnderCorrection(c)' = UnderCorrection(c)
  BY <1>1 DEF bankVars, IntakeInv, RefreshIsHeeded, TasksKnow, TaskKnows, Present, UnderCorrection
<1>4. Present(directory)' = Present(directory)
  BY <1>1 DEF bankVars, Present
<1>5. CASE PayLoad(b)
  <2>1. UNCHANGED <<bills, sent, overtaken>> /\ payer' = [payer EXCEPT ![b] = bills[b].to]
    BY <1>5 DEF PayLoad
  <2>2. bills[b].to \in Place
    BY <1>2 DEF BillRecord
  <2> QED
    BY <1>1, <1>2, <1>3, <1>4, <2>1, <2>2
    DEF IntakeInv, IntakeTypeOK, bankVars, PaidIsSettled, PaidAsRecorded, BankStaysOnRecord
<1>6. ASSUME NEW state \in {"open", "sent"}, bills' = [bills EXCEPT ![b].state = state]
      PROVE  /\ bills' \in [BillIds -> BillRecord]
             /\ bills'[b].state = state /\ bills'[b].to = bills[b].to
             /\ \A c \in BillIds \ {b} : bills'[c] = bills[c]
  <2>1. bills \in [BillIds -> BillRecord]
    BY <1>2 DEF IntakeTypeOK
  <2>2. [bills[b] EXCEPT !.state = state] \in BillRecord
    BY <1>2 DEF BillRecord
  <2> QED
    BY <1>6, <2>1, <2>2 DEF BillRecord
<1>7. CASE PayFails(b)
  <2>1. /\ bills' = [bills EXCEPT ![b].state = "open"] /\ sent' = [sent EXCEPT ![b] = Nowhere]
        /\ overtaken' = overtaken \ {b} /\ payer' = payer
    BY <1>7 DEF PayFails
  <2>2. /\ bills' \in [BillIds -> BillRecord]
        /\ bills'[b].state = "open" /\ bills'[b].to = bills[b].to
        /\ \A c \in BillIds \ {b} : bills'[c] = bills[c]
    BY <1>6, <2>1
  <2>3. IntakeTypeOK'
    BY <1>1, <1>2, <2>1, <2>2 DEF IntakeTypeOK, bankVars
  <2>4. BankStaysOnRecord'
    BY <1>2, <1>4, <2>2 DEF BankStaysOnRecord
  <2>5. PaidIsSettled' /\ PaidAsRecorded'
    BY <1>2, <1>3, <2>1, <2>2 DEF IntakeInv, PaidIsSettled, PaidAsRecorded, IntakeTypeOK
  <2> QED
    BY <1>3, <2>3, <2>4, <2>5 DEF IntakeInv
<1>8. ASSUME NEW late \in BOOLEAN, PayOut(b, late) PROVE IntakeInv'
  <2> DEFINE to == IF late THEN payer[b] ELSE bills[b].to
  <2>1. /\ bills' = [bills EXCEPT ![b].state = "sent"] /\ sent' = [sent EXCEPT ![b] = to]
        /\ overtaken' = IF UnderCorrection(b) \/ (late /\ to # bills[b].to)
                        THEN overtaken \cup {b} ELSE overtaken
        /\ payer' = [payer EXCEPT ![b] = Nowhere]
    BY <1>8 DEF PayOut
  <2>2. /\ bills' \in [BillIds -> BillRecord]
        /\ bills'[b].state = "sent" /\ bills'[b].to = bills[b].to
        /\ \A c \in BillIds \ {b} : bills'[c] = bills[c]
    BY <1>6, <2>1
  <2>3. to \in Place
    BY <1>2 DEF BillRecord
  <2>4. b \notin overtaken' => ~UnderCorrection(b) /\ to = bills[b].to
    BY <2>1
  <2>5. overtaken \subseteq overtaken' /\ overtaken' \subseteq overtaken \cup {b}
    BY <2>1
  <2> HIDE DEF to
  <2>6. IntakeTypeOK'
    BY <1>1, <1>2, <2>1, <2>2, <2>3, <2>5 DEF IntakeTypeOK, bankVars
  <2>7. BankStaysOnRecord'
    BY <1>2, <1>4, <2>2 DEF BankStaysOnRecord
  <2>8. PaidIsSettled' /\ PaidAsRecorded'
    BY <1>2, <1>3, <2>1, <2>2, <2>4, <2>5 DEF IntakeInv, PaidIsSettled, PaidAsRecorded, IntakeTypeOK
  <2> QED
    BY <1>3, <2>6, <2>7, <2>8 DEF IntakeInv
<1> QED
  BY <1>5, <1>7, <1>8

LEMMA IntakeNext_Inv == IntakeInv /\ [IntakeNext]_intakeVars => IntakeInv'
<1> SUFFICES ASSUME IntakeInv, [IntakeNext]_intakeVars PROVE IntakeInv'
  OBVIOUS
<1>1. CASE UNCHANGED intakeVars
  BY <1>1 DEF intakeVars, IntakeInv, IntakeTypeOK, TasksKnow, TaskKnows, Present, PaidIsSettled,
              UnderCorrection, RefreshIsHeeded, BankStaysOnRecord, PaidAsRecorded
<1>2. CASE IntakeNext
  BY <1>2, LookSteps, CreateSteps, PatchSteps, PaySteps DEF IntakeNext
<1> QED
  BY <1>1, <1>2

LEMMA IntakeInvariant == IntakeSpec => []IntakeInv
BY IntakeInit_Inv, IntakeNext_Inv, PTL DEF IntakeSpec

-----------------------------------------------------------------------------
\* Every bank, bill and request has its type.
THEOREM IntakeTypeCorrect == IntakeSpec => []IntakeTypeOK
<1>1. IntakeInv => IntakeTypeOK
  BY DEF IntakeInv
<1> QED
  BY <1>1, IntakeInvariant, PTL

\* What the provider said of a bank in the last refresh that named it stands,
\* whoever fills the directory.
THEOREM RefreshesAreHeeded == IntakeSpec => []RefreshIsHeeded
<1>1. IntakeInv => RefreshIsHeeded
  BY DEF IntakeInv
<1> QED
  BY <1>1, IntakeInvariant, PTL

\* The bank of every bill stays on record.
THEOREM BanksStayOnRecord == IntakeSpec => []BankStaysOnRecord
<1>1. IntakeInv => BankStaysOnRecord
  BY DEF IntakeInv
<1> QED
  BY <1>1, IntakeInvariant, PTL

\* A bill is paid to where it says, unless a correction and a payment overlapped.
THEOREM BillsArePaidAsRecorded == IntakeSpec => []PaidAsRecorded
<1>1. IntakeInv => PaidAsRecorded
  BY DEF IntakeInv
<1> QED
  BY <1>1, IntakeInvariant, PTL
=============================================================================
