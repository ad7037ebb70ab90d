--------------------------------- MODULE Banks ---------------------------------
(***************************************************************************)
(* The bank directory: a table of the provider's banks that a daily job    *)
(* refreshes, that any request fills when it finds it empty, and that      *)
(* turns what a user typed into one bank.  The job runs in a thread of its *)
(* own, requests in others or on the event loop; reads lock nothing, and   *)
(* the unique constraint decides between two inserts of one bank.          *)
(***************************************************************************)
EXTENDS Integers, FiniteSets

CONSTANTS
    Institutions,    \* banks, told apart by country, code and name
    BankCodes, CodeOf,               \* several banks may share a code
    Texts,                           \* what a user types for a bank
    Literal, Alias,                  \* the code a text is, or is an alias for
    Named,                           \* the banks whose name or slug it is
    Snapshot, TestBank,              \* data/banks_ng.json; code 001
    Production,                      \* settings.environment
    Requests, Refresher,             \* who may be at work; one is the job
    BillIds, AccountNumbers,         \* bills, and account numbers they are paid to
    NoBank, NoBankCode, NoBillId, NoAccount,
    Same             \* of a column: not written

ASSUME BanksAssumption ==
    /\ CodeOf \in [Institutions -> BankCodes] /\ NoBankCode \notin BankCodes
    /\ Literal \in [Texts -> BankCodes \cup {NoBankCode}]
    /\ Alias \in [Texts -> BankCodes \cup {NoBankCode}]
    /\ Named \in [Texts -> SUBSET Institutions]
    /\ Snapshot \subseteq Institutions /\ TestBank \in Institutions \ Snapshot
    /\ Production \in BOOLEAN /\ Refresher \in Requests
    /\ NoBillId \notin BillIds
    /\ NoBank \notin Institutions /\ Same \notin Institutions \cup {NoBank}
    /\ NoAccount \notin AccountNumbers /\ Same \notin AccountNumbers \cup {NoAccount}

VARIABLES
    directory,   \* the banks table
    heard,       \* what the last refresh that committed was told of each bank
    task         \* the requests at work

bankVars == <<directory, heard, task>>

Standing == {"absent", "active", "retired"}
Nothing == [i \in Institutions |-> "absent"]
Present(d) == {i \in Institutions : d[i] # "absent"}

Kinds == {"refresh", "search", "create", "patch"}
Task == [kind : Kinds \cup {"none"},
         pc : {"idle", "answered", "diffed", "load", "seeding", "test",
               "testing", "resolve", "store"},
         answer : [Institutions -> Standing], found : SUBSET Institutions,
         bill : BillIds \cup {NoBillId},
         bank : Institutions \cup {NoBank, Same},
         account : AccountNumbers \cup {NoAccount, Same},   \* to be written
         was : Institutions \cup {NoBank, Same},   \* the bill's bank, if loaded
         flushed : BOOLEAN]   \* holds the bill's row, its account written
NoTask == [kind |-> "none", pc |-> "idle", answer |-> Nothing, found |-> {},
         bill |-> NoBillId, bank |-> Same, account |-> Same, was |-> Same,
         flushed |-> FALSE]

At(w, pc) == task[w].pc = pc
Goes(w, pc) == task' = [task EXCEPT ![w].pc = pc]
Ends(w) == task' = [task EXCEPT ![w] = NoTask]

-----------------------------------------------------------------------------
(* refresh                                                                 *)

\* The answer of list_banks, before which nothing is read: the provider adds,
\* retires and takes up banks as it likes, a page without a body ends the list
\* early, and the test bank is never on it.  An empty list and an error leave
\* the table alone.
ListAnswer(w) ==
    /\ w = Refresher /\ At(w, "idle")
    /\ \E list \in [Institutions -> Standing] \ {Nothing} :
         /\ list[TestBank] = "absent"
         /\ task' = [task EXCEPT ![w] = [NoTask EXCEPT !.kind = "refresh", !.pc = "answered",
                                                     !.answer = list]]
    /\ UNCHANGED <<directory, heard>>

ListDiffed(w) ==
    /\ At(w, "answered")
    /\ task' = [task EXCEPT ![w] = [@ EXCEPT !.pc = "diffed", !.found = Present(directory)]]
    /\ UNCHANGED <<directory, heard>>

\* Mutant: a bank that is not on the list is removed.
RefreshedExactly(i, answer) == answer

\* Mutant: a bank already on record keeps its standing.
RefreshedOnce(i, answer) ==
    IF directory[i] = "absent" THEN answer ELSE directory[i]

\* A bank that is not on the list keeps its row as it was.
Refreshed(i, answer) == IF answer = "absent" THEN directory[i] ELSE answer

\* A bank to insert that came meanwhile: all of it is rolled back.
Clash(w) ==
    (Present(task[w].answer) \ task[w].found) \cap Present(directory) # {}

ListCommit(w) ==
    /\ At(w, "diffed") /\ ~Clash(w)
    /\ directory' = [i \in Institutions |-> Refreshed(i, task[w].answer[i])]
    /\ heard' = [i \in Institutions |->
                   IF task[w].answer[i] = "absent" THEN heard[i] ELSE task[w].answer[i]]
    /\ task' = [task EXCEPT ![w] = [NoTask EXCEPT !.kind = "refresh", !.pc = "test"]]

ListConflict(w) ==
    /\ At(w, "diffed") /\ Clash(w)
    /\ Ends(w)
    /\ UNCHANGED <<directory, heard>>

-----------------------------------------------------------------------------
(* ensure_loaded, which commits the session of its caller when it fills    *)
(* the table                                                               *)

SearchStart(w) ==
    /\ At(w, "idle")
    /\ task' = [task EXCEPT ![w] = [NoTask EXCEPT !.kind = "search", !.pc = "load"]]
    /\ UNCHANGED <<directory, heard>>

\* Where a request is once the directory is loaded.
Loaded(w) == IF task[w].kind \in {"create", "patch"} THEN Goes(w, "resolve") ELSE Ends(w)

Load(w) ==
    /\ At(w, "load")
    /\ task[w].kind = "patch" => task[w].account = Same \/ task[w].flushed
    /\ Goes(w, IF Present(directory) = {} THEN "seeding" ELSE "test")
    /\ UNCHANGED <<directory, heard>>

\* A commit before the caller's own: what it has written is durable, and what
\* it had loaded is expired.
Filled(s) ==
    IF s.kind = "patch"
    THEN [s EXCEPT !.was = Same, !.flushed = FALSE,
                   !.account = IF s.flushed THEN Same ELSE @]
    ELSE s

Seed(w) ==
    /\ At(w, "seeding") /\ Snapshot \cap Present(directory) = {}
    /\ directory' = [i \in Institutions |-> IF i \in Snapshot THEN "active" ELSE directory[i]]
    /\ task' = [task EXCEPT ![w] = [Filled(@) EXCEPT !.pc = "test"]]
    /\ UNCHANGED heard

\* IntegrityError, which nobody catches: a 500, and nothing is stored.
SeedConflict(w) ==
    /\ At(w, "seeding") /\ Snapshot \cap Present(directory) # {}
    /\ Ends(w)
    /\ UNCHANGED <<directory, heard>>

HasTestCode == \E i \in Present(directory) : CodeOf[i] = CodeOf[TestBank]

\* _ensure_test_banks
TestBankRead(w) ==
    /\ At(w, "test")
    /\ IF Production \/ HasTestCode THEN Loaded(w) ELSE Goes(w, "testing")
    /\ UNCHANGED <<directory, heard>>

TestBankInsert(w) ==
    /\ At(w, "testing") /\ directory[TestBank] = "absent"
    /\ directory' = [directory EXCEPT ![TestBank] = "active"]
    /\ IF task[w].kind \in {"create", "patch"}
       THEN task' = [task EXCEPT ![w] = [Filled(@) EXCEPT !.pc = "resolve"]]
       ELSE Ends(w)
    /\ UNCHANGED heard

TestBankConflict(w) ==
    /\ At(w, "testing") /\ directory[TestBank] # "absent"
    /\ Ends(w)
    /\ UNCHANGED <<directory, heard>>

-----------------------------------------------------------------------------
(* resolve_name, as far as resolve_exact accepts its answer: the active    *)
(* banks that carry the code the text is; else the code it is an alias     *)
(* for; else its name or slug.  Of several the first row is taken, and the *)
(* query orders them by nothing.                                           *)

Coded(c) == {i \in Institutions : directory[i] = "active" /\ CodeOf[i] = c}
Candidates(t) ==
    IF Coded(Literal[t]) # {} THEN Coded(Literal[t])
    ELSE IF Coded(Alias[t]) # {} THEN Coded(Alias[t])
    ELSE {i \in Named[t] : directory[i] = "active"}

Resolve(w) ==
    /\ At(w, "resolve")
    /\ \E t \in Texts :
         IF Candidates(t) = {}
         THEN Ends(w)   \* 422
         ELSE \E i \in Candidates(t) :
                 task' = [task EXCEPT ![w] = [@ EXCEPT !.pc = "store", !.bank = i]]
    /\ UNCHANGED <<directory, heard>>

DirectoryInit ==
    /\ directory = Nothing /\ heard = Nothing
    /\ task = [w \in Requests |-> NoTask]
=============================================================================
