----------------------------- MODULE PayoutState -----------------------------
(***************************************************************************)
(* The state every part of the payout path works on: the committed rows of *)
(* the database (users.balance, bills, transactions, webhook_events), the  *)
(* row locks of open database transactions, the single asyncio event loop, *)
(* the database sessions with what they have cached, and the payment       *)
(* provider's own record of each transfer.                                 *)
(*                                                                         *)
(* A session is one request, webhook delivery or scheduler job at work.    *)
(* What it has read is cached in it (SQLAlchemy's identity map): a later   *)
(* read of a row it already holds, SELECT ... FOR UPDATE included, takes   *)
(* the lock but returns the cached columns.  What it writes is invisible   *)
(* until it commits, so pending writes are given by its pc and its cached  *)
(* columns, and a commit is the action that changes the rows.              *)
(***************************************************************************)
EXTENDS Integers, FiniteSets

CONSTANTS
    Users, Bills, Refs,   \* wallets, bills and transfer references
    Workers,              \* the sessions that can be open at the same time
    Jobs,                 \* Jobs[w]: what session w may be opened for
    Owner,                \* Owner[b]: the user bill b belongs to
    BillOf,               \* BillOf[r]: the bill reference r is made for
    Amount, Fee,          \* Amount[b]: what the vendor gets; Fee: ours
    MaxRetries,           \* bills.max_retries
    Deposit,              \* Deposit[u]: the wallet's balance at the start
    Faults,               \* what the environment does besides answering
    Nobody, NoBill, NoRef

ASSUME RowsAssumption ==
    /\ Owner \in [Bills -> Users]
    /\ BillOf \in [Refs -> Bills]
    /\ Users \cap Bills = {} /\ Users \cap Refs = {} /\ Bills \cap Refs = {}
ASSUME MoneyAssumption ==
    /\ Amount \in [Bills -> Nat \ {0}] /\ Fee \in Nat
    /\ Deposit \in [Users -> Nat]
    /\ MaxRetries \in Nat \ {0}
ASSUME NullAssumption == Nobody \notin Workers /\ NoBill \notin Bills /\ NoRef \notin Refs

FaultKinds == {"reply_lost", "crash", "otp", "processing_reply", "reversal"}
JobKinds == {"pay", "autopay", "webhook", "reconcile", "otp_api", "otp_bot", "cancel"}
ASSUME JobsAssumption == Jobs \in [Workers -> SUBSET JobKinds] /\ Faults \subseteq FaultKinds

VARIABLES
    balance,   \* users.balance
    bill,      \* bills.status and bills.retry_count
    txn,       \* transactions: the debit of each reference
    events,    \* webhook_events: the deliveries already accepted
    remote,    \* the provider's state of the transfer of each reference
    lock,      \* which session holds each row
    loop,      \* which session runs on the event loop right now
    sess       \* the open sessions

vars == <<balance, bill, txn, events, remote, lock, loop, sess>>
tables == <<balance, bill, txn, events>>

Rows == Users \cup Bills \cup Refs

BillStatus == {"pending", "scheduled", "processing", "paid", "failed", "cancelled"}
BillRow == [status : BillStatus, retry : Nat]
TxnRow == [status : {"none", "processing", "success", "failed"}, code : BOOLEAN]
NoTxn == [status |-> "none", code |-> FALSE]
RemoteStatus == {"none", "otp", "pending", "success", "failed", "reversed"}
EventKinds == {"success", "failed", "reversed"}

PCs == {"idle", "authed", "loaded", "bill_locked", "calling", "accepted", "refunding",
        "otp_loaded", "finalizing", "replied", "polling", "polled", "txn_read",
        "bill_read", "flushing", "cancelling"}

Session ==
    [job : JobKinds \cup {"none"}, pc : PCs,
     bill : Bills \cup {NoBill}, ref : Refs \cup {NoRef},
     status : BillStatus, retry : Nat,     \* cached columns of the bill
     balance : Int,                        \* cached balance of its owner
     code : BOOLEAN,                       \* a transfer_code was returned
     outcome : EventKinds \cup {"none", "pending"}]  \* what the provider said

\* A session that has read nothing yet; none at all; one for the transfer
\* that reference r names.
NewSession(job, pc, b, r) ==
    [job |-> job, pc |-> pc, bill |-> b, ref |-> r, status |-> "pending", retry |-> 0,
     balance |-> 0, code |-> FALSE, outcome |-> "none"]
Idle == NewSession("none", "idle", NoBill, NoRef)
Opened(job, pc, r) == NewSession(job, pc, BillOf[r], r)

Charge(b) == Amount[b] + Fee

-----------------------------------------------------------------------------
(* Sessions, the event loop and row locks                                  *)

\* async endpoints, webhooks and bot handlers share one event loop; sync
\* endpoints and the scheduler's jobs have a thread of their own.
LoopJobs == {"pay", "webhook", "otp_api", "otp_bot"}

\* A coroutine runs when the loop is free or already its own.
CanRun(w) == sess[w].job \in LoopJobs => loop \in {Nobody, w}
Hold(w) == loop' = IF sess[w].job \in LoopJobs THEN w ELSE loop
Await(w) == loop' = IF loop = w THEN Nobody ELSE loop

CanOpen(w, job) == sess[w] = Idle /\ job \in Jobs[w]
Become(w, s) == sess' = [sess EXCEPT ![w] = s]
Move(w, pc) == Become(w, [sess[w] EXCEPT !.pc = pc])

\* A row another open transaction has locked makes the session wait.
LockFree(w, row) == lock[row] \in {Nobody, w}

\* Mutant: a plain SELECT, which waits but leaves the row to others.
TakeNothing(w, row) == LockFree(w, row) /\ UNCHANGED lock

TakeLock(w, row) == LockFree(w, row) /\ lock' = [lock EXCEPT ![row] = w]

\* Commit and rollback both end the session: its locks and the loop are free.
Close(w) ==
    /\ Become(w, Idle)
    /\ lock' = [row \in Rows |-> IF lock[row] = w THEN Nobody ELSE lock[row]]
    /\ Await(w)

Rollback(w) == Close(w) /\ UNCHANGED <<tables, remote>>

\* An UPDATE carries only the columns that differ from what was loaded.
Written(loaded, new, committed) == IF new = loaded THEN committed ELSE new

\* Mutant: one retry too many.
RetryStatusLate(retry) == IF retry > MaxRetries THEN "failed" ELSE "scheduled"

RetryStatus(retry) == IF retry >= MaxRetries THEN "failed" ELSE "scheduled"

Init ==
    /\ balance = Deposit
    /\ bill \in [Bills -> [status : {"pending", "scheduled"}, retry : {0}]]
    /\ txn = [r \in Refs |-> NoTxn]
    /\ events = {}
    /\ remote = [r \in Refs |-> "none"]
    /\ lock = [row \in Rows |-> Nobody]
    /\ loop = Nobody
    /\ sess = [w \in Workers |-> Idle]

TypeOK ==
    /\ balance \in [Users -> Int]
    /\ bill \in [Bills -> BillRow]
    /\ txn \in [Refs -> TxnRow]
    /\ events \subseteq Refs \X EventKinds
    /\ remote \in [Refs -> RemoteStatus]
    /\ lock \in [Rows -> Workers \cup {Nobody}]
    /\ loop \in Workers \cup {Nobody}
    /\ sess \in [Workers -> Session]
=============================================================================
