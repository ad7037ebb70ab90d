# A verification model of AutoPay AI

AutoPay AI pays the bills of its users from a wallet: a user sends a bill to the
web API or the Telegram bot, a decision agent says pay now, schedule or hold, and
Paystack moves the money. This directory holds TLA+ models of the parts that move
money or promise to, of the chat in which they are told to, and of the records
that say who a request is from and where the money goes; TLC configurations that
check them on small instances; and proofs that TLAPS checks for instances of any
size. The code is the reference throughout; paths below are relative to the
repository.

## 1. How the program executes

Everything the models say about interleaving rests on five facts of the code.

- One process runs one asyncio event loop. The async endpoints (`pay_bill`,
  `submit_transfer_otp`, top-ups), the Paystack webhook and the bot's handlers are
  coroutines on it. They use a synchronous database driver, so a statement that
  waits for a row lock blocks the loop itself, and a coroutine gives up the loop
  only where it awaits the payment provider or Telegram.
- Sync endpoints (`cancel_bill`, login, link codes) and sync dependencies
  (`get_current_user`) run in the thread pool; the scheduler's jobs run in threads
  of their own, each job at most once at a time (`max_instances=1`).
- A SQLAlchemy session caches what it reads. `SELECT ... FOR UPDATE` on a row the
  session already holds takes the lock and returns the cached columns.
- A flush writes the columns that differ from what was loaded, as absolute values.
  The balance is one such column.
- PostgreSQL runs at READ COMMITTED: a statement sees what is committed when it
  runs, row locks last until commit or rollback, and cycles of lock waits are
  broken by a rollback. A wait for the event loop is not one the database can see.

`session_scope` and `get_session` (`app/core/database.py`) close a session without
committing, so every path that does not commit is a rollback.

## 2. Inventory

| Part | State it keeps | Operations | What is hard about it | What makes it correct |
|---|---|---|---|---|
| Payouts (`services/payout.py`, `api/bills.py`) | `bills`, debit rows of `transactions`, `users.balance`, row locks | `execute_payout`, `_refund_on_failure`, `confirm_payout`, `finalize_pending_transfer`, `cancel_bill` | rows locked while the provider is awaited; reads before the locks; lost answers; crashes around the commit | wallets never negative, at most one transfer for a bill, wallet and debits agree, every debit ends |
| Webhooks (`api/webhooks.py`) | `webhook_events` | `transfer.*`, `charge.success`, de-duplication | late, lost, repeated, out-of-order deliveries; a delivery before the commit it is about | an event takes effect once |
| Scheduler (`core/scheduler.py`) | none of its own; reads due bills and processing debits | autopay (1 min), reconciliation (5 min), recurrence (6 h), banks (24 h) | claims that release their locks; polls that race webhooks; failures in mid-list | nothing stays in flight, no period is skipped or billed early |
| Wallet funding (`services/wallet.py`, `api/wallet.py`) | credit rows of `transactions`, `users.balance` | `start_topup`, `apply_credit_from_provider_event`, `credit_virtual_account_deposit`, `verify_pending_topup` | two paths credit one row; the balance is read before the user's row is locked | credited only when paid, counted once, never lost |
| Recurring bills (`services/bill.py`, `schedule_recurrence`) | `is_recurring`, `next_recurrence_date` | `create_scheduled_bill`, `_process_recurring_bills` | per-bill transactions in a list read earlier | one bill for each period, none skipped, none early |
| Payment provider client (`services/payments/`) | none | transfers, charges, status polls, signature checks | what an error means for the money | an unknown outcome is not a failure |
| Accounts (`services/auth.py`, `api/auth.py`) | `users`, `refresh_tokens` | sign-up, login, refresh, logout, replay of a revoked token | rows are read without locks in threads: two refreshes of one token, a sign-out beside a refresh | a token that was exchanged is dead; a sign-out ends every session it finds |
| Telegram links (`api/auth.py`, `handlers/auth.py`) | `telegram_link_codes`, `users.telegram_chat_id` and `is_telegram_linked` | codes, `/link`, `/unlink`, the web's unlink | the bot checks in one session and writes in a later one while the web writes the same columns | a chat speaks for one user, by a code of theirs that was sent from it |
| Virtual accounts and KYC (`services/wallet.py`, `api/wallet.py`, `api/kyc.py`) | `virtual_accounts`, `kyc_records`, each one for a user | provisioning at sign-up and on request, `submit_bvn` | two requests find nothing and both insert; the provider's answer is lost | what a user was told is on record is, and stays |
| Bank directory (`services/banks.py`) | `banks` | the daily refresh, `ensure_loaded`, `resolve_exact` | whoever finds the table empty fills it, beside the job; the fill commits its caller's session | the provider's word stands, a bank that a bill names stays |
| Bill intake (`api/bills.py`) | `bills` and where each is paid to | `create_bill`, `update_bill_payout_account`, `upload_bill` | a correction looks at the status, then waits for the row; a payment loads the destination, then waits | the money goes where the bill says |
| Bot conversations (`handlers/*_conversation.py`) | `context.user_data`, the state of each conversation | bill, top-up and schedule dialogues | three dialogues share one dictionary, the texts and `/cancel`; old buttons tapped again; a message that fails after the work is done; in webhook mode, handlers that overlap | what is stored is what was shown and confirmed, whole; each prompt has a handler |
| Decision agent (`agents/`) | none | `decide` | its answer is as old as the balance it was given | the guard of autopay's payments, which check the balance again |
| Text algorithms (`name_match.py`, `date_parser.py`) | none | match names, parse dates | boundaries | outside these models |
| Extraction, notifications, audit, metrics, web client | append-only rows, messages, pages | OCR and LLM calls, sends, writes | external services | outside these models |

The parts meet in three places: the database rows, above all `users.balance` and
the lock of the user's row, which payouts hold across a call to the provider and
credits need for a moment, and the destination of a bill, which corrections write
and payments read; the event loop, which every coroutine needs; and the
provider, whose own record of a transfer is the truth the rows follow.

`PROJECT.json` lists each part with its status, and under `hazards` what in this
code a test would hardly reach, line by line, with the properties that watch it.

## 3. Modules

| Module | Models |
|---|---|
| `PayoutState` | the rows, row locks, event loop, sessions with their caches, and the provider's transfers |
| `ExecutePayout` | `execute_payout` with its callers `pay_bill` and `_autopay_one_bill` |
| `ConfirmPayout` | `confirm_payout` with its callers: webhook, reconciliation job, OTP submission |
| `Payout` | both together, with `cancel_bill`, deadlock victims, a provider that settles by itself, crashes; fairness and properties |
| `Ledger` | the abstract specification of the money: wallets, and entries that are opened, then settled or refunded once; a refund may waive other open charges |
| `PayoutLedger` | `Payout` as an implementation of `Ledger` |
| `PayoutInvariant` | the inductive invariant `IInv`, and `OutcomeInv` for a provider whose answers arrive |
| `PayoutProofs` | proofs about `Payout`, and about sums over finite sets |
| `SchedulerInvariant` | what is true of payments while nobody pays by hand and one session at a time confirms (`OneConfirmer`) |
| `SchedulerProofs` | proofs under `OneConfirmer`, the refinement of `Ledger` among them |
| `Funding` | top-ups, virtual-account deposits and their verification |
| `Wallet` | `Payout` and `Funding` over one balance, one set of locks and one loop |
| `WalletInvariant` | what funding sessions and confirmations have read of a wallet that is credited too (`WalletInv`) |
| `WalletProofs` | proofs about `Wallet` |
| `Recurrence` | a series of recurring bills and the job that continues it |
| `RecurrenceProofs` | proofs about `Recurrence` |
| `BotState` | one chat: the conversations' states, `user_data`, the handlers at work |
| `TopupConversation`, `ScheduleConversation`, `BillConversation` | the handlers of `/topup`, of `/schedule`, and of a bill sent to the bot |
| `Bot` | the three together, as `build_application` registers them |
| `BotProofs` | proofs about `Bot` |
| `Accounts` | users, refresh tokens, and the two records a user has once, with every request that touches them |
| `AccountsProofs` | proofs about `Accounts` |
| `TelegramLink` | link codes, and which chat speaks for which user |
| `TelegramLinkProofs` | proofs about `TelegramLink` |
| `Banks` | the bank directory: refresh, filling, lookup |
| `Intake` | bills as they are created, corrected and paid, over `Banks` |
| `IntakeProofs` | proofs about `Intake` and `Banks` |
| `MCPayout`, `MCScheduler`, `MCWallet`, `MCRecurrence`, `MCBot`, `MCDesk` | instances for TLC (`MCScheduler` for the two subjects of `scheduler_live`, `MCWallet` for `wallet_twice`, `MCDesk` for the four subjects of `desk`) |

### State and code

`balance`, `bill`, `txn`, `events`, `credit` and `told` are committed rows.
`sess[w]` (`fund[w]` for credits) is an open session: its `pc` says how far the
function has come, its other fields are the columns it has cached. What a session
has flushed but not committed is not in the tables: it is implied by the pc and
the cache, and the action that commits writes it. `lock` is who holds each row,
`loop` who runs on the event loop; a session that awaits has given the loop up
(`Await`) and needs it free to go on (`CanRun`). `remote` and `charge` are the
provider's records. A crash closes every session and keeps the rest.

One action is one stretch of code between two points at which others can act: a
wait for a lock, an await, a commit, or a pause of a thread between two reads. So
`execute_payout` is `LockBill`, then `StartPayout` or `RefusePayout` (the user's
lock, the guards, and the flush), one of `CallAccepted`, `CallRejected`,
`CallRaises`, `CallLost`, and `CommitDebit` or `CommitRefund`. `pay_bill` loads the
user (`PayRequest`, a dependency in a thread) and the bill (`PayLoadBill`) before
that, in the same session; the scheduler's session is fresh. `CachedBill` and
`CachedBalance` are where that difference bites. `confirm_payout` reads the debit,
the bill (`ConfirmReadBill`) and the user (`ConfirmReadUser`), then takes the locks
of its flush one at a time in any order (`FlushRow`; SQLAlchemy fixes none
across these tables), and commits (`ConfirmSuccess`, `ConfirmFailure`).

In the chat, `conv[c]` is the state python-telegram-bot keeps for a conversation,
and `user_data` the dictionary the three share (as a function on the keys that are
present: a draft lacks the fields not entered yet). A handler of a button is two or
three actions: `Tap`, up to the await of `query.answer()`; the handler itself, up to
its last message; and `Return`, where the message is sent, keys are popped, and the
conversation takes the returned state. `SendFails` may end it at either await, and
then the conversation stays where it was. A text or a command starts with the handler
itself. Who gets a text, and who `/cancel`, follows the order of registration: the
guards of `TakesScheduleText`, `TakesBillText` and the three cancel commands.
`review` and `offered` are not the program's: they record what the last message of
`/schedule` showed and which inputs it asked for.

In `Accounts` and `Intake` a request is a record in `desk` or `task`: its `pc`, and what
it has read. A request that reads and then writes is two actions, the read and the
commit, and the write acts on what was read: `RefreshRead` and `Rotate`, `ReadLive` and
`RevokeAll`, `KycRead` and `KycStore`. Where two inserts of one record meet, the unique
constraint decides, so there is an action for the winner (`StoreAccount`, `Seed`,
`ListCommit`) and one for the `IntegrityError` (`StoreConflict`, `SeedConflict`,
`ListConflict`). In `TelegramLink` a flush writes only the columns that differ from
what its session loaded (`Updated`), so an unlink and a link that overlap can each
leave a column; `bot` is the one command at work, `clerk[w]` a request of the web. A
correction of a payout account in `Intake` is `PatchStart` (the status is checked),
`PatchFlush` (the first query of `ensure_loaded` writes the account and locks the row),
the steps of `ensure_loaded`, whose commit makes that account durable (`Filling`),
`Resolve`, and `PatchStore`. `shown`, `opened`, `closed`, `linked`, `heard` and
`overtaken` are not the program's: they record what users and the provider were told,
which codes linked which chats, and which requests overlapped.

Updates are handled one at a time by polling, and by as many tasks as there are
requests in webhook mode (`telegram_webhook`); `MaxInFlight` says which.

### What is abstracted

- A reference stands for one attempt to pay one bill; `BillOf` says which. It is
  chosen when the session opens and no other session, row or transfer has it.
- Due dates and ages are left open: a scheduled bill may be due, a debit may be old
  enough for the job, a parked transfer may have passed `_OTP_TTL`.
- `Jobs[w]` and `FundingJobs[w]` say what a session may be opened for; they allow
  more overlap than `max_instances=1` does.
- A delivery of a webhook that was accepted before changes no row of the model.
- `Faults` names what the environment may do besides answering: lose an answer,
  crash, ask for an OTP, answer an OTP with "processing", reverse a transfer.
- In `Funding`, coroutines keep the loop from locking a credit row to its commit,
  so its lock is never waited for and is left out. The two commits of
  `start_topup` are one, a webhook without an amount is left out, and the
  provider's answers other than success are `VerifyNoAnswer`. A pending top-up's
  foreign key shares the user's row (`Shared`), and a payout waits for it.
- Notifications, audit rows (but for the count of `wallet.credited`) and errors that
  `_commit_or_warn` swallows are left out.
- In `Accounts` passwords, signatures and expiry are left out: a token that is
  presented is one on record. `RefreshRead` with a dead token is its replay. The hash
  of a token is the token, a BVN stands for its encryption.
- In `TelegramLink` a code is new, as it is random; its fifteen minutes end at any time
  (`Expire`).
- In `Banks` a list of the provider's is any list, texts are model values whose code,
  alias and name the constants give, and the ranking of what is only similar is left
  out, as `resolve_exact` does not accept it. `Refresher` is the one thread of the job.
- In `Intake` a payment is one step (`PayOut`); its steps are `Payout`'s, and what matters
  here is which destination its session has loaded. Create requests may overlap more
  than the event loop lets them.
- `POST /bills/upload` ends in a 500 before it stores anything: `upload_bill` hands the
  provider's object to `audit_bill_created` (`api/bills.py`), which puts it in a JSON
  column. So its bills, and the agent's decision on them, are not modelled.
- In the chat the values of texts are left out, a due date is one that may have
  passed by the time it is stored or one that has not, and an interval is weekly or
  none. Whether the chat is linked (`get_linked_user`), a text parses, a bank is
  found or the payee's name matches is a free choice. Of `user_data`, the keys
  `staging`, `edited_keys`, `user_id` and `user_balance` come and go with `bill`.
  Only buttons the current state has a handler for are tapped: others are ignored.
- A bill confirmed in the chat cannot be found again (below), so the states after
  the agent's decision, `FINAL_CONFIRM` with `handle_final_confirm`, are out of the
  program's reach and not modelled. `RESOLVING` is never returned by a handler.
- The bot keeps its conversations in memory only: a restart is `BotInit` again with
  the stored bills kept, and is left out.
- In `Recurrence` a payout is one step, and rows of one series and date are told
  apart up to `Copies`.

## 4. What the runs check

| Run | Instance | Shows |
|---|---|---|
| `payout_full` | one bill, two references, two sessions of any kinds, all faults but reversals | the safety that survives every race: typing, no negative wallet, paid bills have a completed transfer, counting debits have an accepted one, payouts of a wallet serialize; and `IInv` |
| `payout_fresh` | two bills of one wallet, three references, two autopay sessions and a webhook, reversals | where only the scheduler pays and only webhooks confirm: no user is charged beyond the debits on record, one live transfer for a bill, a bill is processing exactly while a debit of its own is, no retry beyond `max_retries`, no money given back that was also sent; what is written back over the others' commits (`CommitsFit`), what that may give away (`OnlyRefundsGive`), and that each step is one of `Ledger` or none |
| `scheduler_live`, subject `payouts` | one bill, two references, autopay and reconciliation, OTPs and lost answers, every webhook lost | every debit ends (`EveryDebitSettles`) |
| `scheduler_live`, subject `recurrence` | a series with a bill each tick, payouts, cancellations, failing spawns, restarts | no gap, nothing early, and a bill that was paid has its successor in the end (`PaidBillsRecur`) |
| `desk`, subject `accounts` | one person, three tokens, two account numbers and BVNs, two requests at a time, a provider that refuses or whose answer is lost, requests that die | exchanged tokens are dead; a sign-out that nothing overlaps ends every session and what would grow from it; what a user was told is on record |
| `desk`, subject `links` | two users, two chats, three codes, one request of the web beside the bot, crashes | a chat speaks by a code of its user's sent from it; no two users hold a chat; a code links one chat |
| `desk`, subject `intake` | two banks (one in the snapshot, one the test bank), four texts, one bill, the job and a request | a refresh stands whoever fills the table when; the bank of a bill stays; money goes where the bill says unless a correction and a payment overlap |
| `desk`, subject `wallet` | a checkout of one user, a virtual-account deposit of another, a worker that pays by autopay and takes the transfer's webhooks, two funding sessions, crashes and lost answers | credits are paid for, counted once, and never lost to a stale balance; and `WalletInv`, from which the last two are proved |
| `bot_full` | one chat, updates one at a time, one bill stored | in any order of commands, texts and taps, with messages that fail: a bill of `/schedule` is stored as it was last shown for review, with all its fields; every prompt of `/schedule` is one its state answers |
| `payout_twice` (violation of `OneLiveTransfer`) | a request to pay beside autopay | the request loads the bill before the scheduler's payment commits, `FOR UPDATE` does not refresh it, and the vendor is paid twice |
| `payout_frozen` (violation of `PayIsAnswered`) | two requests to pay | the second waits for the row inside the loop that the first needs: nothing moves again |
| `payout_lost_debit` (violation of `Conserved`) | autopay of one bill, the failure of another | a refund from a balance read without a lock erases a debit |
| `wallet_twice` (violation of `CreditedOnce`) | the webhook and the user's verification | both credit one top-up: the row was loaded before the provider was awaited |
| `bot_lost` (violation of `ConfirmedIsStored`) | a bill sent to the bot and confirmed | `handle_confirm` never commits it: the agent finds no bill, and the answer is always "Session expired" |
| `recurrence_twice` (violation of `OneBillPerPeriod`) | one series | the next date is counted from a due date that never moves, so the original spawns the same bill in every run |
| `recurrence_unpaid` (violation of `OnlyPaidRecur`) | one series | the job's `WHERE` asks nothing of the status: a bill that nobody has paid has its successor as soon as it is due |

The four subjects of `desk` share no variable, so a behaviour of one says nothing about
the others: `MCDesk` lets one of them move and keeps the others as they start.
`MCScheduler` does the same with its two; a subject that rests has no step that
fairness would ask for.

**The ledger.** `PayoutLedger!Books` is `Ledger` with an entry for each debit's status,
the bills' retry counts for its `tries` and the committed balances for its wallets; what a
session has flushed is on no ledger.
`ImplementsLedger` says that each commit is one step of the ledger: a charge when nothing
else is open or settled for the bill and the wallet holds the price, an attempt declined, a
settlement, or a refund in full; every other step is none. It is checked where several
payments contend for one wallet (`payout_fresh`) and proved for any number of them
under `OneConfirmer` (section 5). The contention shows in one place. `confirm_payout` reads
the balance without a lock and writes an absolute value, so a refund gives back its own
price and, with it, charges of the wallet that were made since the read: `Refund` of `Ledger`
may waive a set of other open charges (`OpenBeside`). That is the lost debit of
`payout_lost_debit`, and under `OneConfirmer` it is all that goes wrong: a waived charge is of
a debit that is still open, a wallet never loses what no entry was opened for, and
settlements and charges are exact. Both hypotheses of `OneConfirmer` are
needed: two confirmers at a time refund one debit twice, and a request to pay works on what
it read before its locks. `max_retries` is not part of the ledger: of two autopay threads
the second takes a bill that the first has used up (`failed` is not refused).

`CommitsFit` says why: what a payout will write is what the rows hold, by its locks, and the
balance a confirmation has read differs from the one on record by the charges of a set of
open debits. `OnlyRefundsGive` is the same about the money: in each step
a balance and the debits that count change by one amount, except where a refund gives away
charges it has written over.

**Recurring bills.** `DOCUMENTATION.md:268`, `services/bill.py:68-69` and the bot's own text
(`schedule_conversation.py:194-196`) say that a bill recurs once it is paid. The code asks
only for a date that has come, so a bill recurs whatever became of it, cancelled
ones included (`recurrence_unpaid`). What holds of the promise is its other half,
`PaidBillsRecur`.

The `findings` of `PROJECT.json` quote the comment or document each violation
disagrees with. Some properties are claimed only where they hold:
`NeverOvercharged`, `ProcessingIsBacked` and `RetryBudget` fail when the
user's requests to pay join or two sessions confirm at a time, an OTP beside the webhook say,
and `ProcessingIsBacked` when bills are cancelled too, for the reasons those violations show; `RefundedStaysUnpaid` fails with lost answers (a lost acceptance is
taken for a refusal) and with OTPs: that a parked transfer was approved is recorded
nowhere, so the reconciliation job refunds it as expired while it is still pending,
and its later success is ignored (`core/scheduler.py:282`; `Jobs` with `autopay`,
`otp_api` and `reconcile`, and `Faults = {"otp"}`, show it);
`BookedAsReviewed` and `BookedWhole` fail in webhook mode (`MaxInFlight = 2`: a
handler of an earlier prompt, held up at its message, changes or empties the draft
between its review and its confirmation); `Conserved` is
false wherever a refund and another payout share a wallet, so no passing run claims it;
`CreditCountsOnce` and `NoCreditLost` are about wallets from which nobody pays by hand
and whose transfers one session at a time confirms. `NoCreditLost` needs two more things.
Two verified top-ups of one user are lost to each other, as the balance that each request
loads before it asks the provider is written over the credit of the other (`CreditsApart`
excludes this: nobody verifies, or each user has one top-up). And a reconciliation thread or
an OTP may write a refund over a credit, as it reads the balance and commits with
others at work in between; the webhook keeps the loop from its read to its
commit, and a credit needs the loop (`RefundsByWebhook`).

The rest of `desk` is restricted where the code reads without a lock:

- `SignOutHolds` is about sign-outs that no refresh or login overlaps. A refresh that
  has found its token live stores its successor after `_revoke_all_for_user` has read
  the rows, and the session goes on. Two refreshes of one token both get a successor,
  though `services/auth.py:183` calls the lookup and the revocation atomic;
  `ExchangedIsDead` holds nevertheless.
- `OneUserPerChat` and `SpeaksByItsCode` hold in every overlap, but the two link columns
  may part: an unlink of the web that loaded the user before a relink leaves a chat
  on record that is not linked, or the reverse. Older codes stay good, though
  `api/auth.py:252-254` says the bot checks the most recent.
- `PaidAsRecorded` is about bills whose correction and payment do not overlap
  (`overtaken`). A payment that starts after the correction has looked at the status
  sends the money to the old account and the bill then names the new one.
- A correction whose bank is refused with 422 may have stored its account already:
  `ensure_loaded` commits its caller's session when it fills the table.
- Of two banks that a text names equally the first row is taken, in no order
  (`Resolve`): that it is the same one each time is not claimed.

**Bounds.** `Refs` bounds the attempts, `Workers` the sessions open at once,
`MaxRetries` is 2 (the code has 3), `Horizon` bounds the clock, `Copies` the
duplicates told apart. Each race in section 2 is between two actors, and the
violations need two sessions and one or two references, so these sizes let every
such race happen; two references are a first attempt and a retry or a rival, and
a third puts a second bill beside them. One stored bill is enough for `bot_full`, as
a draft is confirmed after any history of the chat, and the chat's state is finite
without a bound but for that. `Horizon = 1` with a bill each tick gives
chains of three bills with their duplicates. In `desk`, three tokens are a session, its
successor and a rival or a second successor, handed out in one order since nothing tells
them apart; beside an account number or a BVN at most one token is issued, as the two
meet in sign-up only; two codes of one user and one of another, with two chats, are a
code that is sent twice, one that is overtaken and one from a chat already taken; two
requests at a time are what each race there needs. `TokensInOrder`, `CodesAsAsked` and
`FewTokensBesideRecords` name these bounds. Deadlock is not checked in the payout runs, `scheduler_live`,
`wallet_twice` and `desk` (it is in the others): once the references, tokens and codes are
used up the system rightly stops.

**Fairness.** `Payout!Fairness` assumes that an open session that can go on does
(the loop and the threads run what is ready; the HTTP client has a timeout), that
a wait for a row that keeps getting free ends (PostgreSQL queues waiters), that the
reconciliation job takes each debit and is not failed by the provider for ever
(it runs every five minutes), and that the provider ends what is pending.
Nothing makes a user, a webhook, an OTP or a crash come. `RecFairness` assumes that
time passes, the six-hourly job runs, and it neither crashes nor fails on the
bills of one due date for ever; nobody has to pay or cancel.

## 5. What is proved

For any users, bills, references, sessions, tokens, codes, chats, banks, requests,
amounts, faults and job sets that the named assumptions allow (`RowsAssumption`,
`MoneyAssumption`, `NullAssumption`, `JobsAssumption`, `TopupAssumption`,
`RecurrenceAssumption`, `BotAssumption`, `AccountsAssumption`, `LinkAssumption`,
`BanksAssumption`):

| Theorem | States |
|---|---|
| `PayoutProofs!TypeCorrect` | `Spec => []TypeOK` |
| `PayoutProofs!WalletNeverNegative` | `Spec => []NonNegativeBalance` |
| `PayoutProofs!PayoutsOfAWalletSerialize` | `Spec => []OnePayoutPerWallet` |
| `PayoutProofs!DebitsAreAccepted` | `Spec => []ChargedMeansAccepted` |
| `PayoutProofs!PaidBillsAreTransferred` | `Spec => []PaidMeansTransferred` |
| `PayoutProofs!InductiveInvariant` | `Spec => []IInv` |
| `PayoutProofs!RefundsAreUnpaid` | `AnswersArrive /\ Spec => []RefundedStaysUnpaid` |
| `SchedulerProofs!PayoutImplementsLedger` | `OneConfirmer /\ IsFiniteSet(Refs) /\ Spec => ImplementsLedger` |
| `SchedulerProofs!CommitsFitTheRows` | `OneConfirmer /\ IsFiniteSet(Refs) /\ Spec => []CommitsFit` |
| `SchedulerProofs!OnlyRefundsGiveMoney` | `OneConfirmer /\ IsFiniteSet(Refs) /\ Spec => OnlyRefundsGive` |
| `SchedulerProofs!AttemptsComeOneByOne`, `!RetriesAreBounded` | `OneConfirmer /\ Spec => []` of `OneByOne`, `RetryBudget` |
| `SchedulerProofs!ProcessingBillsAreBacked` | `OneConfirmer /\ NobodyCancels /\ Spec => []ProcessingIsBacked` |
| `SchedulerProofs!NobodyIsOvercharged` | `OneConfirmer /\ IsFiniteSet(Refs) /\ Spec => []NeverOvercharged` |
| `SchedulerProofs!VendorsArePaidOnce` | `OneConfirmer /\ AnswersArrive /\ "crash" \notin Faults /\ Spec => []OneLiveTransfer` |
| `WalletProofs!FundingTypeCorrect` | `WalletSpec => []FundingTypeOK` |
| `WalletProofs!CreditsArePaid` | `WalletSpec => []CreditedMeansPaid` |
| `WalletProofs!PayoutsBesideCredits` | `WalletSpec => []IInv` |
| `WalletProofs!WalletStaysInOrder`, `!CreditsCountOnce` | `OneConfirmer /\ IsFiniteSet(Refs) /\ IsFiniteSet(Topups) /\ WalletSpec => []` of `WalletInv`, `CreditCountsOnce` |
| `WalletProofs!DebitsTakeTheirCharge` | the same implies that each `CommitDebit` takes exactly its charge from the balance on record |
| `RecurrenceProofs!RecTypeCorrect`, `!BilledInTime`, `!SeriesWithoutGaps` | `RecSpec => []` of `RecTypeOK`, `NeverAhead`, `NoPeriodSkipped` |
| `AccountsProofs!AccTypeCorrect`, `!ExchangedTokensAreDead`, `!SignOutsHold`, `!RecordsStay` | `AccSpec => []` of `AccTypeOK`, `ExchangedIsDead`, `SignOutHolds`, `ToldIsOnRecord` |
| `TelegramLinkProofs!LinkTypeCorrect`, `!ChatsSpeakByCode`, `!ChatsAreNotShared`, `!CodesLinkOnce` | `LinkSpec => []` of `LinkTypeOK`, `SpeaksByItsCode`, `OneUserPerChat`, `CodeLinksOnce` |
| `IntakeProofs!IntakeTypeCorrect`, `!RefreshesAreHeeded`, `!BanksStayOnRecord`, `!BillsArePaidAsRecorded` | `IntakeSpec => []` of `IntakeTypeOK`, `RefreshIsHeeded`, `BankStaysOnRecord`, `PaidAsRecorded` |
| `BotProofs!BotTypeCorrect`, `!PromptsAreAnswered` | `BotSpec => []` of `BotTypeOK`, `PromptIsAnswered`, for any `MaxInFlight` |
| `BotProofs!StoredIsReviewed`, `!StoredIsWhole` | `MaxInFlight = 1 /\ BotSpec` implies `BookedAsReviewed` and `BookedWhole` |

None of the payout properties is inductive, because a session acts on what it read
earlier. `IInv` adds what is true of a session at each step:

- `SessionInv`: it knows its rows, has read no negative balance, and at the
  provider holds a balance that covers the charge. This is why a stale absolute
  write cannot make a wallet negative.
- `LockInv`: from its checks to its end a payout holds the bill's and the user's
  row. `OnePayoutPerWallet` follows, since two sessions cannot hold one row.
- `RemoteInv`: up to its call a payout's reference is its own and unknown to the
  provider; past an accepted call the transfer exists; a success a session is
  about to record is one of the provider. `ChargedMeansAccepted` and
  `PaidMeansTransferred` follow.

The proof goes in three layers, each inductive relative to the ones before:
types, solvency and `SessionInv`; `LockInv`; `RemoteInv` with the two provider
properties. Each layer has a lemma for each group of actions.

`SchedulerProofs` assumes `OneConfirmer`: nobody pays by hand and one
session at a time confirms (a webhook, the reconciliation job or an OTP), but any number of
threads pay and cancel, and a user may have any number of bills. Under it `OneByOne` is
inductive. A payout that passed its checks has read a bill that no debit is open for, and a
balance that is still on record (`PaysFresh`), both by its locks; the one confirmer has read
a debit that is processing, and a bill that is if nobody cancels (`SettlesFresh`),
because a payout of the same bill is refused meanwhile; a bill has one debit that counts
(`OneDebitABill`) and says by its status that it is not to be paid again (`DebitsShow`).
From there:

- `CommitsFitTheRows` adds `StaleByDebits`, about the one balance that is read without a
  lock: between the confirmation's read and its commit only payouts of other bills can change
  the wallet, so what it has read is the balance on record and the charges of a set of
  debits of that wallet that are open. A payout that commits joins the set; none leaves it, since
  the one confirmer is busy. The set is what the refund then waives.
- `PayoutImplementsLedger` shows each of the four commits to be its step of `Ledger`, with
  that set as the waived charges, and all other steps to change nothing on it.
- `OnlyRefundsGiveMoney` accounts for the same commits in sums: of a debit that
  begins or ceases to count, and of the set.
- `NobodyIsOvercharged`: no wallet is below its deposit less the debits that count. The
  converse is false, as `payout_lost_debit` shows, and by no more than the sets above.
- `VendorsArePaidOnce` adds that every live transfer is the one of a debit on record or of
  the payout that holds the bill (`LiveMeansCounted`). A crash after the provider's
  acceptance, or an acceptance whose answer is lost, leaves a transfer without a debit,
  and a retry makes a second one: so it assumes neither. `RefundsAreUnpaid` needs no
  confirmer to be alone: `OutcomeInv` says that a refunded reference was refused or failed,
  and that whoever is about to refund one knows it did.

`Charged` is a sum over a set of debits of any size. `PayoutProofs` proves what the other
modules use of such sums (`Total`: over nothing, over one element more, of weights that
agree). The induction that the library states with an operator for parameter is
replaced by the least subset that would be a counterexample (`LeastSubset`), which exists
because a finite set's strict subsets are well founded; `ChargedTotal` and `CreditTotal`
then identify the sums of the model with `Total`. Hence the hypotheses that `Refs` and
`Topups` are finite, without which a sum means nothing.

`Wallet` reuses the layers of `IInv`: a step of the payout side keeps the funding invariant, a
credit only raises the balance of a wallet to something not negative and leaves
the payouts' other variables alone, so `IInv` holds beside credits as well.

What is in the wallet is proved under `OneConfirmer` too: scheduled payments,
cancellations and confirmations by one session at a time, beside the credits of any users by
any of the four paths. A payout writes over no credit, as a credit waits for its
locks: each debit takes its charge from the balance on record (`DebitsTakeTheirCharge`). What is
left is what credits and refunds write, from a balance read before an await or a lock.
`CreditsInOrder` says when it was read: a credit's before the first credit of
its top-up (`ReadsBefore`), which bounds the wallet from above however often it is
written, and a refund's when the wallet held at most all credits and all that was given back
(`RefundsInOrder`). The first holds because a top-up that was credited is closed
(`CreditsAreClosed`) to a verification that looks at it later, and is known to the
webhook (`told`) if it was then found not to be what was asked. From below the wallet is
bounded only under `CreditsApart` and `RefundsByWebhook`: then each credit was read
after every other credit of its payer (`ReadsAfter`), and no refund is written over one. The
module proves `NoCreditLost` under these two (`NoCreditIsLost`); it is not among the results
above, since section 4 says how credits are lost without them.

`Recurrence` needs two facts: a row's date is its own due date or the next
(`DateIsNear`), and the job holds only rows whose date has come (`TodoIsDue`).
A spawned bill is then one period after a row whose own due date has passed.

`AccountsProofs` carries `TokenInv`. `ExchangedIsDead` and `SignOutHolds` are about a tree:
the parent of a token is a dead token of the same user (`TokenTree`), and what a
sign-out closed is dead with all that grows from it (`ClosedIsOver`). What a request has
read of tokens stays true, because a dead token never lives again (`RequestKnows`).

`TelegramLinkProofs` carries `LinkInv`: a chat is on record only through a used code that
was sent from it (`ChatHasCode`, `LinkedIsUsed`), and what the bot has read of chat and
code is still true when it commits, since only the bot links, one command at a time
(`BotKnows`).

`IntakeProofs` carries `IntakeInv`: the directory only grows, so the bank a request has
resolved is still on record when it stores it (`TasksKnow`), and a bill paid without an
overlap has no correction under way that could part it from its money (`PaidIsSettled`).

`BotProofs` carries `BotInv` for any number of updates at a time: a handler that waits
for its last message returns a state that answers what the message asks for. For one
update at a time `OneInv` adds that a draft with a payee has every field the prompts
before the current state ask for (`Fits`; a draft that another conversation cleared has
no payee and begins again), that a button at work is one of the current state (`Works`),
and that in `SCH_CONFIRM` the draft is the one under review or lost.

**Only model-checked.** The liveness properties `EveryDebitSettles` and
`PaidBillsRecur`: proofs of liveness under fairness and of `ENABLED` are beyond
the provers used. Every other property of a passing run is proved: without a
hypothesis, or under one that holds in the run that checks it (`payout_fresh` is an
instance of `OneConfirmer`, `NobodyCancels` and `AnswersArrive` without crashes,
`desk` of `OneConfirmer`, `CreditsApart` and `RefundsByWebhook`, `bot_full` of `MaxInFlight = 1`). The code does
not have these properties without the hypotheses, as section 4 shows.

## 6. Not modelled, and the plan

1. The refinement of `Ledger` beside credits, with a step for them, under `OneConfirmer`; and
   `Ledger`'s own invariants proved of `Ledger`.
2. Name matching, date parsing and Paystack's status and error maps as operators.

Not modelled: the agent's decision on an upload or on a bill sent to the bot (the first
fails before, the second is lost), the bot's `/wallet`, `/bills`, `/transactions` and
`/help` (they only read; `/otp`, `/link` and `/unlink` are in `ConfirmPayout` and
`TelegramLink`), extraction of bills by OCR and LLM, notifications,
audit and metrics, password hashing and token signatures, and the web client. They are
pure functions of one request, I/O, or state that no guard of the code reads.
