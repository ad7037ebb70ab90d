------------------------------- MODULE Funding --------------------------------
(***************************************************************************)
(* Money into a wallet: top-ups through the provider's hosted checkout and *)
(* transfers into a user's virtual account.  start_topup leaves a pending  *)
(* credit row; the charge.success webhook or the user's "I've paid" (from  *)
(* the web or from the bot) turns it into balance.                         *)
(*                                                                         *)
(* Every session here is a coroutine, and none gives up the event loop     *)
(* between locking a credit row and its commit, so the lock of a credit    *)
(* row is never waited for and is not modelled; the lock of the user's row *)
(* is, because payouts hold it while they wait for the provider.           *)
(***************************************************************************)
EXTENDS PayoutState

CONSTANTS
    Topups,        \* provider references of credits
    VATransfers,   \* those among them that are paid into a virtual account
    Payer,         \* Payer[t]: the user whose wallet it is for
    Asked, Other,  \* the amount agreed on, and another one that may be paid
    FundingJobs    \* FundingJobs[w]: what session w may be opened for

FundingKinds == {"topup", "charge", "verify_api", "verify_bot"}
ASSUME TopupAssumption ==
    /\ VATransfers \subseteq Topups
    /\ Payer \in [Topups -> Users]
    /\ Asked \in [Topups -> Nat] /\ Other \in [Topups -> Nat]
    /\ FundingJobs \in [Workers -> SUBSET FundingKinds]
    /\ \A w \in Workers : Jobs[w] = {} \/ FundingJobs[w] = {}

VARIABLES
    credit,    \* transactions: the status of the credit row of each top-up
    charge,    \* what the provider knows of the money
    told,      \* webhook_events: the charge.success deliveries accepted
    credited,  \* audit_logs: how many wallet.credited rows each top-up has
    fund       \* the open sessions

fundVars == <<credit, charge, told, credited, fund>>
payouts == <<bill, txn, events, remote, lock, sess>>

FundSession ==
    [job : FundingKinds \cup {"none"},
     pc : {"idle", "authed", "inserting", "initializing", "asking", "paid", "mismatch",
           "crediting", "failing"},
     top : Topups \cup {NoRef},
     balance : Int]                       \* cached balance of the payer
NoFund == [job |-> "none", pc |-> "idle", top |-> NoRef, balance |-> 0]

\* What was paid: the amount agreed on, unless the customer paid another.
Received(t) == IF charge[t] = "other" THEN Other[t] ELSE Asked[t]

-----------------------------------------------------------------------------
MayOpen(w, job) == fund[w] = NoFund /\ job \in FundingJobs[w]
Open(w, job, pc, t) ==
    fund' = [fund EXCEPT ![w] = [job |-> job, pc |-> pc, top |-> t,
                                 balance |-> balance[Payer[t]]]]
GoTo(w, pc) == fund' = [fund EXCEPT ![w].pc = pc]
End(w) ==
    /\ fund' = [fund EXCEPT ![w] = NoFund]
    /\ loop' = IF loop = w THEN Nobody ELSE loop

\* The payer's row is locked by no payout.
PayerFree(w) == lock[Payer[fund[w].top]] = Nobody

-----------------------------------------------------------------------------
(* start_topup                                                             *)

\* secrets.token_hex: the reference is new.
TopupRequest(w, t) ==
    /\ MayOpen(w, "topup") /\ loop = Nobody
    /\ t \notin VATransfers /\ credit[t] = "none"
    /\ \A v \in Workers : fund[v].top # t
    /\ Open(w, "topup", "inserting", t)
    /\ loop' = w
    /\ UNCHANGED <<payouts, balance, credit, charge, told, credited>>

\* The pending row is flushed: its foreign key shares the user's row until
\* the transaction ends.  Then the provider is awaited.
TopupInsert(w) ==
    /\ fund[w].pc = "inserting" /\ PayerFree(w)
    /\ GoTo(w, "initializing")
    /\ loop' = Nobody
    /\ UNCHANGED <<payouts, balance, credit, charge, told, credited>>

TopupStarted(w) ==
    /\ fund[w].pc = "initializing" /\ loop = Nobody
    /\ credit' = [credit EXCEPT ![fund[w].top] = "pending"]
    /\ End(w)
    /\ UNCHANGED <<payouts, balance, charge, told, credited>>

\* PaymentError: the row is deleted in the transaction that made it.
TopupRefused(w) ==
    /\ fund[w].pc = "initializing" /\ loop = Nobody
    /\ End(w)
    /\ UNCHANGED <<payouts, balance, credit, charge, told, credited>>

-----------------------------------------------------------------------------
(* The provider: the customer pays at the checkout, another amount than    *)
(* agreed or not at all, or transfers money into the virtual account.      *)

Pay(t) ==
    /\ charge[t] = "none"
    /\ \/ credit[t] = "pending"
          /\ \E c \in {"paid", "other", "failed"} : charge' = [charge EXCEPT ![t] = c]
       \/ t \in VATransfers /\ charge' = [charge EXCEPT ![t] = "paid"]
    /\ UNCHANGED <<payouts, balance, loop, credit, told, credited, fund>>

-----------------------------------------------------------------------------
(* _handle_charge_success: apply_credit_from_provider_event for a row that *)
(* exists, credit_virtual_account_deposit for one that does not.           *)

\* Mutant: any row may be credited.
CreditableAgain(t) == TRUE

\* A credit that is done is left alone, and its event row rolled back.
Creditable(t) == credit[t] # "success"

\* The user is read here, and written when its row can be locked.
ChargeRead(w, t) ==
    /\ MayOpen(w, "charge") /\ loop = Nobody
    /\ charge[t] \in {"paid", "other"} /\ t \notin told
    /\ Creditable(t)
    /\ Open(w, "charge", "crediting", t)
    /\ loop' = w
    /\ UNCHANGED <<payouts, balance, credit, charge, told, credited>>

\* The balance in hand, raised, replaces the one on record.
ApplyCredit(w) ==
    LET t == fund[w].top IN
    /\ fund[w].pc = "crediting" /\ PayerFree(w)
    /\ balance' = [balance EXCEPT ![Payer[t]] = fund[w].balance + Received(t)]
    /\ credit' = [credit EXCEPT ![t] = "success"]
    /\ credited' = [credited EXCEPT ![t] = @ + 1]
    /\ told' = IF fund[w].job = "charge" THEN told \cup {t} ELSE told
    /\ End(w)
    /\ UNCHANGED <<payouts, charge>>

-----------------------------------------------------------------------------
(* verify_pending_topup                                                    *)

\* POST /wallet/topup/verify: get_current_user loads the user ...
VerifyRequest(w, t) ==
    /\ MayOpen(w, "verify_api")
    /\ Open(w, "verify_api", "authed", t)
    /\ UNCHANGED <<payouts, balance, loop, credit, charge, told, credited>>

\* Mutant: whatever became of the row, the provider is asked again.
VerifyLoadAnyway(w) ==
    /\ fund[w].pc = "authed" /\ loop = Nobody
    /\ credit[fund[w].top] # "none"
    /\ GoTo(w, "asking")
    /\ UNCHANGED <<payouts, balance, loop, credit, charge, told, credited>>

\* ... and the service the row, and the provider is asked if it is pending.
VerifyLoad(w) ==
    /\ fund[w].pc = "authed" /\ loop = Nobody
    /\ credit[fund[w].top] = "pending"
    /\ GoTo(w, "asking")
    /\ UNCHANGED <<payouts, balance, loop, credit, charge, told, credited>>

\* Unknown, credited or failed already.
VerifyClosed(w) ==
    /\ fund[w].pc = "authed" /\ loop = Nobody
    /\ credit[fund[w].top] # "pending"
    /\ End(w)
    /\ UNCHANGED <<payouts, balance, credit, charge, told, credited>>

\* The bot's "I've paid" reads the user and the row in one go.
VerifyCommand(w, t) ==
    /\ MayOpen(w, "verify_bot") /\ loop = Nobody
    /\ credit[t] = "pending"
    /\ Open(w, "verify_bot", "asking", t)
    /\ UNCHANGED <<payouts, balance, loop, credit, charge, told, credited>>

\* Mutant: a transaction the provider knows is one that was paid.
SettledEagerly(t) == charge[t] # "failed"

\* get_transaction says success.
Settled(t) == charge[t] \in {"paid", "other"}

VerifyAnswered(w) ==
    /\ fund[w].pc = "asking"
    /\ Settled(fund[w].top)
    /\ GoTo(w, IF Received(fund[w].top) = Asked[fund[w].top] THEN "paid" ELSE "mismatch")
    /\ UNCHANGED <<payouts, balance, loop, credit, charge, told, credited>>

\* Another status, or a PaymentError: nothing is changed.
VerifyNoAnswer(w) ==
    /\ fund[w].pc = "asking"
    /\ End(w)
    /\ UNCHANGED <<payouts, balance, credit, charge, told, credited>>

\* The coroutine goes on.  SELECT ... FOR UPDATE returns the row it loaded
\* before the call, so its status is pending whatever happened since.
VerifyResume(w) ==
    /\ fund[w].pc \in {"paid", "mismatch"} /\ loop = Nobody
    /\ GoTo(w, IF fund[w].pc = "paid" THEN "crediting" ELSE "failing")
    /\ loop' = w
    /\ UNCHANGED <<payouts, balance, credit, charge, told, credited>>

\* Mutant: the row gets the provider's word instead of one of its own.
VerifyVerbatim(w) ==
    /\ fund[w].pc = "failing" /\ PayerFree(w)
    /\ credit' = [credit EXCEPT ![fund[w].top] = charge[fund[w].top]]
    /\ End(w)
    /\ UNCHANGED <<payouts, balance, charge, told, credited>>

\* amount_mismatch.
VerifyRefused(w) ==
    /\ fund[w].pc = "failing" /\ PayerFree(w)
    /\ credit' = [credit EXCEPT ![fund[w].top] = "failed"]
    /\ End(w)
    /\ UNCHANGED <<payouts, balance, charge, told, credited>>

-----------------------------------------------------------------------------
FundingInit ==
    /\ credit = [t \in Topups |-> "none"]
    /\ charge = [t \in Topups |-> "none"]
    /\ told = {}
    /\ credited = [t \in Topups |-> 0]
    /\ fund = [w \in Workers |-> NoFund]

FundingStep(w) ==
    \/ \E t \in Topups : \/ TopupRequest(w, t) \/ ChargeRead(w, t)
                         \/ VerifyRequest(w, t) \/ VerifyCommand(w, t)
    \/ TopupInsert(w) \/ TopupStarted(w) \/ TopupRefused(w) \/ ApplyCredit(w)
    \/ VerifyLoad(w) \/ VerifyClosed(w) \/ VerifyAnswered(w) \/ VerifyNoAnswer(w)
    \/ VerifyResume(w) \/ VerifyRefused(w)

FundingTypeOK ==
    /\ credit \in [Topups -> {"none", "pending", "success", "failed"}]
    /\ charge \in [Topups -> {"none", "paid", "other", "failed"}]
    /\ told \subseteq Topups
    /\ credited \in [Topups -> Nat]
    /\ fund \in [Workers -> FundSession]
=============================================================================
