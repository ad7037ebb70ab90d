---------------------------- MODULE SchedulerProofs ----------------------------
(***************************************************************************)
(* The payout path with one session at a time confirming and nobody paying *)
(* by hand, for any number of users, bills of each, references, payments   *)
(* under way, cancellations and faults: the attempts to pay a bill come    *)
(* one by one, every commit fits the rows, each step is one of the ledger, *)
(* and no vendor is paid twice where the provider's answers arrive.        *)
(***************************************************************************)
EXTENDS SchedulerInvariant, PayoutProofs

USE RowsAssumption, MoneyAssumption, NullAssumption, JobsAssumption

\* What the steps are taken under.
Orderly == OneConfirmer /\ OneByOne /\ TypeOK /\ SessionInv /\ LockInv
SameBooks == balance' = balance /\ bill' = bill /\ txn' = txn

\* The restrictions on users and jobs are no state.
LEMMA JobsStay ==
    /\ (NobodyCancels' <=> NobodyCancels)
    /\ (OneConfirmer' <=> OneConfirmer)
BY DEF NobodyCancels, OneConfirmer

\* A session with a reference is about a debit of one of its bill's owner.
LEMMA AtWork ==
    ASSUME Orderly, NEW w \in Workers, Paying(w) \/ Settling(w)
    PROVE  /\ sess[w].ref \in Refs /\ sess[w].bill = BillOf[sess[w].ref]
           /\ sess[w].bill \in Bills /\ Owner[sess[w].bill] \in Users
           /\ sess[w].pc \notin {"idle", "cancelling"} /\ sess[w] \in Session
           /\ ~(Paying(w) /\ Settling(w))
<1>1. KnowsRows(sess[w]) /\ sess[w] \in Session
  BY DEF Orderly, SessionInv, TypeOK
<1>2. sess[w].pc \notin {"idle", "cancelling"} /\ ~(Paying(w) /\ Settling(w))
  BY DEF Paying, Settling, Confirming, Holding
<1>3. sess[w].ref \in Refs /\ sess[w].bill = BillOf[sess[w].ref]
  BY <1>1, <1>2 DEF KnowsRows
<1> QED
  BY <1>1, <1>2, <1>3

\* Every step of a session is one of these.
LEMMA AnyPc ==
    ASSUME NEW w \in Workers, sess[w] \in Session
    PROVE  Paying(w) \/ Settling(w) \/ sess[w].pc \in {"idle", "cancelling"}
BY DEF Session, PCs, Paying, Settling, Confirming, Holding

\* The steps and answers that the proofs below bring a session to.
LEMMA Steps ==
    /\ {"bill_locked", "calling", "accepted", "polling", "polled", "finalizing", "replied",
        "otp_loaded", "txn_read", "bill_read", "flushing", "cancelling"} \subseteq PCs
    /\ {"success", "failed", "reversed"} = EventKinds
BY DEF PCs, EventKinds

\* A step of another session leaves alone what session v has read.
Untouched(v) ==
    LET s == sess[v] IN
    /\ Paying(v) \/ Settling(v) => txn'[s.ref].status = txn[s.ref].status
    /\ s.pc \in Holding \cup {"bill_locked"} => bill'[s.bill] = bill[s.bill]
    /\ s.pc \in Holding => balance'[Owner[s.bill]] = balance[Owner[s.bill]]
    /\ Settling(v) => bill'[s.bill].retry = bill[s.bill].retry
RowsInOrder == OneDebitABill /\ DebitsShow /\ RetryBudget /\ (NobodyCancels => ProcessingIsBacked)

\* A step of one session, if it leaves the others what they have read.
LEMMA StepFresh ==
    ASSUME Orderly, NEW w \in Workers, NEW s \in Session, Become(w, s),
           \A v \in Workers : v # w => Untouched(v) /\ (Paying(v) => s.ref # sess[v].ref),
           PaysFresh(w)', SettlesFresh(w)', CancelsIfMay(w)', RowsInOrder'
    PROVE  OneByOne'
<1>1. sess'[w] = s /\ \A v \in Workers : v # w => sess'[v] = sess[v]
  BY OneChanges DEF Orderly, TypeOK
<1>2. ASSUME NEW v \in Workers, v # w
      PROVE  PaysFresh(v)' /\ SettlesFresh(v)' /\ CancelsIfMay(v)'
  <2>0. /\ PaysFresh(v) /\ SettlesFresh(v) /\ CancelsIfMay(v) /\ Untouched(v)
        /\ sess'[v] = sess[v] /\ (Paying(v) => s.ref # sess[v].ref)
    BY <1>1, <1>2 DEF Orderly, OneByOne
  <2>1. PaysFresh(v)'
    <3>1. CASE ~Paying(v)
      BY <2>0, <3>1 DEF PaysFresh, Paying
    <3>2. CASE Paying(v)
      <4>1. \A u \in Workers : u # v => sess'[u].ref # sess[v].ref
        BY <1>1, <2>0, <3>2 DEF PaysFresh
      <4>2. sess[v].pc # "loaded" => sess[v].pc \in Holding \cup {"bill_locked"}
        BY <3>2 DEF Paying
      <4> QED
        BY <2>0, <3>2, <4>1, <4>2 DEF PaysFresh, Paying, Untouched
    <3> QED
      BY <3>1, <3>2
  <2>2. SettlesFresh(v)'
    <3>1. CASE ~Settling(v)
      BY <2>0, <3>1 DEF SettlesFresh, Settling, Confirming
    <3>2. CASE Settling(v)
      <4>1. /\ sess[v].job \in ConfirmJobs \cap Jobs[v] /\ txn'[sess[v].ref].status = "processing"
            /\ (HasBill(sess[v]) => /\ sess[v].retry = bill'[sess[v].bill].retry
                                    /\ NobodyCancels => sess[v].status = "processing")
        BY <2>0, <3>2 DEF SettlesFresh, Untouched
      <4> QED
        BY <2>0, <4>1, JobsStay DEF SettlesFresh, HasBill
    <3> QED
      BY <3>1, <3>2
  <2> QED
    BY <2>0, <2>1, <2>2 DEF CancelsIfMay
<1> QED
  BY <1>2 DEF OneByOne, RowsInOrder

\* A step that changes no row but webhook_events.
LEMMA ReadsOn ==
    ASSUME Orderly, NEW w \in Workers, NEW s \in Session, Become(w, s), SameBooks,
           \A v \in Workers : v # w /\ Paying(v) => s.ref # sess[v].ref,
           sess'[w] = s => PaysFresh(w)' /\ SettlesFresh(w)' /\ CancelsIfMay(w)'
    PROVE  OneByOne'
<1>1. sess'[w] = s
  BY OneChanges DEF Orderly, TypeOK
<1>2. RowsInOrder
  BY DEF Orderly, OneByOne, RowsInOrder
<1>3. ASSUME NEW v \in Workers PROVE Untouched(v)
  BY DEF SameBooks, Untouched
<1>4. RowsInOrder'
  BY <1>2, JobsStay DEF SameBooks, RowsInOrder, OneDebitABill, DebitsShow, RetryBudget,
     ProcessingIsBacked, Counts
<1> QED
  BY <1>1, <1>3, <1>4, StepFresh

\* A session that closes without a commit.
LEMMA LeavesOff ==
    ASSUME Orderly, NEW w \in Workers, Close(w), SameBooks
    PROVE  OneByOne'
<1>1. Become(w, Idle) /\ Idle \in Session /\ Idle.pc = "idle" /\ Idle.ref = NoRef
  BY IdleType DEF Close, Idle, NewSession
<1>2. \A v \in Workers : Paying(v) => Idle.ref # sess[v].ref
  BY <1>1, AtWork
<1>3. sess'[w] = Idle => PaysFresh(w)' /\ SettlesFresh(w)' /\ CancelsIfMay(w)'
  BY <1>1 DEF PaysFresh, SettlesFresh, CancelsIfMay, Paying, Settling, Confirming, Holding
<1> QED
  BY <1>1, <1>2, <1>3, ReadsOn

\* A payout that goes on under its locks.
LEMMA PaysOn ==
    ASSUME Orderly, NEW w \in Workers, NEW s \in Session, Become(w, s), SameBooks,
           Paying(w), s.pc \in Holding \cup {"bill_locked"},
           s.job = sess[w].job, s.ref = sess[w].ref, s.bill = sess[w].bill,
           s.pc = "bill_locked" => s.status = bill[s.bill].status,
           s.retry = bill[s.bill].retry,
           s.pc \in Holding =>
             /\ bill[s.bill].status \notin NotPayable
             /\ s.balance = balance[Owner[s.bill]] /\ s.balance >= Charge(s.bill)
    PROVE  OneByOne'
<1>1. PaysFresh(w) /\ \A v \in Workers : PaysFresh(v)
  BY DEF Orderly, OneByOne
<1>2. \A v \in Workers : v # w /\ Paying(v) => s.ref # sess[v].ref
  BY <1>1 DEF PaysFresh
<1>3. \A v \in Workers : v # w => sess'[v] = sess[v]
  BY OneChanges DEF Orderly, TypeOK
<1>4. s.pc \notin {"cancelling", "authed", "otp_loaded", "finalizing", "replied", "polling",
                   "polled", "txn_read", "bill_read", "flushing"}
  BY DEF Holding
<1>5. ASSUME sess'[w] = s PROVE PaysFresh(w)'
  <2>1. /\ s.job = "autopay" /\ txn[s.ref].status = "none"
        /\ \A v \in Workers : v # w => sess'[v].ref # s.ref
    BY <1>1, <1>3 DEF PaysFresh
  <2> QED
    BY <1>5, <2>1 DEF PaysFresh, SameBooks
<1>6. ASSUME sess'[w] = s PROVE SettlesFresh(w)' /\ CancelsIfMay(w)'
  BY <1>4, <1>6 DEF SettlesFresh, CancelsIfMay, Settling, Confirming
<1> QED
  BY <1>2, <1>5, <1>6, ReadsOn

\* A confirmation that goes on, or begins with a debit that is processing.
LEMMA SettlesOn ==
    ASSUME Orderly, NEW w \in Workers, NEW s \in Session, Become(w, s), SameBooks,
           s.pc \in {"authed", "otp_loaded", "finalizing", "replied", "polling",
                     "polled", "txn_read", "bill_read", "flushing"},
           s.job \in ConfirmJobs \cap Jobs[w], txn[s.ref].status = "processing",
           HasBill(s) => /\ s.retry = bill[s.bill].retry
                         /\ NobodyCancels => s.status = "processing"
    PROVE  OneByOne'
<1>1. \A v \in Workers : v # w /\ Paying(v) => s.ref # sess[v].ref
  BY DEF Orderly, OneByOne, PaysFresh
<1>2. ASSUME sess'[w] = s PROVE SettlesFresh(w)'
  BY <1>2, JobsStay DEF SettlesFresh, HasBill, SameBooks
<1>3. ASSUME sess'[w] = s PROVE PaysFresh(w)' /\ CancelsIfMay(w)'
  BY <1>3 DEF PaysFresh, CancelsIfMay, Paying, Holding
<1> QED
  BY <1>1, <1>2, <1>3, ReadsOn

\* A step that changes no session and no row but webhook_events.
LEMMA StaysOn ==
    ASSUME Orderly, sess' = sess, SameBooks
    PROVE  OneByOne'
<1>1. \A w \in Workers : PaysFresh(w)' /\ SettlesFresh(w)' /\ CancelsIfMay(w)'
  BY JobsStay DEF Orderly, OneByOne, PaysFresh, SettlesFresh, CancelsIfMay, SameBooks, Paying,
     Settling, Confirming
<1>2. RowsInOrder'
  BY JobsStay DEF Orderly, OneByOne, SameBooks, RowsInOrder, OneDebitABill, DebitsShow, RetryBudget,
     ProcessingIsBacked, Counts
<1> QED
  BY <1>1, <1>2 DEF OneByOne, RowsInOrder

\* A confirmation whose debit and wallet are those it had.
LEMMA SettlesStill ==
    ASSUME Orderly, NEW w \in Workers, NEW s \in Session, Become(w, s), SameBooks, Settling(w),
           s.pc \in {"authed", "otp_loaded", "finalizing", "replied", "polling",
                     "polled", "txn_read", "bill_read", "flushing"},
           s.job = sess[w].job, s.ref = sess[w].ref, s.bill = sess[w].bill,
           HasBill(s) =>
             \/ HasBill(sess[w]) /\ s.status = sess[w].status /\ s.retry = sess[w].retry
             \/ s.status = bill[s.bill].status /\ s.retry = bill[s.bill].retry
    PROVE  OneByOne'
<1>1. /\ s.job \in ConfirmJobs \cap Jobs[w] /\ txn[s.ref].status = "processing"
      /\ s.ref \in Refs /\ s.bill = BillOf[s.ref] /\ s.bill \in Bills
  BY AtWork DEF Orderly, OneByOne, SettlesFresh
<1>2. ASSUME HasBill(s)
      PROVE  s.retry = bill[s.bill].retry /\ (NobodyCancels => s.status = "processing")
  <2>1. CASE HasBill(sess[w]) /\ s.status = sess[w].status /\ s.retry = sess[w].retry
    BY <2>1 DEF Orderly, OneByOne, SettlesFresh
  <2>2. CASE s.status = bill[s.bill].status /\ s.retry = bill[s.bill].retry
    BY <1>1, <2>2 DEF Orderly, OneByOne, ProcessingIsBacked
  <2> QED
    BY <1>2, <2>1, <2>2
<1> QED
  BY <1>1, <1>2, SettlesOn

\* The steps of a payment but its commits.
LEMMA PayGoesOn ==
    ASSUME Orderly, NEW w \in Workers, PayStep(w)
    PROVE  OneByOne' \/ CommitDebit(w) \/ CommitRefund(w)
<1>s. /\ sess[w] \in Session /\ KnowsRows(sess[w]) /\ PaysFresh(w) /\ SettlesFresh(w)
      /\ "pay" \notin Jobs[w]
  BY DEF Orderly, TypeOK, SessionInv, OneByOne, OneConfirmer
<1>t. balance \in [Users -> Int] /\ bill \in [Bills -> BillRow]
  BY DEF Orderly, TypeOK
<1>1. ASSUME NEW r \in Refs, PayRequest(w, r) PROVE FALSE
  BY <1>s, <1>1 DEF PayRequest, CanOpen
<1>2. CASE PayLoadBill(w)
  BY <1>s, <1>2 DEF PayLoadBill, SettlesFresh, Settling, ConfirmJobs, Confirmers, OtpJobs
<1>3. ASSUME NEW r \in Refs, AutopayRecheck(w, r) PROVE OneByOne'
  <2> DEFINE s == Opened("autopay", "loaded", r)
  <2>0. "autopay" \in JobKinds /\ "loaded" \in PCs
    BY DEF JobKinds, PCs
  <2>1. s \in Session /\ s.pc = "loaded" /\ s.job = "autopay" /\ s.ref = r
    BY <2>0, OpenedType
  <2>2. /\ Become(w, s) /\ SameBooks /\ txn[r].status = "none"
        /\ \A v \in Workers : sess[v].ref # r
    BY <1>3 DEF AutopayRecheck, Unused, NoTxn, tables, SameBooks
  <2> HIDE DEF s
  <2>3. \A v \in Workers : v # w => sess'[v] = sess[v]
    BY <2>1, <2>2, OneChanges DEF Orderly, TypeOK
  <2>4. ASSUME sess'[w] = s PROVE PaysFresh(w)' /\ SettlesFresh(w)' /\ CancelsIfMay(w)'
    BY <2>1, <2>2, <2>3, <2>4 DEF PaysFresh, SettlesFresh, CancelsIfMay, Paying, Settling,
       Confirming, Holding, SameBooks
  <2> QED
    BY <2>1, <2>2, <2>4, ReadsOn
<1>4. CASE LockBill(w)
  <2> DEFINE row == bill[sess[w].bill]
             s == [sess[w] EXCEPT !.pc = "bill_locked", !.status = row.status, !.retry = row.retry]
  <2>0. Paying(w) /\ sess[w].job = "autopay" /\ sess[w].bill \in Bills
    BY <1>s, <1>4, AtWork DEF LockBill, Paying, PaysFresh
  <2>1. Become(w, s) /\ SameBooks
    BY <1>4, <2>0 DEF LockBill, CachedBill, tables, SameBooks
  <2>2. row.status \in BillStatus /\ row.retry \in Nat
    BY <1>t, <2>0 DEF BillRow
  <2>3. /\ s \in Session /\ s.pc = "bill_locked" /\ s.job = sess[w].job /\ s.ref = sess[w].ref
        /\ s.bill = sess[w].bill /\ s.status = row.status /\ s.retry = row.retry
    BY <1>s, <2>2, Steps DEF Session
  <2> HIDE DEF s
  <2> QED
    BY <2>0, <2>1, <2>3, PaysOn DEF Holding
<1>5. CASE RefusePayout(w)
  BY <1>5, LeavesOff DEF RefusePayout, Rollback, tables, SameBooks
<1>6. CASE StartPayout(w)
  <2> DEFINE s == [sess[w] EXCEPT !.pc = "calling", !.balance = balance[Owner[sess[w].bill]]]
  <2>0. /\ Paying(w) /\ sess[w].job = "autopay" /\ Owner[sess[w].bill] \in Users
        /\ sess[w].status = bill[sess[w].bill].status
        /\ sess[w].retry = bill[sess[w].bill].retry /\ sess[w].bill \in Bills
    BY <1>s, <1>6, AtWork DEF StartPayout, Paying, PaysFresh
  <2>1. /\ Become(w, s) /\ SameBooks /\ sess[w].status \notin NotPayable
        /\ ~(balance[Owner[sess[w].bill]] < Charge(sess[w].bill))
    BY <1>6, <2>0 DEF StartPayout, CachedBalance, Refused, NotPayable, tables, SameBooks
  <2>2. balance[Owner[sess[w].bill]] \in Int /\ Charge(sess[w].bill) \in Nat
    BY <1>t, <2>0, ChargeType
  <2>3. /\ s \in Session /\ s.pc = "calling" /\ s.job = sess[w].job /\ s.ref = sess[w].ref
        /\ s.bill = sess[w].bill /\ s.balance = balance[Owner[sess[w].bill]]
        /\ s.retry = sess[w].retry
    BY <1>s, <2>2, Steps DEF Session
  <2> HIDE DEF s
  <2> QED
    BY <2>0, <2>1, <2>2, <2>3, PaysOn DEF Holding
<1> QED
  BY <1>1, <1>2, <1>3, <1>4, <1>5, <1>6 DEF PayStep

\* The provider's answers to a payout.
LEMMA CallGoesOn ==
    ASSUME Orderly, NEW w \in Workers, CallStep(w)
    PROVE  OneByOne'
<1>s. sess[w] \in Session /\ PaysFresh(w)
  BY DEF Orderly, TypeOK, OneByOne
<1>m. ASSUME sess[w].pc = "calling", SameBooks, NEW s \in Session, Become(w, s),
             s.pc \in {"accepted", "refunding"}, s.job = sess[w].job, s.ref = sess[w].ref,
             s.bill = sess[w].bill, s.balance = sess[w].balance, s.retry = sess[w].retry
      PROVE  OneByOne'
  <2>1. Paying(w) /\ sess[w].pc \in Holding
    BY <1>m DEF Paying, Holding
  <2> QED
    BY <1>s, <1>m, <2>1, PaysOn DEF PaysFresh, Holding
<1>n. ASSUME sess[w].pc = "calling", SameBooks, NEW pc \in {"accepted", "refunding"}, Move(w, pc)
      PROVE  OneByOne'
  <2>1. pc \in PCs
    BY DEF PCs
  <2> DEFINE s == [sess[w] EXCEPT !.pc = pc]
  <2>2. /\ s \in Session /\ s.pc = pc /\ s.job = sess[w].job /\ s.ref = sess[w].ref
        /\ s.bill = sess[w].bill /\ s.balance = sess[w].balance
        /\ s.retry = sess[w].retry /\ Become(w, s)
    BY <1>s, <1>n, <2>1 DEF Move, Session
  <2> HIDE DEF s
  <2> QED
    BY <1>m, <1>n, <2>2
<1>a. ASSUME sess[w].pc = "calling", SameBooks,
             Become(w, [sess[w] EXCEPT !.pc = "accepted", !.code = TRUE])
      PROVE  OneByOne'
  <2> DEFINE s == [sess[w] EXCEPT !.pc = "accepted", !.code = TRUE]
  <2>1. /\ s \in Session /\ s.pc = "accepted" /\ s.job = sess[w].job /\ s.ref = sess[w].ref
        /\ s.bill = sess[w].bill /\ s.balance = sess[w].balance /\ s.retry = sess[w].retry
    BY <1>s, Steps DEF Session
  <2>2. Become(w, s)
    BY <1>a
  <2> HIDE DEF s
  <2> QED
    BY <1>m, <1>a, <2>1, <2>2
<1>1. CASE CallRejected(w)
  BY <1>1, <1>n DEF CallRejected, tables, SameBooks
<1>2. CASE CallRaises(w)
  BY <1>2, LeavesOff DEF CallRaises, Rollback, tables, SameBooks
<1>3. CASE CallAccepted(w)
  <2>1. sess[w].pc = "calling" /\ SameBooks
    BY <1>3 DEF CallAccepted, tables, SameBooks
  <2>2. \/ Move(w, "accepted") \/ Move(w, "refunding")
        \/ Become(w, [sess[w] EXCEPT !.pc = "accepted", !.code = TRUE])
    BY <1>3 DEF CallAccepted
  <2> QED
    BY <1>a, <1>n, <2>1, <2>2
<1>4. CASE CallLost(w)
  BY <1>4, <1>n DEF CallLost, tables, SameBooks
<1> QED
  BY <1>1, <1>2, <1>3, <1>4 DEF CallStep

\* A webhook that is ignored, or reads its debit.
LEMMA WebhookGoesOn ==
    ASSUME Orderly, NEW w \in Workers, WebhookStep(w)
    PROVE  OneByOne'
<1>1. ASSUME NEW r \in Refs, NEW e \in EventKinds, WebhookIgnored(w, r, e) PROVE OneByOne'
  BY <1>1, StaysOn DEF WebhookIgnored, SameBooks
<1>2. ASSUME NEW r \in Refs, NEW e \in EventKinds, WebhookRead(w, r, e) PROVE OneByOne'
  <2> DEFINE s == [Opened("webhook", "txn_read", r) EXCEPT !.outcome = e]
  <2>0. "webhook" \in JobKinds /\ "txn_read" \in PCs
    BY DEF JobKinds, PCs
  <2>1. s \in Session /\ s.pc = "txn_read" /\ s.job = "webhook" /\ s.ref = r
    BY <2>0, OpenedType DEF Session
  <2>2. Become(w, s) /\ SameBooks /\ "webhook" \in Jobs[w] /\ txn[r].status = "processing"
    BY <1>2 DEF WebhookRead, Accepts, CanOpen, tables, SameBooks
  <2> HIDE DEF s
  <2>3. ~HasBill(s)
    BY <2>1 DEF HasBill
  <2> QED
    BY <2>1, <2>2, <2>3, SettlesOn DEF ConfirmJobs, Confirmers
<1> QED
  BY <1>1, <1>2 DEF WebhookStep

\* The reconciliation job, up to confirm_payout.
LEMMA ReconcileGoesOn ==
    ASSUME Orderly, NEW w \in Workers, ReconcileStep(w)
    PROVE  OneByOne'
<1>s. sess[w] \in Session
  BY DEF Orderly, TypeOK
<1>1. ASSUME NEW r \in Refs, ReconcilePick(w, r) PROVE OneByOne'
  <2> DEFINE s == [Opened("reconcile", "polling", r) EXCEPT !.code = txn[r].code]
  <2>0. "reconcile" \in JobKinds /\ "polling" \in PCs /\ txn[r].code \in BOOLEAN
    BY DEF JobKinds, PCs, Orderly, TypeOK, TxnRow
  <2>1. s \in Session /\ s.pc = "polling" /\ s.job = "reconcile" /\ s.ref = r
    BY <2>0, OpenedType DEF Session
  <2>2. Become(w, s) /\ SameBooks /\ "reconcile" \in Jobs[w] /\ txn[r].status = "processing"
    BY <1>1 DEF ReconcilePick, CanOpen, tables, SameBooks
  <2> HIDE DEF s
  <2>3. ~HasBill(s)
    BY <2>1 DEF HasBill
  <2> QED
    BY <2>1, <2>2, <2>3, SettlesOn DEF ConfirmJobs, Confirmers
<1>m. ASSUME NEW s \in Session, Become(w, s), SameBooks, sess[w].pc \in {"polling", "polled"},
             s.pc \in {"polled", "txn_read"}, s.job = sess[w].job, s.ref = sess[w].ref,
             s.bill = sess[w].bill, s.status = sess[w].status, s.retry = sess[w].retry
      PROVE  OneByOne'
  <2>1. Settling(w)
    BY <1>m DEF Settling, Confirming
  <2>2. HasBill(s) => HasBill(sess[w])
    BY <1>m DEF HasBill
  <2> QED
    BY <1>m, <2>1, <2>2, SettlesStill
<1>2. CASE ReconcilePolled(w)
  <2> DEFINE s == [sess[w] EXCEPT !.pc = "polled", !.outcome = Polled(remote[sess[w].ref])]
  <2>1. s \in Session /\ s.pc = "polled" /\ s.job = sess[w].job /\ s.ref = sess[w].ref
        /\ s.bill = sess[w].bill /\ s.status = sess[w].status /\ s.retry = sess[w].retry
    <3>1. Polled(remote[sess[w].ref]) \in EventKinds \cup {"pending"}
      BY DEF Polled
    <3> QED
      BY <1>s, <3>1, Steps DEF Session
  <2>2. Become(w, s) /\ SameBooks /\ sess[w].pc = "polling"
    BY <1>2 DEF ReconcilePolled, tables, SameBooks
  <2> HIDE DEF s
  <2> QED
    BY <1>m, <2>1, <2>2
<1>3. CASE ReconcileError(w) \/ ReconcileSkip(w)
  BY <1>3, LeavesOff DEF ReconcileError, ReconcileSkip, Rollback, tables, SameBooks
<1>4. CASE ReconcileSettle(w)
  <2>1. SameBooks /\ sess[w].pc = "polled"
    BY <1>4 DEF ReconcileSettle, tables, SameBooks
  <2>2. CASE Move(w, "txn_read")
    <3> DEFINE s == [sess[w] EXCEPT !.pc = "txn_read"]
    <3>1. s \in Session /\ s.pc = "txn_read" /\ s.job = sess[w].job /\ s.ref = sess[w].ref
          /\ s.bill = sess[w].bill /\ s.status = sess[w].status /\ s.retry = sess[w].retry
      BY <1>s, Steps DEF Session
    <3>2. Become(w, s)
      BY <2>2 DEF Move
    <3> HIDE DEF s
    <3> QED
      BY <1>m, <2>1, <3>1, <3>2
  <2>3. CASE Become(w, [sess[w] EXCEPT !.pc = "txn_read", !.outcome = "failed"])
    <3> DEFINE s == [sess[w] EXCEPT !.pc = "txn_read", !.outcome = "failed"]
    <3>1. s \in Session /\ s.pc = "txn_read" /\ s.job = sess[w].job /\ s.ref = sess[w].ref
          /\ s.bill = sess[w].bill /\ s.status = sess[w].status /\ s.retry = sess[w].retry
      BY <1>s, Steps DEF Session
    <3>2. Become(w, s)
      BY <2>3
    <3> HIDE DEF s
    <3> QED
      BY <1>m, <2>1, <3>1, <3>2
  <2> QED
    BY <1>4, <2>2, <2>3 DEF ReconcileSettle
<1> QED
  BY <1>1, <1>2, <1>3, <1>4 DEF ReconcileStep

\* The submission of an OTP, up to confirm_payout.
LEMMA OtpGoesOn ==
    ASSUME Orderly, NEW w \in Workers, OtpStep(w)
    PROVE  OneByOne'
<1>s. sess[w] \in Session
  BY DEF Orderly, TypeOK
<1>t. balance \in [Users -> Int] /\ bill \in [Bills -> BillRow]
  BY DEF Orderly, TypeOK
<1>0. ASSUME NEW r \in Refs
      PROVE  Owner[BillOf[r]] \in Users /\ balance[Owner[BillOf[r]]] \in Int
  BY <1>t
<1>1. ASSUME NEW r \in Refs, OtpRequest(w, r) PROVE OneByOne'
  <2> DEFINE s == [Opened("otp_api", "authed", r) EXCEPT !.balance = balance[Owner[BillOf[r]]]]
  <2>0. "otp_api" \in JobKinds /\ "authed" \in PCs
    BY DEF JobKinds, PCs
  <2>1. /\ s \in Session /\ s.pc = "authed" /\ s.job = "otp_api" /\ s.ref = r
    BY <1>0, <2>0, OpenedType DEF Session
  <2>2. Become(w, s) /\ SameBooks /\ "otp_api" \in Jobs[w] /\ txn[r].status = "processing"
    BY <1>1 DEF OtpRequest, AwaitsOtp, CanOpen, tables, SameBooks
  <2> HIDE DEF s
  <2>3. ~HasBill(s)
    BY <2>1 DEF HasBill
  <2> QED
    BY <2>1, <2>2, <2>3, SettlesOn DEF ConfirmJobs, OtpJobs
<1>2. ASSUME NEW r \in Refs, OtpCommand(w, r) PROVE OneByOne'
  <2> DEFINE s == [Opened("otp_bot", "otp_loaded", r) EXCEPT !.balance = balance[Owner[BillOf[r]]]]
  <2>0. "otp_bot" \in JobKinds /\ "otp_loaded" \in PCs
    BY DEF JobKinds, PCs
  <2>1. /\ s \in Session /\ s.pc = "otp_loaded" /\ s.job = "otp_bot" /\ s.ref = r
    BY <1>0, <2>0, OpenedType DEF Session
  <2>2. Become(w, s) /\ SameBooks /\ "otp_bot" \in Jobs[w] /\ txn[r].status = "processing"
    BY <1>2 DEF OtpCommand, AwaitsOtp, CanOpen, tables, SameBooks
  <2> HIDE DEF s
  <2>3. ~HasBill(s)
    BY <2>1 DEF HasBill
  <2> QED
    BY <2>1, <2>2, <2>3, SettlesOn DEF ConfirmJobs, OtpJobs
<1>3. CASE OtpLoadBill(w)
  <2> DEFINE row == bill[sess[w].bill]
             s == [sess[w] EXCEPT !.pc = "otp_loaded", !.status = row.status, !.retry = row.retry]
  <2>0. Settling(w) /\ sess[w].bill \in Bills
    BY <1>3, AtWork DEF OtpLoadBill, Settling
  <2>1. Become(w, s) /\ SameBooks
    BY <1>3 DEF OtpLoadBill, tables, SameBooks
  <2>2. row.status \in BillStatus /\ row.retry \in Nat
    BY <1>t, <2>0 DEF BillRow
  <2>3. /\ s \in Session /\ s.pc = "otp_loaded" /\ s.job = sess[w].job /\ s.ref = sess[w].ref
        /\ s.bill = sess[w].bill /\ s.status = row.status /\ s.retry = row.retry
    BY <1>s, <2>2, Steps DEF Session
  <2> HIDE DEF s
  <2> QED
    BY <2>0, <2>1, <2>3, SettlesStill
<1>m. ASSUME NEW s \in Session, Become(w, s), SameBooks,
             sess[w].pc \in {"otp_loaded", "finalizing", "replied"},
             s.pc \in {"finalizing", "replied", "txn_read"}, s.job = sess[w].job,
             s.ref = sess[w].ref, s.bill = sess[w].bill, s.status = sess[w].status,
             s.retry = sess[w].retry
      PROVE  OneByOne'
  <2>1. Settling(w)
    BY <1>m DEF Settling
  <2>2. HasBill(s) => HasBill(sess[w])
    BY <1>m DEF HasBill
  <2> QED
    BY <1>m, <2>1, <2>2, SettlesStill
<1>n. ASSUME SameBooks, sess[w].pc \in {"otp_loaded", "replied"},
             NEW pc \in {"finalizing", "txn_read"}, Move(w, pc)
      PROVE  OneByOne'
  <2>1. pc \in PCs
    BY DEF PCs
  <2> DEFINE s == [sess[w] EXCEPT !.pc = pc]
  <2>2. /\ s \in Session /\ s.pc = pc /\ s.job = sess[w].job /\ s.ref = sess[w].ref
        /\ s.bill = sess[w].bill /\ s.status = sess[w].status /\ s.retry = sess[w].retry
        /\ Become(w, s)
    BY <1>s, <1>n, <2>1 DEF Move, Session
  <2> HIDE DEF s
  <2> QED
    BY <1>m, <1>n, <2>2
<1>4. CASE OtpLock(w)
  BY <1>4, <1>n DEF OtpLock, tables, SameBooks
<1>5. CASE OtpNotFound(w) \/ OtpPending(w) \/ OtpRejected(w)
  BY <1>5, LeavesOff DEF OtpNotFound, OtpPending, OtpRejected, Rollback, tables, SameBooks
<1>6. CASE OtpAccepted(w)
  <2>0. sess[w].pc = "finalizing" /\ SameBooks
    BY <1>6 DEF OtpAccepted, tables, SameBooks
  <2>1. PICK answer \in {"success", "pending", "failed"} :
          Become(w, [sess[w] EXCEPT !.pc = "replied", !.outcome = answer])
    BY <1>6 DEF OtpAccepted, InProgress
  <2> DEFINE s == [sess[w] EXCEPT !.pc = "replied", !.outcome = answer]
  <2>2. /\ s \in Session /\ s.pc = "replied" /\ s.job = sess[w].job /\ s.ref = sess[w].ref
        /\ s.bill = sess[w].bill /\ s.status = sess[w].status /\ s.retry = sess[w].retry
    BY <1>s, Steps DEF Session
  <2>3. Become(w, s)
    BY <2>1
  <2> HIDE DEF s
  <2> QED
    BY <1>m, <2>0, <2>2, <2>3
<1>7. CASE OtpSettle(w)
  BY <1>7, <1>n DEF OtpSettle, tables, SameBooks
<1> QED
  BY <1>1, <1>2, <1>3, <1>4, <1>5, <1>6, <1>7 DEF OtpStep

\* The steps of confirm_payout but its commits.
LEMMA ConfirmGoesOn ==
    ASSUME Orderly, NEW w \in Workers, ConfirmStep(w)
    PROVE  OneByOne' \/ ConfirmSuccess(w) \/ ConfirmFailure(w)
<1>s. sess[w] \in Session
  BY DEF Orderly, TypeOK
<1>t. balance \in [Users -> Int] /\ bill \in [Bills -> BillRow]
  BY DEF Orderly, TypeOK
<1>1. CASE ConfirmReadBill(w)
  <2> DEFINE row == IF sess[w].job = "otp_api"
                    THEN [status |-> sess[w].status, retry |-> sess[w].retry]
                    ELSE bill[sess[w].bill]
             s == [sess[w] EXCEPT !.pc = "bill_read", !.status = row.status, !.retry = row.retry]
  <2>0. Settling(w) /\ sess[w].bill \in Bills /\ sess[w].pc = "txn_read"
    BY <1>1, AtWork DEF ConfirmReadBill, Settling, Confirming
  <2>1. Become(w, s) /\ SameBooks
    BY <1>1 DEF ConfirmReadBill, tables, SameBooks
  <2>2. /\ row.status \in BillStatus /\ row.retry \in Nat
        /\ \/ /\ sess[w].job = "otp_api" /\ row.status = sess[w].status
              /\ row.retry = sess[w].retry
           \/ /\ row.status = bill[sess[w].bill].status
              /\ row.retry = bill[sess[w].bill].retry
    BY <1>s, <1>t, <2>0 DEF BillRow, Session
  <2> HIDE DEF row
  <2>3. /\ s \in Session /\ s.pc = "bill_read" /\ s.job = sess[w].job /\ s.ref = sess[w].ref
        /\ s.bill = sess[w].bill /\ s.status = row.status /\ s.retry = row.retry
    BY <1>s, <2>2, Steps DEF Session
  <2> HIDE DEF s
  <2>4. sess[w].job = "otp_api" => HasBill(sess[w])
    BY <2>0 DEF HasBill
  <2> QED
    BY <2>0, <2>1, <2>2, <2>3, <2>4, SettlesStill
<1>2. CASE ConfirmReadUser(w)
  <2> DEFINE wallet == IF sess[w].job \in {"otp_api", "otp_bot"} THEN sess[w].balance
                       ELSE balance[Owner[sess[w].bill]]
             s == [sess[w] EXCEPT !.pc = "flushing", !.balance = wallet]
  <2>0. Settling(w) /\ Owner[sess[w].bill] \in Users /\ sess[w].pc = "bill_read"
    BY <1>2, AtWork DEF ConfirmReadUser, Settling, Confirming
  <2>1. Become(w, s) /\ SameBooks
    BY <1>2 DEF ConfirmReadUser, tables, SameBooks
  <2>2. wallet \in Int
    BY <1>s, <1>t, <2>0 DEF Session
  <2>3. /\ s \in Session /\ s.pc = "flushing" /\ s.job = sess[w].job /\ s.ref = sess[w].ref
        /\ s.bill = sess[w].bill /\ s.status = sess[w].status /\ s.retry = sess[w].retry
    BY <1>s, <2>2, Steps DEF Session
  <2> HIDE DEF s, wallet
  <2>4. HasBill(sess[w])
    BY <2>0 DEF HasBill
  <2> QED
    BY <2>0, <2>1, <2>3, <2>4, SettlesStill
<1>3. CASE FlushRow(w)
  BY <1>3, StaysOn DEF FlushRow, tables, SameBooks
<1> QED
  BY <1>1, <1>2, <1>3 DEF ConfirmStep

\* A session that closes with a commit: nothing another one has read changed.
LEMMA CommitsOn ==
    ASSUME Orderly, NEW w \in Workers, Close(w),
           \A v \in Workers : v # w => Untouched(v), RowsInOrder'
    PROVE  OneByOne'
<1>1. Become(w, Idle) /\ Idle \in Session /\ Idle.pc = "idle" /\ Idle.ref = NoRef
  BY IdleType DEF Close, Idle, NewSession
<1>2. \A v \in Workers : Paying(v) => Idle.ref # sess[v].ref
  BY <1>1, AtWork
<1>3. sess'[w] = Idle
  BY <1>1, OneChanges DEF Orderly, TypeOK
<1>4. PaysFresh(w)' /\ SettlesFresh(w)' /\ CancelsIfMay(w)'
  BY <1>1, <1>3 DEF PaysFresh, SettlesFresh, CancelsIfMay, Paying, Settling, Confirming, Holding
<1> QED
  BY <1>1, <1>2, <1>4, StepFresh

\* A bill's row that a session holds is not one another payout has read.
LEMMA BillsHeld ==
    ASSUME Orderly, NEW v \in Workers, sess[v].pc \in Holding \cup {"bill_locked"}
    PROVE  /\ sess[v].bill \in Bills /\ lock[sess[v].bill] = v
           /\ sess[v].pc \in Holding => lock[Owner[sess[v].bill]] = v
<1>1. sess[v].bill \in Bills
  BY AtWork DEF Paying
<1> QED
  BY <1>1 DEF Orderly, LockInv, HoldsRows

\* A debit is committed: the bill had none that counted.
LEMMA DebitOn ==
    ASSUME Orderly, NEW w \in Workers, CommitDebit(w)
    PROVE  OneByOne'
<1> DEFINE b == sess[w].bill
           r == sess[w].ref
           o == Owner[b]
<1>1. /\ Paying(w) /\ PaysFresh(w) /\ sess[w].pc \in Holding /\ sess[w] \in Session
      /\ b \in Bills /\ r \in Refs /\ b = BillOf[r] /\ o \in Users
  <2>1. Paying(w) /\ sess[w].pc \in Holding
    BY DEF CommitDebit, Paying, Holding
  <2> QED
    BY <2>1, AtWork DEF Orderly, OneByOne
<1>2. /\ bill[b].status \notin NotPayable /\ sess[w].balance = balance[o]
      /\ txn[r].status = "none" /\ \A v \in Workers : v # w => sess[v].ref # r
  BY <1>1 DEF PaysFresh
<1>3. lock[b] = w /\ lock[o] = w
  BY <1>1, BillsHeld
<1>4. balance[o] \in Int /\ Charge(b) \in Nat
  BY <1>1, ChargeType DEF Orderly, TypeOK
<1>5. \A q \in Refs : Counts(q) => BillOf[q] # b
  BY <1>2 DEF Orderly, OneByOne, DebitsShow
<1>6. /\ balance' = [balance EXCEPT ![o] = balance[o] - Charge(b)]
      /\ bill' = [bill EXCEPT ![b].status = "processing"]
      /\ txn' = [txn EXCEPT ![r] = [status |-> "processing", code |-> sess[w].code]]
      /\ Close(w)
  BY <1>2 DEF CommitDebit
<1>t. balance \in [Users -> Int] /\ bill \in [Bills -> BillRow] /\ txn \in [Refs -> TxnRow]
  BY DEF Orderly, TypeOK
<1> HIDE DEF b, r, o
<1>7. /\ balance'[o] = balance[o] - Charge(b) /\ balance' \in [Users -> Int]
      /\ \A u \in Users : u # o => balance'[u] = balance[u]
  BY <1>1, <1>4, <1>6, <1>t
<1>8. /\ bill'[b].status = "processing" /\ bill'[b].retry = bill[b].retry
      /\ \A c \in Bills : c # b => bill'[c] = bill[c]
  BY <1>1, <1>6, <1>t DEF BillRow
<1>9. txn'[r].status = "processing" /\ \A q \in Refs : q # r => txn'[q] = txn[q]
  BY <1>1, <1>6, <1>t
<1>10. ASSUME NEW v \in Workers, v # w PROVE Untouched(v)
  <2>1. ASSUME Paying(v) \/ Settling(v) PROVE txn'[sess[v].ref].status = txn[sess[v].ref].status
    BY <1>2, <1>9, <1>10, <2>1, AtWork
  <2>2. ASSUME sess[v].pc \in Holding \cup {"bill_locked"}
        PROVE  bill'[sess[v].bill] = bill[sess[v].bill]
    BY <1>3, <1>8, <1>10, <2>2, BillsHeld
  <2>3. ASSUME sess[v].pc \in Holding
        PROVE  balance'[Owner[sess[v].bill]] = balance[Owner[sess[v].bill]]
    BY <1>3, <1>7, <1>10, <2>3, BillsHeld
  <2>4. ASSUME Settling(v) PROVE bill'[sess[v].bill].retry = bill[sess[v].bill].retry
    BY <1>8, <2>4, AtWork
  <2> QED
    BY <2>1, <2>2, <2>3, <2>4 DEF Untouched
<1>11. RowsInOrder'
  <2>1. \A q \in Refs : q # r => (Counts(q)' <=> Counts(q))
    BY <1>9 DEF Counts
  <2>2. OneDebitABill'
    BY <1>1, <1>5, <2>1 DEF Orderly, OneByOne, OneDebitABill
  <2>3. DebitsShow'
    BY <1>1, <1>5, <1>8, <2>1 DEF Orderly, OneByOne, DebitsShow, NotPayable
  <2>4. RetryBudget'
    BY <1>8 DEF Orderly, OneByOne, RetryBudget
  <2>5. NobodyCancels' => ProcessingIsBacked'
    <3> SUFFICES ASSUME NobodyCancels PROVE ProcessingIsBacked'
      BY JobsStay
    <3>1. ProcessingIsBacked
      BY DEF Orderly, OneByOne
    <3> QED
      BY <1>1, <1>8, <1>9, <3>1 DEF ProcessingIsBacked
  <2> QED
    BY <2>2, <2>3, <2>4, <2>5 DEF RowsInOrder
<1> QED
  BY <1>6, <1>7, <1>10, <1>11, CommitsOn

\* A refused payout is committed: no debit of the bill counts.
LEMMA DeclineOn ==
    ASSUME Orderly, NEW w \in Workers, CommitRefund(w)
    PROVE  OneByOne'
<1> DEFINE b == sess[w].bill
           r == sess[w].ref
           n == sess[w].retry + 1
<1>1. /\ Paying(w) /\ PaysFresh(w) /\ sess[w].pc \in Holding /\ sess[w] \in Session
      /\ b \in Bills /\ r \in Refs /\ b = BillOf[r]
  <2>1. Paying(w) /\ sess[w].pc \in Holding
    BY DEF CommitRefund, Paying, Holding
  <2> QED
    BY <2>1, AtWork DEF Orderly, OneByOne
<1>2. /\ bill[b].status \notin NotPayable
      /\ txn[r].status = "none" /\ \A v \in Workers : v # w => sess[v].ref # r
  BY <1>1 DEF PaysFresh
<1>3. lock[b] = w
  BY <1>1, BillsHeld
<1>5. \A q \in Refs : Counts(q) => BillOf[q] # b
  BY <1>2 DEF Orderly, OneByOne, DebitsShow
<1>6. /\ balance' = balance
      /\ bill' = [bill EXCEPT ![b] = [status |-> RetryStatus(n), retry |-> n]]
      /\ txn' = [txn EXCEPT ![r] = [status |-> "failed", code |-> FALSE]]
      /\ Close(w)
  BY DEF CommitRefund
<1>t. balance \in [Users -> Int] /\ bill \in [Bills -> BillRow] /\ txn \in [Refs -> TxnRow]
  BY DEF Orderly, TypeOK
<1> HIDE DEF b, r, n
<1>8. /\ bill'[b].status = RetryStatus(n) /\ bill'[b].retry = n
      /\ \A c \in Bills : c # b => bill'[c] = bill[c]
  BY <1>1, <1>6, <1>t
<1>9. txn'[r].status = "failed" /\ \A q \in Refs : q # r => txn'[q] = txn[q]
  BY <1>1, <1>6, <1>t
<1>10. ASSUME NEW v \in Workers, v # w PROVE Untouched(v)
  <2>1. ASSUME Paying(v) \/ Settling(v)
        PROVE  txn'[sess[v].ref].status = txn[sess[v].ref].status
    BY <1>2, <1>9, <1>10, <2>1, AtWork
  <2>2. ASSUME sess[v].pc \in Holding \cup {"bill_locked"}
        PROVE  bill'[sess[v].bill] = bill[sess[v].bill]
    BY <1>3, <1>8, <1>10, <2>2, BillsHeld
  <2>3. ASSUME Settling(v) PROVE bill'[sess[v].bill].retry = bill[sess[v].bill].retry
    <3>1. /\ sess[v].ref \in Refs /\ sess[v].bill = BillOf[sess[v].ref] /\ sess[v].bill \in Bills
          /\ Counts(sess[v].ref)
      BY <2>3, AtWork DEF Orderly, OneByOne, SettlesFresh, Counts
    <3> QED
      BY <1>5, <1>8, <3>1
  <2> QED
    BY <1>6, <2>1, <2>2, <2>3 DEF Untouched
<1>11. RowsInOrder'
  <2>1. \A q \in Refs : Counts(q)' => Counts(q)
    BY <1>9 DEF Counts
  <2>2. OneDebitABill'
    BY <2>1 DEF Orderly, OneByOne, OneDebitABill
  <2>3. DebitsShow'
    BY <1>1, <1>5, <1>8, <2>1 DEF Orderly, OneByOne, DebitsShow
  <2>4. RetryBudget'
    BY <1>1, <1>8 DEF Orderly, OneByOne, RetryBudget, RetryStatus, n, Session
  <2>5. NobodyCancels' => ProcessingIsBacked'
    <3> SUFFICES ASSUME NobodyCancels PROVE ProcessingIsBacked'
      BY JobsStay
    <3>1. ProcessingIsBacked
      BY DEF Orderly, OneByOne
    <3>2. bill'[b].status # "processing"
      BY <1>8 DEF RetryStatus
    <3> QED
      BY <1>1, <1>2, <1>5, <1>8, <1>9, <3>1, <3>2 DEF ProcessingIsBacked, Counts
  <2> QED
    BY <2>2, <2>3, <2>4, <2>5 DEF RowsInOrder
<1> QED
  BY <1>6, <1>10, <1>11, <1>t, CommitsOn

\* A session that confirms is the only one.
LEMMA OneSettles ==
    ASSUME Orderly, NEW v \in Workers, NEW w \in Workers, Settling(v), Settling(w)
    PROVE  v = w
BY DEF Orderly, OneByOne, SettlesFresh, OneConfirmer

\* What is known of a confirmation about to commit.
LEMMA AtFlushing ==
    ASSUME Orderly, NEW w \in Workers, FlushDone(w)
    PROVE  LET s == sess[w] IN
           /\ s \in Session /\ Settling(w) /\ s.ref \in Refs /\ s.bill = BillOf[s.ref]
           /\ s.bill \in Bills /\ Owner[s.bill] \in Users
           /\ txn[s.ref].status = "processing" /\ Counts(s.ref)
           /\ bill[s.bill].status \in NotPayable
           /\ (NobodyCancels => s.status = "processing")
           /\ lock[s.ref] = w /\ lock[Owner[s.bill]] = w
           /\ (s.outcome # "success" \/ s.status # "paid" => lock[s.bill] = w)
           /\ s.balance \in Int /\ s.retry = bill[s.bill].retry /\ HasWallet(s)
           /\ \A v \in Workers : v # w => ~Settling(v) /\ (Paying(v) => sess[v].ref # s.ref)
<1>1. Settling(w) /\ sess[w].pc = "flushing" /\ SettlesFresh(w)
  BY DEF FlushDone, Settling, Confirming, Orderly, OneByOne
<1>2. /\ sess[w] \in Session /\ sess[w].ref \in Refs /\ sess[w].bill = BillOf[sess[w].ref]
      /\ sess[w].bill \in Bills /\ Owner[sess[w].bill] \in Users
  BY <1>1, AtWork
<1>3. HasWallet(sess[w]) /\ HasBill(sess[w])
  BY <1>1 DEF HasWallet, HasBill
<1>4. txn[sess[w].ref].status = "processing" /\ Counts(sess[w].ref)
  BY <1>1 DEF SettlesFresh, Counts
<1>5. bill[sess[w].bill].status \in NotPayable
  BY <1>2, <1>4 DEF Orderly, OneByOne, DebitsShow
<1>6. /\ sess[w].balance \in Int /\ sess[w].retry = bill[sess[w].bill].retry
      /\ (NobodyCancels => sess[w].status = "processing")
  BY <1>1, <1>2, <1>3 DEF SettlesFresh, Session
<1>7. /\ lock[sess[w].ref] = w /\ lock[Owner[sess[w].bill]] = w
      /\ (sess[w].outcome # "success" \/ sess[w].status # "paid" => lock[sess[w].bill] = w)
  BY DEF FlushDone, Flushed
<1>8. \A v \in Workers : v # w => ~Settling(v)
  BY <1>1, OneSettles
<1>9. \A v \in Workers : v # w /\ Paying(v) => sess[v].ref # sess[w].ref
  BY DEF Orderly, OneByOne, PaysFresh
<1> QED
  BY <1>1, <1>2, <1>3, <1>4, <1>5, <1>6, <1>7, <1>8, <1>9

\* A transfer is confirmed: the bill becomes paid, unless it was read as such.
LEMMA SettleOn ==
    ASSUME Orderly, NEW w \in Workers, ConfirmSuccess(w)
    PROVE  OneByOne'
<1> DEFINE b == sess[w].bill
           r == sess[w].ref
<1>0. FlushDone(w) /\ sess[w].outcome = "success"
  BY DEF ConfirmSuccess
<1>1. /\ sess[w] \in Session /\ b \in Bills /\ r \in Refs /\ b = BillOf[r]
      /\ txn[r].status = "processing" /\ Counts(r) /\ bill[b].status \in NotPayable
      /\ (NobodyCancels => sess[w].status = "processing")
      /\ (sess[w].status # "paid" => lock[b] = w)
      /\ \A v \in Workers : v # w => ~Settling(v) /\ (Paying(v) => sess[v].ref # r)
  BY <1>0, AtFlushing
<1>6. /\ balance' = balance
      /\ bill' = [bill EXCEPT ![b].status = Written(sess[w].status, "paid", bill[b].status)]
      /\ txn' = [txn EXCEPT ![r].status = "success"]
      /\ Close(w)
  BY DEF ConfirmSuccess
<1>t. balance \in [Users -> Int] /\ bill \in [Bills -> BillRow] /\ txn \in [Refs -> TxnRow]
  BY DEF Orderly, TypeOK
<1> HIDE DEF b, r
<1>8. /\ bill'[b].retry = bill[b].retry
      /\ (sess[w].status # "paid" => bill'[b].status = "paid")
      /\ (sess[w].status = "paid" => bill'[b] = bill[b])
      /\ \A c \in Bills : c # b => bill'[c] = bill[c]
  BY <1>1, <1>6, <1>t DEF BillRow, Written
<1>9. txn'[r].status = "success" /\ \A q \in Refs : q # r => txn'[q] = txn[q]
  BY <1>1, <1>6, <1>t DEF TxnRow
<1>10. ASSUME NEW v \in Workers, v # w PROVE Untouched(v)
  <2>0. ~Settling(v) /\ (Paying(v) => sess[v].ref # r)
    BY <1>1, <1>10
  <2>1. ASSUME Paying(v) PROVE txn'[sess[v].ref].status = txn[sess[v].ref].status
    BY <1>9, <2>0, <2>1, AtWork
  <2>2. ASSUME sess[v].pc \in Holding \cup {"bill_locked"}
        PROVE  bill'[sess[v].bill] = bill[sess[v].bill]
    <3>1. sess[v].bill \in Bills /\ lock[sess[v].bill] = v
      BY <2>2, BillsHeld
    <3> QED
      BY <1>1, <1>8, <1>10, <3>1
  <2> QED
    BY <1>6, <2>0, <2>1, <2>2 DEF Untouched
<1>11. RowsInOrder'
  <2>1. \A q \in Refs : Counts(q)' <=> Counts(q)
    BY <1>1, <1>9 DEF Counts
  <2>2. OneDebitABill'
    BY <2>1 DEF Orderly, OneByOne, OneDebitABill
  <2>3. DebitsShow'
    BY <1>1, <1>8, <2>1 DEF Orderly, OneByOne, DebitsShow, NotPayable
  <2>4. RetryBudget'
    BY <1>1, <1>8 DEF Orderly, OneByOne, RetryBudget
  <2>5. NobodyCancels' => ProcessingIsBacked'
    <3> SUFFICES ASSUME NobodyCancels PROVE ProcessingIsBacked'
      BY JobsStay
    <3>1. ProcessingIsBacked /\ bill'[b].status = "paid"
      BY <1>1, <1>8 DEF Orderly, OneByOne
    <3>2. \A q \in Refs : BillOf[q] = b /\ txn[q].status = "processing" => q = r
      BY <1>1 DEF Orderly, OneByOne, OneDebitABill, Counts
    <3> QED
      BY <1>1, <1>8, <1>9, <3>1, <3>2 DEF ProcessingIsBacked
  <2> QED
    BY <2>2, <2>3, <2>4, <2>5 DEF RowsInOrder
<1> QED
  BY <1>6, <1>10, <1>11, <1>t, CommitsOn

\* A failed transfer is refunded: no debit of the bill counts any more.
LEMMA RefundOn ==
    ASSUME Orderly, NEW w \in Workers, ConfirmFailure(w)
    PROVE  OneByOne'
<1> DEFINE b == sess[w].bill
           r == sess[w].ref
           o == Owner[b]
           n == sess[w].retry + 1
           amount == sess[w].balance + Refund(b)
<1>0. FlushDone(w) /\ sess[w].outcome # "success"
  BY DEF ConfirmFailure
<1>1. /\ sess[w] \in Session /\ b \in Bills /\ r \in Refs /\ b = BillOf[r] /\ o \in Users
      /\ txn[r].status = "processing" /\ Counts(r) /\ bill[b].status \in NotPayable
      /\ (NobodyCancels => sess[w].status = "processing")
      /\ lock[b] = w /\ lock[o] = w /\ sess[w].balance \in Int
      /\ \A v \in Workers : v # w => ~Settling(v) /\ (Paying(v) => sess[v].ref # r)
  BY <1>0, AtFlushing
<1>2. amount \in Int
  BY <1>1, ChargeType
<1>6. /\ balance' = [balance EXCEPT ![o] = amount]
      /\ bill' = [bill EXCEPT ![b] =
           [status |-> Written(sess[w].status, RetryStatus(n), bill[b].status), retry |-> n]]
      /\ txn' = [txn EXCEPT ![r].status = "failed"]
      /\ Close(w)
  BY DEF ConfirmFailure
<1>t. balance \in [Users -> Int] /\ bill \in [Bills -> BillRow] /\ txn \in [Refs -> TxnRow]
  BY DEF Orderly, TypeOK
<1> HIDE DEF b, r, o, n, amount
<1>7. balance' \in [Users -> Int] /\ \A u \in Users : u # o => balance'[u] = balance[u]
  BY <1>1, <1>2, <1>6, <1>t
<1>8. /\ bill'[b].status = Written(sess[w].status, RetryStatus(n), bill[b].status)
      /\ bill'[b].retry = n
      /\ \A c \in Bills : c # b => bill'[c] = bill[c]
  BY <1>1, <1>6, <1>t
<1>9. txn'[r].status = "failed" /\ \A q \in Refs : q # r => txn'[q] = txn[q]
  BY <1>1, <1>6, <1>t DEF TxnRow
<1>10. ASSUME NEW v \in Workers, v # w PROVE Untouched(v)
  <2>0. ~Settling(v) /\ (Paying(v) => sess[v].ref # r)
    BY <1>1, <1>10
  <2>1. ASSUME Paying(v) PROVE txn'[sess[v].ref].status = txn[sess[v].ref].status
    BY <1>9, <2>0, <2>1, AtWork
  <2>2. ASSUME sess[v].pc \in Holding \cup {"bill_locked"}
        PROVE  bill'[sess[v].bill] = bill[sess[v].bill]
    BY <1>1, <1>8, <1>10, <2>2, BillsHeld
  <2>3. ASSUME sess[v].pc \in Holding
        PROVE  balance'[Owner[sess[v].bill]] = balance[Owner[sess[v].bill]]
    BY <1>1, <1>7, <1>10, <2>3, BillsHeld
  <2> QED
    BY <2>0, <2>1, <2>2, <2>3 DEF Untouched
<1>11. RowsInOrder'
  <2>1. \A q \in Refs : Counts(q)' => Counts(q)
    BY <1>9 DEF Counts
  <2>2. OneDebitABill'
    BY <2>1 DEF Orderly, OneByOne, OneDebitABill
  <2>3. DebitsShow'
    <3>1. \A q \in Refs : Counts(q)' => BillOf[q] # b
      BY <1>1, <1>9, <2>1 DEF Orderly, OneByOne, OneDebitABill, Counts
    <3> QED
      BY <1>8, <2>1, <3>1 DEF Orderly, OneByOne, DebitsShow
  <2>4. RetryBudget'
    <3>1. bill'[b].status = "scheduled" => n < MaxRetries
      BY <1>1, <1>8 DEF Written, RetryStatus, NotPayable, n, Session
    <3> QED
      BY <1>8, <3>1 DEF Orderly, OneByOne, RetryBudget
  <2>5. NobodyCancels' => ProcessingIsBacked'
    <3> SUFFICES ASSUME NobodyCancels PROVE ProcessingIsBacked'
      BY JobsStay
    <3>1. ProcessingIsBacked /\ bill'[b].status # "processing"
      BY <1>1, <1>8 DEF Orderly, OneByOne, Written, RetryStatus
    <3>2. \A q \in Refs : BillOf[q] = b /\ txn[q].status = "processing" => q = r
      BY <1>1 DEF Orderly, OneByOne, OneDebitABill, Counts
    <3> QED
      BY <1>1, <1>8, <1>9, <3>1, <3>2 DEF ProcessingIsBacked
  <2> QED
    BY <2>2, <2>3, <2>4, <2>5 DEF RowsInOrder
<1> QED
  BY <1>6, <1>7, <1>10, <1>11, CommitsOn

\* A cancellation, from its check to its commit.
LEMMA CancelOn ==
    ASSUME Orderly, NEW w \in Workers, CancelStep(w)
    PROVE  OneByOne'
<1>t. balance \in [Users -> Int] /\ bill \in [Bills -> BillRow] /\ txn \in [Refs -> TxnRow]
  BY DEF Orderly, TypeOK
<1>1. ASSUME NEW b \in Bills, CancelLoad(w, b) PROVE OneByOne'
  <2> DEFINE n == NewSession("cancel", "cancelling", b, NoRef)
             s == [n EXCEPT !.status = bill[b].status]
  <2>1. "cancel" \in JobKinds /\ "cancelling" \in PCs /\ bill[b].status \in BillStatus
    BY <1>t DEF JobKinds, PCs, BillRow
  <2>2. n \in Session /\ n.pc = "cancelling" /\ n.ref = NoRef
    BY <2>1, NewType
  <2>3. s \in Session /\ s.pc = "cancelling" /\ s.ref = NoRef
    BY <2>1, <2>2 DEF Session
  <2>4. Become(w, s) /\ SameBooks /\ "cancel" \in Jobs[w]
    BY <1>1 DEF CancelLoad, CanOpen, tables, SameBooks
  <2> HIDE DEF s, n
  <2>5. \A v \in Workers : Paying(v) => s.ref # sess[v].ref
    BY <2>3, AtWork
  <2>6. ASSUME sess'[w] = s PROVE PaysFresh(w)' /\ SettlesFresh(w)' /\ CancelsIfMay(w)'
    BY <2>3, <2>4, <2>6 DEF PaysFresh, SettlesFresh, CancelsIfMay, Paying, Settling, Confirming,
       Holding
  <2> QED
    BY <2>3, <2>4, <2>5, <2>6, ReadsOn
<1>2. CASE CancelCommit(w)
  <2> DEFINE b == sess[w].bill
  <2>1. /\ b \in Bills /\ lock[b] \in {Nobody, w} /\ ~NobodyCancels
        /\ bill' = [bill EXCEPT ![b].status = "cancelled"]
        /\ balance' = balance /\ txn' = txn /\ Close(w)
    BY <1>2 DEF CancelCommit, LockFree, Orderly, SessionInv, KnowsRows, OneByOne, CancelsIfMay,
       NobodyCancels
  <2> HIDE DEF b
  <2>2. /\ bill'[b].status = "cancelled" /\ bill'[b].retry = bill[b].retry
        /\ \A c \in Bills : c # b => bill'[c] = bill[c]
    BY <2>1, <1>t DEF BillRow
  <2>3. ASSUME NEW v \in Workers, v # w PROVE Untouched(v)
    <3>1. ASSUME sess[v].pc \in Holding \cup {"bill_locked"}
          PROVE  bill'[sess[v].bill] = bill[sess[v].bill]
      BY <2>1, <2>2, <2>3, <3>1, BillsHeld
    <3>2. Settling(v) => bill'[sess[v].bill].retry = bill[sess[v].bill].retry
      BY <2>1, <2>2, AtWork
    <3> QED
      BY <2>1, <3>1, <3>2 DEF Untouched
  <2>4. RowsInOrder'
    <3>1. OneDebitABill' /\ DebitsShow'
      BY <2>1, <2>2 DEF Orderly, OneByOne, OneDebitABill, DebitsShow, Counts, NotPayable
    <3>2. RetryBudget'
      BY <2>2 DEF Orderly, OneByOne, RetryBudget
    <3> QED
      BY <2>1, <3>1, <3>2, JobsStay DEF RowsInOrder
  <2> QED
    BY <2>1, <2>3, <2>4, <1>t, CommitsOn
<1> QED
  BY <1>1, <1>2 DEF CancelStep

\* Every step keeps them in order.
LEMMA NextOn == Orderly /\ [Next]_vars => OneByOne'
<1> SUFFICES ASSUME Orderly, [Next]_vars PROVE OneByOne'
  OBVIOUS
<1>1. ASSUME NEW w \in Workers, StepOf(w) PROVE OneByOne'
  <2>1. CASE PayStep(w)
    BY <2>1, PayGoesOn, DebitOn, DeclineOn
  <2>2. CASE ConfirmStep(w)
    BY <2>2, ConfirmGoesOn, SettleOn, RefundOn
  <2>3. CASE DeadlockAbort(w)
    BY <2>3, LeavesOff DEF DeadlockAbort, Rollback, tables, SameBooks
  <2> QED
    BY <1>1, <2>1, <2>2, <2>3, CallGoesOn, WebhookGoesOn, ReconcileGoesOn, OtpGoesOn, CancelOn
    DEF StepOf
<1>2. ASSUME NEW r \in Refs, RemoteSettle(r) PROVE OneByOne'
  BY <1>2, StaysOn DEF RemoteSettle, tables, SameBooks
<1>3. CASE Crash
  <2>1. SameBooks /\ \A w \in Workers : sess'[w] = Idle
    BY <1>3 DEF Crash, tables, SameBooks
  <2>2. Idle.pc = "idle"
    BY IdleType
  <2>3. \A w \in Workers : PaysFresh(w)' /\ SettlesFresh(w)' /\ CancelsIfMay(w)'
    BY <2>1, <2>2 DEF PaysFresh, SettlesFresh, CancelsIfMay, Paying, Settling, Confirming, Holding
  <2>4. RowsInOrder'
    BY <2>1, JobsStay DEF Orderly, OneByOne, SameBooks, RowsInOrder, OneDebitABill, DebitsShow,
       RetryBudget, ProcessingIsBacked, Counts
  <2> QED
    BY <2>3, <2>4 DEF OneByOne, RowsInOrder
<1>4. CASE UNCHANGED vars
  BY <1>4, StaysOn DEF vars, SameBooks
<1> QED
  BY <1>1, <1>2, <1>3, <1>4 DEF Next

\* At the start nothing is under way.
LEMMA InitOn == Init => OneByOne
<1> SUFFICES ASSUME Init PROVE OneByOne
  OBVIOUS
<1>1. Idle.pc = "idle"
  BY IdleType
<1>2. ASSUME NEW w \in Workers PROVE PaysFresh(w) /\ SettlesFresh(w) /\ CancelsIfMay(w)
  BY <1>1 DEF Init, PaysFresh, SettlesFresh, CancelsIfMay, Paying, Settling, Confirming, Holding
<1>3. /\ \A r \in Refs : txn[r].status = "none"
      /\ \A b \in Bills : bill[b].status \in {"pending", "scheduled"} /\ bill[b].retry = 0
  BY DEF Init, NoTxn
<1>4. OneDebitABill /\ DebitsShow /\ RetryBudget /\ ProcessingIsBacked
  BY <1>3 DEF OneDebitABill, DebitsShow, RetryBudget, ProcessingIsBacked, Counts
<1> QED
  BY <1>2, <1>4 DEF OneByOne

\* However many payments the scheduler has under way, and with bills
\* cancelled meanwhile, the attempts to pay one bill come one after the other.
THEOREM AttemptsComeOneByOne == OneConfirmer /\ Spec => []OneByOne
<1>1. OneConfirmer /\ OneByOne /\ TypeOK /\ SessionInv /\ LockInv /\ [Next]_vars
        => OneConfirmer' /\ OneByOne'
  BY NextOn, JobsStay DEF Orderly
<1> QED
  BY <1>1, InitOn, Typed, Locked, PTL DEF Spec

\* With one session at a time confirming a scheduled bill has a retry left.
THEOREM RetriesAreBounded == OneConfirmer /\ Spec => []RetryBudget
BY AttemptsComeOneByOne, PTL DEF OneByOne

\* If moreover nobody cancels, a bill is processing exactly while a debit of
\* its own is.
THEOREM ProcessingBillsAreBacked ==
    OneConfirmer /\ NobodyCancels /\ Spec => []ProcessingIsBacked
<1>1. NobodyCancels => NobodyCancels'
  BY JobsStay
<1>2. NobodyCancels /\ OneByOne => ProcessingIsBacked
  BY DEF OneByOne
<1> QED
  BY <1>1, <1>2, AttemptsComeOneByOne, PTL DEF Spec

-----------------------------------------------------------------------------
(* The balance that a confirmation has read without a lock                 *)

\* What some debits add up to: a natural number, nothing for none of them, and
\* a charge more for one debit more.
LEMMA SumType ==
    ASSUME IsFiniteSet(Refs), NEW D \in SUBSET Refs
    PROVE  SumOfCharges(D) \in Nat
<1>1. IsFiniteSet(D) /\ \A q \in D : Prices[q] \in Nat
  BY FS_Subset, ChargeType DEF Prices
<1> QED
  BY <1>1, TotalType, ChargesTotal

\* No debits, no charge.
LEMMA SumEmpty == IsFiniteSet(Refs) => SumOfCharges({}) = 0
BY ChargesTotal, TotalEmpty

\* One debit more adds its charge.
LEMMA SumOneMore ==
    ASSUME IsFiniteSet(Refs), NEW D \in SUBSET Refs, NEW r \in Refs \ D
    PROVE  SumOfCharges(D \cup {r}) = SumOfCharges(D) + Charge(BillOf[r])
<1> DEFINE E == D \cup {r}
<1>1. E \in SUBSET Refs /\ r \in E /\ E \ {r} = D
  OBVIOUS
<1>2. IsFiniteSet(E) /\ \A q \in E : Prices[q] \in Nat
  BY <1>1, FS_Subset, ChargeType DEF Prices
<1> HIDE DEF E
<1>3. Total(Prices, E) = Prices[r] + Total(Prices, D)
  BY <1>1, <1>2, TotalWithout
<1>4. SumOfCharges(E) = Charge(BillOf[r]) + SumOfCharges(D)
  BY <1>1, <1>3, ChargesTotal DEF Prices
<1>5. SumOfCharges(D) \in Nat /\ Charge(BillOf[r]) \in Nat
  BY SumType, ChargeType
<1> QED
  BY <1>4, <1>5 DEF E

SameMoney == balance' = balance /\ txn' = txn /\ \A b \in Bills : bill'[b].retry = bill[b].retry

\* A step that is no commit of a debit or of its end leaves balances, debits
\* and retries as they are.
LEMMA NextBooks ==
    ASSUME TypeOK, [Next]_vars
    PROVE  \/ SameMoney
           \/ \E w \in Workers : CommitDebit(w) \/ CommitRefund(w)
           \/ \E w \in Workers : ConfirmSuccess(w) \/ ConfirmFailure(w)
<1> USE DEF tables
<1>0. SameBooks => SameMoney
  BY DEF SameBooks, SameMoney
<1>1. ASSUME NEW w \in Workers, PayStep(w)
      PROVE  SameMoney \/ CommitDebit(w) \/ CommitRefund(w)
  BY <1>0, <1>1 DEF PayStep, PayRequest, AutopayRecheck, PayLoadBill, LockBill, RefusePayout,
       StartPayout, Rollback, SameBooks
<1>2. ASSUME NEW w \in Workers, ConfirmStep(w)
      PROVE  SameMoney \/ ConfirmSuccess(w) \/ ConfirmFailure(w)
  BY <1>0, <1>2 DEF ConfirmStep, ConfirmReadBill, ConfirmReadUser, FlushRow, SameBooks
<1>3. ASSUME NEW w \in Workers, CallStep(w) \/ WebhookStep(w) \/ ReconcileStep(w)
      PROVE  SameMoney
  BY <1>0, <1>3 DEF CallStep, CallRejected, CallRaises, CallAccepted, CallLost, WebhookStep,
       WebhookIgnored, WebhookRead, ReconcileStep, ReconcilePick, ReconcilePolled,
       ReconcileError, ReconcileSettle, ReconcileSkip, Rollback, SameBooks
<1>4. ASSUME NEW w \in Workers, OtpStep(w) PROVE SameMoney
  BY <1>0, <1>4 DEF OtpStep, OtpRequest, OtpCommand, OtpLoadBill, OtpLock, OtpNotFound,
       OtpAccepted, OtpRejected, OtpPending, OtpSettle, Rollback, SameBooks
<1>5. ASSUME NEW w \in Workers, CancelStep(w) \/ DeadlockAbort(w) PROVE SameMoney
  <2>1. CASE CancelCommit(w)
    <3>1. /\ bill' = [bill EXCEPT ![sess[w].bill].status = "cancelled"]
          /\ balance' = balance /\ txn' = txn
      BY <2>1 DEF CancelCommit
    <3>2. \A b \in Bills : bill'[b].retry = bill[b].retry
      BY <3>1 DEF TypeOK, BillRow
    <3> QED
      BY <3>1, <3>2 DEF SameMoney
  <2> QED
    BY <1>0, <1>5, <2>1 DEF CancelStep, CancelLoad, DeadlockAbort, Rollback, SameBooks
<1>6. (\E r \in Refs : RemoteSettle(r)) \/ Crash \/ UNCHANGED vars => SameMoney
  BY <1>0 DEF RemoteSettle, Crash, vars, SameBooks
<1> QED
  BY <1>1, <1>2, <1>3, <1>4, <1>5, <1>6 DEF Next, StepOf

\* A step of a session leaves the others alone; only a crash closes them all.
LEMMA OthersStay ==
    ASSUME TypeOK, NEW v \in Workers, StepOf(v), NEW w \in Workers, w # v
    PROVE  sess'[w] = sess[w]
<1>1. sess' = sess \/ \E s : Become(v, s)
  <2> USE DEF Move, Close, Rollback, vars
  <2>1. CASE PayStep(v)
    BY <2>1 DEF PayStep, PayRequest, AutopayRecheck, PayLoadBill, LockBill, RefusePayout,
       StartPayout, CommitDebit, CommitRefund
  <2>2. CASE CallStep(v) \/ WebhookStep(v)
    BY <2>2 DEF CallStep, CallRejected, CallRaises, CallAccepted, CallLost, WebhookStep,
       WebhookIgnored, WebhookRead
  <2>3. CASE ReconcileStep(v) \/ CancelStep(v) \/ DeadlockAbort(v)
    BY <2>3 DEF ReconcileStep, ReconcilePick, ReconcilePolled, ReconcileError, ReconcileSettle,
       ReconcileSkip, CancelStep, CancelLoad, CancelCommit, DeadlockAbort
  <2>4. CASE OtpStep(v)
    BY <2>4 DEF OtpStep, OtpRequest, OtpCommand, OtpLoadBill, OtpLock, OtpNotFound,
       OtpAccepted, OtpRejected, OtpPending, OtpSettle
  <2>5. CASE ConfirmStep(v)
    BY <2>5 DEF ConfirmStep, ConfirmReadBill, ConfirmReadUser, FlushRow, ConfirmSuccess,
       ConfirmFailure
  <2> QED
    BY <2>1, <2>2, <2>3, <2>4, <2>5 DEF StepOf
<1> QED
  BY <1>1 DEF Become, TypeOK

Holds(w) == Settling(w) /\ HasWallet(sess[w])
HeldBefore(w) ==
    /\ Holds(w) /\ sess'[w].ref = sess[w].ref /\ sess'[w].bill = sess[w].bill
    /\ sess'[w].balance = sess[w].balance

\* A confirmation that holds a balance after a step held it before, or has
\* read it from the row.
LEMMA OwnRead ==
    ASSUME Orderly, NEW w \in Workers, StepOf(w), Holds(w)'
    PROVE  HeldBefore(w) \/ sess'[w].balance = balance[Owner[sess'[w].bill]]
<1>t. sess \in [Workers -> Session] /\ sess[w] \in Session
  BY DEF Orderly, TypeOK
<1>p. /\ sess'[w].pc \in {"polling", "polled", "txn_read", "bill_read", "flushing",
                          "authed", "otp_loaded", "finalizing", "replied"}
      /\ (sess'[w].job \in OtpJobs \/ sess'[w].pc = "flushing")
  BY DEF Holds, Settling, Confirming, HasWallet
<1>i. sess'[w] # Idle
  BY <1>p, IdleType
<1>c. ~Close(w)
  BY <1>t, <1>i DEF Close, Become
<1>1. CASE PayStep(w)
  <2>1. PaysFresh(w) /\ SettlesFresh(w) /\ "pay" \notin Jobs[w]
    BY DEF Orderly, OneByOne, OneConfirmer
  <2>2. ~PayLoadBill(w) /\ \A r \in Refs : ~PayRequest(w, r)
    BY <2>1 DEF PayLoadBill, PayRequest, CanOpen, SettlesFresh, Settling, ConfirmJobs,
       Confirmers, OtpJobs
  <2>3. ASSUME NEW r \in Refs, AutopayRecheck(w, r) PROVE FALSE
    <3>1. "autopay" \in JobKinds /\ "loaded" \in PCs
      BY DEF JobKinds, PCs
    <3>2. sess'[w] = Opened("autopay", "loaded", r)
      BY <1>t, <2>3 DEF AutopayRecheck, Become
    <3> QED
      BY <1>p, <3>1, <3>2, OpenedType
  <2>4. ~LockBill(w)
    <3> SUFFICES ASSUME LockBill(w) PROVE FALSE
      OBVIOUS
    <3>1. PICK status, retry :
            Become(w, [sess[w] EXCEPT !.pc = "bill_locked", !.status = status, !.retry = retry])
      BY DEF LockBill
    <3>2. sess[w].pc = "loaded" /\ sess'[w].pc = "bill_locked"
      BY <1>t, <3>1 DEF LockBill, Become, Session
    <3> QED
      BY <1>p, <3>2
  <2>5. ~StartPayout(w)
    <3> SUFFICES ASSUME StartPayout(w) PROVE FALSE
      OBVIOUS
    <3>1. PICK wallet : Become(w, [sess[w] EXCEPT !.pc = "calling", !.balance = wallet])
      BY DEF StartPayout
    <3>2. sess'[w].pc = "calling"
      BY <1>t, <3>1 DEF Become, Session
    <3> QED
      BY <1>p, <3>2
  <2> QED
    BY <1>1, <1>c, <2>2, <2>3, <2>4, <2>5 DEF PayStep, RefusePayout, Rollback, CommitDebit,
       CommitRefund
<1>2. CASE CallStep(w)
  <2>1. ASSUME NEW pc \in {"accepted", "refunding"}, NEW code,
               Become(w, [sess[w] EXCEPT !.pc = pc, !.code = code])
        PROVE  FALSE
    <3>1. sess'[w].pc = pc
      BY <1>t, <2>1 DEF Become, Session
    <3> QED
      BY <1>p, <3>1
  <2>2. ASSUME NEW pc \in {"accepted", "refunding"}, Move(w, pc) PROVE FALSE
    <3>1. [sess[w] EXCEPT !.pc = pc] = [sess[w] EXCEPT !.pc = pc, !.code = sess[w].code]
      BY <1>t DEF Session
    <3> QED
      BY <2>1, <2>2, <3>1 DEF Move
  <2> QED
    BY <1>2, <1>c, <2>1, <2>2 DEF CallStep, CallRejected, CallRaises, CallAccepted, CallLost,
       Rollback
<1>3. CASE WebhookStep(w)
  <2>1. ASSUME NEW r \in Refs, NEW e \in EventKinds, WebhookRead(w, r, e) PROVE FALSE
    <3>1. "webhook" \in JobKinds /\ "txn_read" \in PCs
      BY DEF JobKinds, PCs
    <3>2. sess'[w] = [Opened("webhook", "txn_read", r) EXCEPT !.outcome = e]
      BY <1>t, <2>1 DEF WebhookRead, Become
    <3>3. sess'[w].pc = "txn_read" /\ sess'[w].job = "webhook"
      BY <3>1, <3>2, OpenedType DEF Session
    <3> QED
      BY <1>p, <3>3 DEF OtpJobs
  <2>2. ASSUME sess' = sess PROVE HeldBefore(w)
    BY <2>2 DEF HeldBefore, Holds, Settling, Confirming, HasWallet
  <2> QED
    BY <1>3, <2>1, <2>2 DEF WebhookStep, WebhookIgnored
<1>m. ASSUME NEW s, Become(w, s), s.job = sess[w].job, s.ref = sess[w].ref, s.bill = sess[w].bill,
             s.balance = sess[w].balance, s.pc # "flushing", Settling(w)
      PROVE  HeldBefore(w)
  <2>1. sess'[w] = s
    BY <1>t, <1>m DEF Become
  <2> QED
    BY <1>p, <1>m, <2>1 DEF HeldBefore, Holds, HasWallet
<1>4. CASE ReconcileStep(w)
  <2>1. ASSUME NEW r \in Refs, ReconcilePick(w, r) PROVE FALSE
    <3>1. "reconcile" \in JobKinds /\ "polling" \in PCs
      BY DEF JobKinds, PCs
    <3>2. sess'[w] = [Opened("reconcile", "polling", r) EXCEPT !.code = txn[r].code]
      BY <1>t, <2>1 DEF ReconcilePick, Become
    <3>3. sess'[w].pc = "polling" /\ sess'[w].job = "reconcile"
      BY <3>1, <3>2, OpenedType DEF Session
    <3> QED
      BY <1>p, <3>3 DEF OtpJobs
  <2>2. CASE ReconcilePolled(w) \/ ReconcileSettle(w)
    <3>1. Settling(w)
      BY <2>2 DEF ReconcilePolled, ReconcileSettle, Settling, Confirming
    <3>2. PICK pc \in {"polled", "txn_read"} : \E outcome :
            Become(w, [sess[w] EXCEPT !.pc = pc, !.outcome = outcome])
      <4>1. [sess[w] EXCEPT !.pc = "txn_read"]
              = [sess[w] EXCEPT !.pc = "txn_read", !.outcome = sess[w].outcome]
        BY <1>t DEF Session
      <4> QED
        BY <2>2, <4>1 DEF ReconcilePolled, ReconcileSettle, Move
    <3>4. PICK outcome : Become(w, [sess[w] EXCEPT !.pc = pc, !.outcome = outcome])
      BY <3>2
    <3> DEFINE s == [sess[w] EXCEPT !.pc = pc, !.outcome = outcome]
    <3>3. /\ s.job = sess[w].job /\ s.ref = sess[w].ref /\ s.bill = sess[w].bill
          /\ s.balance = sess[w].balance /\ s.pc # "flushing" /\ Become(w, s)
      BY <1>t, <3>4 DEF Session
    <3> HIDE DEF s
    <3> QED
      BY <1>m, <3>1, <3>3
  <2> QED
    BY <1>4, <1>c, <2>1, <2>2 DEF ReconcileStep, ReconcileError, ReconcileSkip, Rollback
<1>5. CASE OtpStep(w)
  <2>1. ASSUME NEW r \in Refs, OtpRequest(w, r) \/ OtpCommand(w, r)
        PROVE  sess'[w].balance = balance[Owner[sess'[w].bill]]
    <3>1. {"otp_api", "otp_bot"} \subseteq JobKinds /\ {"authed", "otp_loaded"} \subseteq PCs
      BY DEF JobKinds, PCs
    <3>2. PICK job \in JobKinds, pc \in PCs :
            sess'[w] = [Opened(job, pc, r) EXCEPT !.balance = balance[Owner[BillOf[r]]]]
      BY <1>t, <2>1, <3>1 DEF OtpRequest, OtpCommand, Become
    <3> QED
      BY <3>2, OpenedType DEF Session
  <2>2. CASE OtpLoadBill(w)
    <3> DEFINE s == [sess[w] EXCEPT !.pc = "otp_loaded", !.status = bill[sess[w].bill].status,
                                    !.retry = bill[sess[w].bill].retry]
    <3>1. /\ s.job = sess[w].job /\ s.ref = sess[w].ref /\ s.bill = sess[w].bill
          /\ s.balance = sess[w].balance /\ s.pc # "flushing" /\ Become(w, s) /\ Settling(w)
      BY <1>t, <2>2 DEF Session, OtpLoadBill, Settling
    <3> HIDE DEF s
    <3> QED
      BY <1>m, <3>1
  <2>3. ASSUME NEW pc \in {"finalizing", "txn_read"}, Move(w, pc),
               sess[w].pc \in {"otp_loaded", "replied"}
        PROVE  HeldBefore(w)
    <3> DEFINE s == [sess[w] EXCEPT !.pc = pc]
    <3>1. /\ s.job = sess[w].job /\ s.ref = sess[w].ref /\ s.bill = sess[w].bill
          /\ s.balance = sess[w].balance /\ s.pc # "flushing" /\ Become(w, s) /\ Settling(w)
      BY <1>t, <2>3 DEF Session, Move, Settling
    <3> HIDE DEF s
    <3> QED
      BY <1>m, <3>1
  <2>4. CASE OtpAccepted(w)
    <3>1. PICK answer : Become(w, [sess[w] EXCEPT !.pc = "replied", !.outcome = answer])
      BY <2>4 DEF OtpAccepted
    <3> DEFINE s == [sess[w] EXCEPT !.pc = "replied", !.outcome = answer]
    <3>2. /\ s.job = sess[w].job /\ s.ref = sess[w].ref /\ s.bill = sess[w].bill
          /\ s.balance = sess[w].balance /\ s.pc # "flushing" /\ Become(w, s) /\ Settling(w)
      BY <1>t, <2>4, <3>1 DEF Session, OtpAccepted, Settling
    <3> HIDE DEF s
    <3> QED
      BY <1>m, <3>2
  <2>5. OtpLock(w) => Move(w, "finalizing") /\ sess[w].pc = "otp_loaded"
    BY DEF OtpLock
  <2>6. OtpSettle(w) => Move(w, "txn_read") /\ sess[w].pc = "replied"
    BY DEF OtpSettle
  <2> QED
    BY <1>5, <1>c, <2>1, <2>2, <2>3, <2>4, <2>5, <2>6 DEF OtpStep, OtpNotFound, OtpPending,
       OtpRejected, Rollback
<1>6. CASE ConfirmStep(w)
  <2>1. CASE ConfirmReadBill(w)
    <3>1. PICK status, retry :
            Become(w, [sess[w] EXCEPT !.pc = "bill_read", !.status = status, !.retry = retry])
      BY <2>1 DEF ConfirmReadBill
    <3> DEFINE s == [sess[w] EXCEPT !.pc = "bill_read", !.status = status, !.retry = retry]
    <3>2. /\ s.job = sess[w].job /\ s.ref = sess[w].ref /\ s.bill = sess[w].bill
          /\ s.balance = sess[w].balance /\ s.pc # "flushing" /\ Become(w, s) /\ Settling(w)
      BY <1>t, <2>1, <3>1 DEF Session, ConfirmReadBill, Settling, Confirming
    <3> HIDE DEF s
    <3> QED
      BY <1>m, <3>2
  <2>2. CASE ConfirmReadUser(w)
    <3> DEFINE wallet == IF sess[w].job \in {"otp_api", "otp_bot"} THEN sess[w].balance
                         ELSE balance[Owner[sess[w].bill]]
    <3>1. sess'[w] = [sess[w] EXCEPT !.pc = "flushing", !.balance = wallet] /\ Settling(w)
      BY <1>t, <2>2 DEF ConfirmReadUser, Become, Settling, Confirming
    <3> HIDE DEF wallet
    <3>2. /\ sess'[w].balance = wallet /\ sess'[w].ref = sess[w].ref
          /\ sess'[w].bill = sess[w].bill
      BY <1>t, <3>1 DEF Session
    <3> QED
      BY <3>1, <3>2 DEF wallet, HeldBefore, Holds, HasWallet, OtpJobs
  <2>3. ASSUME sess' = sess PROVE HeldBefore(w)
    BY <2>3 DEF HeldBefore, Holds, Settling, Confirming, HasWallet
  <2> QED
    BY <1>6, <1>c, <2>1, <2>2, <2>3 DEF ConfirmStep, FlushRow, ConfirmSuccess, ConfirmFailure
<1>7. CASE CancelStep(w) \/ DeadlockAbort(w)
  <2>1. ASSUME NEW b \in Bills, CancelLoad(w, b) PROVE FALSE
    <3>1. "cancel" \in JobKinds /\ "cancelling" \in PCs
      BY DEF JobKinds, PCs
    <3>2. sess'[w] = [NewSession("cancel", "cancelling", b, NoRef) EXCEPT !.status = bill[b].status]
      BY <1>t, <2>1 DEF CancelLoad, Become
    <3> QED
      BY <1>p, <3>1, <3>2, NewType DEF Session
  <2> QED
    BY <1>7, <1>c, <2>1 DEF CancelStep, CancelCommit, DeadlockAbort, Rollback
<1> QED
  BY <1>1, <1>2, <1>3, <1>4, <1>5, <1>6, <1>7 DEF StepOf

\* ... whoever takes the step.
LEMMA WalletRead ==
    ASSUME Orderly, [Next]_vars, NEW w \in Workers, Holds(w)'
    PROVE  HeldBefore(w) \/ sess'[w].balance = balance[Owner[sess'[w].bill]]
<1>1. ASSUME sess'[w] = sess[w] PROVE HeldBefore(w)
  BY <1>1 DEF HeldBefore, Holds, Settling, Confirming, HasWallet
<1>2. ASSUME NEW v \in Workers, StepOf(v), v # w PROVE sess'[w] = sess[w]
  BY <1>2, OthersStay DEF Orderly
<1>3. ASSUME NEW r \in Refs, RemoteSettle(r) PROVE sess'[w] = sess[w]
  BY <1>3 DEF RemoteSettle
<1>4. ~Crash
  BY IdleType DEF Crash, Holds, Settling, Confirming
<1>5. UNCHANGED vars => sess'[w] = sess[w]
  BY DEF vars
<1> QED
  BY <1>1, <1>2, <1>3, <1>4, <1>5, OwnRead DEF Next

\* What a commit leaves alone, and what the ledger asks of an attempt.
Beside(r) == \A q \in Refs : q # r => txn'[q] = txn[q]
NoneCounts(r) == \A q \in Refs : BillOf[q] = BillOf[r] => ~Counts(q)
Solvent(r) == balance[Owner[BillOf[r]]] >= Charge(BillOf[r])
SameRetries == \A b \in Bills : bill'[b].retry = bill[b].retry
OneRetryMore(r) ==
    \A b \in Bills : bill'[b].retry = bill[b].retry + (IF b = BillOf[r] THEN 1 ELSE 0)

\* A payout's commit charges the balance on record for a debit that begins to
\* count, and is the bill's only one to do so.
LEMMA DebitBooks ==
    ASSUME Orderly, NEW w \in Workers, CommitDebit(w)
    PROVE  LET r == sess[w].ref IN
           /\ r \in Refs /\ txn[r].status = "none" /\ txn'[r].status = "processing"
           /\ Beside(r) /\ NoneCounts(r) /\ Solvent(r) /\ SameRetries
           /\ balance' = [balance EXCEPT ![Owner[BillOf[r]]] = @ - Charge(BillOf[r])]
<1> DEFINE r == sess[w].ref
<1>1. /\ PaysFresh(w) /\ Paying(w) /\ sess[w].pc \in Holding
      /\ r \in Refs /\ sess[w].bill = BillOf[r]
  BY AtWork DEF Orderly, OneByOne, CommitDebit, Paying, Holding
<1>2. txn[r].status = "none" /\ sess[w].balance = balance[Owner[BillOf[r]]] /\ Solvent(r)
  BY <1>1 DEF PaysFresh, Solvent
<1>3. NoneCounts(r)
  BY <1>1 DEF PaysFresh, NoneCounts, Orderly, OneByOne, DebitsShow
<1>4. txn'[r].status = "processing" /\ \A q \in Refs : q # r => txn'[q] = txn[q]
  BY <1>1 DEF CommitDebit, Orderly, TypeOK
<1>5. balance' = [balance EXCEPT ![Owner[BillOf[r]]] = @ - Charge(BillOf[r])]
  BY <1>1, <1>2 DEF CommitDebit
<1>6. bill' = [bill EXCEPT ![BillOf[r]].status = "processing"]
  BY <1>1 DEF CommitDebit
<1>7. SameRetries
  BY <1>1, <1>6 DEF SameRetries, Orderly, TypeOK, BillRow
<1> HIDE DEF r
<1> QED
  BY <1>1, <1>2, <1>3, <1>4, <1>5, <1>7 DEF Beside, r

\* A payout that was turned down is recorded as failed, and costs nothing.
LEMMA DeclineBooks ==
    ASSUME Orderly, NEW w \in Workers, CommitRefund(w)
    PROVE  LET r == sess[w].ref IN
           /\ r \in Refs /\ txn[r].status = "none" /\ txn'[r].status = "failed"
           /\ Beside(r) /\ NoneCounts(r) /\ Solvent(r) /\ OneRetryMore(r)
           /\ balance' = balance
<1> DEFINE r == sess[w].ref
           n == sess[w].retry + 1
<1>1. /\ PaysFresh(w) /\ Paying(w) /\ sess[w].pc \in Holding
      /\ r \in Refs /\ sess[w].bill = BillOf[r]
  BY AtWork DEF Orderly, OneByOne, CommitRefund, Paying, Holding
<1>2. txn[r].status = "none" /\ Solvent(r) /\ n = bill[BillOf[r]].retry + 1
  BY <1>1 DEF PaysFresh, Solvent, Holding
<1>3. NoneCounts(r)
  BY <1>1 DEF PaysFresh, NoneCounts, Orderly, OneByOne, DebitsShow
<1>4. txn'[r].status = "failed" /\ \A q \in Refs : q # r => txn'[q] = txn[q]
  BY <1>1 DEF CommitRefund, Orderly, TypeOK
<1>6. bill' = [bill EXCEPT ![BillOf[r]] = [status |-> RetryStatus(n), retry |-> n]]
  BY <1>1 DEF CommitRefund
<1>7. balance' = balance
  BY DEF CommitRefund
<1> HIDE DEF r, n
<1>8. OneRetryMore(r)
  BY <1>1, <1>2, <1>6 DEF OneRetryMore, Orderly, TypeOK, BillRow
<1> QED
  BY <1>1, <1>2, <1>3, <1>4, <1>7, <1>8 DEF Beside, r

\* A transfer that was completed leaves the wallet alone.
LEMMA SettleBooks ==
    ASSUME Orderly, NEW w \in Workers, ConfirmSuccess(w)
    PROVE  LET r == sess[w].ref IN
           /\ r \in Refs /\ txn[r].status = "processing" /\ txn'[r].status = "success"
           /\ Beside(r) /\ SameRetries /\ balance' = balance
<1> DEFINE r == sess[w].ref
           new == Written(sess[w].status, "paid", bill[BillOf[r]].status)
<1>1. r \in Refs /\ sess[w].bill = BillOf[r] /\ txn[r].status = "processing"
  BY AtFlushing DEF ConfirmSuccess
<1>2. txn'[r].status = "success" /\ \A q \in Refs : q # r => txn'[q] = txn[q]
  BY <1>1 DEF ConfirmSuccess, Orderly, TypeOK, TxnRow
<1>3. bill' = [bill EXCEPT ![BillOf[r]].status = new] /\ balance' = balance
  BY <1>1 DEF ConfirmSuccess
<1> HIDE DEF r, new
<1>4. SameRetries
  BY <1>1, <1>3 DEF SameRetries, Orderly, TypeOK, BillRow
<1> QED
  BY <1>1, <1>2, <1>3, <1>4 DEF Beside, r

\* A refund gives the whole charge back, to the balance the session has read.
LEMMA RefundBooks ==
    ASSUME Orderly, NEW w \in Workers, ConfirmFailure(w)
    PROVE  LET r == sess[w].ref IN
           /\ r \in Refs /\ txn[r].status = "processing" /\ txn'[r].status = "failed"
           /\ Beside(r) /\ OneRetryMore(r) /\ Holds(w) /\ sess[w].bill = BillOf[r]
           /\ sess[w].balance \in Int
           /\ balance' = [balance EXCEPT ![Owner[BillOf[r]]] =
                            sess[w].balance + Charge(BillOf[r])]
<1> DEFINE r == sess[w].ref
           n == sess[w].retry + 1
           new == Written(sess[w].status, RetryStatus(n), bill[BillOf[r]].status)
<1>1. /\ r \in Refs /\ sess[w].bill = BillOf[r] /\ txn[r].status = "processing" /\ Holds(w)
      /\ sess[w].balance \in Int /\ n = bill[BillOf[r]].retry + 1
  BY AtFlushing DEF ConfirmFailure, Holds
<1>2. txn'[r].status = "failed" /\ \A q \in Refs : q # r => txn'[q] = txn[q]
  BY <1>1 DEF ConfirmFailure, Orderly, TypeOK, TxnRow
<1>3. /\ bill' = [bill EXCEPT ![BillOf[r]] = [status |-> new, retry |-> n]]
      /\ balance' = [balance EXCEPT ![Owner[BillOf[r]]] = sess[w].balance + Charge(BillOf[r])]
  BY <1>1, ChargeType DEF ConfirmFailure
<1> HIDE DEF r, n, new
<1>4. OneRetryMore(r)
  BY <1>1, <1>3 DEF OneRetryMore, Orderly, TypeOK, BillRow
<1> QED
  BY <1>1, <1>2, <1>3, <1>4 DEF Beside, r

\* Every step keeps what is known of the balance a confirmation has read: only
\* a debit changes the wallet meanwhile, and only that session ends debits.
LEMMA NextStale ==
    ASSUME Orderly, IsFiniteSet(Refs), StaleByDebits, [Next]_vars, SessionInv'
    PROVE  StaleByDebits'
<1> DEFINE Stale(w) ==
      \E since \in SUBSET (OpenDebits(Owner[sess[w].bill]) \ {sess[w].ref}) :
         sess[w].balance = balance[Owner[sess[w].bill]] + SumOfCharges(since)
<1> SUFFICES ASSUME NEW w \in Workers, Holds(w)' PROVE Stale(w)'
  BY DEF StaleByDebits, Holds
<1> DEFINE o == Owner[sess'[w].bill]
<1>t. balance \in [Users -> Int] /\ sess \in [Workers -> Session] /\ TypeOK
  BY DEF Orderly, TypeOK
<1>i. sess'[w] # Idle /\ sess'[w].pc \notin {"idle", "cancelling"}
  BY IdleType DEF Holds, Settling, Confirming
<1>o. o \in Users /\ balance[o] \in Int
  BY <1>t, <1>i DEF SessionInv, KnowsRows
<1>s. ASSUME sess'[w] = sess[w]
      PROVE  Holds(w) /\ Stale(w) /\ o = Owner[sess[w].bill]
  BY <1>s DEF Holds, Settling, Confirming, HasWallet, StaleByDebits
<1>1. CASE SameMoney
  <2>0. balance' = balance /\ \A u : OpenDebits(u)' = OpenDebits(u)
    BY <1>1 DEF SameMoney, OpenDebits
  <2>1. CASE HeldBefore(w)
    <3>1. Stale(w)
      BY <2>1 DEF HeldBefore, Holds, StaleByDebits
    <3> QED
      BY <2>0, <2>1, <3>1 DEF HeldBefore
  <2>2. CASE sess'[w].balance = balance[o]
    <3>1. sess'[w].balance = balance'[o] + SumOfCharges({})
      BY <1>o, <2>0, <2>2, SumEmpty
    <3> QED
      BY <3>1
  <2> QED
    BY <2>1, <2>2, WalletRead
<1>2. ASSUME NEW v \in Workers, Close(v) PROVE v # w
  BY <1>t, <1>i, <1>2, IdleType, OneChanges DEF Close
<1>3. ASSUME NEW v \in Workers, StepOf(v), Close(v)
      PROVE  Holds(w) /\ Stale(w) /\ o = Owner[sess[w].bill] /\ v # w /\ sess'[w] = sess[w]
  BY <1>t, <1>s, <1>2, <1>3, OthersStay
<1>4. ASSUME NEW v \in Workers, ConfirmSuccess(v) \/ ConfirmFailure(v) PROVE FALSE
  <2>1. StepOf(v) /\ Close(v) /\ FlushDone(v)
    BY <1>4 DEF StepOf, ConfirmStep, ConfirmSuccess, ConfirmFailure
  <2>2. Settling(v) /\ Holds(w) /\ v # w
    BY <1>3, <2>1, AtFlushing
  <2> QED
    BY <2>2, OneSettles DEF Holds
<1>5. ASSUME NEW v \in Workers, CommitRefund(v) PROVE Stale(w)'
  <2>1. StepOf(v) /\ Close(v)
    BY <1>5 DEF StepOf, PayStep, CommitRefund
  <2>2. Stale(w) /\ sess'[w] = sess[w]
    BY <1>3, <2>1
  <2>3. balance' = balance /\ \A u : OpenDebits(u)' = OpenDebits(u)
    BY <1>5, DeclineBooks DEF Beside, OpenDebits
  <2> QED
    BY <2>2, <2>3
<1>6. ASSUME NEW v \in Workers, CommitDebit(v) PROVE Stale(w)'
  <2> DEFINE r == sess[v].ref
             c == Charge(BillOf[r])
  <2>1. StepOf(v) /\ Close(v)
    BY <1>6 DEF StepOf, PayStep, CommitDebit
  <2>2. Holds(w) /\ Stale(w) /\ sess'[w] = sess[w] /\ o = Owner[sess[w].bill]
    BY <1>3, <2>1
  <2>u. PICK u \in Users : u = Owner[sess[w].bill] /\ balance[u] \in Int
    BY <1>o, <2>2
  <2>3. /\ r \in Refs /\ txn[r].status = "none" /\ txn'[r].status = "processing" /\ Beside(r)
        /\ balance' = [balance EXCEPT ![Owner[BillOf[r]]] = @ - c]
    BY <1>6, DebitBooks
  <2>4. txn[sess[w].ref].status = "processing"
    BY <2>2 DEF Orderly, OneByOne, SettlesFresh, Holds
  <2>5. c \in Nat
    BY <2>3, ChargeType
  <2>6. PICK since \in SUBSET (OpenDebits(u) \ {sess[w].ref}) :
          sess[w].balance = balance[u] + SumOfCharges(since)
    BY <2>2, <2>u
  <2> HIDE DEF r, c, o
  <2>7. since \in SUBSET Refs /\ r \notin since /\ since \subseteq OpenDebits(u)' \ {sess[w].ref}
    BY <2>3, <2>6 DEF OpenDebits, Beside
  <2>8. SumOfCharges(since) \in Nat
    BY <2>7, SumType
  <2>9. ASSUME NEW S \in SUBSET (OpenDebits(u)' \ {sess[w].ref}),
               sess[w].balance = balance'[u] + SumOfCharges(S)
        PROVE  Stale(w)'
    <3>1. /\ Owner[sess'[w].bill] = u /\ sess'[w].ref = sess[w].ref
          /\ sess'[w].balance = sess[w].balance
      BY <2>2, <2>u
    <3>2. S \in SUBSET (OpenDebits(Owner[sess[w].bill])' \ {sess'[w].ref})
      BY <2>9, <3>1
    <3>3. sess'[w].balance = balance'[Owner[sess'[w].bill]] + SumOfCharges(S)
      BY <2>9, <3>1
    <3> QED
      BY <3>2, <3>3
  <2>10. CASE Owner[BillOf[r]] = u
    <3>1. balance'[u] = balance[u] - c
      BY <1>t, <2>u, <2>3, <2>10
    <3>2. SumOfCharges(since \cup {r}) = SumOfCharges(since) + c
      BY <2>3, <2>7, SumOneMore DEF c
    <3>3. since \cup {r} \in SUBSET (OpenDebits(u)' \ {sess[w].ref})
      BY <2>3, <2>4, <2>7, <2>10 DEF OpenDebits
    <3>4. sess[w].balance = balance'[u] + SumOfCharges(since \cup {r})
      BY <2>u, <2>5, <2>6, <2>8, <3>1, <3>2
    <3> QED
      BY <2>9, <3>3, <3>4
  <2>11. CASE Owner[BillOf[r]] # u
    <3>1. balance'[u] = balance[u]
      BY <1>t, <2>u, <2>3, <2>11
    <3> QED
      BY <2>6, <2>7, <2>9, <3>1
  <2> QED
    BY <2>10, <2>11
<1> QED
  BY <1>t, <1>1, <1>4, <1>5, <1>6, NextBooks

\* With one session at a time confirming, what every session will commit fits
\* the rows: a payout's columns are theirs, and the balance that a confirmation
\* has read without a lock has missed at most debits that are still open.
THEOREM CommitsFitTheRows == OneConfirmer /\ IsFiniteSet(Refs) /\ Spec => []CommitsFit
<1>1. Init => StaleByDebits
  BY IdleType DEF Init, StaleByDebits, Settling, Confirming
<1>2. OneConfirmer /\ IsFiniteSet(Refs) /\ OneByOne /\ TypeOK /\ SessionInv /\ SessionInv'
        /\ LockInv /\ StaleByDebits /\ [Next]_vars
        => OneConfirmer' /\ IsFiniteSet(Refs)' /\ StaleByDebits'
  BY NextStale, JobsStay DEF Orderly
<1>3. OneByOne /\ StaleByDebits => CommitsFit
  BY DEF CommitsFit
<1> QED
  BY <1>1, <1>2, <1>3, AttemptsComeOneByOne, Typed, Locked, PTL DEF Spec

-----------------------------------------------------------------------------
(* The money on record, with one session at a time confirming              *)

\* What counts against the wallets changes with the debits that count.
LEMMA SameCounts ==
    ASSUME IsFiniteSet(Refs), \A r \in Refs : Counts(r)' <=> Counts(r), NEW u
    PROVE  Charged(u)' = Charged(u)
<1>1. DebitsOf(u)' = DebitsOf(u)
  BY DEF DebitsOf
<1> QED
  BY <1>1, ChargedTotal

\* A user's debits without one of them.
LEMMA OneLess ==
    ASSUME IsFiniteSet(Refs), NEW D \in SUBSET Refs, NEW r \in D
    PROVE  Total(Prices, D) = Charge(BillOf[r]) + Total(Prices, D \ {r})
<1>1. IsFiniteSet(D) /\ \A q \in D : Prices[q] \in Nat
  BY FS_Subset, ChargeType DEF Prices
<1> QED
  BY <1>1, TotalWithout DEF Prices

\* What counts is a natural number.
LEMMA ChargedType ==
    ASSUME IsFiniteSet(Refs), NEW u
    PROVE  Charged(u) \in Nat /\ Charged(u)' \in Nat
<1>1. ASSUME NEW D \in SUBSET Refs PROVE Total(Prices, D) \in Nat
  <2>1. IsFiniteSet(D) /\ \A q \in D : Prices[q] \in Nat
    BY FS_Subset, ChargeType DEF Prices
  <2> QED
    BY <2>1, TotalType
<1>2. DebitsOf(u) \in SUBSET Refs /\ DebitsOf(u)' \in SUBSET Refs
  BY DEF DebitsOf
<1> QED
  BY <1>1, <1>2, ChargedTotal

\* A debit that begins to count adds its charge, and no other user's.
LEMMA OneMoreCounts ==
    ASSUME IsFiniteSet(Refs), NEW r \in Refs, ~Counts(r), Counts(r)',
           \A q \in Refs : q # r => (Counts(q)' <=> Counts(q)), NEW u
    PROVE  /\ u = Owner[BillOf[r]] => Charged(u)' = Charged(u) + Charge(BillOf[r])
           /\ u # Owner[BillOf[r]] => Charged(u)' = Charged(u)
<1>1. CASE u = Owner[BillOf[r]]
  <2>1. r \in DebitsOf(u)' /\ DebitsOf(u) = DebitsOf(u)' \ {r} /\ DebitsOf(u)' \in SUBSET Refs
    BY <1>1 DEF DebitsOf
  <2>2. Total(Prices, DebitsOf(u)') = Charge(BillOf[r]) + Total(Prices, DebitsOf(u))
    BY <2>1, OneLess
  <2>3. Charge(BillOf[r]) \in Nat /\ Charged(u) \in Nat
    BY ChargeType, ChargedType
  <2> QED
    BY <1>1, <2>2, <2>3, ChargedTotal
<1>2. CASE u # Owner[BillOf[r]]
  <2>1. DebitsOf(u)' = DebitsOf(u)
    BY <1>2 DEF DebitsOf
  <2> QED
    BY <1>2, <2>1, ChargedTotal
<1> QED
  BY <1>1, <1>2

\* A debit that counts no more takes its charge away.
LEMMA OneLessCounts ==
    ASSUME IsFiniteSet(Refs), NEW r \in Refs, Counts(r), ~Counts(r)',
           \A q \in Refs : q # r => (Counts(q)' <=> Counts(q)), NEW u
    PROVE  /\ u = Owner[BillOf[r]] => Charged(u) = Charged(u)' + Charge(BillOf[r])
           /\ u # Owner[BillOf[r]] => Charged(u)' = Charged(u)
<1>1. CASE u = Owner[BillOf[r]]
  <2>1. r \in DebitsOf(u) /\ DebitsOf(u)' = DebitsOf(u) \ {r} /\ DebitsOf(u) \in SUBSET Refs
    BY <1>1 DEF DebitsOf
  <2>2. Total(Prices, DebitsOf(u)) = Charge(BillOf[r]) + Total(Prices, DebitsOf(u)')
    BY <2>1, OneLess
  <2>3. Charge(BillOf[r]) \in Nat /\ Charged(u)' \in Nat
    BY ChargeType, ChargedType
  <2> QED
    BY <1>1, <2>2, <2>3, ChargedTotal
<1>2. CASE u # Owner[BillOf[r]]
  <2>1. DebitsOf(u)' = DebitsOf(u)
    BY <1>2 DEF DebitsOf
  <2> QED
    BY <1>2, <2>1, ChargedTotal
<1> QED
  BY <1>1, <1>2

\* A refund adds to the balance on record the charge that ends and, at most,
\* those of other debits of the wallet that are open.
LEMMA RefundWaives ==
    ASSUME Orderly, IsFiniteSet(Refs), StaleByDebits, NEW w \in Workers, ConfirmFailure(w),
           NEW r \in Refs, r = sess[w].ref, NEW u \in Users, u = Owner[BillOf[r]]
    PROVE  \E since \in SUBSET (OpenDebits(u) \ {r}) :
             /\ SumOfCharges(since) \in Nat
             /\ balance' = [balance EXCEPT ![u] = @ + Charge(BillOf[r]) + SumOfCharges(since)]
<1>1. Holds(w) /\ sess[w].bill = BillOf[r] /\ balance' = [balance EXCEPT ![u] =
        sess[w].balance + Charge(BillOf[r])]
  BY RefundBooks
<1>2. PICK since \in SUBSET (OpenDebits(u) \ {r}) :
        sess[w].balance = balance[u] + SumOfCharges(since)
  BY <1>1 DEF StaleByDebits, Holds
<1>3. since \in SUBSET Refs
  BY DEF OpenDebits
<1>4. SumOfCharges(since) \in Nat /\ Charge(BillOf[r]) \in Nat /\ balance[u] \in Int
  BY <1>3, SumType, ChargeType DEF Orderly, TypeOK
<1>5. sess[w].balance + Charge(BillOf[r]) =
        balance[u] + Charge(BillOf[r]) + SumOfCharges(since)
  BY <1>2, <1>4
<1> QED
  BY <1>1, <1>2, <1>4, <1>5

Gives(u) ==
    \E given \in SUBSET OpenDebits(u) :
       /\ balance'[u] + Charged(u)' = balance[u] + Charged(u) + SumOfCharges(given)
       /\ given # {} => \E r \in OpenDebits(u) \ given : txn'[r].status = "failed"

\* A step that moves a balance as its debits change gives nothing away.
LEMMA GivesNothing ==
    ASSUME IsFiniteSet(Refs), TypeOK, NEW u \in Users,
           balance'[u] + Charged(u)' = balance[u] + Charged(u)
    PROVE  Gives(u)
<1>1. balance[u] \in Int /\ Charged(u) \in Nat
  BY ChargedType DEF TypeOK
<1>2. balance'[u] + Charged(u)' = balance[u] + Charged(u) + SumOfCharges({})
  BY <1>1, SumEmpty
<1>3. {} \in SUBSET OpenDebits(u)
  OBVIOUS
<1> QED
  BY <1>2, <1>3 DEF Gives

\* A step gives away nothing of a user's money, or what a failed transfer's
\* refund has written over.
LEMMA NextGives ==
    ASSUME Orderly, IsFiniteSet(Refs), StaleByDebits, [Next]_vars, NEW u \in Users
    PROVE  Gives(u)
<1>0. balance \in [Users -> Int] /\ balance[u] \in Int /\ TypeOK
  BY DEF Orderly, TypeOK
<1>c. Charged(u) \in Nat /\ Charged(u)' \in Nat
  BY ChargedType
<1>1. CASE balance' = balance /\ \A r \in Refs : Counts(r)' <=> Counts(r)
  <2>1. Charged(u)' = Charged(u)
    BY <1>1, SameCounts
  <2> QED
    BY <1>0, <1>1, <2>1, GivesNothing
<1>2. CASE SameMoney
  BY <1>1, <1>2 DEF SameMoney, Counts
<1>3. ASSUME NEW w \in Workers, CommitRefund(w) PROVE Gives(u)
  BY <1>1, <1>3, DeclineBooks DEF Beside, Counts
<1>4. ASSUME NEW w \in Workers, ConfirmSuccess(w) PROVE Gives(u)
  BY <1>1, <1>4, SettleBooks DEF Beside, Counts
<1>5. ASSUME NEW w \in Workers, CommitDebit(w) PROVE Gives(u)
  <2>1. PICK r \in Refs :
          /\ ~Counts(r) /\ Counts(r)'
          /\ \A q \in Refs : q # r => (Counts(q)' <=> Counts(q))
          /\ balance' = [balance EXCEPT ![Owner[BillOf[r]]] = @ - Charge(BillOf[r])]
    BY <1>5, DebitBooks DEF Beside, Counts
  <2>2. /\ u = Owner[BillOf[r]] => Charged(u)' = Charged(u) + Charge(BillOf[r])
        /\ u # Owner[BillOf[r]] => Charged(u)' = Charged(u)
    BY <2>1, OneMoreCounts
  <2>3. Charge(BillOf[r]) \in Nat
    BY ChargeType
  <2>4. balance'[u] + Charged(u)' = balance[u] + Charged(u)
    BY <1>0, <1>c, <2>1, <2>2, <2>3
  <2> QED
    BY <1>0, <2>4, GivesNothing
<1>6. ASSUME NEW w \in Workers, ConfirmFailure(w) PROVE Gives(u)
  <2>1. PICK r \in Refs : r = sess[w].ref
    BY <1>6, RefundBooks
  <2>2. /\ txn[r].status = "processing" /\ txn'[r].status = "failed" /\ Beside(r)
        /\ Counts(r) /\ ~Counts(r)' /\ \A q \in Refs : q # r => (Counts(q)' <=> Counts(q))
    BY <1>6, <2>1, RefundBooks DEF Beside, Counts
  <2>3. /\ u = Owner[BillOf[r]] => Charged(u) = Charged(u)' + Charge(BillOf[r])
        /\ u # Owner[BillOf[r]] => Charged(u)' = Charged(u)
    BY <2>2, OneLessCounts
  <2>4. Charge(BillOf[r]) \in Nat /\ Owner[BillOf[r]] \in Users
    BY ChargeType, RowsAssumption
  <2>5. PICK since \in SUBSET (OpenDebits(Owner[BillOf[r]]) \ {r}) :
          /\ SumOfCharges(since) \in Nat
          /\ balance' = [balance EXCEPT ![Owner[BillOf[r]]] =
                           @ + Charge(BillOf[r]) + SumOfCharges(since)]
    BY <1>6, <2>1, <2>4, RefundWaives
  <2>6. CASE u = Owner[BillOf[r]]
    <3>1. balance'[u] = balance[u] + Charge(BillOf[r]) + SumOfCharges(since)
      BY <1>0, <2>5, <2>6
    <3>2. balance'[u] + Charged(u)' = balance[u] + Charged(u) + SumOfCharges(since)
      BY <1>0, <1>c, <2>3, <2>4, <2>5, <2>6, <3>1
    <3>3. since \in SUBSET OpenDebits(u) /\ r \in OpenDebits(u) \ since
      BY <2>2, <2>5, <2>6 DEF OpenDebits
    <3> QED
      BY <2>2, <3>2, <3>3 DEF Gives
  <2>7. CASE u # Owner[BillOf[r]]
    <3>1. balance'[u] + Charged(u)' = balance[u] + Charged(u)
      BY <1>0, <2>3, <2>5, <2>7
    <3> QED
      BY <1>0, <3>1, GivesNothing
  <2> QED
    BY <2>6, <2>7
<1> QED
  BY <1>0, <1>2, <1>3, <1>4, <1>5, <1>6, NextBooks

\* However many debits, bills and wallets are under way while one session at a
\* time confirms, money is never taken but for a debit that begins to count,
\* and only a refund gives any away: charges it has written over, of debits
\* that were open.
THEOREM OnlyRefundsGiveMoney == OneConfirmer /\ IsFiniteSet(Refs) /\ Spec => OnlyRefundsGive
<1>1. OneConfirmer /\ IsFiniteSet(Refs) /\ CommitsFit /\ TypeOK /\ SessionInv /\ LockInv
        /\ [Next]_vars
        => OneConfirmer' /\ IsFiniteSet(Refs)' /\ \A u \in Users : Gives(u)
  BY NextGives, JobsStay DEF Orderly, CommitsFit
<1>2. (\A u \in Users : Gives(u)) =>
        \A u \in Users :
         \E given \in SUBSET OpenDebits(u) :
            /\ balance'[u] + Charged(u)' = balance[u] + Charged(u) + SumOfCharges(given)
            /\ given # {} => \E r \in OpenDebits(u) \ given : txn'[r].status = "failed"
  BY DEF Gives
<1> QED
  BY <1>1, <1>2, CommitsFitTheRows, Typed, Locked, PTL DEF Spec, OnlyRefundsGive

\* With one session at a time confirming, a wallet is never below what was paid
\* in less the debits that count, however many bills its owner has.
THEOREM NobodyIsOvercharged == OneConfirmer /\ IsFiniteSet(Refs) /\ Spec => []NeverOvercharged
<1>1. IsFiniteSet(Refs) /\ Init => NeverOvercharged
  <2> SUFFICES ASSUME IsFiniteSet(Refs), Init, NEW u \in Users
               PROVE  balance[u] >= Deposit[u] - Charged(u)
    BY DEF NeverOvercharged
  <2>1. DebitsOf(u) = {}
    BY DEF Init, DebitsOf, Counts, NoTxn
  <2>2. Charged(u) = 0
    BY <2>1, ChargedTotal, TotalEmpty
  <2> QED
    BY <2>2 DEF Init
<1>2. ASSUME Orderly, IsFiniteSet(Refs), StaleByDebits, NeverOvercharged, [Next]_vars, TypeOK'
      PROVE  NeverOvercharged'
  <2> SUFFICES ASSUME NEW u \in Users PROVE balance'[u] >= Deposit[u] - Charged(u)'
    BY DEF NeverOvercharged
  <2>1. PICK given \in SUBSET OpenDebits(u) :
          balance'[u] + Charged(u)' = balance[u] + Charged(u) + SumOfCharges(given)
    BY <1>2, NextGives DEF Gives
  <2>2. given \in SUBSET Refs
    BY DEF OpenDebits
  <2>3. SumOfCharges(given) \in Nat /\ Charged(u) \in Nat /\ Charged(u)' \in Nat
    BY <1>2, <2>2, SumType, ChargedType
  <2>4. balance[u] \in Int /\ balance'[u] \in Int /\ Deposit[u] \in Nat
    BY <1>2, MoneyAssumption DEF Orderly, TypeOK
  <2>5. balance[u] >= Deposit[u] - Charged(u)
    BY <1>2 DEF NeverOvercharged
  <2> QED
    BY <2>1, <2>3, <2>4, <2>5
<1>3. OneConfirmer /\ IsFiniteSet(Refs) /\ CommitsFit /\ TypeOK /\ TypeOK' /\ SessionInv
        /\ LockInv /\ NeverOvercharged /\ [Next]_vars
        => OneConfirmer' /\ IsFiniteSet(Refs)' /\ NeverOvercharged'
  BY <1>2, JobsStay DEF Orderly, CommitsFit
<1> QED
  BY <1>1, <1>3, CommitsFitTheRows, Typed, Locked, PTL DEF Spec

-----------------------------------------------------------------------------
(* The ledger                                                              *)

Entry == [r \in Refs |-> EntryOf(r)]
Tries == [b \in Bills |-> bill[b].retry]

\* What a ledger takes for the price of some entries is what they are charged.
LEMMA PricesAreCharges == \A S : Books!PriceOf(S) = SumOfCharges(S)
BY DEF Books!PriceOf, Books!Price, Books!MapThenSumSet, Books!MapThenFoldSet, SumOfCharges,
     MapThenSumSet, MapThenFoldSet, Charge

\* One entry of the ledger changes with the debit's status.
LEMMA EntryStep ==
    ASSUME NEW r \in Refs, Beside(r)
    PROVE  /\ txn'[r].status = "processing" => Entry' = [Entry EXCEPT ![r] = "open"]
           /\ txn'[r].status = "success" => Entry' = [Entry EXCEPT ![r] = "settled"]
           /\ txn'[r].status = "failed" => Entry' = [Entry EXCEPT ![r] = "refunded"]
<1>1. \A q \in Refs : q # r => EntryOf(q)' = EntryOf(q)
  BY DEF EntryOf, Beside
<1>2. /\ txn'[r].status = "processing" => EntryOf(r)' = "open"
      /\ txn'[r].status = "success" => EntryOf(r)' = "settled"
      /\ txn'[r].status = "failed" => EntryOf(r)' = "refunded"
  BY DEF EntryOf
<1> QED
  BY <1>1, <1>2 DEF Entry

\* One bill's tries change with its retry count.
LEMMA TriesStep ==
    ASSUME TypeOK, NEW r \in Refs
    PROVE  /\ SameRetries => Tries' = Tries
           /\ OneRetryMore(r) => Tries' = [Tries EXCEPT ![BillOf[r]] = @ + 1]
<1>1. SameRetries => Tries' = Tries
  BY DEF Tries, SameRetries
<1>2. ASSUME OneRetryMore(r) PROVE Tries' = [Tries EXCEPT ![BillOf[r]] = @ + 1]
  <2>1. \A b \in Bills : b # BillOf[r] => bill'[b].retry = bill[b].retry
    BY <1>2 DEF OneRetryMore, TypeOK, BillRow
  <2> QED
    BY <1>2, <2>1 DEF Tries, OneRetryMore
<1> QED
  BY <1>1, <1>2

\* A payout begins when the ledger lets it: no other attempt of the bill is
\* open or settled, and the wallet can pay.
LEMMA AttemptAllowed ==
    ASSUME NEW r \in Refs, txn[r].status = "none", NoneCounts(r), Solvent(r)
    PROVE  Books!MayAttempt(r)
<1>1. \A q \in Refs : EntryOf(q) \in {"open", "settled"} => Counts(q)
  BY DEF EntryOf, Counts
<1>2. EntryOf(r) = "none"
  BY DEF EntryOf
<1> QED
  BY <1>1, <1>2 DEF NoneCounts, Solvent, Charge, Books!MayAttempt, Books!AttemptsFor, Books!Debtor,
       Books!Price

Booked == \E r \in Refs : Books!Decline(r) \/ Books!Charge(r) \/ Books!Settle(r) \/ Books!Refund(r)

\* Every step is one of the ledger, or changes nothing on it.
LEMMA NextBooked ==
    ASSUME Orderly, IsFiniteSet(Refs), StaleByDebits, [Next]_vars
    PROVE  Booked \/ (balance' = balance /\ Entry' = Entry /\ Tries' = Tries)
<1>0. TypeOK
  BY DEF Orderly
<1>1. CASE SameMoney
  BY <1>1 DEF SameMoney, Entry, EntryOf, Tries
<1>2. ASSUME NEW w \in Workers, CommitDebit(w) PROVE Booked
  <2>1. PICK r \in Refs : r = sess[w].ref
    BY <1>2, DebitBooks
  <2>2. /\ txn[r].status = "none" /\ txn'[r].status = "processing" /\ Beside(r) /\ NoneCounts(r)
        /\ Solvent(r) /\ SameRetries
        /\ balance' = [balance EXCEPT ![Owner[BillOf[r]]] = @ - Charge(BillOf[r])]
    BY <1>2, <2>1, DebitBooks
  <2>3. Books!MayAttempt(r) /\ Entry' = [Entry EXCEPT ![r] = "open"] /\ Tries' = Tries
    BY <2>2, AttemptAllowed, <1>0, EntryStep, TriesStep
  <2>4. Books!Charge(r)
    BY <2>2, <2>3 DEF Books!Charge, Books!Debtor, Books!Price, Charge, Entry, Tries
  <2> QED
    BY <2>4 DEF Booked
<1>3. ASSUME NEW w \in Workers, CommitRefund(w) PROVE Booked
  <2>1. PICK r \in Refs : r = sess[w].ref
    BY <1>3, DeclineBooks
  <2>2. /\ txn[r].status = "none" /\ txn'[r].status = "failed" /\ Beside(r) /\ NoneCounts(r)
        /\ Solvent(r) /\ OneRetryMore(r) /\ balance' = balance
    BY <1>3, <2>1, DeclineBooks
  <2>3. /\ Books!MayAttempt(r) /\ Entry' = [Entry EXCEPT ![r] = "refunded"]
        /\ Tries' = [Tries EXCEPT ![BillOf[r]] = @ + 1]
    BY <2>2, AttemptAllowed, <1>0, EntryStep, TriesStep
  <2>4. Books!Decline(r)
    BY <2>2, <2>3 DEF Books!Decline, Entry, Tries
  <2> QED
    BY <2>4 DEF Booked
<1>4. ASSUME NEW w \in Workers, ConfirmSuccess(w) PROVE Booked
  <2>1. PICK r \in Refs : r = sess[w].ref
    BY <1>4, SettleBooks
  <2>2. /\ txn[r].status = "processing" /\ txn'[r].status = "success" /\ Beside(r)
        /\ SameRetries /\ balance' = balance
    BY <1>4, <2>1, SettleBooks
  <2>3. EntryOf(r) = "open" /\ Entry' = [Entry EXCEPT ![r] = "settled"] /\ Tries' = Tries
    BY <2>2, <1>0, EntryStep, TriesStep DEF EntryOf
  <2>4. Books!Settle(r)
    BY <2>2, <2>3 DEF Books!Settle, Entry, Tries
  <2> QED
    BY <2>4 DEF Booked
<1>5. ASSUME NEW w \in Workers, ConfirmFailure(w) PROVE Booked
  <2>1. PICK r \in Refs : r = sess[w].ref
    BY <1>5, RefundBooks
  <2>2. /\ txn[r].status = "processing" /\ txn'[r].status = "failed" /\ Beside(r)
        /\ OneRetryMore(r) /\ Owner[BillOf[r]] \in Users
    BY <1>5, <2>1, RefundBooks, RowsAssumption
  <2>3. /\ EntryOf(r) = "open" /\ Entry' = [Entry EXCEPT ![r] = "refunded"]
        /\ Tries' = [Tries EXCEPT ![BillOf[r]] = @ + 1]
    BY <2>2, <1>0, EntryStep, TriesStep DEF EntryOf
  <2>u. PICK u \in Users : u = Owner[BillOf[r]]
    BY <2>2
  <2>4. PICK since \in SUBSET (OpenDebits(u) \ {r}) :
          /\ SumOfCharges(since) \in Nat
          /\ balance' = [balance EXCEPT ![u] = @ + Charge(BillOf[r]) + SumOfCharges(since)]
    BY <1>5, <2>1, <2>u, RefundWaives
  <2>5. since \in SUBSET Books!OpenBeside(r)
    BY <2>u, <2>4 DEF OpenDebits, EntryOf, Books!OpenBeside, Books!Debtor
  <2>6. balance' = [balance EXCEPT ![Books!Debtor(r)] =
                      @ + Books!Price(r) + Books!PriceOf(since)]
    BY <2>u, <2>4, PricesAreCharges DEF Books!Debtor, Books!Price, Charge
  <2>7. Books!Refund(r)
    BY <2>3, <2>5, <2>6 DEF Books!Refund, Entry, Tries
  <2> QED
    BY <2>7 DEF Booked
<1> QED
  BY <1>0, <1>1, <1>2, <1>3, <1>4, <1>5, NextBooks

\* With one session at a time confirming, and any number of sessions paying and
\* cancelling, of users with any number of bills, every commit is one step of
\* the ledger: a bill is charged while no other attempt of it is open or
\* settled and by a wallet that holds its price, and each debit ends once, kept
\* or given back in full, if need be with what the refund has written over.
THEOREM PayoutImplementsLedger ==
    OneConfirmer /\ IsFiniteSet(Refs) /\ Spec => ImplementsLedger
<1>1. OneConfirmer /\ IsFiniteSet(Refs) /\ CommitsFit /\ TypeOK /\ SessionInv /\ LockInv
        /\ [Next]_vars
        => OneConfirmer' /\ IsFiniteSet(Refs)' /\ [Books!LedgerNext]_Books!ledger
  <2> SUFFICES ASSUME Orderly, IsFiniteSet(Refs), StaleByDebits, [Next]_vars
               PROVE  [Books!LedgerNext]_Books!ledger
    BY JobsStay DEF Orderly, CommitsFit
  <2>1. CASE Booked
    BY <2>1 DEF Booked, Books!LedgerNext
  <2>2. CASE balance' = balance /\ Entry' = Entry /\ Tries' = Tries
    BY <2>2 DEF Books!ledger, Entry, Tries
  <2> QED
    BY <2>1, <2>2, NextBooked
<1>2. Init => Books!LedgerInit
  <2> SUFFICES ASSUME Init PROVE Books!LedgerInit
    OBVIOUS
  <2>1. \A r \in Refs : EntryOf(r) = "none"
    BY DEF Init, NoTxn, EntryOf
  <2>2. balance = Deposit /\ \A b \in Bills : bill[b].retry = 0
    BY DEF Init
  <2> QED
    BY <2>1, <2>2 DEF Books!LedgerInit
<1> QED
  BY <1>1, <1>2, CommitsFitTheRows, Typed, Locked, PTL
     DEF Spec, ImplementsLedger, Books!LedgerSpec

-----------------------------------------------------------------------------
(* Transfers under way, when the provider's answers arrive                 *)

\* A payout whose transfer was accepted does nothing but commit: it waits
\* for no row, so that the database does not pick it to end a deadlock.
LEMMA AcceptedCommits ==
    ASSUME NEW w \in Workers, StepOf(w), sess[w].pc = "accepted"
    PROVE  CommitDebit(w)
<1>0. Idle.pc = "idle"
  BY IdleType
<1>2. CASE PayStep(w)
  BY <1>0, <1>2 DEF PayStep, PayRequest, AutopayRecheck, PayLoadBill, LockBill, RefusePayout,
     StartPayout, CommitRefund, CanOpen
<1>3. ~CallStep(w) /\ ~WebhookStep(w)
  BY <1>0 DEF CallStep, CallRejected, CallRaises, CallAccepted, CallLost, WebhookStep,
     WebhookIgnored, WebhookRead, Accepts, CanOpen
<1>4. ~ReconcileStep(w)
  BY <1>0 DEF ReconcileStep, ReconcilePick, ReconcilePolled, ReconcileError, ReconcileSettle,
     ReconcileSkip, CanOpen
<1>5. ~OtpStep(w)
  BY <1>0 DEF OtpStep, OtpRequest, OtpCommand, OtpLoadBill, OtpLock, OtpNotFound, OtpAccepted,
     OtpRejected, OtpPending, OtpSettle, CanOpen
<1>6. ~ConfirmStep(w) /\ ~CancelStep(w)
  BY <1>0 DEF ConfirmStep, ConfirmReadBill, ConfirmReadUser, FlushRow, ConfirmSuccess,
     ConfirmFailure, FlushDone, CancelStep, CancelLoad, CancelCommit, CanOpen
<1>7. ~DeadlockAbort(w)
  <2>1. Wanted(w) = {}
    BY DEF Wanted
  <2> QED
    BY <2>1 DEF DeadlockAbort, WaitsFor
<1> QED
  BY <1>2, <1>3, <1>4, <1>5, <1>6, <1>7 DEF StepOf

\* A transfer begins when the provider accepts it.
LEMMA LiveByCall ==
    ASSUME Answering, NEW w \in Workers, StepOf(w), NEW r \in Refs, Live(r)', ~Live(r)
    PROVE  r = sess[w].ref /\ sess'[w].pc = "accepted" /\ sess'[w].ref = r
<1>s. sess[w] \in Session /\ KnowsOutcome(sess[w])
  BY DEF Answering, TypeOK, OutcomeInv
<1>1. remote' # remote
  BY DEF Live
<1>2. ~WebhookStep(w) /\ ~ReconcileStep(w) /\ ~ConfirmStep(w) /\ ~CancelStep(w)
  BY <1>1, WebhookRemote, ReconcileRemote, ConfirmRemote DEF Answering
<1>3. ~PayStep(w) /\ ~DeadlockAbort(w)
  BY <1>1 DEF PayStep, PayRequest, AutopayRecheck, PayLoadBill, LockBill, RefusePayout,
     StartPayout, CommitDebit, CommitRefund, Rollback, DeadlockAbort
<1>4. ~OtpStep(w)
  BY <1>s, <1>1 DEF OtpStep, OtpRequest, OtpCommand, OtpLoadBill, OtpLock, OtpNotFound,
     OtpAccepted, OtpRejected, OtpPending, OtpSettle, KnowsOutcome, Rollback
<1>5. CallAccepted(w)
  BY <1>1, <1>2, <1>3, <1>4 DEF StepOf, CallStep, CallRejected, CallRaises, CallLost, Rollback,
     Answering, AnswersArrive
<1>6. Move(w, "accepted") /\ remote' = [remote EXCEPT ![sess[w].ref] = "pending"]
  BY <1>5 DEF CallAccepted, Answering, AnswersArrive
<1>7. r = sess[w].ref
  BY <1>6 DEF Live, Answering, TypeOK
<1>8. sess'[w] = [sess[w] EXCEPT !.pc = "accepted"]
  BY <1>6 DEF Move, Become, Answering, TypeOK
<1> QED
  BY <1>s, <1>7, <1>8 DEF Session

\* Without crashes, what is under way stays on record.
LEMMA NextLive ==
    ASSUME Orderly, Answering, "crash" \notin Faults, LiveMeansCounted, [Next]_vars
    PROVE  LiveMeansCounted'
<1> DEFINE Accepted(w, r) == sess[w].pc = "accepted" /\ sess[w].ref = r
<1>1. ASSUME NEW w \in Workers, StepOf(w) PROVE LiveMeansCounted'
  <2> SUFFICES ASSUME NEW r \in Refs, Live(r)'
               PROVE  Counts(r)' \/ \E v \in Workers : Accepted(v, r)'
    BY DEF LiveMeansCounted
  <2>1. CASE ~Live(r)
    BY <1>1, <2>1, LiveByCall
  <2>2. CASE Live(r) /\ Counts(r)
    <3>1. CASE SameMoney
      BY <2>2, <3>1 DEF SameMoney, Counts
    <3>2. ASSUME NEW v \in Workers, CommitDebit(v) PROVE Counts(r)'
      BY <2>2, <3>2, DebitBooks DEF Beside, Counts
    <3>3. ASSUME NEW v \in Workers, CommitRefund(v) PROVE Counts(r)'
      BY <2>2, <3>3, DeclineBooks DEF Beside, Counts
    <3>4. ASSUME NEW v \in Workers, ConfirmSuccess(v) PROVE Counts(r)'
      BY <2>2, <3>4, SettleBooks DEF Beside, Counts
    <3>5. ASSUME NEW v \in Workers, ConfirmFailure(v) PROVE Counts(r)'
      <4>1. PICK q \in Refs : q = sess[v].ref
        BY <3>5, RefundBooks
      <4>2. Beside(q) /\ remote' = remote /\ sess[v].pc = "flushing" /\ sess[v].outcome # "success"
        BY <3>5, <4>1, RefundBooks DEF ConfirmFailure, FlushDone
      <4>3. KnowsOutcome(sess[v])
        BY DEF Answering, OutcomeInv
      <4>4. remote[q] \in {"failed", "reversed"}
        BY <4>1, <4>2, <4>3 DEF KnowsOutcome, Recording, Answered, EventKinds
      <4>5. r # q
        BY <2>2, <4>4 DEF Live
      <4> QED
        BY <2>2, <4>2, <4>5 DEF Beside, Counts
    <3> QED
      BY <3>1, <3>2, <3>3, <3>4, <3>5, NextBooks DEF Answering
  <2>3. ASSUME Live(r), NEW v \in Workers, Accepted(v, r)
        PROVE  Counts(r)' \/ \E x \in Workers : Accepted(x, r)'
    <3>1. CASE v = w
      <4>1. CommitDebit(w)
        BY <1>1, <2>3, <3>1, AcceptedCommits
      <4> QED
        BY <2>3, <3>1, <4>1 DEF CommitDebit, Counts, Answering, TypeOK
    <3>2. CASE v # w
      <4>1. sess'[v] = sess[v]
        BY <1>1, <3>2, OthersStay DEF Answering
      <4> QED
        BY <2>3, <4>1
    <3> QED
      BY <3>1, <3>2
  <2> QED
    BY <2>1, <2>2, <2>3 DEF LiveMeansCounted
<1>2. ASSUME NEW q \in Refs, RemoteSettle(q) PROVE LiveMeansCounted'
  <2>1. /\ sess' = sess /\ txn' = txn
        /\ \A r \in Refs : Live(r)' => Live(r)
    BY <1>2 DEF RemoteSettle, Live, tables, Answering, TypeOK
  <2> QED
    BY <2>1 DEF LiveMeansCounted, Counts
<1>3. CASE UNCHANGED vars
  BY <1>3 DEF vars, LiveMeansCounted, Counts, Live
<1> QED
  BY <1>1, <1>2, <1>3 DEF Next, Crash

\* A bill has one transfer that is live.
LEMMA LiveOnce ==
    ASSUME Orderly, LiveMeansCounted
    PROVE  OneLiveTransfer
<1> SUFFICES ASSUME NEW r \in Refs, NEW q \in Refs, BillOf[r] = BillOf[q], Live(r), Live(q), r # q
             PROVE  FALSE
  BY DEF OneLiveTransfer
<1>1. ASSUME NEW w \in Workers, sess[w].pc = "accepted", NEW p \in Refs, sess[w].ref = p
      PROVE  /\ sess[w].bill = BillOf[p] /\ lock[BillOf[p]] = w
             /\ bill[BillOf[p]].status \notin NotPayable
  <2>1. Paying(w) /\ sess[w].pc \in Holding
    BY <1>1 DEF Paying, Holding
  <2> QED
    BY <1>1, <2>1, AtWork, BillsHeld DEF Orderly, OneByOne, PaysFresh
<1>2. ~(Counts(r) /\ Counts(q))
  BY DEF Orderly, OneByOne, OneDebitABill
<1>3. \A p \in Refs : Counts(p) => bill[BillOf[p]].status \in NotPayable
  BY DEF Orderly, OneByOne, DebitsShow
<1>4. \A p \in {r, q} : Counts(p) \/ \E w \in Workers : sess[w].pc = "accepted" /\ sess[w].ref = p
  BY DEF LiveMeansCounted
<1> QED
  BY <1>1, <1>2, <1>3, <1>4

\* With one session at a time confirming, where the provider's answers arrive
\* and the process does not die between a transfer and its commit, no bill has
\* two transfers under way or done: its vendor is not paid twice.
THEOREM VendorsArePaidOnce ==
    OneConfirmer /\ AnswersArrive /\ "crash" \notin Faults /\ Spec => []OneLiveTransfer
<1>1. /\ OneConfirmer /\ AnswersArrive /\ "crash" \notin Faults
      /\ OneByOne /\ TypeOK /\ SessionInv /\ LockInv /\ RemoteInv /\ OutcomeInv
      /\ LiveMeansCounted /\ [Next]_vars
      => OneConfirmer' /\ ("crash" \notin Faults)' /\ LiveMeansCounted'
  BY NextLive, JobsStay DEF Orderly, Answering
<1>2. Init => LiveMeansCounted
  BY DEF Init, LiveMeansCounted, Live
<1>3. OneConfirmer /\ OneByOne /\ TypeOK /\ SessionInv /\ LockInv /\ LiveMeansCounted
        => OneLiveTransfer
  BY LiveOnce DEF Orderly
<1>4. AnswersArrive => AnswersArrive'
  BY DEF AnswersArrive
<1> QED
  BY <1>1, <1>2, <1>3, <1>4, AttemptsComeOneByOne, OutcomesKnown, Typed, Locked, Informed, PTL
  DEF Spec
===============================================================================
