----------------------------- MODULE WalletProofs -----------------------------
(***************************************************************************)
(* What holds of a wallet whose payouts and credits run side by side, for  *)
(* every number of users, bills, top-ups and sessions: everything that is  *)
(* proved of the payouts alone, and that nothing is credited unpaid.       *)
(* While one session at a time confirms, also what a wallet holds: no      *)
(* credit is in it twice, whatever is paid and refunded meanwhile.         *)
(***************************************************************************)
EXTENDS WalletInvariant, SchedulerProofs

-----------------------------------------------------------------------------
(* Sums over a finite set: weights that agree                              *)

\* Totals of weights that are the same.
LEMMA TotalAgree ==
    ASSUME NEW S, IsFiniteSet(S), NEW v, NEW w, \A x \in S : v[x] = w[x]
    PROVE  Total(v, S) = Total(w, S)
<1> DEFINE B == {s \in SUBSET S : Total(v, s) # Total(w, s)}
<1> SUFFICES ASSUME B # {} PROVE FALSE
  OBVIOUS
<1>1. PICK s \in B : \A t \in B : ~(t \subseteq s /\ t # s)
  <2>1. B \subseteq SUBSET S
    OBVIOUS
  <2> HIDE DEF B
  <2> QED
    BY <2>1, LeastSubset
<1>2. s # {}
  <2>1. Total(v, s) # Total(w, s)
    OBVIOUS
  <2> HIDE DEF B
  <2> QED
    BY <2>1, TotalEmpty
<1>3. s \in SUBSET S /\ IsFiniteSet(s)
  BY <1>1, FS_Subset
<1> DEFINE p == Pick(s)  rest == s \ {p}
<1>4. /\ Total(v, s) = v[p] + Total(v, rest) /\ p \in s
      /\ Total(w, s) = w[p] + Total(w, rest)
  BY <1>2, <1>3, TotalPicked
<1>5. rest \in SUBSET S /\ rest \subseteq s /\ rest # s /\ v[p] = w[p]
  BY <1>1, <1>4
<1> HIDE DEF p, rest
<1>6. Total(v, rest) = Total(w, rest)
  BY <1>1, <1>5
<1> QED
  BY <1>1, <1>4, <1>5, <1>6

-----------------------------------------------------------------------------
(* Types, and what was paid                                                *)

USE RowsAssumption, MoneyAssumption, NullAssumption, JobsAssumption, TopupAssumption

\* A session about a top-up names it, has read no negative balance, and
\* credits only what the provider has.
KnowsTopup(f) ==
    /\ f.pc # "idle" => f.top \in Topups
    /\ f.balance >= 0
    /\ f.pc \in {"paid", "crediting"} => Paid(f.top)
FundingInv == \A w \in Workers : KnowsTopup(fund[w])

Side == FundingTypeOK /\ FundingInv /\ CreditedMeansPaid
Both == TypeOK /\ NonNegativeBalance /\ SessionInv /\ Side

\* The amounts that can be received.
LEMMA ReceivedType == \A t \in Topups : Received(t) \in Nat
BY DEF Received

\* A new session about a top-up, and one that moves on.
LEMMA OpenType ==
    ASSUME NEW w \in Workers, NEW job \in FundingKinds, NEW t \in Topups,
           NEW pc \in {"authed", "inserting", "asking", "crediting"},
           Both, Open(w, job, pc, t), charge' = charge, pc = "crediting" => Paid(t)
    PROVE  fund' \in [Workers -> FundSession] /\ FundingInv'
<1>1. balance[Payer[t]] \in Int /\ balance[Payer[t]] >= 0
  BY DEF Both, TypeOK, NonNegativeBalance
<1>2. [job |-> job, pc |-> pc, top |-> t, balance |-> balance[Payer[t]]] \in FundSession
  BY <1>1 DEF FundSession
<1>3. fund' \in [Workers -> FundSession]
  BY <1>2 DEF Open, Both, Side, FundingTypeOK
<1>4. ASSUME NEW v \in Workers PROVE KnowsTopup(fund[v])'
  BY <1>1, <1>4 DEF Open, Both, Side, FundingTypeOK, FundingInv, KnowsTopup, Paid
<1> QED
  BY <1>3, <1>4 DEF FundingInv

\* A session that goes on to its next step.
LEMMA GoToType ==
    ASSUME NEW w \in Workers, NEW pc \in {"initializing", "asking", "paid", "mismatch",
                                          "crediting", "failing"},
           Both, fund[w].pc # "idle", GoTo(w, pc), charge' = charge,
           pc \in {"paid", "crediting"} => Paid(fund[w].top)
    PROVE  fund' \in [Workers -> FundSession] /\ FundingInv'
<1>1. fund[w] \in FundSession
  BY DEF Both, Side, FundingTypeOK
<1>2. [fund[w] EXCEPT !.pc = pc] \in FundSession
  BY <1>1 DEF FundSession
<1>3. fund' \in [Workers -> FundSession]
  BY <1>2 DEF GoTo, Both, Side, FundingTypeOK
<1>4. ASSUME NEW v \in Workers PROVE KnowsTopup(fund[v])'
  BY <1>1, <1>4 DEF GoTo, Both, Side, FundingTypeOK, FundingInv, KnowsTopup, Paid, FundSession
<1> QED
  BY <1>3, <1>4 DEF FundingInv

\* A session that ends.
LEMMA EndType ==
    ASSUME NEW w \in Workers, Both, End(w), charge' = charge
    PROVE  /\ fund' \in [Workers -> FundSession] /\ FundingInv'
           /\ loop' \in Workers \cup {Nobody}
<1>1. NoFund \in FundSession
  BY DEF NoFund, FundSession
<1>2. ASSUME NEW v \in Workers PROVE KnowsTopup(fund[v])'
  BY <1>2 DEF End, NoFund, Both, Side, FundingTypeOK, FundingInv, KnowsTopup, Paid
<1> QED
  BY <1>1, <1>2 DEF End, Both, Side, FundingTypeOK, FundingInv, TypeOK

\* What a step that only opens, moves or ends a session leaves as it was.
LEMMA QuietFunding ==
    ASSUME Both, UNCHANGED <<payouts, balance, charge, told, credited>>,
           loop' \in Workers \cup {Nobody},
           fund' \in [Workers -> FundSession], FundingInv',
           credit' \in [Topups -> {"none", "pending", "success", "failed"}],
           \A t \in Topups : credit'[t] = "success" => credit[t] = "success"
    PROVE  Both'
BY DEF Both, TypeOK, NonNegativeBalance, SessionInv, Side, FundingTypeOK, CreditedMeansPaid,
       payouts, KnowsRows, Covered

\* A credit raises the balance in hand and settles a top-up that was paid.
LEMMA CreditKeeps ==
    ASSUME Both, NEW w \in Workers, ApplyCredit(w)
    PROVE  Both'
<1> DEFINE t == fund[w].top
<1>1. t \in Topups /\ Paid(t) /\ fund[w].balance \in Int /\ fund[w].balance >= 0
  BY DEF ApplyCredit, Both, Side, FundingInv, KnowsTopup, FundingTypeOK, FundSession
<1>2. Payer[t] \in Users /\ Received(t) \in Nat
  BY <1>1, ReceivedType
<1>3. fund' \in [Workers -> FundSession] /\ FundingInv' /\ loop' \in Workers \cup {Nobody}
  BY EndType DEF ApplyCredit
<1>4. balance' \in [Users -> Int] /\ NonNegativeBalance'
  BY <1>1, <1>2 DEF ApplyCredit, Both, TypeOK, NonNegativeBalance
<1>5. TypeOK'
  BY <1>3, <1>4 DEF Both, TypeOK, ApplyCredit, payouts
<1>6. SessionInv'
  BY DEF Both, SessionInv, ApplyCredit, payouts, KnowsRows, Covered
<1>7. told' \subseteq Topups
  BY <1>1 DEF ApplyCredit, Both, Side, FundingTypeOK
<1>8. /\ credited' \in [Topups -> Nat]
      /\ credit' \in [Topups -> {"none", "pending", "success", "failed"}]
  BY <1>1 DEF ApplyCredit, Both, Side, FundingTypeOK
<1>9. CreditedMeansPaid'
  BY <1>1 DEF ApplyCredit, Both, Side, FundingTypeOK, CreditedMeansPaid, Paid
<1> QED
  BY <1>3, <1>4, <1>5, <1>6, <1>7, <1>8, <1>9 DEF Both, Side, FundingTypeOK, ApplyCredit

\* start_topup.
LEMMA TopupKeeps ==
    ASSUME Both, NEW w \in Workers,
           \/ \E t \in Topups : TopupRequest(w, t)
           \/ TopupInsert(w) \/ TopupStarted(w) \/ TopupRefused(w)
    PROVE  Both'
<1>1. ASSUME NEW t \in Topups, TopupRequest(w, t) PROVE Both'
  <2>1. fund' \in [Workers -> FundSession] /\ FundingInv'
    BY <1>1, OpenType DEF TopupRequest, FundingKinds
  <2> QED
    BY <1>1, <2>1, QuietFunding DEF TopupRequest, Both, Side, FundingTypeOK
<1>2. ASSUME TopupInsert(w) PROVE Both'
  <2>1. fund' \in [Workers -> FundSession] /\ FundingInv'
    BY <1>2, GoToType DEF TopupInsert
  <2> QED
    BY <1>2, <2>1, QuietFunding DEF TopupInsert, Both, Side, FundingTypeOK
<1>3. ASSUME TopupStarted(w) PROVE Both'
  <2>1. fund' \in [Workers -> FundSession] /\ FundingInv' /\ loop' \in Workers \cup {Nobody}
    BY <1>3, EndType DEF TopupStarted
  <2>2. /\ credit' \in [Topups -> {"none", "pending", "success", "failed"}]
        /\ \A t \in Topups : credit'[t] = "success" => credit[t] = "success"
    BY <1>3 DEF TopupStarted, Both, Side, FundingTypeOK
  <2> QED
    BY <1>3, <2>1, <2>2, QuietFunding DEF TopupStarted
<1>4. ASSUME TopupRefused(w) PROVE Both'
  <2>1. fund' \in [Workers -> FundSession] /\ FundingInv' /\ loop' \in Workers \cup {Nobody}
    BY <1>4, EndType DEF TopupRefused
  <2> QED
    BY <1>4, <2>1, QuietFunding DEF TopupRefused, Both, Side, FundingTypeOK
<1> QED
  BY <1>1, <1>2, <1>3, <1>4

\* The webhook's reads and the user's verification, up to the credit.
LEMMA VerifyKeeps ==
    ASSUME Both, NEW w \in Workers,
           \/ \E t \in Topups : ChargeRead(w, t) \/ VerifyRequest(w, t) \/ VerifyCommand(w, t)
           \/ VerifyLoad(w) \/ VerifyClosed(w) \/ VerifyAnswered(w) \/ VerifyNoAnswer(w)
           \/ VerifyResume(w) \/ VerifyRefused(w)
    PROVE  Both'
<1> DEFINE Same == fund' \in [Workers -> FundSession] /\ FundingInv'
<1>1. ASSUME NEW t \in Topups, ChargeRead(w, t) PROVE Both'
  <2>1. Same
    BY <1>1, OpenType DEF ChargeRead, FundingKinds, Paid
  <2> QED
    BY <1>1, <2>1, QuietFunding DEF ChargeRead, Both, Side, FundingTypeOK
<1>2. ASSUME NEW t \in Topups, VerifyRequest(w, t) PROVE Both'
  <2>1. Same
    BY <1>2, OpenType DEF VerifyRequest, FundingKinds
  <2> QED
    BY <1>2, <2>1, QuietFunding DEF VerifyRequest, Both, Side, FundingTypeOK, TypeOK
<1>3. ASSUME NEW t \in Topups, VerifyCommand(w, t) PROVE Both'
  <2>1. Same
    BY <1>3, OpenType DEF VerifyCommand, FundingKinds
  <2> QED
    BY <1>3, <2>1, QuietFunding DEF VerifyCommand, Both, Side, FundingTypeOK, TypeOK
<1>4. ASSUME VerifyLoad(w) PROVE Both'
  <2>1. Same
    BY <1>4, GoToType DEF VerifyLoad
  <2> QED
    BY <1>4, <2>1, QuietFunding DEF VerifyLoad, Both, Side, FundingTypeOK, TypeOK
<1>5. ASSUME VerifyClosed(w) \/ VerifyNoAnswer(w) PROVE Both'
  <2>1. Same /\ loop' \in Workers \cup {Nobody}
    BY <1>5, EndType DEF VerifyClosed, VerifyNoAnswer
  <2> QED
    BY <1>5, <2>1, QuietFunding DEF VerifyClosed, VerifyNoAnswer, Both, Side, FundingTypeOK
<1>6. ASSUME VerifyAnswered(w) PROVE Both'
  <2>1. Same
    BY <1>6, GoToType DEF VerifyAnswered, Settled, Paid
  <2> QED
    BY <1>6, <2>1, QuietFunding DEF VerifyAnswered, Both, Side, FundingTypeOK, TypeOK
<1>7. ASSUME VerifyResume(w) PROVE Both'
  <2>1. Same
    BY <1>7, GoToType DEF VerifyResume, Both, Side, FundingInv, KnowsTopup
  <2> QED
    BY <1>7, <2>1, QuietFunding DEF VerifyResume, Both, Side, FundingTypeOK
<1>8. ASSUME VerifyRefused(w) PROVE Both'
  <2>1. Same /\ loop' \in Workers \cup {Nobody}
    BY <1>8, EndType DEF VerifyRefused
  <2>2. /\ credit' \in [Topups -> {"none", "pending", "success", "failed"}]
        /\ \A t \in Topups : credit'[t] = "success" => credit[t] = "success"
    BY <1>8 DEF VerifyRefused, Both, Side, FundingTypeOK
  <2> QED
    BY <1>8, <2>1, <2>2, QuietFunding DEF VerifyRefused
<1> QED
  BY <1>1, <1>2, <1>3, <1>4, <1>5, <1>6, <1>7, <1>8

\* The customer pays: nothing that was paid becomes unpaid.
LEMMA PayKeepsPaid ==
    ASSUME Both, NEW t \in Topups, Pay(t)
    PROVE  Both'
<1>1. charge' \in [Topups -> {"none", "paid", "other", "failed"}]
  BY DEF Pay, Both, Side, FundingTypeOK
<1>2. \A q \in Topups : Paid(q) => Paid(q)'
  BY DEF Pay, Both, Side, FundingTypeOK, Paid
<1>3. CreditedMeansPaid'
  BY <1>2 DEF Pay, Both, Side, CreditedMeansPaid, Paid
<1>4. FundingInv'
  BY <1>2 DEF Pay, Both, Side, FundingInv, KnowsTopup
<1> QED
  BY <1>1, <1>3, <1>4 DEF Pay, Both, Side, FundingTypeOK, TypeOK, NonNegativeBalance,
     SessionInv, payouts, KnowsRows, Covered

\* A payout's step, or the death of the process, with nothing credited.
LEMMA PayoutSideKeeps ==
    ASSUME Both, [Next]_vars, UNCHANGED <<credit, charge, told, credited>>,
           fund' = fund \/ fund' = [w \in Workers |-> NoFund]
    PROVE  Both'
<1>1. TypeOK' /\ SessionInv' /\ NonNegativeBalance'
  BY NextTyped, NextSolvent DEF Both
<1>2. NoFund \in FundSession /\ KnowsTopup(NoFund)
  BY DEF NoFund, FundSession, KnowsTopup
<1>3. fund' \in [Workers -> FundSession]
  BY <1>2 DEF Both, Side, FundingTypeOK
<1>4. FundingInv'
  <2>1. ASSUME NEW w \in Workers PROVE KnowsTopup(fund[w])'
    <3>1. fund'[w] = fund[w] \/ fund'[w] = NoFund
      OBVIOUS
    <3> QED
      BY <1>2, <3>1, <2>1 DEF Both, Side, FundingInv, KnowsTopup, Paid
  <2> QED
    BY <2>1 DEF FundingInv
<1>5. CreditedMeansPaid'
  BY DEF Both, Side, CreditedMeansPaid
<1> QED
  BY <1>1, <1>3, <1>4, <1>5 DEF Both, Side, FundingTypeOK

\* What a step of the wallet is to the payouts: one of theirs, or nothing.
LEMMA WalletStep ==
    ASSUME [WalletNext]_walletVars
    PROVE  [Next]_vars \/ UNCHANGED payouts
<1>1. ASSUME NEW w \in Workers, FundingStep(w) PROVE UNCHANGED payouts
  BY <1>1 DEF FundingStep, TopupRequest, TopupInsert, TopupStarted, TopupRefused, ChargeRead,
     ApplyCredit, VerifyRequest, VerifyLoad, VerifyClosed, VerifyCommand, VerifyAnswered,
     VerifyNoAnswer, VerifyResume, VerifyRefused
<1>2. ASSUME NEW t \in Topups, Pay(t) PROVE UNCHANGED payouts
  BY <1>2 DEF Pay
<1> QED
  BY <1>1, <1>2 DEF WalletNext, Next, Restart, walletVars

\* Every step of the wallet keeps what is known of it.
LEMMA WalletKeeps == Both /\ [WalletNext]_walletVars => Both'
<1> SUFFICES ASSUME Both, [WalletNext]_walletVars PROVE Both'
  OBVIOUS
<1>1. ASSUME NEW w \in Workers, FundingStep(w) PROVE Both'
  BY <1>1, CreditKeeps, TopupKeeps, VerifyKeeps DEF FundingStep
<1>2. ASSUME NEW t \in Topups, Pay(t) PROVE Both'
  BY <1>2, PayKeepsPaid
<1>3. ASSUME NEW w \in Workers, StepOf(w), UNCHANGED fundVars PROVE Both'
  BY <1>3, PayoutSideKeeps DEF Next, fundVars
<1>4. ASSUME NEW r \in Refs, RemoteSettle(r), UNCHANGED fundVars PROVE Both'
  BY <1>4, PayoutSideKeeps DEF Next, fundVars
<1>5. ASSUME Restart PROVE Both'
  BY <1>5, PayoutSideKeeps DEF Next, Restart
<1>6. ASSUME UNCHANGED walletVars PROVE Both'
  BY <1>6, PayoutSideKeeps DEF walletVars, fundVars
<1> QED
  BY <1>1, <1>2, <1>3, <1>4, <1>5, <1>6 DEF WalletNext

\* The locks, the provider's answers and the records of the payouts are out of
\* the credits' reach.
LEMMA WalletLeavesPayouts ==
    /\ Both /\ LockInv /\ RemoteInv /\ ChargedMeansAccepted /\ PaidMeansTransferred
    /\ [WalletNext]_walletVars
    => LockInv' /\ RemoteInv' /\ ChargedMeansAccepted' /\ PaidMeansTransferred'
<1> SUFFICES ASSUME Both, LockInv, RemoteInv, ChargedMeansAccepted, PaidMeansTransferred,
                    [WalletNext]_walletVars
             PROVE  LockInv' /\ RemoteInv' /\ ChargedMeansAccepted' /\ PaidMeansTransferred'
  OBVIOUS
<1>1. CASE [Next]_vars
  BY <1>1, NextKeeps, NextRemote, NextCharged, NextPaid DEF Both
<1>2. CASE UNCHANGED payouts
  BY <1>2 DEF payouts, LockInv, HoldsRows, RemoteInv, Unknown, Truthful, OwnReference,
     Reserved, ChargedMeansAccepted, PaidMeansTransferred
<1> QED
  BY <1>1, <1>2, WalletStep

\* The initial state of both sides.
LEMMA WalletInitKeeps ==
    WalletInit => /\ Both /\ LockInv /\ RemoteInv
                  /\ ChargedMeansAccepted /\ PaidMeansTransferred
<1> SUFFICES ASSUME WalletInit
             PROVE  /\ Both /\ LockInv /\ RemoteInv
                    /\ ChargedMeansAccepted /\ PaidMeansTransferred
  OBVIOUS
<1>1. FundingTypeOK /\ FundingInv /\ CreditedMeansPaid
  BY DEF WalletInit, FundingInit, FundingTypeOK, FundingInv, CreditedMeansPaid, KnowsTopup,
     NoFund, FundSession
<1>2. LockInv
  BY IdleType DEF WalletInit, Init, LockInv, HoldsRows, Holding
<1> QED
  BY <1>1, <1>2, InitTyped, InitInformed DEF WalletInit, Both, Side

\* Both sides, together an invariant.
LEMMA WalletInformed ==
    WalletSpec => [](/\ Both /\ LockInv /\ RemoteInv
                     /\ ChargedMeansAccepted /\ PaidMeansTransferred)
BY WalletInitKeeps, WalletKeeps, WalletLeavesPayouts, PTL DEF WalletSpec

\* Every credit, charge and funding session has its type.
THEOREM FundingTypeCorrect == WalletSpec => []FundingTypeOK
<1>1. Both => FundingTypeOK
  BY DEF Both, Side
<1> QED
  BY <1>1, WalletInformed, PTL

\* No credit is on record that was not paid: not by a late webhook, a second
\* verification or a restart in between.
THEOREM CreditsArePaid == WalletSpec => []CreditedMeansPaid
<1>1. Both => CreditedMeansPaid
  BY DEF Both, Side
<1> QED
  BY <1>1, WalletInformed, PTL

\* Everything proved of the payouts holds beside the credits too, the wallet
\* that never goes below zero included.
THEOREM PayoutsBesideCredits == WalletSpec => []IInv
<1>1. /\ Both /\ LockInv /\ RemoteInv /\ ChargedMeansAccepted /\ PaidMeansTransferred
      => IInv
  BY DEF Both, IInv
<1> QED
  BY <1>1, WalletInformed, PTL

-----------------------------------------------------------------------------
(* What a user was credited                                                *)

\* What each top-up brings.
Amounts == [t \in Topups |-> Received(t)]

\* The sum the model takes of some credits is their total.
LEMMA CreditTotal ==
    ASSUME IsFiniteSet(Topups), NEW D \in SUBSET Topups
    PROVE  Credit(D) = Total(Amounts, D)
<1> DEFINE Sums(f) == f = [s \in SUBSET D |-> IF s = {} THEN 0
                                              ELSE Received(Pick(s)) + f[s \ {Pick(s)}]]
           F == CHOOSE f : Sums(f)
<1>1. Credit(D) = F[D]
  BY DEF Credit, MapThenSumSet, MapThenFoldSet, Pick
<1>2. IsFiniteSet(D)
  BY FS_Subset
<1>3. ASSUME NEW f PROVE Summed(f, Amounts, D) <=> Sums(f)
  <2> DEFINE one(s) == IF s = {} THEN 0 ELSE Amounts[Pick(s)] + f[s \ {Pick(s)}]
             two(s) == IF s = {} THEN 0 ELSE Received(Pick(s)) + f[s \ {Pick(s)}]
  <2>1. \A s \in SUBSET D : one(s) = two(s)
    BY PickType DEF Amounts
  <2>2. [s \in SUBSET D |-> one(s)] = [s \in SUBSET D |-> two(s)]
    <3> HIDE DEF one, two
    <3> QED
      BY <2>1
  <2> QED
    BY <2>2 DEF Summed
<1> HIDE DEF Sums
<1>4. Summed(F, Amounts, D)
  <2>1. PICK f : Summed(f, Amounts, D)
    BY <1>2, SummedExists
  <2>2. Sums(F)
    BY <2>1, <1>3
  <2> QED
    BY <2>2, <1>3
<1> HIDE DEF F
<1>5. F[D] = Total(Amounts, D)
  BY <1>2, <1>4, TotalSummed
<1> QED
  BY <1>1, <1>5

\* The sums of credits that matter here, as totals.
CreditsTotalled ==
    /\ \A u : Credits(u) = Total(Amounts, CreditedTo(u))
    /\ \A t : CreditsBut(t) = Total(Amounts, CreditedTo(Payer[t]) \ {t})

\* Before a step they are totals.
LEMMA CreditTotals == IsFiniteSet(Topups) => CreditsTotalled
<1>1. \A u : CreditedTo(u) \in SUBSET Topups
  BY DEF CreditedTo
<1>2. \A u : Credits(u) = Credit(CreditedTo(u))
  BY DEF Credits, Credit, CreditedTo
<1> QED
  BY <1>1, <1>2, CreditTotal DEF CreditsTotalled, CreditsBut

\* After it they are, too.
LEMMA CreditTotalsAfter == IsFiniteSet(Topups) => CreditsTotalled'
<1>1. IsFiniteSet(Topups) => IsFiniteSet(Topups)'
  OBVIOUS
<1> QED
  BY <1>1, CreditTotals, PTL

\* The sums, before and after a step, as totals.
LEMMA CreditsAsTotals ==
    ASSUME IsFiniteSet(Topups)
    PROVE  /\ \A u : /\ Credits(u) = Total(Amounts, CreditedTo(u))
                     /\ Credits(u)' = Total(Amounts', CreditedTo(u)')
           /\ \A t : /\ CreditsBut(t) = Total(Amounts, CreditedTo(Payer[t]) \ {t})
                     /\ CreditsBut(t)' = Total(Amounts', CreditedTo(Payer[t])' \ {t})
<1>1. CreditsTotalled /\ CreditsTotalled'
  BY CreditTotals, CreditTotalsAfter
<1> QED
  BY <1>1 DEF CreditsTotalled

\* A total of amounts.
LEMMA AmountsType ==
    ASSUME IsFiniteSet(Topups), NEW D \in SUBSET Topups
    PROVE  /\ IsFiniteSet(D) /\ Total(Amounts, D) \in Nat
           /\ \A t \in D : Total(Amounts, D) = Received(t) + Total(Amounts, D \ {t})
<1>1. IsFiniteSet(D) /\ \A q \in D : Amounts[q] \in Nat /\ Amounts[q] = Received(q)
  BY FS_Subset, ReceivedType DEF Amounts
<1>2. Total(Amounts, D) \in Nat
  BY <1>1, TotalType
<1>3. ASSUME NEW t \in D PROVE Total(Amounts, D) = Received(t) + Total(Amounts, D \ {t})
  BY <1>1, TotalWithout
<1> QED
  BY <1>1, <1>2, <1>3

\* What a user was credited, with and without one top-up.
LEMMA CreditsType ==
    ASSUME IsFiniteSet(Topups), NEW t \in Topups
    PROVE  /\ Credits(Payer[t]) \in Nat /\ CreditsBut(t) \in Nat
           /\ credited[t] > 0 => Credits(Payer[t]) = CreditsBut(t) + Received(t)
           /\ ~(credited[t] > 0) => Credits(Payer[t]) = CreditsBut(t)
<1> DEFINE D == CreditedTo(Payer[t])
<1>1. D \in SUBSET Topups /\ D \ {t} \in SUBSET Topups /\ (t \in D <=> credited[t] > 0)
  BY DEF CreditedTo
<1>2. Credits(Payer[t]) = Total(Amounts, D) /\ CreditsBut(t) = Total(Amounts, D \ {t})
  BY CreditsAsTotals
<1> HIDE DEF D
<1>3. Total(Amounts, D) \in Nat /\ Total(Amounts, D \ {t}) \in Nat
  BY <1>1, AmountsType
<1>4. CASE t \in D
  <2>1. Total(Amounts, D) = Received(t) + Total(Amounts, D \ {t})
    BY <1>1, <1>4, AmountsType
  <2> QED
    BY <1>1, <1>2, <1>3, <1>4, <2>1, ReceivedType
<1>5. CASE t \notin D
  <2>1. D \ {t} = D
    BY <1>5
  <2> QED
    BY <1>1, <1>2, <1>3, <1>5, <2>1
<1> QED
  BY <1>4, <1>5

\* A step that credits nothing.
LEMMA CreditsSame ==
    ASSUME IsFiniteSet(Topups), credited' = credited,
           \A t \in Topups : credited[t] > 0 => Received(t)' = Received(t)
    PROVE  /\ \A u : Credits(u)' = Credits(u)
           /\ \A t : CreditsBut(t)' = CreditsBut(t)
<1>1. ASSUME NEW u, NEW x
      PROVE  Total(Amounts', CreditedTo(u)' \ x) = Total(Amounts, CreditedTo(u) \ x)
  <2> DEFINE D == CreditedTo(u) \ x
  <2>1. CreditedTo(u)' \ x = D /\ D \in SUBSET Topups
    BY DEF CreditedTo
  <2>2. \A t \in D : Amounts'[t] = Amounts[t]
    BY DEF CreditedTo, Amounts
  <2> HIDE DEF D
  <2>3. IsFiniteSet(D)
    BY <2>1, FS_Subset
  <2>4. Total(Amounts', D) = Total(Amounts, D)
    BY <2>2, <2>3, TotalAgree
  <2> QED
    BY <2>1, <2>4 DEF D
<1>2. \A u : CreditedTo(u) \ {} = CreditedTo(u) /\ CreditedTo(u)' \ {} = CreditedTo(u)'
  OBVIOUS
<1>3. ASSUME NEW u PROVE Credits(u)' = Credits(u)
  <2>1. Total(Amounts', CreditedTo(u)' \ {}) = Total(Amounts, CreditedTo(u) \ {})
    BY <1>1
  <2> QED
    BY <1>2, <2>1, CreditsAsTotals
<1>4. ASSUME NEW t PROVE CreditsBut(t)' = CreditsBut(t)
  BY <1>1, CreditsAsTotals
<1> QED
  BY <1>3, <1>4

-----------------------------------------------------------------------------
(* Payments beside credits                                                 *)

\* What the steps are taken under.
Funded ==
    /\ OneConfirmer /\ IsFiniteSet(Refs) /\ IsFiniteSet(Topups)
    /\ Both /\ LockInv /\ OneByOne /\ CreditsInOrder /\ CreditsAddUp

\* What is proved of one confirmer holds.
LEMMA FundedOrderly == Funded => Orderly
BY DEF Funded, Orderly, Both

\* Which jobs there are, and whose top-ups, is no state.
LEMMA ApartStays == (CreditsApart' <=> CreditsApart) /\ (RefundsByWebhook' <=> RefundsByWebhook)
BY DEF CreditsApart, RefundsByWebhook

\* A payment's session is of one of its worker's jobs, a webhook's keeps the
\* event loop, and none takes it from another session.
LEMMA PaymentsAside ==
    ASSUME Funded, NEW w \in Workers, StepOf(w)
    PROVE  /\ Jobs[w] # {} /\ \A v \in Workers : AtItsPayment(v)'
           /\ loop' = loop \/ (loop \in {w, Nobody} /\ loop' \in {w, Nobody})
<1> DEFINE Aside == loop' = loop \/ (loop \in {w, Nobody} /\ loop' \in {w, Nobody})
           Goal == Jobs[w] # {} /\ (\A v \in Workers : AtItsPayment(v)') /\ Aside
           Late == {"txn_read", "bill_read", "flushing"}
<1> SUFFICES Goal
  OBVIOUS
<1>1. /\ sess \in [Workers -> Session] /\ sess[w] \in Session
      /\ \A v \in Workers : AtItsPayment(v)
  BY DEF Funded, Both, TypeOK, CreditsInOrder
<1>2. Idle.pc = "idle"
  BY IdleType
<1>a. ASSUME NEW s, Become(w, s), Aside,
             s.pc # "idle" =>
                s.job \in Jobs[w] /\ (s.job = "webhook" => loop' = w /\ s.pc \in Late),
             Jobs[w] # {}
      PROVE  Goal
  <2>1. sess'[w] = s /\ \A v \in Workers : v # w => sess'[v] = sess[v]
    BY <1>1, <1>a DEF Become
  <2>2. AtItsPayment(w)'
    BY <1>a, <2>1 DEF AtItsPayment
  <2>3. ASSUME NEW v \in Workers, v # w PROVE AtItsPayment(v)'
    BY <1>1, <1>a, <2>1, <2>3 DEF AtItsPayment
  <2> QED
    BY <1>a, <2>2, <2>3
<1> HIDE DEF Goal
<1>3. ASSUME NEW s, Become(w, s), s.job \in Jobs[w], s.job # "webhook", Aside PROVE Goal
  BY <1>3, <1>a
<1>4. ASSUME sess[w].pc # "idle", NEW s, Become(w, s), s.job = sess[w].job, Aside,
             sess[w].job = "webhook" /\ sess[w].pc \in Late => loop' = loop /\ s.pc \in Late
      PROVE  Goal
  BY <1>1, <1>4, <1>a DEF AtItsPayment
<1>5. ASSUME sess[w].pc # "idle", Close(w) PROVE Goal
  <2>1. Aside
    BY <1>5 DEF Close, Await
  <2>2. Jobs[w] # {}
    BY <1>1, <1>5 DEF AtItsPayment
  <2> QED
    BY <1>2, <1>5, <1>a, <2>1, <2>2 DEF Close
<1>6. ASSUME sess[w].pc # "idle", NEW pc, Move(w, pc), Aside,
             sess[w].pc \in Late => loop' = loop /\ pc \in Late
      PROVE  Goal
  <2> DEFINE s == [sess[w] EXCEPT !.pc = pc]
  <2>1. s.job = sess[w].job /\ s.pc = pc
    BY <1>1 DEF Session
  <2> HIDE DEF s
  <2>2. Become(w, s)
    BY <1>6 DEF Move, s
  <2> QED
    BY <1>4, <1>6, <2>1, <2>2
<1>7. CASE PayStep(w)
  <2>1. ASSUME NEW r \in Refs, PayRequest(w, r) PROVE FALSE
    BY <2>1 DEF PayRequest, CanOpen, Funded, OneConfirmer
  <2>2. ASSUME NEW r \in Refs, AutopayRecheck(w, r) PROVE Goal
    <3>1. Opened("autopay", "loaded", r).job = "autopay"
      BY DEF Opened, NewSession
    <3> QED
      BY <1>3, <2>2, <3>1 DEF AutopayRecheck, CanOpen
  <2>3. CASE PayLoadBill(w)
    <3>1. sess[w].pc = "authed" /\ sess[w].job = "pay"
      BY <2>3 DEF PayLoadBill
    <3> QED
      BY <1>1, <3>1 DEF AtItsPayment, Funded, OneConfirmer
  <2>4. CASE LockBill(w)
    <3> DEFINE s == [sess[w] EXCEPT !.pc = "bill_locked", !.status = CachedBill(w).status,
                                    !.retry = CachedBill(w).retry]
    <3>1. s.job = sess[w].job
      BY <1>1 DEF Session
    <3> HIDE DEF s
    <3>2. Become(w, s) /\ sess[w].pc = "loaded" /\ loop' = loop
      BY <2>4 DEF LockBill, s
    <3> QED
      BY <1>4, <3>1, <3>2
  <2>5. CASE StartPayout(w)
    <3> DEFINE s == [sess[w] EXCEPT !.pc = "calling", !.balance = CachedBalance(w)]
    <3>1. s.job = sess[w].job
      BY <1>1 DEF Session
    <3> HIDE DEF s
    <3>2. Become(w, s) /\ sess[w].pc = "bill_locked" /\ Aside
      BY <2>5 DEF StartPayout, Await, s
    <3> QED
      BY <1>4, <3>1, <3>2
  <2>6. CASE RefusePayout(w) \/ CommitDebit(w) \/ CommitRefund(w)
    BY <1>5, <2>6 DEF RefusePayout, CommitDebit, CommitRefund, Rollback
  <2> QED
    BY <1>7, <2>1, <2>2, <2>3, <2>4, <2>5, <2>6 DEF PayStep
<1>8. CASE CallStep(w)
  <2>1. CASE CallRaises(w)
    BY <1>5, <2>1 DEF CallRaises, Rollback
  <2>2. CASE CallRejected(w) \/ CallLost(w)
    BY <1>6, <2>2 DEF CallRejected, CallLost
  <2>3. CASE CallAccepted(w)
    <3> DEFINE s == [sess[w] EXCEPT !.pc = "accepted", !.code = TRUE]
    <3>1. s.job = sess[w].job
      BY <1>1 DEF Session
    <3> HIDE DEF s
    <3>2. /\ sess[w].pc = "calling" /\ loop' = loop
          /\ Become(w, s) \/ Move(w, "accepted") \/ Move(w, "refunding")
      BY <2>3 DEF CallAccepted, s
    <3> QED
      BY <1>4, <1>6, <3>1, <3>2
  <2> QED
    BY <1>8, <2>1, <2>2, <2>3 DEF CallStep
<1>9. CASE WebhookStep(w)
  <2>1. ASSUME NEW r \in Refs, NEW e \in EventKinds, WebhookIgnored(w, r, e) PROVE Goal
    <3>1. sess' = sess /\ loop' = loop /\ "webhook" \in Jobs[w]
      BY <2>1 DEF WebhookIgnored, Accepts, CanOpen
    <3> QED
      BY <1>1, <3>1 DEF Goal, AtItsPayment
  <2>2. ASSUME NEW r \in Refs, NEW e \in EventKinds, WebhookRead(w, r, e) PROVE Goal
    <3> DEFINE s == [Opened("webhook", "txn_read", r) EXCEPT !.outcome = e]
    <3>1. s.job = "webhook" /\ s.pc = "txn_read"
      BY DEF Opened, NewSession
    <3> HIDE DEF s
    <3>2. Become(w, s) /\ "webhook" \in Jobs[w] /\ loop' = w /\ loop = Nobody
      BY <2>2 DEF WebhookRead, Accepts, CanOpen, s
    <3> QED
      BY <1>a, <3>1, <3>2
  <2> QED
    BY <1>9, <2>1, <2>2 DEF WebhookStep
<1>10. CASE ReconcileStep(w)
  <2>1. ASSUME NEW r \in Refs, ReconcilePick(w, r) PROVE Goal
    <3> DEFINE s == [Opened("reconcile", "polling", r) EXCEPT !.code = txn[r].code]
    <3>1. s.job = "reconcile"
      BY DEF Opened, NewSession
    <3> HIDE DEF s
    <3>2. Become(w, s) /\ "reconcile" \in Jobs[w] /\ loop' = loop
      BY <2>1 DEF ReconcilePick, CanOpen, s
    <3> QED
      BY <1>3, <3>1, <3>2
  <2>2. CASE ReconcilePolled(w)
    <3> DEFINE s == [sess[w] EXCEPT !.pc = "polled", !.outcome = Polled(remote[sess[w].ref])]
    <3>1. s.job = sess[w].job
      BY <1>1 DEF Session
    <3> HIDE DEF s
    <3>2. Become(w, s) /\ sess[w].pc = "polling" /\ loop' = loop
      BY <2>2 DEF ReconcilePolled, s
    <3> QED
      BY <1>4, <3>1, <3>2
  <2>3. CASE ReconcileError(w) \/ ReconcileSkip(w)
    BY <1>5, <2>3 DEF ReconcileError, ReconcileSkip, Rollback
  <2>4. CASE ReconcileSettle(w)
    <3> DEFINE s == [sess[w] EXCEPT !.pc = "txn_read", !.outcome = "failed"]
    <3>1. s.job = sess[w].job
      BY <1>1 DEF Session
    <3> HIDE DEF s
    <3>2. /\ sess[w].pc = "polled" /\ loop' = loop
          /\ Become(w, s) \/ Move(w, "txn_read")
      BY <2>4 DEF ReconcileSettle, s
    <3> QED
      BY <1>4, <1>6, <3>1, <3>2
  <2> QED
    BY <1>10, <2>1, <2>2, <2>3, <2>4 DEF ReconcileStep
<1>11. CASE OtpStep(w)
  <2>1. ASSUME NEW r \in Refs, OtpRequest(w, r) PROVE Goal
    <3> DEFINE s == [Opened("otp_api", "authed", r) EXCEPT !.balance = balance[Owner[BillOf[r]]]]
    <3>1. s.job = "otp_api"
      BY DEF Opened, NewSession
    <3> HIDE DEF s
    <3>2. Become(w, s) /\ "otp_api" \in Jobs[w] /\ loop' = loop
      BY <2>1 DEF OtpRequest, CanOpen, s
    <3> QED
      BY <1>3, <3>1, <3>2
  <2>2. ASSUME NEW r \in Refs, OtpCommand(w, r) PROVE Goal
    <3> DEFINE s == [Opened("otp_bot", "otp_loaded", r) EXCEPT
                       !.balance = balance[Owner[BillOf[r]]]]
    <3>1. s.job = "otp_bot"
      BY DEF Opened, NewSession
    <3> HIDE DEF s
    <3>2. Become(w, s) /\ "otp_bot" \in Jobs[w] /\ loop = Nobody /\ loop' = w
      BY <2>2 DEF OtpCommand, CanOpen, s
    <3> QED
      BY <1>3, <3>1, <3>2
  <2>3. CASE OtpLoadBill(w)
    <3> DEFINE s == [sess[w] EXCEPT !.pc = "otp_loaded", !.status = bill[sess[w].bill].status,
                                    !.retry = bill[sess[w].bill].retry]
    <3>1. s.job = sess[w].job
      BY <1>1 DEF Session
    <3> HIDE DEF s
    <3>2. Become(w, s) /\ sess[w].pc = "authed" /\ Aside
      BY <2>3 DEF OtpLoadBill, Hold, CanRun, LoopJobs, s
    <3> QED
      BY <1>4, <3>1, <3>2
  <2>4. CASE OtpLock(w)
    <3>1. Move(w, "finalizing") /\ sess[w].pc = "otp_loaded" /\ Aside
      BY <2>4 DEF OtpLock, Await
    <3> QED
      BY <1>6, <3>1
  <2>5. CASE OtpNotFound(w) \/ OtpRejected(w) \/ OtpPending(w)
    BY <1>5, <2>5 DEF OtpNotFound, OtpRejected, OtpPending, Rollback
  <2>6. CASE OtpAccepted(w)
    <3>1. PICK answer : Become(w, [sess[w] EXCEPT !.pc = "replied", !.outcome = answer])
      BY <2>6 DEF OtpAccepted
    <3> DEFINE s == [sess[w] EXCEPT !.pc = "replied", !.outcome = answer]
    <3>2. s.job = sess[w].job
      BY <1>1 DEF Session
    <3>3. Become(w, s) /\ sess[w].pc = "finalizing" /\ loop' = loop
      BY <2>6, <3>1 DEF OtpAccepted
    <3> HIDE DEF s
    <3> QED
      BY <1>4, <3>2, <3>3
  <2>7. CASE OtpSettle(w)
    <3>1. Move(w, "txn_read") /\ sess[w].pc = "replied" /\ Aside
      BY <2>7 DEF OtpSettle, Hold, CanRun, LoopJobs
    <3> QED
      BY <1>6, <3>1
  <2> QED
    BY <1>11, <2>1, <2>2, <2>3, <2>4, <2>5, <2>6, <2>7 DEF OtpStep
<1>12. CASE ConfirmStep(w)
  <2>1. CASE ConfirmReadBill(w)
    <3>1. PICK st, n :
            Become(w, [sess[w] EXCEPT !.pc = "bill_read", !.status = st, !.retry = n])
      BY <2>1 DEF ConfirmReadBill
    <3> DEFINE s == [sess[w] EXCEPT !.pc = "bill_read", !.status = st, !.retry = n]
    <3>2. s.job = sess[w].job /\ s.pc = "bill_read"
      BY <1>1 DEF Session
    <3>3. Become(w, s) /\ sess[w].pc = "txn_read" /\ loop' = loop
      BY <2>1, <3>1 DEF ConfirmReadBill
    <3> HIDE DEF s
    <3> QED
      BY <1>4, <3>2, <3>3
  <2>2. CASE ConfirmReadUser(w)
    <3>1. PICK held : Become(w, [sess[w] EXCEPT !.pc = "flushing", !.balance = held])
      BY <2>2 DEF ConfirmReadUser
    <3> DEFINE s == [sess[w] EXCEPT !.pc = "flushing", !.balance = held]
    <3>2. s.job = sess[w].job /\ s.pc = "flushing"
      BY <1>1 DEF Session
    <3>3. Become(w, s) /\ sess[w].pc = "bill_read" /\ loop' = loop
      BY <2>2, <3>1 DEF ConfirmReadUser
    <3> HIDE DEF s
    <3> QED
      BY <1>4, <3>2, <3>3
  <2>3. CASE FlushRow(w)
    <3>1. sess' = sess /\ loop' = loop /\ sess[w].pc = "flushing"
      BY <2>3 DEF FlushRow
    <3> QED
      BY <1>1, <3>1 DEF Goal, AtItsPayment
  <2>4. CASE ConfirmSuccess(w) \/ ConfirmFailure(w)
    BY <1>5, <2>4 DEF ConfirmSuccess, ConfirmFailure, FlushDone
  <2> QED
    BY <1>12, <2>1, <2>2, <2>3, <2>4 DEF ConfirmStep
<1>13. CASE CancelStep(w)
  <2>1. ASSUME NEW b \in Bills, CancelLoad(w, b) PROVE Goal
    <3> DEFINE s == [NewSession("cancel", "cancelling", b, NoRef) EXCEPT !.status = bill[b].status]
    <3>1. s.job = "cancel"
      BY DEF NewSession
    <3> HIDE DEF s
    <3>2. Become(w, s) /\ "cancel" \in Jobs[w] /\ loop' = loop
      BY <2>1 DEF CancelLoad, CanOpen, s
    <3> QED
      BY <1>3, <3>1, <3>2
  <2>2. CASE CancelCommit(w)
    BY <1>5, <2>2 DEF CancelCommit
  <2> QED
    BY <1>13, <2>1, <2>2 DEF CancelStep
<1>14. CASE DeadlockAbort(w)
  <2>1. sess[w].pc # "idle"
    <3>1. sess[w].pc = "idle" => Wanted(w) = {}
      BY DEF Wanted
    <3> QED
      BY <1>14, <3>1 DEF DeadlockAbort, WaitsFor
  <2> QED
    BY <1>5, <1>14, <2>1 DEF DeadlockAbort, Rollback
<1> QED
  BY <1>7, <1>8, <1>9, <1>10, <1>11, <1>12, <1>13, <1>14 DEF StepOf

-----------------------------------------------------------------------------
(* What was tried, what was given back and what a wallet then holds        *)

\* What a user was credited is a natural number.
LEMMA CreditsNat == ASSUME IsFiniteSet(Topups), NEW u PROVE Credits(u) \in Nat
<1>1. CreditedTo(u) \in SUBSET Topups /\ Credits(u) = Total(Amounts, CreditedTo(u))
  BY CreditsAsTotals DEF CreditedTo
<1> QED
  BY <1>1, AmountsType

\* What was spent and what was given back, before and after a step.
LEMMA SpentType ==
    ASSUME IsFiniteSet(Refs), NEW u
    PROVE  /\ Spent(u) \in Nat /\ Spent(u)' \in Nat
           /\ GivenBack(u) \in Nat /\ GivenBack(u)' \in Nat
<1>1. /\ TriedBy(u) \in SUBSET Refs /\ TriedBy(u)' \in SUBSET Refs
      /\ FailedOf(u) \in SUBSET Refs /\ FailedOf(u)' \in SUBSET Refs
  BY DEF TriedBy, FailedOf
<1>2. /\ Spent(u) = SumOfCharges(TriedBy(u)) /\ Spent(u)' = SumOfCharges(TriedBy(u)')
      /\ GivenBack(u) = SumOfCharges(FailedOf(u))
      /\ GivenBack(u)' = SumOfCharges(FailedOf(u)')
  BY DEF Spent, GivenBack
<1> QED
  BY <1>1, <1>2, SumType

\* With the debits as they were, so are the sums.
LEMMA SameSpent ==
    ASSUME txn' = txn, NEW u
    PROVE  Spent(u)' = Spent(u) /\ GivenBack(u)' = GivenBack(u)
<1>1. TriedBy(u)' = TriedBy(u) /\ FailedOf(u)' = FailedOf(u)
  BY DEF TriedBy, FailedOf
<1> QED
  BY <1>1 DEF Spent, GivenBack

\* A debit that is tried, or fails, adds its charge for its owner and nobody
\* else.
LEMMA SpentStep ==
    ASSUME IsFiniteSet(Refs), NEW r \in Refs, Beside(r), txn'[r].status # "none",
           txn[r].status # "failed", NEW u
    PROVE  /\ Spent(u)' = Spent(u) +
                (IF u = Owner[BillOf[r]] /\ txn[r].status = "none"
                   THEN Charge(BillOf[r]) ELSE 0)
           /\ GivenBack(u)' = GivenBack(u) +
                (IF u = Owner[BillOf[r]] /\ txn'[r].status = "failed"
                   THEN Charge(BillOf[r]) ELSE 0)
<1>1. /\ Spent(u) = SumOfCharges(TriedBy(u)) /\ Spent(u)' = SumOfCharges(TriedBy(u)')
      /\ GivenBack(u) = SumOfCharges(FailedOf(u))
      /\ GivenBack(u)' = SumOfCharges(FailedOf(u)')
  BY DEF Spent, GivenBack
<1>2. /\ TriedBy(u) \in SUBSET Refs /\ FailedOf(u) \in SUBSET Refs
      /\ TriedBy(u)' = TriedBy(u) \cup (IF u = Owner[BillOf[r]] THEN {r} ELSE {})
      /\ (r \in TriedBy(u) <=> u = Owner[BillOf[r]] /\ txn[r].status # "none")
  BY DEF TriedBy, FailedOf, Beside
<1>3. /\ FailedOf(u)' = FailedOf(u) \cup (IF u = Owner[BillOf[r]] /\ txn'[r].status = "failed"
                                            THEN {r} ELSE {})
      /\ r \notin FailedOf(u)
  BY DEF FailedOf, Beside
<1>4. Spent(u) \in Nat /\ GivenBack(u) \in Nat /\ Charge(BillOf[r]) \in Nat
  BY SpentType, ChargeType
<1>5. ASSUME NEW D \in SUBSET Refs, NEW E \in SUBSET {r}
      PROVE  SumOfCharges(D \cup E) =
               SumOfCharges(D) + (IF r \in E \ D THEN Charge(BillOf[r]) ELSE 0)
  <2>1. CASE r \in E \ D
    <3>1. E = {r} /\ r \in Refs \ D
      BY <1>5, <2>1
    <3> QED
      BY <2>1, <3>1, SumOneMore
  <2>2. CASE r \notin E \ D
    <3>1. D \cup E = D
      BY <1>5, <2>2
    <3>2. SumOfCharges(D) \in Nat
      BY SumType
    <3>3. SumOfCharges(D \cup E) = SumOfCharges(D)
      BY <3>1
    <3> QED
      BY <2>2, <3>2, <3>3
  <2> QED
    BY <2>1, <2>2
<1>6. Spent(u)' = Spent(u) + (IF u = Owner[BillOf[r]] /\ txn[r].status = "none"
                                THEN Charge(BillOf[r]) ELSE 0)
  <2> DEFINE E == IF u = Owner[BillOf[r]] THEN {r} ELSE {}
  <2>1. E \in SUBSET {r} /\ (r \in E \ TriedBy(u)
                               <=> u = Owner[BillOf[r]] /\ txn[r].status = "none")
    BY <1>2
  <2>2. Spent(u)' = SumOfCharges(TriedBy(u) \cup E)
    BY <1>1, <1>2
  <2> HIDE DEF E
  <2>3. TriedBy(u) \in SUBSET Refs /\ E \in SUBSET {r}
    BY <1>2, <2>1
  <2>4. SumOfCharges(TriedBy(u) \cup E) =
          SumOfCharges(TriedBy(u)) + (IF r \in E \ TriedBy(u) THEN Charge(BillOf[r]) ELSE 0)
    BY <1>5, <2>3
  <2> QED
    BY <1>1, <2>1, <2>2, <2>4
<1>7. GivenBack(u)' = GivenBack(u) + (IF u = Owner[BillOf[r]] /\ txn'[r].status = "failed"
                                        THEN Charge(BillOf[r]) ELSE 0)
  <2> DEFINE E == IF u = Owner[BillOf[r]] /\ txn'[r].status = "failed" THEN {r} ELSE {}
  <2>1. E \in SUBSET {r} /\ (r \in E \ FailedOf(u)
                               <=> u = Owner[BillOf[r]] /\ txn'[r].status = "failed")
    BY <1>3
  <2>2. GivenBack(u)' = SumOfCharges(FailedOf(u) \cup E)
    BY <1>1, <1>3
  <2> HIDE DEF E
  <2>3. FailedOf(u) \in SUBSET Refs /\ E \in SUBSET {r}
    BY <1>2, <2>1
  <2>4. SumOfCharges(FailedOf(u) \cup E) =
          SumOfCharges(FailedOf(u)) + (IF r \in E \ FailedOf(u) THEN Charge(BillOf[r]) ELSE 0)
    BY <1>5, <2>3
  <2> QED
    BY <1>1, <2>1, <2>2, <2>4
<1> QED
  BY <1>6, <1>7

\* Both sums only grow.
SpendsMore ==
    \A u \in Users : /\ Spent(u) \in Nat /\ Spent(u)' \in Nat /\ Spent(u)' >= Spent(u)
                     /\ GivenBack(u) \in Nat /\ GivenBack(u)' \in Nat
                     /\ GivenBack(u)' >= GivenBack(u)

\* Debits as they were.
LEMMA NothingSpent ==
    ASSUME IsFiniteSet(Refs), txn' = txn
    PROVE  SpendsMore /\ \A u : Spent(u)' = Spent(u) /\ GivenBack(u)' = GivenBack(u)
<1>1. \A u : Spent(u)' = Spent(u) /\ GivenBack(u)' = GivenBack(u)
  BY SameSpent
<1> QED
  BY <1>1, SpentType DEF SpendsMore

\* What a payment does to the money: a debit takes no more than it adds to
\* what was spent, and a refund was read with every credit in it.
LEMMA PaymentsMoney ==
    ASSUME Funded, [Next]_vars
    PROVE  /\ SpendsMore
           /\ \A u \in Users :
                /\ balance'[u] \in Int
                /\ balance'[u] <= Deposit[u] + Credits(u) + GivenBack(u)'
                /\ CreditsApart /\ RefundsByWebhook =>
                     balance'[u] >= Deposit[u] + Credits(u) - Spent(u)'
<1>1. Orderly /\ IsFiniteSet(Refs) /\ TypeOK
  BY FundedOrderly DEF Funded, Both
<1>2. ASSUME NEW u \in Users
      PROVE  /\ balance[u] \in Int /\ Deposit[u] \in Nat /\ Credits(u) \in Nat
             /\ Spent(u) \in Nat /\ Spent(u)' \in Nat
             /\ GivenBack(u) \in Nat /\ GivenBack(u)' \in Nat
             /\ balance[u] <= Deposit[u] + Credits(u) + GivenBack(u)
             /\ CreditsApart /\ RefundsByWebhook =>
                  balance[u] >= Deposit[u] + Credits(u) - Spent(u)
  BY <1>1, SpentType, CreditsNat
  DEF Funded, TypeOK, CreditsAddUp, CreditCountsOnce, NoCreditLost
<1> DEFINE Goal == /\ SpendsMore
                   /\ \A u \in Users :
                        /\ balance'[u] \in Int
                        /\ balance'[u] <= Deposit[u] + Credits(u) + GivenBack(u)'
                        /\ CreditsApart /\ RefundsByWebhook =>
                             balance'[u] >= Deposit[u] + Credits(u) - Spent(u)'
<1> SUFFICES Goal
  OBVIOUS
<1>3. CASE SameMoney
  <2>1. balance' = balance /\ txn' = txn
    BY <1>3 DEF SameMoney
  <2>2. SpendsMore /\ \A u : Spent(u)' = Spent(u) /\ GivenBack(u)' = GivenBack(u)
    BY <1>1, <2>1, NothingSpent
  <2> QED
    BY <1>2, <2>1, <2>2
<1>4. ASSUME NEW r \in Refs, Beside(r), txn'[r].status # "none", txn[r].status # "failed",
             \A u \in Users : u # Owner[BillOf[r]] => balance'[u] = balance[u],
             \A u \in Users : u = Owner[BillOf[r]] =>
                /\ balance'[u] \in Int
                /\ balance'[u] <= Deposit[u] + Credits(u) + GivenBack(u) +
                      (IF txn'[r].status = "failed" THEN Charge(BillOf[r]) ELSE 0)
                /\ CreditsApart /\ RefundsByWebhook =>
                     balance'[u] >= Deposit[u] + Credits(u) - Spent(u) -
                        (IF txn[r].status = "none" THEN Charge(BillOf[r]) ELSE 0)
      PROVE  Goal
  <2>1. Charge(BillOf[r]) \in Nat
    BY ChargeType
  <2>2. ASSUME NEW u \in Users
        PROVE  /\ Spent(u)' = Spent(u) + (IF u = Owner[BillOf[r]] /\ txn[r].status = "none"
                                            THEN Charge(BillOf[r]) ELSE 0)
               /\ GivenBack(u)' = GivenBack(u) +
                    (IF u = Owner[BillOf[r]] /\ txn'[r].status = "failed"
                       THEN Charge(BillOf[r]) ELSE 0)
    BY <1>1, <1>4, SpentStep
  <2>3. SpendsMore
    BY <1>2, <2>1, <2>2 DEF SpendsMore
  <2>4. ASSUME NEW u \in Users
        PROVE  /\ balance'[u] \in Int
               /\ balance'[u] <= Deposit[u] + Credits(u) + GivenBack(u)'
               /\ CreditsApart /\ RefundsByWebhook =>
                    balance'[u] >= Deposit[u] + Credits(u) - Spent(u)'
    <3>1. CASE u = Owner[BillOf[r]]
      <4> DEFINE tried == IF txn[r].status = "none" THEN Charge(BillOf[r]) ELSE 0
                 back == IF txn'[r].status = "failed" THEN Charge(BillOf[r]) ELSE 0
      <4>1. /\ Spent(u)' = Spent(u) + tried /\ GivenBack(u)' = GivenBack(u) + back
            /\ tried \in Nat /\ back \in Nat
        BY <2>1, <2>2, <3>1
      <4>2. /\ balance'[u] \in Int
            /\ balance'[u] <= Deposit[u] + Credits(u) + GivenBack(u) + back
            /\ CreditsApart /\ RefundsByWebhook =>
                 balance'[u] >= Deposit[u] + Credits(u) - Spent(u) - tried
        BY <1>4, <3>1
      <4> HIDE DEF tried, back
      <4> QED
        BY <1>2, <4>1, <4>2
    <3>2. CASE u # Owner[BillOf[r]]
      BY <1>2, <1>4, <2>2, <3>2
    <3> QED
      BY <3>1, <3>2
  <2> QED
    BY <2>3, <2>4
<1> HIDE DEF Goal
<1>5. ASSUME NEW w \in Workers, CommitDebit(w) PROVE Goal
  <2>1. PICK r \in Refs :
          /\ txn[r].status = "none" /\ txn'[r].status = "processing" /\ Beside(r)
          /\ balance' = [balance EXCEPT ![Owner[BillOf[r]]] = @ - Charge(BillOf[r])]
    BY <1>1, <1>5, DebitBooks
  <2>2. Charge(BillOf[r]) \in Nat /\ balance \in [Users -> Int]
    BY <1>1, ChargeType DEF TypeOK
  <2>3. \A u \in Users : balance'[u] =
          IF u = Owner[BillOf[r]] THEN balance[u] - Charge(BillOf[r]) ELSE balance[u]
    BY <2>1, <2>2
  <2>4. ASSUME NEW u \in Users, u = Owner[BillOf[r]]
        PROVE  /\ balance'[u] \in Int
               /\ balance'[u] <= Deposit[u] + Credits(u) + GivenBack(u) + 0
               /\ CreditsApart /\ RefundsByWebhook =>
                    balance'[u] >= Deposit[u] + Credits(u) - Spent(u) - Charge(BillOf[r])
    BY <1>2, <2>2, <2>3, <2>4
  <2> QED
    BY <1>4, <2>1, <2>3, <2>4
<1>6. ASSUME NEW w \in Workers, CommitRefund(w) PROVE Goal
  <2>1. PICK r \in Refs : /\ txn[r].status = "none" /\ txn'[r].status = "failed" /\ Beside(r)
                          /\ balance' = balance
    BY <1>1, <1>6, DeclineBooks
  <2>2. Charge(BillOf[r]) \in Nat
    BY ChargeType
  <2> QED
    BY <1>2, <1>4, <2>1, <2>2
<1>7. ASSUME NEW w \in Workers, ConfirmSuccess(w) PROVE Goal
  <2>1. PICK r \in Refs : /\ txn[r].status = "processing" /\ txn'[r].status = "success"
                          /\ Beside(r) /\ balance' = balance
    BY <1>1, <1>7, SettleBooks
  <2> QED
    BY <1>2, <1>4, <2>1
<1>8. ASSUME NEW w \in Workers, ConfirmFailure(w) PROVE Goal
  <2>1. PICK r \in Refs :
          /\ txn[r].status = "processing" /\ txn'[r].status = "failed" /\ Beside(r)
          /\ Holds(w) /\ sess[w].bill = BillOf[r] /\ sess[w].balance \in Int
          /\ balance' = [balance EXCEPT ![Owner[BillOf[r]]] =
                           sess[w].balance + Charge(BillOf[r])]
    BY <1>1, <1>8, RefundBooks
  <2>2. /\ Charge(BillOf[r]) \in Nat /\ balance \in [Users -> Int]
        /\ \A u \in Users : u = Owner[BillOf[r]] =>
             balance'[u] = sess[w].balance + Charge(BillOf[r])
    BY <1>1, <2>1, ChargeType DEF TypeOK
  <2>3. ASSUME NEW u \in Users, u = Owner[BillOf[r]]
        PROVE  /\ sess[w].balance <= Deposit[u] + Credits(u) + GivenBack(u)
               /\ CreditsApart /\ RefundsByWebhook =>
                    sess[w].balance >= Deposit[u] + Credits(u) - Spent(u)
    BY <2>1, <2>3 DEF Funded, CreditsInOrder, RefundsInOrder, Holds, AtMost, AtLeast
  <2>4. ASSUME NEW u \in Users, u = Owner[BillOf[r]]
        PROVE  /\ balance'[u] \in Int
               /\ balance'[u] <= Deposit[u] + Credits(u) + GivenBack(u) + Charge(BillOf[r])
               /\ CreditsApart /\ RefundsByWebhook =>
                    balance'[u] >= Deposit[u] + Credits(u) - Spent(u)
    BY <1>2, <2>1, <2>2, <2>3, <2>4
  <2>5. \A u \in Users : u # Owner[BillOf[r]] => balance'[u] = balance[u]
    BY <2>1, <2>2
  <2>6. \A u \in Users : Deposit[u] + Credits(u) - Spent(u) - 0
                           = Deposit[u] + Credits(u) - Spent(u)
    BY <1>2
  <2> QED
    BY <1>4, <2>1, <2>4, <2>5, <2>6
<1> QED
  BY <1>1, <1>3, <1>5, <1>6, <1>7, <1>8, NextBooks

\* What is credited changes nothing a payment has read under its locks.
LEMMA OnBeside ==
    ASSUME Funded, [WalletNext]_walletVars
    PROVE  OneByOne'
<1>1. CASE [Next]_vars
  BY <1>1, FundedOrderly, NextOn
<1>2. ASSUME NEW w \in Workers, FundingStep(w) PROVE OneByOne'
  <2>1. /\ sess' = sess /\ bill' = bill /\ txn' = txn
        /\ \A r \in Refs : Counts(r)' <=> Counts(r)
    <3>1. UNCHANGED payouts
      BY <1>2 DEF FundingStep, TopupRequest, TopupInsert, TopupStarted, TopupRefused, ChargeRead,
         ApplyCredit, VerifyRequest, VerifyLoad, VerifyClosed, VerifyCommand, VerifyAnswered,
         VerifyNoAnswer, VerifyResume, VerifyRefused
    <3> QED
      BY <3>1 DEF payouts, Counts
  <2>2. balance' = balance
          \/ (balance' = [balance EXCEPT ![Payer[fund[w].top]] =
                              fund[w].balance + Received(fund[w].top)]
              /\ lock[Payer[fund[w].top]] = Nobody)
    BY <1>2 DEF FundingStep, TopupRequest, TopupInsert, TopupStarted, TopupRefused, ChargeRead,
       ApplyCredit, VerifyRequest, VerifyLoad, VerifyClosed, VerifyCommand, VerifyAnswered,
       VerifyNoAnswer, VerifyResume, VerifyRefused, PayerFree
  <2>3. ASSUME NEW v \in Workers, sess[v].pc \in Holding
        PROVE  balance'[Owner[sess[v].bill]] = balance[Owner[sess[v].bill]]
    <3>1. lock[Owner[sess[v].bill]] = v
      BY <2>3 DEF Funded, LockInv, HoldsRows
    <3>2. balance \in [Users -> Int]
      BY DEF Funded, Both, TypeOK
    <3>3. Owner[sess[v].bill] # Payer[fund[w].top] \/ balance' = balance
      BY <2>2, <3>1
    <3>4. sess[v].bill \in Bills
      BY <2>3 DEF Holding, Funded, Both, SessionInv, KnowsRows
    <3> QED
      BY <2>2, <3>2, <3>3, <3>4
  <2>4. ASSUME NEW v \in Workers PROVE PaysFresh(v)' /\ SettlesFresh(v)' /\ CancelsIfMay(v)'
    <3>1. PaysFresh(v) /\ SettlesFresh(v) /\ CancelsIfMay(v)
      BY DEF Funded, OneByOne
    <3>2. PaysFresh(v)'
      BY <2>1, <2>3, <3>1 DEF PaysFresh, Paying
    <3>3. SettlesFresh(v)'
      BY <2>1, <3>1, JobsStay DEF SettlesFresh, Settling, Confirming, HasBill
    <3>4. CancelsIfMay(v)'
      BY <2>1, <3>1 DEF CancelsIfMay
    <3> QED
      BY <3>2, <3>3, <3>4
  <2>5. RowsInOrder'
    BY <2>1, JobsStay DEF Funded, OneByOne, RowsInOrder, OneDebitABill, DebitsShow, RetryBudget,
       ProcessingIsBacked
  <2> QED
    BY <2>4, <2>5 DEF OneByOne, RowsInOrder
<1>3. ASSUME NEW t \in Topups, Pay(t) PROVE OneByOne'
  <2>1. sess' = sess /\ SameBooks
    BY <1>3 DEF Pay, payouts, SameBooks
  <2> QED
    BY <2>1, FundedOrderly, StaysOn
<1> QED
  BY <1>1, <1>2, <1>3 DEF WalletNext, Next, Restart, walletVars

-----------------------------------------------------------------------------
(* Credits beside payments                                                 *)

\* What is known of a funding session.
LEMMA AtFunding ==
    ASSUME Funded, NEW v \in Workers
    PROVE  /\ fund[v] \in FundSession /\ InOrder(v) /\ KnowsTopup(fund[v])
           /\ fund[v].pc # "idle" =>
                /\ fund[v].top \in Topups /\ Payer[fund[v].top] \in Users
                /\ CreditsBut(fund[v].top) \in Nat
                /\ Deposit[Payer[fund[v].top]] \in Nat
                /\ FundingJobs[v] # {}
<1>1. fund[v] \in FundSession /\ InOrder(v) /\ KnowsTopup(fund[v])
  BY DEF Funded, Both, Side, FundingTypeOK, FundingInv, CreditsInOrder
<1>2. ASSUME fund[v].pc # "idle" PROVE fund[v].top \in Topups /\ FundingJobs[v] # {}
  BY <1>1, <1>2 DEF KnowsTopup, InOrder, AtItsFunding
<1>3. \A t \in Topups : CreditsBut(t) \in Nat
  BY CreditsType DEF Funded
<1> QED
  BY <1>1, <1>2, <1>3

\* A funding session that takes no part in a step.
LEMMA OthersInOrder ==
    ASSUME Funded, NEW v \in Workers, fund'[v] = fund[v],
           fund[v].pc \in Uninterrupted /\ loop = v => loop' = v,
           \A t \in Topups : /\ credit[t] \in Closed => credit'[t] \in Closed
                             /\ charge[t] # "none" => charge'[t] = charge[t]
                             /\ CreditsBut(t)' \in Nat /\ CreditsBut(t)' >= CreditsBut(t),
           Starts(v) =>
             /\ credit'[fund[v].top] = "none" /\ charge'[fund[v].top] = "none"
             /\ \A x \in Workers : x # v /\ Starts(x)' => fund'[x].top # fund[v].top,
           CreditsApart /\ fund[v].pc # "idle" /\ ~Starts(v) =>
             CreditsBut(fund[v].top)' = CreditsBut(fund[v].top),
           SpendsMore
    PROVE  InOrder(v)'
<1>1. /\ fund[v] \in FundSession /\ InOrder(v) /\ KnowsTopup(fund[v])
      /\ fund[v].pc # "idle" =>
           /\ fund[v].top \in Topups /\ Payer[fund[v].top] \in Users
           /\ CreditsBut(fund[v].top) \in Nat
           /\ Deposit[Payer[fund[v].top]] \in Nat
  BY AtFunding
<1>2. AtItsFunding(v)'
  BY <1>1 DEF InOrder, AtItsFunding
<1>3. KnowsCharge(v)'
  <2>1. fund[v].pc \in {"paid", "mismatch", "crediting", "failing"} =>
          /\ Paid(fund[v].top) /\ Paid(fund[v].top)'
          /\ Received(fund[v].top)' = Received(fund[v].top)
    BY <1>1 DEF InOrder, KnowsCharge, Paid, Received
  <2> QED
    BY <1>1, <2>1 DEF InOrder, KnowsCharge
<1>4. StartsOnce(v)'
  BY <1>1 DEF InOrder, StartsOnce, Starts
<1>5. ASSUME fund[v].pc # "idle"
      PROVE  /\ Spent(Payer[fund[v].top]) \in Nat /\ Spent(Payer[fund[v].top])' \in Nat
             /\ Spent(Payer[fund[v].top])' >= Spent(Payer[fund[v].top])
             /\ GivenBack(Payer[fund[v].top]) \in Nat /\ GivenBack(Payer[fund[v].top])' \in Nat
             /\ GivenBack(Payer[fund[v].top])' >= GivenBack(Payer[fund[v].top])
  <2>1. PICK u \in Users : u = Payer[fund[v].top]
    BY <1>1, <1>5
  <2>2. /\ Spent(u) \in Nat /\ Spent(u)' \in Nat /\ Spent(u)' >= Spent(u)
        /\ GivenBack(u) \in Nat /\ GivenBack(u)' \in Nat /\ GivenBack(u)' >= GivenBack(u)
    BY DEF SpendsMore
  <2>3. /\ Spent(Payer[fund[v].top]) = Spent(u)
        /\ GivenBack(Payer[fund[v].top]) = GivenBack(u)
    BY <2>1
  <2>4. u = Payer[fund'[v].top]
    BY <2>1
  <2>5. /\ Spent(Payer[fund[v].top])' = Spent(u)'
        /\ GivenBack(Payer[fund[v].top])' = GivenBack(u)'
    BY <2>4
  <2> QED
    BY <2>2, <2>3, <2>5
<1>6. ReadsBefore(v)'
  <2> SUFFICES ASSUME MayCredit(fund[v])'
               PROVE  fund[v].balance <= Deposit[Payer[fund[v].top]] + CreditsBut(fund[v].top)'
                                           + GivenBack(Payer[fund[v].top])'
    BY DEF ReadsBefore, AtMost
  <2>1. fund[v].pc # "idle"
    BY DEF MayCredit
  <2>2. MayCredit(fund[v])
    BY <1>1, <2>1 DEF MayCredit
  <2>3. fund[v].balance <= Deposit[Payer[fund[v].top]] + CreditsBut(fund[v].top)
                             + GivenBack(Payer[fund[v].top])
    BY <1>1, <2>2 DEF InOrder, ReadsBefore, AtMost
  <2>4. fund[v].balance \in Int
    BY <1>1 DEF FundSession
  <2>5. CreditsBut(fund[v].top)' \in Nat /\ CreditsBut(fund[v].top)' >= CreditsBut(fund[v].top)
    BY <1>1, <2>1
  <2> QED
    BY <1>1, <1>5, <2>1, <2>3, <2>4, <2>5
<1>7. ReadsAfter(v)'
  <2> SUFFICES ASSUME CreditsApart, RefundsByWebhook, fund[v].pc # "idle", ~Starts(v)
               PROVE  fund[v].balance >= Deposit[Payer[fund[v].top]] + CreditsBut(fund[v].top)'
                                           - Spent(Payer[fund[v].top])'
    BY ApartStays DEF ReadsAfter, Starts, AtLeast
  <2>1. fund[v].balance >= Deposit[Payer[fund[v].top]] + CreditsBut(fund[v].top)
                             - Spent(Payer[fund[v].top])
    BY <1>1 DEF InOrder, ReadsAfter, AtLeast
  <2>2. fund[v].balance \in Int
    BY <1>1 DEF FundSession
  <2>3. CreditsBut(fund[v].top)' = CreditsBut(fund[v].top)
    OBVIOUS
  <2> QED
    BY <1>1, <1>5, <2>1, <2>2, <2>3
<1> QED
  BY <1>2, <1>3, <1>4, <1>6, <1>7 DEF InOrder

\* What a confirmation has read stays in order while credits and sums grow.
LEMMA RefundsStay ==
    ASSUME Funded, NEW v \in Workers, SpendsMore,
           Holds(v)' => HeldBefore(v) \/ sess'[v].balance = balance[Owner[sess'[v].bill]],
           \A u \in Users : Credits(u)' \in Nat /\ Credits(u)' >= Credits(u),
           CreditsApart /\ RefundsByWebhook /\ Holds(v)' =>
             \A u \in Users : Credits(u)' = Credits(u)
    PROVE  RefundsInOrder(v)'
<1> SUFFICES ASSUME NEW u \in Users, Holds(v)', Owner[sess'[v].bill] = u
             PROVE  /\ sess'[v].balance <= Deposit[u] + Credits(u)' + GivenBack(u)'
                    /\ CreditsApart /\ RefundsByWebhook =>
                         sess'[v].balance >= Deposit[u] + Credits(u)' - Spent(u)'
  BY ApartStays DEF RefundsInOrder, Holds, AtMost, AtLeast
<1>1. /\ Deposit[u] \in Nat /\ Credits(u) \in Nat /\ Credits(u)' \in Nat
      /\ Credits(u)' >= Credits(u)
      /\ Spent(u) \in Nat /\ Spent(u)' \in Nat /\ Spent(u)' >= Spent(u)
      /\ GivenBack(u) \in Nat /\ GivenBack(u)' \in Nat /\ GivenBack(u)' >= GivenBack(u)
  BY CreditsNat DEF Funded, SpendsMore
<1>2. CreditsApart /\ RefundsByWebhook => Credits(u)' = Credits(u)
  OBVIOUS
<1>3. /\ sess'[v].balance \in Int
      /\ sess'[v].balance <= Deposit[u] + Credits(u) + GivenBack(u)
      /\ CreditsApart /\ RefundsByWebhook =>
           sess'[v].balance >= Deposit[u] + Credits(u) - Spent(u)
  <2>1. CASE HeldBefore(v)
    <3>1. Holds(v) /\ Owner[sess[v].bill] = u /\ sess'[v].balance = sess[v].balance
      BY <2>1 DEF HeldBefore
    <3>2. RefundsInOrder(v) /\ sess[v] \in Session
      BY DEF Funded, CreditsInOrder, Both, TypeOK
    <3>3. sess[v].balance \in Int
      BY <3>2 DEF Session
    <3> QED
      BY <3>1, <3>2, <3>3 DEF RefundsInOrder, Holds, AtMost, AtLeast
  <2>2. CASE sess'[v].balance = balance[u]
    BY <2>2 DEF Funded, Both, TypeOK, CreditsAddUp, CreditCountsOnce, NoCreditLost
  <2> QED
    BY <2>1, <2>2
<1> QED
  BY <1>1, <1>2, <1>3

\* A step that credits nothing: the sums change with the debits alone.
LEMMA NothingCredited ==
    ASSUME Funded, credited' = credited, told' = told,
           \A t \in Topups : charge[t] # "none" => charge'[t] = charge[t]
    PROVE  /\ \A u : Credits(u)' = Credits(u) /\ Credits(u) \in Nat
           /\ \A t \in Topups : CreditsBut(t)' = CreditsBut(t) /\ CreditsBut(t) \in Nat
<1>1. \A t \in Topups : credited[t] > 0 => Received(t)' = Received(t)
  BY DEF Funded, CreditsInOrder, CreditsAreClosed, Paid, Received
<1> QED
  BY <1>1, CreditsSame, CreditsType, CreditsNat DEF Funded

\* A payment's step: the balance moves by a charge, or to what a confirmation
\* has read and the charge it gives back.
LEMMA PaymentsInOrder ==
    ASSUME Funded, [Next]_vars, UNCHANGED <<credit, charge, told, credited>>,
           \A v \in Workers : AtItsPayment(v)',
           \/ /\ fund' = fund
              /\ \A v \in Workers : fund[v].pc \in Uninterrupted /\ loop = v => loop' = v
           \/ fund' = [v \in Workers |-> NoFund]
    PROVE  CreditsInOrder' /\ CreditsAddUp'
<1>1. /\ \A u : Credits(u)' = Credits(u) /\ Credits(u) \in Nat
      /\ \A t \in Topups : CreditsBut(t)' = CreditsBut(t) /\ CreditsBut(t) \in Nat
  BY NothingCredited
<1>2. SpendsMore
  BY PaymentsMoney
<1>3. ASSUME NEW v \in Workers PROVE InOrder(v)'
  <2>1. CASE fund' = fund /\ (fund[v].pc \in Uninterrupted /\ loop = v => loop' = v)
    <3>1. Starts(v) =>
            /\ credit'[fund[v].top] = "none" /\ charge'[fund[v].top] = "none"
            /\ \A x \in Workers : x # v /\ Starts(x)' => fund'[x].top # fund[v].top
      BY <2>1, AtFunding DEF InOrder, StartsOnce, Starts
    <3>2. \A t \in Topups : /\ credit[t] \in Closed => credit'[t] \in Closed
                            /\ charge[t] # "none" => charge'[t] = charge[t]
                            /\ CreditsBut(t)' \in Nat /\ CreditsBut(t)' >= CreditsBut(t)
      BY <1>1
    <3>3. fund[v].pc # "idle" => CreditsBut(fund[v].top)' = CreditsBut(fund[v].top)
      BY <1>1, <2>1, AtFunding
    <3> QED
      BY <1>2, <2>1, <3>1, <3>2, <3>3, OthersInOrder
  <2>2. CASE fund'[v] = NoFund
    BY <2>2 DEF InOrder, AtItsFunding, KnowsCharge, StartsOnce, Starts, ReadsBefore, MayCredit,
       ReadsAfter, NoFund, Verifications
  <2> QED
    BY <2>1, <2>2
<1>4. CreditsAreClosed'
  BY DEF Funded, CreditsInOrder, CreditsAreClosed, Paid, Received
<1>5. CreditsAddUp'
  BY <1>1, PaymentsMoney, ApartStays DEF CreditsAddUp, CreditCountsOnce, NoCreditLost
<1>6. ASSUME NEW v \in Workers PROVE RefundsInOrder(v)'
  <2>1. \A u \in Users : Credits(u)' \in Nat /\ Credits(u)' >= Credits(u)
    BY <1>1
  <2>2. Holds(v)' => HeldBefore(v) \/ sess'[v].balance = balance[Owner[sess'[v].bill]]
    BY FundedOrderly, WalletRead
  <2> QED
    BY <1>1, <1>2, <2>1, <2>2, RefundsStay
<1> QED
  BY <1>3, <1>4, <1>5, <1>6 DEF CreditsInOrder

\* A session that has ended, or was never opened.
LEMMA EndedInOrder ==
    ASSUME NEW v \in Workers, fund'[v] = NoFund
    PROVE  InOrder(v)'
BY DEF InOrder, AtItsFunding, KnowsCharge, StartsOnce, Starts, ReadsBefore, MayCredit,
   ReadsAfter, NoFund, Verifications

\* The scheduler's steps and the crash do as payments do.
LEMMA PayoutsInOrder ==
    ASSUME Funded,
           \/ \E w \in Workers : StepOf(w) /\ UNCHANGED fundVars
           \/ \E r \in Refs : RemoteSettle(r) /\ UNCHANGED fundVars
           \/ Restart
           \/ UNCHANGED walletVars
    PROVE  CreditsInOrder' /\ CreditsAddUp'
<1>1. \A v \in Workers : AtItsPayment(v) /\ InOrder(v) /\ fund[v] \in FundSession
  BY AtFunding DEF Funded, CreditsInOrder
<1>2. ASSUME NEW w \in Workers, StepOf(w), UNCHANGED fundVars
      PROVE  CreditsInOrder' /\ CreditsAddUp'
  <2>1. /\ Jobs[w] # {} /\ \A v \in Workers : AtItsPayment(v)'
        /\ loop' = loop \/ (loop \in {w, Nobody} /\ loop' \in {w, Nobody})
    BY <1>2, PaymentsAside
  <2>2. fund[w].pc = "idle"
    BY <1>1, <2>1 DEF InOrder, AtItsFunding
  <2>3. \A v \in Workers : fund[v].pc \in Uninterrupted /\ loop = v => loop' = v
    BY <2>1, <2>2 DEF Uninterrupted
  <2> QED
    BY <1>2, <2>1, <2>3, PaymentsInOrder DEF Next, fundVars
<1>3. ASSUME NEW r \in Refs, RemoteSettle(r), UNCHANGED fundVars
      PROVE  CreditsInOrder' /\ CreditsAddUp'
  <2>1. \A v \in Workers : AtItsPayment(v)'
    BY <1>1, <1>3, JobsStay DEF RemoteSettle, AtItsPayment
  <2> QED
    BY <1>3, <2>1, PaymentsInOrder DEF Next, fundVars, RemoteSettle
<1>4. CASE Restart
  <2>1. \A v \in Workers : AtItsPayment(v)'
    BY <1>4, IdleType DEF Restart, Crash, AtItsPayment
  <2> QED
    BY <1>4, <2>1, PaymentsInOrder DEF Next, Restart
<1>5. CASE UNCHANGED walletVars
  <2>1. \A v \in Workers : AtItsPayment(v)'
    BY <1>1, <1>5 DEF walletVars, vars, AtItsPayment
  <2>2. [Next]_vars /\ loop' = loop
    BY <1>5 DEF walletVars, vars
  <2> QED
    BY <1>5, <2>1, <2>2, PaymentsInOrder DEF walletVars, fundVars
<1> QED
  BY <1>2, <1>3, <1>4, <1>5

\* A credit's session leaves every payment's to the event loop it has.
LEMMA FundingAside ==
    ASSUME Funded, NEW w \in Workers, FundingJobs[w] # {}, sess' = sess,
           loop' = loop \/ loop \in {w, Nobody}
    PROVE  \A v \in Workers : /\ AtItsPayment(v)'
                              /\ Holds(v) /\ RefundsByWebhook => loop = v /\ v # w
<1> SUFFICES ASSUME NEW v \in Workers
             PROVE  AtItsPayment(v)' /\ (Holds(v) /\ RefundsByWebhook => loop = v /\ v # w)
  OBVIOUS
<1>1. AtItsPayment(v) /\ SettlesFresh(v)
  BY DEF Funded, CreditsInOrder, OneByOne
<1>2. sess[v].pc # "idle" => v # w
  BY <1>1 DEF AtItsPayment
<1>3. Holds(v) /\ RefundsByWebhook => sess[v].pc # "idle" /\ sess[v].job = "webhook"
  BY <1>1 DEF Holds, SettlesFresh, Settling, Confirming, RefundsByWebhook
<1> QED
  BY <1>1, <1>2, <1>3 DEF AtItsPayment

\* What no credit and no debit changes.
LEMMA QuietMoney ==
    ASSUME Funded, UNCHANGED <<payouts, balance, told, credited>>,
           \A t \in Topups : charge[t] # "none" => charge'[t] = charge[t]
    PROVE  /\ CreditsAddUp' /\ SpendsMore /\ \A v \in Workers : RefundsInOrder(v)'
           /\ \A u : Spent(u)' = Spent(u) /\ GivenBack(u)' = GivenBack(u)
           /\ \A t \in Topups : CreditsBut(t)' = CreditsBut(t) /\ CreditsBut(t) \in Nat
<1>1. /\ \A u : Credits(u)' = Credits(u) /\ Credits(u) \in Nat
      /\ \A t \in Topups : CreditsBut(t)' = CreditsBut(t) /\ CreditsBut(t) \in Nat
  BY NothingCredited
<1>2. txn' = txn /\ sess' = sess
  BY DEF payouts
<1>3. SpendsMore /\ \A u : Spent(u)' = Spent(u) /\ GivenBack(u)' = GivenBack(u)
  BY <1>2, NothingSpent DEF Funded
<1>4. CreditsAddUp'
  BY <1>1, <1>3, ApartStays DEF Funded, CreditsAddUp, CreditCountsOnce, NoCreditLost
<1>5. ASSUME NEW v \in Workers PROVE RefundsInOrder(v)'
  <2>1. Holds(v)' => HeldBefore(v)
    BY <1>2 DEF HeldBefore, Holds, Settling, Confirming, HasWallet
  <2>2. \A u \in Users : Credits(u)' \in Nat /\ Credits(u)' >= Credits(u)
    BY <1>1
  <2> QED
    BY <1>1, <1>3, <2>1, <2>2, RefundsStay
<1> QED
  BY <1>1, <1>3, <1>4, <1>5

\* The customer pays for a top-up that was started, or into an account.
LEMMA PayInOrder ==
    ASSUME Funded, NEW t \in Topups, Pay(t)
    PROVE  CreditsInOrder' /\ CreditsAddUp'
<1>1. /\ UNCHANGED <<payouts, balance, loop, credit, told, credited, fund>>
      /\ charge[t] = "none" /\ (credit[t] # "none" \/ t \in VATransfers)
      /\ \A q \in Topups : q # t => charge'[q] = charge[q]
  BY DEF Pay, Funded, Both, Side, FundingTypeOK
<1>2. /\ CreditsAddUp' /\ SpendsMore /\ \A v \in Workers : RefundsInOrder(v)'
      /\ \A q \in Topups : CreditsBut(q)' = CreditsBut(q) /\ CreditsBut(q) \in Nat
  BY <1>1, QuietMoney
<1>3. \A v \in Workers : AtItsPayment(v)'
  BY <1>1 DEF Funded, CreditsInOrder, AtItsPayment, payouts
<1>4. CreditsAreClosed'
  BY <1>1 DEF Funded, CreditsInOrder, CreditsAreClosed, Paid, Received
<1>5. ASSUME NEW v \in Workers PROVE InOrder(v)'
  <2>1. /\ Starts(v) => /\ fund[v].top \in Topups /\ fund[v].top # t
                        /\ credit[fund[v].top] = "none" /\ charge[fund[v].top] = "none"
                        /\ \A x \in Workers : x # v /\ Starts(x) => fund[x].top # fund[v].top
        /\ fund[v].pc # "idle" => fund[v].top \in Topups
    BY <1>1, AtFunding DEF InOrder, StartsOnce, Starts
  <2>2. Starts(v) =>
          /\ credit'[fund[v].top] = "none" /\ charge'[fund[v].top] = "none"
          /\ \A x \in Workers : x # v /\ Starts(x)' => fund'[x].top # fund[v].top
    BY <1>1, <2>1 DEF Starts
  <2>3. \A q \in Topups : /\ credit[q] \in Closed => credit'[q] \in Closed
                          /\ charge[q] # "none" => charge'[q] = charge[q]
                          /\ CreditsBut(q)' \in Nat /\ CreditsBut(q)' >= CreditsBut(q)
    BY <1>1, <1>2
  <2>4. fund[v].pc # "idle" => CreditsBut(fund[v].top)' = CreditsBut(fund[v].top)
    BY <1>1, <1>2, <2>1
  <2> QED
    BY <1>1, <1>2, <2>2, <2>3, <2>4, OthersInOrder
<1> QED
  BY <1>2, <1>3, <1>4, <1>5 DEF CreditsInOrder

\* A funding session's step that credits nothing: what is left to show is that
\* its own session stays in order.
LEMMA QuietInOrder ==
    ASSUME Funded, NEW w \in Workers, FundingJobs[w] # {},
           UNCHANGED <<payouts, balance, charge, told, credited>>,
           loop' = loop \/ loop \in {w, Nobody},
           \A v \in Workers : v # w => fund'[v] = fund[v],
           \A t \in Topups : credit[t] \in Closed => credit'[t] \in Closed,
           \A v \in Workers : v # w /\ Starts(v) =>
               /\ credit'[fund[v].top] = "none"
               /\ Starts(w)' => fund'[w].top # fund[v].top,
           CreditsAreClosed', InOrder(w)'
    PROVE  CreditsInOrder' /\ CreditsAddUp'
<1>1. /\ CreditsAddUp' /\ SpendsMore /\ \A v \in Workers : RefundsInOrder(v)'
      /\ \A q \in Topups : CreditsBut(q)' = CreditsBut(q) /\ CreditsBut(q) \in Nat
  BY QuietMoney
<1>2. \A v \in Workers : AtItsPayment(v)'
  BY FundingAside DEF payouts
<1>3. ASSUME NEW v \in Workers, v # w PROVE InOrder(v)'
  <2>1. fund'[v] = fund[v]
    BY <1>3
  <2>2. /\ fund[v].pc # "idle" => fund[v].top \in Topups
        /\ Starts(v) => /\ charge[fund[v].top] = "none"
                        /\ \A x \in Workers : x # v /\ Starts(x) => fund[x].top # fund[v].top
    BY AtFunding DEF InOrder, StartsOnce
  <2>3. Starts(v) =>
          /\ credit'[fund[v].top] = "none" /\ charge'[fund[v].top] = "none"
          /\ \A x \in Workers : x # v /\ Starts(x)' => fund'[x].top # fund[v].top
    BY <1>3, <2>2 DEF Starts
  <2>4. \A q \in Topups : /\ credit[q] \in Closed => credit'[q] \in Closed
                          /\ charge[q] # "none" => charge'[q] = charge[q]
                          /\ CreditsBut(q)' \in Nat /\ CreditsBut(q)' >= CreditsBut(q)
    BY <1>1
  <2>5. fund[v].pc # "idle" => CreditsBut(fund[v].top)' = CreditsBut(fund[v].top)
    BY <1>1, <2>1, <2>2
  <2>6. fund[v].pc \in Uninterrupted /\ loop = v => loop' = v
    BY <1>3
  <2> QED
    BY <1>1, <2>1, <2>3, <2>4, <2>5, <2>6, OthersInOrder
<1> QED
  BY <1>1, <1>2, <1>3 DEF CreditsInOrder

\* A session that ends leaves its top-up open, or refused for good.
LEMMA EndInOrder ==
    ASSUME Funded, NEW w \in Workers,
           UNCHANGED <<payouts, balance, charge, told, credited>>, End(w), fund[w].pc # "idle",
           \/ credit' = credit
           \/ Starts(w) /\ credit' = [credit EXCEPT ![fund[w].top] = "pending"]
           \/ fund[w].pc = "failing" /\ credit' = [credit EXCEPT ![fund[w].top] = "failed"]
    PROVE  CreditsInOrder' /\ CreditsAddUp'
<1> DEFINE t == fund[w].top
<1>1. /\ fund \in [Workers -> FundSession] /\ credited \in [Topups -> Nat]
      /\ credit \in [Topups -> {"none", "pending", "success", "failed"}]
  BY DEF Funded, Both, Side, FundingTypeOK
<1>2. /\ fund'[w] = NoFund /\ \A v \in Workers : v # w => fund'[v] = fund[v]
      /\ loop' = loop \/ loop = w
  BY <1>1 DEF End
<1>3. /\ fund[w] \in FundSession /\ InOrder(w) /\ FundingJobs[w] # {}
      /\ fund[w].pc # "idle" => t \in Topups
  BY AtFunding
<1>4. InOrder(w)' /\ ~Starts(w)'
  BY <1>2, EndedInOrder DEF Starts, NoFund
<1>5. Starts(w) => credit[t] = "none" /\ t \in Topups
  BY <1>3 DEF InOrder, StartsOnce, Starts
<1>6. fund[w].pc = "failing" => t \in Topups /\ Paid(t) /\ Received(t) # Asked[t]
  <2> SUFFICES ASSUME fund[w].pc = "failing"
               PROVE  t \in Topups /\ Paid(t) /\ Received(t) # Asked[t]
    OBVIOUS
  <2>1. fund[w].job \in Verifications
    BY <1>3 DEF InOrder, AtItsFunding, StepsOf, FundSession, FundingKinds, Verifications
  <2> QED
    BY <1>3, <2>1 DEF InOrder, KnowsCharge
<1>7. \A q \in Topups : /\ credit[q] \in Closed => credit'[q] \in Closed
                        /\ q # t => credit'[q] = credit[q]
  BY <1>1, <1>5, <1>6 DEF Closed
<1>8. ASSUME NEW v \in Workers, v # w, Starts(v) PROVE credit'[fund[v].top] = "none"
  <2>1. /\ fund[v].top \in Topups /\ credit[fund[v].top] = "none"
        /\ charge[fund[v].top] = "none" /\ (Starts(w) => fund[w].top # fund[v].top)
    BY <1>8, AtFunding DEF InOrder, StartsOnce, Starts
  <2>2. credit' # credit => fund[v].top # t
    BY <1>6, <2>1 DEF Paid
  <2> QED
    BY <1>7, <2>1, <2>2
<1>9. CreditsAreClosed'
  <2>1. \A q \in Topups :
          /\ credited'[q] = credited[q] /\ (Paid(q)' <=> Paid(q)) /\ Received(q)' = Received(q)
          /\ (q \in told' <=> q \in told) /\ charge'[q] = charge[q]
    BY DEF Paid, Received
  <2>2. CreditsAreClosed
    BY DEF Funded, CreditsInOrder
  <2>3. ASSUME NEW q \in Topups, q # t \/ credit' = credit
        PROVE  /\ credited'[q] > 0 =>
                    credit'[q] \in Closed /\ Paid(q)' /\ (q \in told' \/ Received(q)' = Asked[q])
               /\ credit'[q] = "failed" => Paid(q)' /\ Received(q)' # Asked[q]
               /\ charge'[q] # "none" => credit'[q] # "none" \/ q \in VATransfers
    BY <1>7, <2>1, <2>2, <2>3 DEF CreditsAreClosed
  <2>4. ASSUME credit' # credit, t \in Topups
        PROVE  /\ credited'[t] > 0 =>
                    credit'[t] \in Closed /\ Paid(t) /\ (t \in told \/ Received(t) = Asked[t])
               /\ credit'[t] = "failed" => Paid(t) /\ Received(t) # Asked[t]
               /\ charge[t] # "none" => credit'[t] # "none" \/ t \in VATransfers
    <3>1. CASE Starts(w) /\ credit'[t] = "pending"
      BY <1>5, <2>1, <2>2, <2>4, <3>1 DEF CreditsAreClosed, Closed
    <3>2. CASE fund[w].pc = "failing" /\ credit'[t] = "failed"
      BY <1>6, <2>1, <2>2, <2>4, <3>2 DEF CreditsAreClosed, Closed
    <3> QED
      BY <1>1, <2>4, <3>1, <3>2
  <2> HIDE DEF t
  <2> QED
    BY <2>1, <2>3, <2>4 DEF CreditsAreClosed
<1>10. loop' = loop \/ loop \in {w, Nobody}
  BY <1>2
<1> QED
  BY <1>2, <1>3, <1>4, <1>7, <1>8, <1>9, <1>10, QuietInOrder

-----------------------------------------------------------------------------
(* What a funding session does                                             *)

\* What a step of one session leaves as it was.
LEMMA SameRecord ==
    ASSUME Funded, UNCHANGED <<credit, charge, told, credited>>
    PROVE  CreditsAreClosed'
BY DEF Funded, CreditsInOrder, CreditsAreClosed, Paid, Received

\* A session that goes on to its next step.
LEMMA GoToInOrder ==
    ASSUME Funded, NEW w \in Workers,
           UNCHANGED <<payouts, balance, credit, charge, told, credited>>,
           fund[w].pc # "idle",
           NEW pc \in {"initializing", "asking", "paid", "mismatch", "crediting", "failing"},
           GoTo(w, pc), pc \in StepsOf(fund[w].job),
           (pc = "initializing") <=> Starts(w),
           loop' = loop \/ loop \in {w, Nobody},
           pc \in Uninterrupted => loop' = w,
           fund[w].pc = "authed" => credit[fund[w].top] \notin Closed,
           KnowsCharge(w)'
    PROVE  CreditsInOrder' /\ CreditsAddUp'
<1> DEFINE f == fund[w]  t == fund[w].top
<1>1. /\ f \in FundSession /\ InOrder(w) /\ t \in Topups /\ fund \in [Workers -> FundSession]
      /\ FundingJobs[w] # {}
  BY AtFunding DEF Funded, Both, Side, FundingTypeOK
<1>2. /\ fund'[w].job = f.job /\ fund'[w].top = t /\ fund'[w].balance = f.balance
      /\ fund'[w].pc = pc /\ \A v \in Workers : v # w => fund'[v] = fund[v]
  BY <1>1 DEF GoTo, FundSession
<1>3. /\ \A u : Spent(u)' = Spent(u) /\ GivenBack(u)' = GivenBack(u)
      /\ \A q \in Topups : CreditsBut(q)' = CreditsBut(q)
  BY QuietMoney
<1>4. Starts(w)' <=> Starts(w)
  BY <1>2 DEF Starts
<1>5. AtItsFunding(w)'
  BY <1>1, <1>2 DEF InOrder, AtItsFunding
<1>6. StartsOnce(w)'
  <2>1. \A v \in Workers : v # w => (Starts(v)' <=> Starts(v)) /\ fund'[v].top = fund[v].top
    BY <1>2 DEF Starts
  <2> QED
    BY <1>1, <1>2, <1>4, <2>1 DEF InOrder, StartsOnce
<1>7. ReadsBefore(w)'
  <2>1. MayCredit(fund[w])' => MayCredit(f)
    BY <1>1, <1>2, <1>4 DEF MayCredit, Starts, FundSession
  <2> HIDE DEF f
  <2>2. f.balance = fund[w].balance /\ f.top = t
    BY DEF f
  <2>3. MayCredit(fund[w])' =>
          f.balance <= Deposit[Payer[t]] + CreditsBut(t) + GivenBack(Payer[t])
    BY <1>1, <2>1, <2>2 DEF InOrder, ReadsBefore, AtMost, f
  <2>4. CreditsBut(fund[w].top)' = CreditsBut(t)
    BY <1>1, <1>2, <1>3
  <2>5. GivenBack(Payer[fund[w].top])' = GivenBack(Payer[t])
    BY <1>2, <1>3
  <2> QED
    BY <1>2, <2>2, <2>3, <2>4, <2>5 DEF ReadsBefore, AtMost
<1>8. ReadsAfter(w)'
  <2>1. CreditsBut(fund[w].top)' = CreditsBut(t)
    BY <1>1, <1>2, <1>3
  <2>2. Spent(Payer[fund[w].top])' = Spent(Payer[t])
    BY <1>2, <1>3
  <2>3. CreditsApart /\ RefundsByWebhook /\ ~Starts(w) =>
            f.balance >= Deposit[Payer[t]] + CreditsBut(t) - Spent(Payer[t])
    BY <1>1 DEF InOrder, ReadsAfter, AtLeast
  <2> QED
    BY <1>2, <1>4, <2>1, <2>2, <2>3, ApartStays DEF ReadsAfter, AtLeast
<1>9. ASSUME NEW v \in Workers, v # w, Starts(v)
      PROVE  /\ credit'[fund[v].top] = "none"
             /\ Starts(w)' => fund'[w].top # fund[v].top
  BY <1>2, <1>4, <1>9, AtFunding DEF InOrder, StartsOnce
<1>10. InOrder(w)'
  BY <1>5, <1>6, <1>7, <1>8 DEF InOrder
<1> QED
  BY <1>1, <1>2, <1>9, <1>10, SameRecord, QuietInOrder

\* A session that is opened reads a balance that has every credit so far, and
\* none of the top-up it may come to credit.
LEMMA OpenInOrder ==
    ASSUME Funded, NEW w \in Workers, NEW t \in Topups,
           UNCHANGED <<payouts, balance, credit, charge, told, credited>>,
           NEW job \in FundingJobs[w], NEW pc \in {"inserting", "authed", "asking", "crediting"},
           Open(w, job, pc, t), pc \in StepsOf(job),
           loop' = loop \/ loop \in {w, Nobody},
           pc \in Uninterrupted => loop' = w,
           pc = "crediting" => job = "charge" /\ Paid(t) /\ t \notin told /\ credit[t] # "success",
           pc = "asking" => credit[t] \notin Closed,
           pc = "inserting" =>
             /\ credit[t] = "none" /\ charge[t] = "none" /\ t \notin VATransfers
             /\ \A v \in Workers : fund[v].top # t
    PROVE  CreditsInOrder' /\ CreditsAddUp'
<1> DEFINE b == balance[Payer[t]]
<1>1. /\ fund \in [Workers -> FundSession] /\ credited \in [Topups -> Nat]
      /\ credit \in [Topups -> {"none", "pending", "success", "failed"}]
      /\ Payer[t] \in Users /\ b \in Int /\ Deposit[Payer[t]] \in Nat
  BY DEF Funded, Both, Side, FundingTypeOK, TypeOK
<1>2. /\ fund'[w].job = job /\ fund'[w].top = t /\ fund'[w].balance = b
      /\ fund'[w].pc = pc /\ \A v \in Workers : v # w => fund'[v] = fund[v]
  BY <1>1 DEF Open
<1>3. /\ \A u : Spent(u)' = Spent(u) /\ GivenBack(u)' = GivenBack(u)
      /\ \A q \in Topups : CreditsBut(q)' = CreditsBut(q)
  BY QuietMoney
<1>4. /\ Credits(Payer[t]) \in Nat /\ CreditsBut(t) \in Nat /\ Spent(Payer[t]) \in Nat
      /\ GivenBack(Payer[t]) \in Nat
      /\ Credits(Payer[t]) >= CreditsBut(t)
      /\ ~(credited[t] > 0) => Credits(Payer[t]) = CreditsBut(t)
  BY CreditsType, SpentType, ReceivedType DEF Funded
<1>5. b <= Deposit[Payer[t]] + Credits(Payer[t]) + GivenBack(Payer[t])
  BY <1>1 DEF Funded, CreditsAddUp, CreditCountsOnce
<1>6. AtItsFunding(w)'
  BY <1>2 DEF AtItsFunding
<1>7. KnowsCharge(w)'
  BY <1>2 DEF KnowsCharge, Paid, Verifications
<1>8. Starts(w)' <=> pc = "inserting"
  BY <1>2 DEF Starts
<1>9. StartsOnce(w)'
  BY <1>2, <1>8 DEF StartsOnce, Starts
<1>10. ReadsBefore(w)'
  <2> SUFFICES ASSUME MayCredit(fund[w])'
               PROVE  b <= Deposit[Payer[t]] + CreditsBut(t) + GivenBack(Payer[t])
    BY <1>2, <1>3 DEF ReadsBefore, AtMost
  <2>1. ~(credited[t] > 0)
    <3>1. credited[t] > 0 => /\ credit[t] \in Closed /\ Paid(t)
                             /\ (t \in told \/ Received(t) = Asked[t])
                             /\ (credit[t] = "failed" => Received(t) # Asked[t])
      BY DEF Funded, CreditsInOrder, CreditsAreClosed
    <3>2. pc \in {"authed", "asking", "crediting"} /\ (pc = "authed" => credit[t] \notin Closed)
      BY <1>2 DEF MayCredit
    <3> QED
      BY <3>1, <3>2 DEF Closed
  <2> QED
    BY <1>4, <1>5, <2>1
<1>11. ReadsAfter(w)'
  <2> SUFFICES ASSUME CreditsApart, RefundsByWebhook
               PROVE  b >= Deposit[Payer[t]] + CreditsBut(t) - Spent(Payer[t])
    BY <1>2, <1>3, ApartStays DEF ReadsAfter, AtLeast
  <2>1. b >= Deposit[Payer[t]] + Credits(Payer[t]) - Spent(Payer[t])
    BY <1>1 DEF Funded, CreditsAddUp, NoCreditLost
  <2> QED
    BY <1>1, <1>4, <2>1
<1>12. ASSUME NEW v \in Workers, v # w, Starts(v)
       PROVE  /\ credit'[fund[v].top] = "none"
              /\ Starts(w)' => fund'[w].top # fund[v].top
  BY <1>2, <1>8, <1>12, AtFunding DEF InOrder, StartsOnce
<1>13. InOrder(w)'
  BY <1>6, <1>7, <1>9, <1>10, <1>11 DEF InOrder
<1> QED
  BY <1>2, <1>12, <1>13, SameRecord, QuietInOrder

\* A credit counts its top-up, once, for its payer.
LEMMA CreditsMore ==
    ASSUME Funded, NEW w \in Workers, ApplyCredit(w), NEW t \in Topups, t = fund[w].top
    PROVE  /\ Credits(Payer[t])' = CreditsBut(t) + Received(t)
           /\ \A u : u # Payer[t] => Credits(u)' = Credits(u)
           /\ \A q \in Topups : /\ CreditsBut(q)' >= CreditsBut(q)
                                /\ q = t \/ Payer[q] # Payer[t] =>
                                     CreditsBut(q)' = CreditsBut(q)
<1> DEFINE D(u) == CreditedTo(u)
<1>0. IsFiniteSet(Topups) /\ credited \in [Topups -> Nat]
  BY DEF Funded, Both, Side, FundingTypeOK
<1>1. credited' = [credited EXCEPT ![t] = @ + 1] /\ Amounts' = Amounts
  BY DEF ApplyCredit, Amounts, Received
<1>2. \A u : /\ D(u) \in SUBSET Topups
             /\ u = Payer[t] => D(u)' = D(u) \cup {t}
             /\ u # Payer[t] => D(u)' = D(u)
  BY <1>0, <1>1 DEF CreditedTo
<1> HIDE DEF D
<1>3. /\ \A u : Credits(u) = Total(Amounts, D(u)) /\ Credits(u)' = Total(Amounts, D(u)')
      /\ \A q : /\ CreditsBut(q) = Total(Amounts, D(Payer[q]) \ {q})
                /\ CreditsBut(q)' = Total(Amounts, D(Payer[q])' \ {q})
  BY <1>0, <1>1, CreditsAsTotals DEF D
<1>4. Credits(Payer[t])' = CreditsBut(t) + Received(t)
  <2> DEFINE all == D(Payer[t]) \cup {t}  rest == D(Payer[t]) \ {t}
  <2>1. all \in SUBSET Topups /\ rest \in SUBSET Topups /\ t \in all /\ all \ {t} = rest
    BY <1>2
  <2> HIDE DEF all, rest
  <2>2. Total(Amounts, all) = Received(t) + Total(Amounts, rest) /\ Total(Amounts, rest) \in Nat
    BY <1>0, <2>1, AmountsType
  <2>3. Credits(Payer[t])' = Total(Amounts, all) /\ CreditsBut(t) = Total(Amounts, rest)
    BY <1>2, <1>3 DEF all, rest
  <2> QED
    BY <2>2, <2>3, ReceivedType
<1>5. \A u : u # Payer[t] => Credits(u)' = Credits(u)
  BY <1>2, <1>3
<1>6. ASSUME NEW q \in Topups, q = t \/ Payer[q] # Payer[t] PROVE CreditsBut(q)' = CreditsBut(q)
  <2>1. CreditsBut(q) = Total(Amounts, D(Payer[q]) \ {q})
    BY <1>3
  <2>2. CreditsBut(q)' = Total(Amounts, D(Payer[q])' \ {q})
    BY <1>3
  <2>3. CASE q = t
    <3>1. D(Payer[q])' = D(Payer[q]) \cup {q}
      BY <1>2, <2>3
    <3>2. D(Payer[q])' \ {q} = D(Payer[q]) \ {q}
      BY <3>1
    <3> QED
      BY <2>1, <2>2, <3>2
  <2>4. CASE Payer[q] # Payer[t]
    <3>1. D(Payer[q])' = D(Payer[q])
      BY <1>2, <2>4
    <3> QED
      BY <2>1, <2>2, <3>1
  <2> QED
    BY <1>6, <2>3, <2>4
<1>7. ASSUME NEW q \in Topups, q # t, Payer[q] = Payer[t] PROVE CreditsBut(q)' >= CreditsBut(q)
  <2> DEFINE u == Payer[q]  E == D(u) \ {q}  X == (D(u) \cup {t}) \ {q}
  <2>1. /\ CreditsBut(q) = Total(Amounts, E) /\ CreditsBut(q)' = Total(Amounts, X)
        /\ D(u) \in SUBSET Topups
    BY <1>2, <1>3, <1>7
  <2>2. /\ E \in SUBSET Topups /\ X \in SUBSET Topups
        /\ (t \in D(u) => X = E)
        /\ (t \notin D(u) => t \in X /\ X \ {t} = E)
    BY <1>7, <2>1
  <2> HIDE DEF E, X, u
  <2>3. Total(Amounts, E) \in Nat /\ Total(Amounts, X) \in Nat /\ Received(t) \in Nat
    BY <1>0, <2>2, AmountsType, ReceivedType
  <2>4. CASE t \in D(u)
    BY <2>1, <2>2, <2>3, <2>4
  <2>5. CASE t \notin D(u)
    <3>1. Total(Amounts, X) = Received(t) + Total(Amounts, E)
      BY <1>0, <2>2, <2>5, AmountsType
    <3> QED
      BY <2>1, <2>3, <3>1
  <2> QED
    BY <2>4, <2>5
<1>8. ASSUME NEW q \in Topups PROVE CreditsBut(q)' >= CreditsBut(q)
  <2>1. CreditsBut(q) \in Nat
    BY <1>0, CreditsType
  <2> QED
    BY <1>6, <1>7, <2>1
<1> QED
  BY <1>4, <1>5, <1>6, <1>8

\* The credit itself: the balance in hand was read before the top-up's first
\* credit and after every other credit of its payer.
LEMMA ApplyInOrder ==
    ASSUME Funded, NEW w \in Workers, ApplyCredit(w)
    PROVE  CreditsInOrder' /\ CreditsAddUp'
<1> DEFINE f == fund[w]
<1>1. /\ f \in FundSession /\ InOrder(w) /\ fund \in [Workers -> FundSession]
      /\ f.pc = "crediting" /\ f.top \in Topups
  BY AtFunding DEF ApplyCredit, Funded, Both, Side, FundingTypeOK
<1>2. PICK t \in Topups : t = fund[w].top
  BY <1>1
<1>3. /\ credit' = [credit EXCEPT ![t] = "success"]
      /\ credited' = [credited EXCEPT ![t] = @ + 1]
      /\ balance' = [balance EXCEPT ![Payer[t]] = f.balance + Received(t)]
      /\ told' = (IF f.job = "charge" THEN told \cup {t} ELSE told)
      /\ UNCHANGED <<payouts, charge>> /\ fund'[w] = NoFund
      /\ \A v \in Workers : v # w => fund'[v] = fund[v]
      /\ loop = w
  BY <1>1, <1>2 DEF ApplyCredit, End, InOrder, AtItsFunding, Uninterrupted
<1>4. /\ credit \in [Topups -> {"none", "pending", "success", "failed"}]
      /\ credited \in [Topups -> Nat] /\ balance \in [Users -> Int] /\ Payer[t] \in Users
      /\ \A u \in Users : Deposit[u] \in Nat
  BY DEF Funded, Both, Side, FundingTypeOK, TypeOK
<1>5. /\ Credits(Payer[t])' = CreditsBut(t) + Received(t)
      /\ \A u : u # Payer[t] => Credits(u)' = Credits(u)
      /\ \A q \in Topups : /\ CreditsBut(q)' >= CreditsBut(q)
                           /\ q = t \/ Payer[q] # Payer[t] =>
                                CreditsBut(q)' = CreditsBut(q)
  BY <1>2, CreditsMore
<1>6. \A q \in Topups : CreditsBut(q) \in Nat /\ CreditsBut(q)' \in Nat
  <2>1. \A q \in Topups : CreditsBut(q) \in Nat
    BY CreditsType DEF Funded
  <2>2. ASSUME NEW q \in Topups PROVE CreditsBut(q)' \in Nat
    <3> DEFINE D == CreditedTo(Payer[q])' \ {q}
    <3>1. D \in SUBSET Topups /\ CreditsBut(q)' = Total(Amounts', D)
      BY CreditsAsTotals DEF Funded, CreditedTo
    <3> HIDE DEF D
    <3>2. Amounts' = Amounts
      BY <1>3 DEF Amounts, Received
    <3>3. Total(Amounts, D) \in Nat
      BY <3>1, AmountsType DEF Funded
    <3> QED
      BY <3>1, <3>2, <3>3
  <2> QED
    BY <2>1, <2>2
<1>7. /\ SpendsMore /\ \A u : Spent(u)' = Spent(u) /\ GivenBack(u)' = GivenBack(u)
      /\ \A u : Spent(u) \in Nat /\ GivenBack(u) \in Nat /\ Credits(u) \in Nat
  <2>1. txn' = txn
    BY <1>3 DEF payouts
  <2> QED
    BY <2>1, NothingSpent, SpentType, CreditsNat DEF Funded
<1>8. /\ Paid(t) /\ f.job \in {"charge"} \cup Verifications
      /\ f.job \in Verifications => Received(t) = Asked[t]
  BY <1>1, <1>2 DEF InOrder, AtItsFunding, KnowsCharge, StepsOf, FundSession, FundingKinds,
     Verifications
<1>9. CreditsAreClosed'
  <2>1. \A q \in Topups : /\ (Paid(q)' <=> Paid(q)) /\ Received(q)' = Received(q)
                          /\ charge'[q] = charge[q]
                          /\ q # t => credit'[q] = credit[q] /\ credited'[q] = credited[q]
                          /\ q \in told => q \in told'
    BY <1>3, <1>4 DEF Paid, Received
  <2>2. credit'[t] = "success" /\ (t \in told' \/ Received(t) = Asked[t])
    BY <1>3, <1>4, <1>8 DEF Verifications
  <2>3. CreditsAreClosed
    BY DEF Funded, CreditsInOrder
  <2> QED
    BY <1>8, <2>1, <2>2, <2>3 DEF CreditsAreClosed, Closed
<1>10. ASSUME NEW v \in Workers, v # w PROVE InOrder(v)'
  <2>1. /\ fund[v].pc # "idle" => fund[v].top \in Topups
        /\ Starts(v) => /\ charge[fund[v].top] = "none" /\ credit[fund[v].top] = "none"
                        /\ \A x \in Workers : x # v /\ Starts(x) => fund[x].top # fund[v].top
        /\ InOrder(v) /\ fund[v] \in FundSession
    BY AtFunding DEF InOrder, StartsOnce
  <2>2. ~Starts(w)'
    BY <1>3 DEF Starts, NoFund
  <2>3. Starts(v) =>
          /\ credit'[fund[v].top] = "none" /\ charge'[fund[v].top] = "none"
          /\ \A x \in Workers : x # v /\ Starts(x)' => fund'[x].top # fund[v].top
    <3>1. Starts(v) => fund[v].top # t
      BY <1>8, <2>1 DEF Paid
    <3>2. \A x \in Workers : Starts(x)' => Starts(x) /\ fund'[x].top = fund[x].top
      BY <1>3, <2>2 DEF Starts
    <3> QED
      BY <1>3, <1>4, <2>1, <3>1, <3>2
  <2>4. \A q \in Topups : /\ credit[q] \in Closed => credit'[q] \in Closed
                          /\ charge[q] # "none" => charge'[q] = charge[q]
                          /\ CreditsBut(q)' \in Nat /\ CreditsBut(q)' >= CreditsBut(q)
    BY <1>3, <1>4, <1>5, <1>6 DEF Closed
  <2>5. ASSUME CreditsApart, fund[v].pc # "idle", ~Starts(v)
        PROVE  CreditsBut(fund[v].top)' = CreditsBut(fund[v].top)
    <3>1. CASE \A x \in Workers : FundingJobs[x] \cap Verifications = {}
      <4>1. fund[v].job = "charge"
        BY <2>1, <2>5, <3>1 DEF InOrder, AtItsFunding, StepsOf, Starts, FundSession, FundingKinds,
           Verifications
      <4>2. loop = v
        BY <2>1, <2>5, <4>1 DEF InOrder, AtItsFunding, StepsOf, Uninterrupted
      <4> QED
        BY <1>3, <1>10, <4>2
    <3>2. CASE \A s, q \in Topups : Payer[s] = Payer[q] => s = q
      <4>1. PICK q \in Topups : q = fund[v].top
        BY <2>1, <2>5
      <4>2. fund'[v] = fund[v] /\ (q = t \/ Payer[q] # Payer[t])
        BY <1>3, <1>10, <3>2
      <4>3. CreditsBut(q)' = CreditsBut(q)
        BY <1>5, <4>2
      <4> QED
        BY <4>1, <4>2, <4>3
    <3> QED
      BY <2>5, <3>1, <3>2 DEF CreditsApart
  <2>7. fund'[v] = fund[v] /\ (fund[v].pc \in Uninterrupted /\ loop = v => loop' = v)
    BY <1>3, <1>10
  <2> QED
    BY <1>7, <2>3, <2>4, <2>5, <2>7, OthersInOrder
<1>11. \A v \in Workers : AtItsPayment(v)' /\ InOrder(v)' /\ RefundsInOrder(v)'
  <2>1. InOrder(w)'
    BY <1>3, EndedInOrder
  <2>2. \A v \in Workers : /\ AtItsPayment(v)'
                           /\ Holds(v) /\ RefundsByWebhook => loop = v /\ v # w
    BY <1>1, <1>3, AtFunding, FundingAside DEF payouts
  <2>3. ASSUME NEW v \in Workers PROVE RefundsInOrder(v)'
    <3>1. Holds(v)' => HeldBefore(v) /\ Holds(v)
      BY <1>3 DEF HeldBefore, Holds, Settling, Confirming, HasWallet, payouts
    <3>2. ~(RefundsByWebhook /\ Holds(v))
      BY <1>3, <2>2
    <3>3. ASSUME NEW u \in Users PROVE Credits(u)' \in Nat /\ Credits(u)' >= Credits(u)
      <4>1. CASE u = Payer[t]
        <5>1. Credits(u) <= CreditsBut(t) + Received(t)
          BY <1>2, <4>1, CreditsType, ReceivedType DEF Funded
        <5> QED
          BY <1>5, <1>6, <1>7, <4>1, <5>1, ReceivedType
      <4>2. CASE u # Payer[t]
        BY <1>5, <1>7, <4>2
      <4> QED
        BY <4>1, <4>2
    <3> QED
      BY <1>7, <3>1, <3>2, <3>3, RefundsStay
  <2> QED
    BY <1>10, <2>1, <2>2, <2>3
<1>12. CreditsAddUp'
  <2> SUFFICES ASSUME NEW u \in Users
               PROVE  /\ balance'[u] <= Deposit[u] + Credits(u)' + GivenBack(u)'
                      /\ CreditsApart /\ RefundsByWebhook =>
                           balance'[u] >= Deposit[u] + Credits(u)' - Spent(u)'
    BY ApartStays DEF CreditsAddUp, CreditCountsOnce, NoCreditLost
  <2>1. CASE u # Payer[t]
    BY <1>3, <1>4, <1>5, <1>7, <2>1 DEF Funded, CreditsAddUp, CreditCountsOnce, NoCreditLost
  <2>2. CASE u = Payer[t]
    <3>1. balance'[u] = f.balance + Received(t) /\ f.balance \in Int /\ Received(t) \in Nat
      BY <1>1, <1>3, <1>4, <2>2, ReceivedType DEF FundSession
    <3>2. f.balance <= Deposit[u] + CreditsBut(t) + GivenBack(u)
      BY <1>1, <1>2, <2>2 DEF InOrder, ReadsBefore, MayCredit, AtMost
    <3>3. CreditsApart /\ RefundsByWebhook => f.balance >= Deposit[u] + CreditsBut(t) - Spent(u)
      BY <1>1, <1>2, <2>2 DEF InOrder, ReadsAfter, Starts, AtLeast
    <3> HIDE DEF f
    <3> QED
      BY <1>4, <1>5, <1>6, <1>7, <2>2, <3>1, <3>2, <3>3
  <2> QED
    BY <2>1, <2>2
<1> QED
  BY <1>9, <1>11, <1>12 DEF CreditsInOrder

\* start_topup.
LEMMA TopupInOrder ==
    ASSUME Funded, NEW w \in Workers,
           \/ \E t \in Topups : TopupRequest(w, t)
           \/ TopupInsert(w) \/ TopupStarted(w) \/ TopupRefused(w)
    PROVE  CreditsInOrder' /\ CreditsAddUp'
<1>1. ASSUME NEW t \in Topups, TopupRequest(w, t) PROVE CreditsInOrder' /\ CreditsAddUp'
  <2>1. charge[t] = "none"
    BY <1>1 DEF TopupRequest, Funded, CreditsInOrder, CreditsAreClosed
  <2>2. /\ Open(w, "topup", "inserting", t) /\ "topup" \in FundingJobs[w]
        /\ loop' = w /\ loop = Nobody
        /\ credit[t] = "none" /\ t \notin VATransfers
        /\ \A v \in Workers : fund[v].top # t
        /\ UNCHANGED <<payouts, balance, credit, charge, told, credited>>
    BY <1>1 DEF TopupRequest, MayOpen
  <2>3. "inserting" \in StepsOf("topup")
    BY DEF StepsOf
  <2> QED
    BY <2>1, <2>2, <2>3, OpenInOrder
<1>2. CASE TopupInsert(w)
  <2>1. /\ fund[w].pc = "inserting" /\ GoTo(w, "initializing")
        /\ loop' = Nobody
        /\ UNCHANGED <<payouts, balance, credit, charge, told, credited>>
    BY <1>2 DEF TopupInsert
  <2>2. /\ fund[w] \in FundSession /\ InOrder(w) /\ fund \in [Workers -> FundSession]
    BY AtFunding DEF Funded, Both, Side, FundingTypeOK
  <2>3. /\ "initializing" \in StepsOf(fund[w].job) /\ loop = w
        /\ fund[w].job \notin Verifications
    BY <2>1, <2>2 DEF InOrder, AtItsFunding, StepsOf, Uninterrupted, Verifications, FundSession,
       FundingKinds
  <2>4. KnowsCharge(w)'
    BY <2>1, <2>2, <2>3 DEF KnowsCharge, GoTo, FundSession
  <2>5. Starts(w) /\ "initializing" \notin Uninterrupted
    BY <2>1 DEF Starts, Uninterrupted
  <2> QED
    BY <2>1, <2>3, <2>4, <2>5, GoToInOrder
<1>3. CASE TopupStarted(w) \/ TopupRefused(w)
  BY <1>3, EndInOrder DEF TopupStarted, TopupRefused, Starts
<1> QED
  BY <1>1, <1>2, <1>3

\* The charge.success webhook and the user's verification, up to the credit.
LEMMA VerifyInOrder ==
    ASSUME Funded, NEW w \in Workers,
           \/ \E t \in Topups : ChargeRead(w, t) \/ VerifyRequest(w, t) \/ VerifyCommand(w, t)
           \/ VerifyLoad(w) \/ VerifyClosed(w) \/ VerifyAnswered(w) \/ VerifyNoAnswer(w)
           \/ VerifyResume(w) \/ VerifyRefused(w)
    PROVE  CreditsInOrder' /\ CreditsAddUp'
<1>0. /\ fund[w] \in FundSession /\ InOrder(w) /\ fund \in [Workers -> FundSession]
  BY AtFunding DEF Funded, Both, Side, FundingTypeOK
<1>1. ASSUME NEW t \in Topups, ChargeRead(w, t) PROVE CreditsInOrder' /\ CreditsAddUp'
  <2>1. /\ Open(w, "charge", "crediting", t) /\ "charge" \in FundingJobs[w]
        /\ loop' = w /\ loop = Nobody
        /\ Paid(t) /\ t \notin told /\ credit[t] # "success"
        /\ UNCHANGED <<payouts, balance, credit, charge, told, credited>>
    BY <1>1 DEF ChargeRead, MayOpen, Paid, Creditable
  <2>2. "crediting" \in StepsOf("charge")
    BY DEF StepsOf
  <2> QED
    BY <2>1, <2>2, OpenInOrder
<1>2. ASSUME NEW t \in Topups, VerifyRequest(w, t) PROVE CreditsInOrder' /\ CreditsAddUp'
  <2>1. /\ Open(w, "verify_api", "authed", t) /\ "verify_api" \in FundingJobs[w]
        /\ loop' = loop
        /\ UNCHANGED <<payouts, balance, credit, charge, told, credited>>
    BY <1>2 DEF VerifyRequest, MayOpen
  <2>2. "authed" \in StepsOf("verify_api") /\ "authed" \notin Uninterrupted
    BY DEF StepsOf, Uninterrupted
  <2> QED
    BY <2>1, <2>2, OpenInOrder
<1>3. ASSUME NEW t \in Topups, VerifyCommand(w, t) PROVE CreditsInOrder' /\ CreditsAddUp'
  <2>1. /\ Open(w, "verify_bot", "asking", t) /\ "verify_bot" \in FundingJobs[w]
        /\ loop' = loop /\ credit[t] \notin Closed
        /\ UNCHANGED <<payouts, balance, credit, charge, told, credited>>
    BY <1>3 DEF VerifyCommand, MayOpen, Closed
  <2>2. "asking" \in StepsOf("verify_bot") /\ "asking" \notin Uninterrupted
    BY DEF StepsOf, Uninterrupted
  <2> QED
    BY <2>1, <2>2, OpenInOrder
<1>4. CASE VerifyLoad(w)
  <2>1. /\ fund[w].pc = "authed" /\ credit[fund[w].top] \notin Closed
        /\ GoTo(w, "asking") /\ loop' = loop
        /\ UNCHANGED <<payouts, balance, credit, charge, told, credited>>
    BY <1>4 DEF VerifyLoad, Closed
  <2>2. "asking" \in StepsOf(fund[w].job) /\ ~Starts(w) /\ "asking" \notin Uninterrupted
    BY <1>0, <2>1 DEF InOrder, AtItsFunding, StepsOf, Starts, Uninterrupted
  <2>3. KnowsCharge(w)'
    BY <1>0, <2>1 DEF KnowsCharge, GoTo
  <2> QED
    BY <2>1, <2>2, <2>3, GoToInOrder
<1>5. CASE VerifyClosed(w) \/ VerifyNoAnswer(w) \/ VerifyRefused(w)
  BY <1>5, EndInOrder DEF VerifyClosed, VerifyNoAnswer, VerifyRefused
<1>6. CASE VerifyAnswered(w)
  <2> DEFINE pc == IF Received(fund[w].top) = Asked[fund[w].top] THEN "paid" ELSE "mismatch"
  <2>1. /\ fund[w].pc = "asking" /\ Paid(fund[w].top)
        /\ GoTo(w, pc) /\ loop' = loop
        /\ UNCHANGED <<payouts, balance, credit, charge, told, credited>>
    BY <1>6 DEF VerifyAnswered, Settled, Paid
  <2>2. pc \in StepsOf(fund[w].job) /\ ~Starts(w) /\ pc \notin Uninterrupted
    BY <1>0, <2>1 DEF InOrder, AtItsFunding, StepsOf, Starts, Uninterrupted
  <2>3. fund'[w] = [fund[w] EXCEPT !.pc = pc]
    BY <1>0, <2>1 DEF GoTo
  <2>4. fund'[w].pc = pc /\ fund'[w].top = fund[w].top
    BY <1>0, <2>3 DEF FundSession
  <2>5. KnowsCharge(w)'
    BY <2>1, <2>4 DEF KnowsCharge, Paid, Received
  <2> QED
    BY <2>1, <2>2, <2>5, GoToInOrder
<1>7. CASE VerifyResume(w)
  <2> DEFINE pc == IF fund[w].pc = "paid" THEN "crediting" ELSE "failing"
  <2>1. /\ fund[w].pc \in {"paid", "mismatch"} /\ loop = Nobody
        /\ GoTo(w, pc) /\ loop' = w
        /\ UNCHANGED <<payouts, balance, credit, charge, told, credited>>
    BY <1>7 DEF VerifyResume
  <2>2. pc \in StepsOf(fund[w].job) /\ ~Starts(w)
    BY <1>0, <2>1 DEF InOrder, AtItsFunding, StepsOf, Starts
  <2>3. fund'[w] = [fund[w] EXCEPT !.pc = pc]
    BY <1>0, <2>1 DEF GoTo
  <2>4. fund'[w].pc = pc /\ fund'[w].top = fund[w].top /\ fund'[w].job = fund[w].job
    BY <1>0, <2>3 DEF FundSession
  <2>5. KnowsCharge(w)'
    BY <1>0, <2>1, <2>4 DEF InOrder, KnowsCharge, Paid, Received
  <2> QED
    BY <2>1, <2>2, <2>5, GoToInOrder
<1> QED
  BY <1>1, <1>2, <1>3, <1>4, <1>5, <1>6, <1>7

\* Every step of the wallet.
LEMMA WalletInOrder ==
    Funded /\ [WalletNext]_walletVars => OneByOne' /\ CreditsInOrder' /\ CreditsAddUp'
<1> SUFFICES ASSUME Funded, [WalletNext]_walletVars
             PROVE  OneByOne' /\ CreditsInOrder' /\ CreditsAddUp'
  OBVIOUS
<1>1. OneByOne'
  BY OnBeside
<1>2. ASSUME NEW w \in Workers, FundingStep(w) PROVE CreditsInOrder' /\ CreditsAddUp'
  BY <1>2, TopupInOrder, VerifyInOrder, ApplyInOrder DEF FundingStep
<1>3. ASSUME NEW t \in Topups, Pay(t) PROVE CreditsInOrder' /\ CreditsAddUp'
  BY <1>3, PayInOrder
<1> QED
  BY <1>1, <1>2, <1>3, PayoutsInOrder DEF WalletNext

\* Nothing is credited, charged or given back at the start.
LEMMA WalletInitInOrder ==
    OneConfirmer /\ IsFiniteSet(Refs) /\ IsFiniteSet(Topups) /\ WalletInit => Funded
<1> SUFFICES ASSUME OneConfirmer, IsFiniteSet(Refs), IsFiniteSet(Topups), WalletInit
             PROVE  Funded
  OBVIOUS
<1>1. Both /\ LockInv
  BY WalletInitKeeps
<1>2. OneByOne
  BY InitOn DEF WalletInit
<1>3. /\ fund = [v \in Workers |-> NoFund] /\ credited = [t \in Topups |-> 0]
      /\ credit = [t \in Topups |-> "none"] /\ charge = [t \in Topups |-> "none"]
      /\ \A u \in Users : balance[u] = Deposit[u]
      /\ \A v \in Workers : sess[v].pc = "idle"
  BY IdleType DEF WalletInit, FundingInit, Init
<1>4. CreditsInOrder
  BY <1>3 DEF CreditsInOrder, CreditsAreClosed, AtItsPayment, InOrder, AtItsFunding, KnowsCharge,
     StartsOnce, Starts, ReadsBefore, MayCredit, ReadsAfter, NoFund, Verifications,
     RefundsInOrder, Settling, Confirming
<1>5. CreditsAddUp
  <2> SUFFICES ASSUME NEW u \in Users
               PROVE  /\ balance[u] <= Deposit[u] + Credits(u) + GivenBack(u)
                      /\ balance[u] >= Deposit[u] + Credits(u) - Spent(u)
    BY DEF CreditsAddUp, CreditCountsOnce, NoCreditLost
  <2>1. CreditedTo(u) = {}
    BY <1>3 DEF CreditedTo
  <2>2. Credits(u) = Total(Amounts, CreditedTo(u)) /\ Total(Amounts, {}) = 0
    BY CreditsAsTotals, TotalEmpty
  <2>3. Spent(u) \in Nat /\ GivenBack(u) \in Nat /\ Deposit[u] \in Nat
    BY SpentType
  <2> QED
    BY <1>3, <2>1, <2>2, <2>3
<1> QED
  BY <1>1, <1>2, <1>4, <1>5 DEF Funded

\* All of it, together an invariant.
LEMMA CreditsOrdered ==
    OneConfirmer /\ IsFiniteSet(Refs) /\ IsFiniteSet(Topups) /\ WalletSpec => []Funded
<1>1. Funded /\ Both' /\ LockInv' /\ OneByOne' /\ CreditsInOrder' /\ CreditsAddUp' => Funded'
  BY JobsStay DEF Funded
<1>2. (/\ Both /\ LockInv /\ RemoteInv /\ ChargedMeansAccepted /\ PaidMeansTransferred)
      => Both /\ LockInv
  OBVIOUS
<1> QED
  BY <1>1, <1>2, WalletInitInOrder, WalletInOrder, WalletInformed, PTL DEF WalletSpec

\* However many sessions pay and credit, while one at a time confirms (the
\* webhook, reconciliation or an OTP) and nobody pays by hand: attempts to pay
\* a bill come one by one, a session has read the balance before the credit it
\* is to write, a refund is added to no balance that is too high, and a top-up
\* that was credited is closed.
THEOREM WalletStaysInOrder ==
    OneConfirmer /\ IsFiniteSet(Refs) /\ IsFiniteSet(Topups) /\ WalletSpec => []WalletInv
<1>1. Funded => WalletInv
  BY DEF Funded, WalletInv
<1> QED
  BY <1>1, CreditsOrdered, PTL

\* However often the webhook and the two verifications credit a top-up, and
\* whatever is paid and refunded meanwhile, with several top-ups and bills of
\* a user: the wallet has no amount twice, and no money besides what was paid
\* in and what was given back.
THEOREM CreditsCountOnce ==
    OneConfirmer /\ IsFiniteSet(Refs) /\ IsFiniteSet(Topups) /\ WalletSpec => []CreditCountsOnce
<1>1. Funded => CreditCountsOnce
  BY DEF Funded, CreditsAddUp
<1> QED
  BY <1>1, CreditsOrdered, PTL

\* A payout's debit takes its charge from the wallet on record and nothing
\* else: execute_payout writes back a balance it has read, but not one that a
\* top-up, a deposit or a refund has changed since, however many there are.
THEOREM DebitsTakeTheirCharge ==
    OneConfirmer /\ IsFiniteSet(Refs) /\ IsFiniteSet(Topups) /\ WalletSpec =>
      [][\A w \in Workers : CommitDebit(w) =>
           balance' = [balance EXCEPT ![Owner[sess[w].bill]] = @ - Charge(sess[w].bill)]]_walletVars
<1> DEFINE Takes == \A w \in Workers : CommitDebit(w) =>
             balance' = [balance EXCEPT ![Owner[sess[w].bill]] = @ - Charge(sess[w].bill)]
<1>1. Funded => Takes
  <2> SUFFICES ASSUME Funded, NEW w \in Workers, CommitDebit(w)
               PROVE  balance' = [balance EXCEPT ![Owner[sess[w].bill]] = @ - Charge(sess[w].bill)]
    OBVIOUS
  <2>1. Orderly /\ Paying(w)
    BY FundedOrderly DEF CommitDebit, Paying, Holding
  <2>2. sess[w].bill = BillOf[sess[w].ref]
    BY <2>1, AtWork
  <2> QED
    BY <2>1, <2>2, DebitBooks
<1> QED
  BY <1>1, CreditsOrdered, PTL

\* No credit is written over, neither by a debit nor by the webhook's refunds
\* nor by a credit of the same top-up: where a user is credited for one top-up,
\* or credited by the webhook alone, and only the webhook confirms.
THEOREM NoCreditIsLost ==
    OneConfirmer /\ CreditsApart /\ RefundsByWebhook /\ IsFiniteSet(Refs)
    /\ IsFiniteSet(Topups) /\ WalletSpec => []NoCreditLost
<1>1. CreditsApart /\ RefundsByWebhook /\ Funded => NoCreditLost
  BY DEF Funded, CreditsAddUp
<1>2. CreditsApart /\ RefundsByWebhook => (CreditsApart /\ RefundsByWebhook)'
  BY ApartStays
<1> QED
  BY <1>1, <1>2, CreditsOrdered, PTL DEF WalletSpec
=============================================================================
