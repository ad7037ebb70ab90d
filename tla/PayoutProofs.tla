----------------------------- MODULE PayoutProofs -----------------------------
(***************************************************************************)
(* Safety of Payout for every number of users, bills, references and       *)
(* sessions, every set of jobs and every set of faults.                    *)
(***************************************************************************)
EXTENDS PayoutInvariant, FiniteSetTheorems, TLAPS

-----------------------------------------------------------------------------
(* Sums over a finite set                                                  *)

\* A member of a set, the sums of the weights v over the subsets of S, and the
\* sum over S itself.
Pick(s) == CHOOSE x \in s : TRUE
Summed(f, v, S) ==
    f = [s \in SUBSET S |-> IF s = {} THEN 0 ELSE v[Pick(s)] + f[s \ {Pick(s)}]]
Total(v, S) == (CHOOSE f : Summed(f, v, S))[S]

\* A set that is not empty has a member that Pick takes.
LEMMA PickType == \A s : s # {} => Pick(s) \in s
BY DEF Pick

\* Among subsets of a finite set there is a least one, if there is any.
LEMMA LeastSubset ==
    ASSUME NEW S, IsFiniteSet(S), NEW B, B \subseteq SUBSET S, B # {}
    PROVE  \E s \in B : \A t \in B : ~(t \subseteq s /\ t # s)
<1>1. IsWellFoundedOn(StrictSubsetOrdering(S), SUBSET S)
  BY FS_StrictSubsetOrderingWellFounded, FS_FiniteSubsetsOfFinite
<1>2. PICK s \in B : \A t \in B : <<t, s>> \notin StrictSubsetOrdering(S)
  BY <1>1, WFMin
<1>3. ASSUME NEW t \in B, t \subseteq s, t # s PROVE FALSE
  <2>1. <<t, s>> \in (SUBSET S) \X (SUBSET S)
    BY <1>2
  <2>2. <<t, s>> \in StrictSubsetOrdering(S)
    BY <1>3, <2>1 DEF StrictSubsetOrdering
  <2> QED
    BY <1>2, <2>2
<1> QED
  BY <1>3

\* What Summed says of each subset.
LEMMA SummedAt ==
    ASSUME NEW f, NEW v, NEW S, Summed(f, v, S), NEW s \in SUBSET S
    PROVE  /\ s = {} => f[s] = 0
           /\ s # {} => /\ f[s] = v[Pick(s)] + f[s \ {Pick(s)}]
                        /\ Pick(s) \in s /\ s \ {Pick(s)} \in SUBSET S
BY PickType DEF Summed

\* Sums over the subsets of two finite sets agree where they meet.
LEMMA SummedUnique ==
    ASSUME NEW v, NEW f, NEW S, Summed(f, v, S), NEW g, NEW T, Summed(g, v, T),
           IsFiniteSet(S), NEW x \in SUBSET S, x \in SUBSET T
    PROVE  f[x] = g[x]
<1> DEFINE B == {s \in SUBSET S : s \in SUBSET T /\ f[s] # g[s]}
<1> SUFFICES ASSUME B # {} PROVE FALSE
  OBVIOUS
<1>1. PICK s \in B : \A t \in B : ~(t \subseteq s /\ t # s)
  <2>1. B \subseteq SUBSET S
    OBVIOUS
  <2> HIDE DEF B
  <2> QED
    BY <2>1, LeastSubset
<1>2. s # {}
  BY SummedAt
<1>3. /\ f[s] = v[Pick(s)] + f[s \ {Pick(s)}] /\ g[s] = v[Pick(s)] + g[s \ {Pick(s)}]
      /\ Pick(s) \in s
  BY <1>2, SummedAt
<1>4. s \ {Pick(s)} \notin B
  BY <1>1, <1>3
<1>5. f[s \ {Pick(s)}] = g[s \ {Pick(s)}]
  BY <1>4
<1> QED
  BY <1>3, <1>5

\* They exist.
LEMMA SummedExists ==
    ASSUME NEW S, IsFiniteSet(S), NEW v
    PROVE  \E f : Summed(f, v, S)
<1> DEFINE B == {s \in SUBSET S : ~\E f : Summed(f, v, s)}
<1> SUFFICES ASSUME B # {} PROVE FALSE
  OBVIOUS
<1>1. PICK s \in B : \A t \in B : ~(t \subseteq s /\ t # s)
  <2>1. B \subseteq SUBSET S
    OBVIOUS
  <2> HIDE DEF B
  <2> QED
    BY <2>1, LeastSubset
<1> DEFINE Of(t) == (CHOOSE f : Summed(f, v, t))[t]
           g == [t \in SUBSET s |-> IF t = {} THEN 0 ELSE v[Pick(t)] + Of(t \ {Pick(t)})]
<1>2. ASSUME NEW t \in SUBSET s, t # s
      PROVE  Summed(CHOOSE f : Summed(f, v, t), v, t)
  BY <1>1, <1>2
<1>3. ASSUME NEW t \in SUBSET s, t # s PROVE Of(t) = g[t]
  <2> DEFINE h == CHOOSE f : Summed(f, v, t)
  <2>1. Summed(h, v, t)
    BY <1>2, <1>3
  <2> HIDE DEF h
  <2>2. CASE t = {}
    <3>1. h[t] = 0
      BY <2>1, <2>2, SummedAt
    <3> QED
      BY <2>2, <3>1 DEF h
  <2>3. CASE t # {}
    <3> DEFINE p == Pick(t)  rest == t \ {p}
    <3>1. h[t] = v[p] + h[rest] /\ p \in t
      BY <2>1, <2>3, SummedAt
    <3> HIDE DEF p
    <3>2. rest \in SUBSET s /\ rest # s /\ IsFiniteSet(t)
      BY <1>1, <3>1, FS_Subset
    <3> DEFINE k == CHOOSE f : Summed(f, v, rest)
    <3>3. Summed(k, v, rest)
      BY <1>2, <3>2
    <3> HIDE DEF k
    <3>4. h[rest] = k[rest]
      BY <2>1, <3>2, <3>3, SummedUnique
    <3>5. g[t] = v[p] + k[rest]
      BY <2>3 DEF k, p
    <3> QED
      BY <3>1, <3>4, <3>5 DEF h
  <2> QED
    BY <2>2, <2>3
<1>4. g = [t \in SUBSET s |-> IF t = {} THEN 0 ELSE v[Pick(t)] + g[t \ {Pick(t)}]]
  <2>1. ASSUME NEW t \in SUBSET s, t # {}
        PROVE  g[t \ {Pick(t)}] = Of(t \ {Pick(t)})
    <3>1. Pick(t) \in t
      BY <2>1, PickType
    <3> DEFINE rest == t \ {Pick(t)}
    <3>2. rest \in SUBSET s /\ rest # s
      BY <3>1
    <3> HIDE DEF rest, g, Of
    <3>3. g[rest] = Of(rest)
      BY <1>3, <3>2
    <3> QED
      BY <3>3 DEF rest
  <2> HIDE DEF Of
  <2> QED
    BY <2>1
<1>5. Summed(g, v, s)
  <2> HIDE DEF g
  <2> QED
    BY <1>4 DEF Summed
<1> QED
  BY <1>1, <1>5

\* The sum over a set is the same in every family of sums it belongs to.
LEMMA TotalSummed ==
    ASSUME NEW S, IsFiniteSet(S), NEW v, NEW f, Summed(f, v, S), NEW s \in SUBSET S
    PROVE  f[s] = Total(v, s)
<1> DEFINE g == CHOOSE h : Summed(h, v, s)
<1>1. IsFiniteSet(s)
  BY FS_Subset
<1>2. Summed(g, v, s)
  BY <1>1, SummedExists
<1> HIDE DEF g
<1>3. f[s] = g[s]
  BY <1>2, SummedUnique
<1> QED
  BY <1>3 DEF Total, g

\* The total of nothing.
LEMMA TotalEmpty == \A v : Total(v, {}) = 0
<1> TAKE v
<1>1. IsFiniteSet({})
  BY FS_EmptySet
<1>2. PICK f : Summed(f, v, {})
  BY <1>1, SummedExists
<1>3. f[{}] = 0
  BY <1>2, SummedAt
<1> QED
  BY <1>1, <1>2, <1>3, TotalSummed

\* The total of a set whose picked member is counted apart.
LEMMA TotalPicked ==
    ASSUME NEW S, IsFiniteSet(S), S # {}, NEW v
    PROVE  Total(v, S) = v[Pick(S)] + Total(v, S \ {Pick(S)}) /\ Pick(S) \in S
<1>1. PICK f : Summed(f, v, S)
  BY SummedExists
<1>2. f[S] = v[Pick(S)] + f[S \ {Pick(S)}] /\ Pick(S) \in S
  BY <1>1, SummedAt
<1>3. f[S] = Total(v, S)
  BY <1>1, TotalSummed
<1> DEFINE rest == S \ {Pick(S)}
<1>4. rest \in SUBSET S
  OBVIOUS
<1> HIDE DEF rest
<1>5. f[rest] = Total(v, rest)
  BY <1>1, <1>4, TotalSummed
<1> QED
  BY <1>2, <1>3, <1>5 DEF rest

\* A total of natural numbers is one.
LEMMA TotalType ==
    ASSUME NEW S, IsFiniteSet(S), NEW v, \A x \in S : v[x] \in Nat
    PROVE  Total(v, S) \in Nat
<1> DEFINE B == {s \in SUBSET S : Total(v, s) \notin Nat}
<1> SUFFICES ASSUME B # {} PROVE FALSE
  OBVIOUS
<1>1. PICK s \in B : \A t \in B : ~(t \subseteq s /\ t # s)
  <2>1. B \subseteq SUBSET S
    OBVIOUS
  <2> HIDE DEF B
  <2> QED
    BY <2>1, LeastSubset
<1>2. s # {}
  <2>1. Total(v, s) \notin Nat
    OBVIOUS
  <2>2. Total(v, {}) = 0
    BY TotalEmpty
  <2> HIDE DEF B
  <2> QED
    BY <2>1, <2>2
<1>9. s \in SUBSET S /\ IsFiniteSet(s)
  BY <1>1, FS_Subset
<1> DEFINE p == Pick(s)  rest == s \ {p}
<1>3. Total(v, s) = v[p] + Total(v, rest) /\ p \in s
  BY <1>2, <1>9, TotalPicked
<1>4. rest \in SUBSET S /\ rest \subseteq s /\ rest # s /\ v[p] \in Nat
  BY <1>1, <1>3
<1> HIDE DEF p, rest
<1>5. Total(v, rest) \in Nat
  BY <1>1, <1>4
<1> QED
  BY <1>1, <1>3, <1>4, <1>5

\* The total of a set is that of any member and of the others.
LEMMA TotalWithout ==
    ASSUME NEW S, IsFiniteSet(S), NEW v, \A y \in S : v[y] \in Nat, NEW x \in S
    PROVE  Total(v, S) = v[x] + Total(v, S \ {x})
<1> DEFINE B == {s \in SUBSET S : \E y \in s : Total(v, s) # v[y] + Total(v, s \ {y})}
<1> SUFFICES ASSUME B # {} PROVE FALSE
  OBVIOUS
<1>1. PICK s \in B : \A t \in B : ~(t \subseteq s /\ t # s)
  <2>1. B \subseteq SUBSET S
    OBVIOUS
  <2> HIDE DEF B
  <2> QED
    BY <2>1, LeastSubset
<1>2. PICK y \in s : Total(v, s) # v[y] + Total(v, s \ {y})
  BY <1>1
<1> DEFINE p == Pick(s)  t == s \ {p}  u == s \ {y}  rest == s \ {p, y}
<1>3. s \in SUBSET S /\ IsFiniteSet(s)
  BY <1>1, FS_Subset
<1>4. Total(v, s) = v[p] + Total(v, t) /\ p \in s
  BY <1>2, <1>3, TotalPicked
<1>5. p # y
  BY <1>2, <1>4
<1>6. \A z \in SUBSET S : z \subseteq s /\ z # s =>
        \A q \in z : Total(v, z) = v[q] + Total(v, z \ {q})
  BY <1>1
<1>7. /\ t \in SUBSET S /\ t \subseteq s /\ t # s /\ y \in t
      /\ u \in SUBSET S /\ u \subseteq s /\ u # s /\ p \in u
      /\ t \ {y} = rest /\ u \ {p} = rest /\ rest \in SUBSET S
  BY <1>2, <1>3, <1>4, <1>5
<1>8. IsFiniteSet(rest)
  BY <1>7, FS_Subset
<1>9. Total(v, rest) \in Nat /\ v[p] \in Nat /\ v[y] \in Nat
  <2>1. \A q \in rest : v[q] \in Nat
    BY <1>7
  <2> HIDE DEF rest
  <2>2. Total(v, rest) \in Nat
    BY <1>8, <2>1, TotalType
  <2> QED
    BY <1>2, <1>3, <1>4, <2>2
<1> HIDE DEF p, t, u, rest, B
<1>10. Total(v, t) = v[y] + Total(v, rest) /\ Total(v, u) = v[p] + Total(v, rest)
  BY <1>6, <1>7
<1> QED
  BY <1>2, <1>4, <1>9, <1>10 DEF u

-----------------------------------------------------------------------------
(* The assumptions on the constants, used from here on                     *)

USE RowsAssumption, MoneyAssumption, NullAssumption, JobsAssumption

-----------------------------------------------------------------------------
(* Lemmas about the operators sessions are built from                      *)

\* A charge is a positive amount, and what a failure gives back.
LEMMA ChargeType == \A b \in Bills : Charge(b) \in Nat /\ Refund(b) = Charge(b)
BY DEF Charge, Refund

\* The closed session is a session about nothing.
LEMMA IdleType == Idle \in Session /\ KnowsRows(Idle) /\ Covered(Idle) /\ Idle.pc = "idle"
BY DEF Idle, NewSession, Session, PCs, JobKinds, EventKinds, BillStatus, KnowsRows, Covered

\* A new session is about what it is opened for.
LEMMA NewType ==
    ASSUME NEW b \in Bills \cup {NoBill}, NEW r \in Refs \cup {NoRef},
           NEW job \in JobKinds, NEW pc \in PCs
    PROVE  LET s == NewSession(job, pc, b, r) IN
           /\ s \in Session
           /\ s.pc = pc /\ s.job = job /\ s.ref = r /\ s.bill = b
           /\ s.outcome = "none" /\ s.balance = 0
<1>1. "pending" \in BillStatus
  BY DEF BillStatus
<1> QED
  BY <1>1 DEF NewSession, Session

\* A new session names a reference and the bill of that reference.
LEMMA OpenedType ==
    ASSUME NEW r \in Refs, NEW job \in JobKinds, NEW pc \in PCs
    PROVE  /\ Opened(job, pc, r) \in Session
           /\ Opened(job, pc, r).pc = pc /\ Opened(job, pc, r).job = job
           /\ Opened(job, pc, r).ref = r /\ Opened(job, pc, r).bill = BillOf[r]
           /\ Opened(job, pc, r).outcome = "none" /\ Opened(job, pc, r).balance = 0
BY NewType DEF Opened

\* A session that moves changes nothing but its pc.
LEMMA MovedType ==
    ASSUME NEW s \in Session, NEW pc \in PCs
    PROVE  /\ [s EXCEPT !.pc = pc] \in Session
           /\ [s EXCEPT !.pc = pc].pc = pc /\ [s EXCEPT !.pc = pc].job = s.job
           /\ [s EXCEPT !.pc = pc].ref = s.ref /\ [s EXCEPT !.pc = pc].bill = s.bill
           /\ [s EXCEPT !.pc = pc].outcome = s.outcome
           /\ [s EXCEPT !.pc = pc].balance = s.balance
BY DEF Session

\* The next status after a failure, and the bill's row after a change.
LEMMA RetryType == \A n \in Nat : RetryStatus(n) \in BillStatus \ {"paid"}
BY DEF RetryStatus, BillStatus

\* A row of bills with a changed status or retry count is one.
LEMMA BillRowType ==
    /\ \A st \in BillStatus, n \in Nat : [status |-> st, retry |-> n] \in BillRow
    /\ \A row \in BillRow, st \in BillStatus : [row EXCEPT !.status = st] \in BillRow
BY DEF BillRow

\* A row of transactions with a changed status is one.
LEMMA TxnRowType ==
    \A row \in TxnRow, st \in {"processing", "success", "failed"} :
        [row EXCEPT !.status = st] \in TxnRow
BY DEF TxnRow

\* A step of one session leaves the others alone.
LEMMA OneChanges ==
    ASSUME NEW w \in Workers, NEW s \in Session, sess \in [Workers -> Session], Become(w, s)
    PROVE  /\ sess' \in [Workers -> Session] /\ sess'[w] = s
           /\ \A v \in Workers : v # w => sess'[v] = sess[v]
BY DEF Become

\* ... and what is known of each session stays known if it is of this one.
LEMMA SessionStep ==
    ASSUME NEW w \in Workers, NEW s \in Session, TypeOK, SessionInv, Become(w, s),
           KnowsRows(s), Covered(s)
    PROVE  sess' \in [Workers -> Session] /\ SessionInv'
<1>1. sess \in [Workers -> Session]
  BY DEF TypeOK
<1>2. /\ sess' \in [Workers -> Session] /\ sess'[w] = s
      /\ \A v \in Workers : v # w => sess'[v] = sess[v]
  BY <1>1, OneChanges
<1>3. ASSUME NEW v \in Workers PROVE KnowsRows(sess'[v]) /\ Covered(sess'[v])
  BY <1>2 DEF SessionInv
<1> QED
  BY <1>2, <1>3 DEF SessionInv, KnowsRows, Covered, Charge

\* Closing a session keeps the types.
LEMMA CloseType ==
    ASSUME NEW w \in Workers, TypeOK, SessionInv, Close(w)
    PROVE  /\ sess' \in [Workers -> Session] /\ SessionInv'
           /\ lock' \in [Rows -> Workers \cup {Nobody}]
           /\ loop' \in Workers \cup {Nobody}
<1>1. sess' \in [Workers -> Session] /\ SessionInv'
  BY IdleType, SessionStep DEF Close
<1>2. lock' \in [Rows -> Workers \cup {Nobody}] /\ loop' \in Workers \cup {Nobody}
  BY DEF Close, Await, TypeOK
<1> QED
  BY <1>1, <1>2

-----------------------------------------------------------------------------
(* Types, and what a session knows                                         *)

\* The initial state has no open session and no negative balance.
LEMMA InitTyped == Init => TypeOK /\ NonNegativeBalance /\ SessionInv
<1> SUFFICES ASSUME Init PROVE TypeOK /\ NonNegativeBalance /\ SessionInv
  OBVIOUS
<1>1. TypeOK
  BY IdleType DEF Init, TypeOK, BillRow, BillStatus, TxnRow, NoTxn, RemoteStatus
<1>2. SessionInv
  BY IdleType DEF Init, SessionInv
<1>3. NonNegativeBalance
  BY DEF Init, NonNegativeBalance
<1> QED
  BY <1>1, <1>2, <1>3

\* The steps of a payment, from the request to the commit.
LEMMA PayTyped ==
    ASSUME TypeOK, NonNegativeBalance, SessionInv, NEW w \in Workers, PayStep(w)
    PROVE  TypeOK' /\ SessionInv'
<1> USE DEF TypeOK, tables
<1>s. sess[w] \in Session /\ KnowsRows(sess[w]) /\ Covered(sess[w])
  BY DEF SessionInv
<1>1. ASSUME NEW r \in Refs, PayRequest(w, r) PROVE TypeOK' /\ SessionInv'
  <2> DEFINE s == [Opened("pay", "authed", r) EXCEPT !.balance = balance[Owner[BillOf[r]]]]
  <2>0. "pay" \in JobKinds /\ "authed" \in PCs
    BY DEF JobKinds, PCs
  <2>1. s \in Session /\ KnowsRows(s) /\ Covered(s)
    BY <2>0, OpenedType DEF Session, KnowsRows, Covered, NonNegativeBalance
  <2>2. Become(w, s)
    BY <1>1 DEF PayRequest
  <2> QED
    BY <1>1, <2>1, <2>2, SessionStep DEF PayRequest
<1>2. ASSUME NEW r \in Refs, AutopayRecheck(w, r) PROVE TypeOK' /\ SessionInv'
  <2> DEFINE s == Opened("autopay", "loaded", r)
  <2>1. s \in Session /\ KnowsRows(s) /\ Covered(s)
    BY OpenedType DEF PCs, JobKinds, KnowsRows, Covered
  <2>2. Become(w, s)
    BY <1>2 DEF AutopayRecheck
  <2> QED
    BY <1>2, <2>1, <2>2, SessionStep DEF AutopayRecheck
<1>3. CASE PayLoadBill(w)
  <2> DEFINE row == bill[sess[w].bill]
             s == [sess[w] EXCEPT !.pc = "loaded", !.status = row.status, !.retry = row.retry]
  <2>1. s \in Session /\ KnowsRows(s) /\ Covered(s)
    BY <1>s, <1>3 DEF PayLoadBill, Session, PCs, KnowsRows, Covered, BillRow
  <2>2. Become(w, s)
    BY <1>3 DEF PayLoadBill
  <2> QED
    BY <1>3, <2>1, <2>2, SessionStep DEF PayLoadBill, Hold
<1>4. CASE LockBill(w)
  <2> DEFINE row == CachedBill(w)
             s == [sess[w] EXCEPT !.pc = "bill_locked", !.status = row.status, !.retry = row.retry]
  <2>0. row.status \in BillStatus /\ row.retry \in Nat
    BY <1>s, <1>4 DEF LockBill, CachedBill, KnowsRows, Session, BillRow
  <2>1. s \in Session /\ KnowsRows(s) /\ Covered(s)
    BY <1>s, <1>4, <2>0 DEF LockBill, Session, PCs, KnowsRows, Covered
  <2>2. Become(w, s)
    BY <1>4 DEF LockBill
  <2>3. lock' \in [Rows -> Workers \cup {Nobody}]
    BY <1>4 DEF LockBill, TakeLock
  <2> QED
    BY <1>4, <2>1, <2>2, <2>3, SessionStep DEF LockBill
<1>5. CASE RefusePayout(w)
  BY <1>5, CloseType DEF RefusePayout, Rollback
<1>6. CASE StartPayout(w)
  <2> DEFINE s == [sess[w] EXCEPT !.pc = "calling", !.balance = CachedBalance(w)]
  <2>0. /\ sess[w].bill \in Bills /\ sess[w].ref \in Refs
        /\ sess[w].bill = BillOf[sess[w].ref] /\ sess[w].job # "webhook"
    BY <1>s, <1>6 DEF StartPayout, KnowsRows
  <2>1. CachedBalance(w) \in Int /\ CachedBalance(w) >= Charge(sess[w].bill)
    BY <1>s, <1>6, <2>0, ChargeType DEF StartPayout, Refused, CachedBalance, Session
  <2>a. s \in Session /\ s.bill = sess[w].bill /\ s.ref = sess[w].ref /\ s.job = sess[w].job
        /\ s.pc = "calling" /\ s.balance = CachedBalance(w)
    BY <1>s, <2>1 DEF Session, PCs
  <2>2. s \in Session /\ KnowsRows(s) /\ Covered(s)
    BY <2>a, <2>0, <2>1, ChargeType DEF KnowsRows, Covered
  <2>3. Become(w, s)
    BY <1>6 DEF StartPayout
  <2>4. lock' \in [Rows -> Workers \cup {Nobody}] /\ loop' \in Workers \cup {Nobody}
    BY <1>6 DEF StartPayout, TakeLock, Await
  <2> QED
    BY <1>6, <2>2, <2>3, <2>4, SessionStep DEF StartPayout
<1>7. CASE CommitDebit(w)
  <2>1. sess[w].bill \in Bills /\ sess[w].balance - Charge(sess[w].bill) \in Nat
    BY <1>s, <1>7, ChargeType DEF CommitDebit, KnowsRows, Covered, Session
  <2>2. balance' \in [Users -> Int]
    BY <1>7, <2>1 DEF CommitDebit
  <2>3. bill' \in [Bills -> BillRow]
    BY <1>7, BillRowType DEF CommitDebit, BillStatus
  <2>4. txn' \in [Refs -> TxnRow]
    BY <1>s, <1>7 DEF CommitDebit, TxnRow, Session
  <2> QED
    BY <1>7, <2>2, <2>3, <2>4, CloseType DEF CommitDebit
<1>8. CASE CommitRefund(w)
  <2>0. sess[w].retry + 1 \in Nat
    BY <1>s DEF Session
  <2>1. bill' \in [Bills -> BillRow]
    BY <1>8, <2>0, BillRowType, RetryType DEF CommitRefund
  <2>2. txn' \in [Refs -> TxnRow]
    BY <1>8 DEF CommitRefund, TxnRow
  <2> QED
    BY <1>8, <2>1, <2>2, CloseType DEF CommitRefund
<1> QED
  BY <1>1, <1>2, <1>3, <1>4, <1>5, <1>6, <1>7, <1>8 DEF PayStep

\* The provider's answers to a payout.
LEMMA CallTyped ==
    ASSUME TypeOK, NonNegativeBalance, SessionInv, NEW w \in Workers, CallStep(w)
    PROVE  TypeOK' /\ SessionInv'
<1> USE DEF TypeOK, tables
<1>s. sess[w] \in Session /\ KnowsRows(sess[w]) /\ Covered(sess[w])
  BY DEF SessionInv
<1>m. ASSUME NEW pc \in {"accepted", "refunding"}, sess[w].pc = "calling", Move(w, pc)
      PROVE  sess' \in [Workers -> Session] /\ SessionInv'
  <2> DEFINE s == [sess[w] EXCEPT !.pc = pc]
  <2>0. pc \in PCs
    BY DEF PCs
  <2>1. s \in Session /\ KnowsRows(s) /\ Covered(s)
    BY <1>s, <1>m, <2>0, MovedType DEF KnowsRows, Covered
  <2> QED
    BY <1>m, <2>1, SessionStep DEF Move
<1>1. CASE CallRejected(w)
  BY <1>1, <1>m DEF CallRejected
<1>2. CASE CallRaises(w)
  BY <1>2, CloseType DEF CallRaises, Rollback
<1>3. CASE CallAccepted(w)
  <2> DEFINE s == [sess[w] EXCEPT !.pc = "accepted", !.code = TRUE]
  <2>1. s \in Session /\ KnowsRows(s) /\ Covered(s)
    BY <1>s, <1>3 DEF CallAccepted, Session, PCs, KnowsRows, Covered
  <2>2. remote' \in [Refs -> RemoteStatus]
    BY <1>3 DEF CallAccepted, RemoteStatus
  <2>3. sess' \in [Workers -> Session] /\ SessionInv'
    BY <1>3, <1>m, <2>1, SessionStep DEF CallAccepted
  <2> QED
    BY <1>3, <2>2, <2>3 DEF CallAccepted
<1>4. CASE CallLost(w)
  <2>1. remote' \in [Refs -> RemoteStatus]
    BY <1>4 DEF CallLost, RemoteStatus
  <2> QED
    BY <1>4, <1>m, <2>1 DEF CallLost
<1> QED
  BY <1>1, <1>2, <1>3, <1>4 DEF CallStep

\* The steps of a webhook up to confirm_payout.
LEMMA WebhookTyped ==
    ASSUME TypeOK, NonNegativeBalance, SessionInv, NEW w \in Workers, WebhookStep(w)
    PROVE  TypeOK' /\ SessionInv'
<1> USE DEF TypeOK, tables
<1>1. ASSUME NEW r \in Refs, NEW e \in EventKinds, WebhookIgnored(w, r, e)
      PROVE  TypeOK' /\ SessionInv'
  BY <1>1 DEF WebhookIgnored, SessionInv
<1>2. ASSUME NEW r \in Refs, NEW e \in EventKinds, WebhookRead(w, r, e)
      PROVE  TypeOK' /\ SessionInv'
  <2> DEFINE s == [Opened("webhook", "txn_read", r) EXCEPT !.outcome = e]
  <2>0. "webhook" \in JobKinds /\ "txn_read" \in PCs
    BY DEF JobKinds, PCs
  <2>1. s \in Session /\ KnowsRows(s) /\ Covered(s)
    BY <2>0, OpenedType DEF Session, KnowsRows, Covered
  <2>2. Become(w, s)
    BY <1>2 DEF WebhookRead
  <2> QED
    BY <1>2, <2>1, <2>2, SessionStep DEF WebhookRead
<1> QED
  BY <1>1, <1>2 DEF WebhookStep

\* The steps of the reconciliation job up to confirm_payout.
LEMMA ReconcileTyped ==
    ASSUME TypeOK, NonNegativeBalance, SessionInv, NEW w \in Workers, ReconcileStep(w)
    PROVE  TypeOK' /\ SessionInv'
<1> USE DEF TypeOK, tables
<1>s. sess[w] \in Session /\ KnowsRows(sess[w]) /\ Covered(sess[w])
  BY DEF SessionInv
<1>1. ASSUME NEW r \in Refs, ReconcilePick(w, r) PROVE TypeOK' /\ SessionInv'
  <2> DEFINE s == [Opened("reconcile", "polling", r) EXCEPT !.code = txn[r].code]
  <2>0. "reconcile" \in JobKinds /\ "polling" \in PCs /\ txn[r].code \in BOOLEAN
    BY DEF JobKinds, PCs, TxnRow
  <2>1. s \in Session /\ KnowsRows(s) /\ Covered(s)
    BY <2>0, OpenedType DEF Session, KnowsRows, Covered
  <2>2. Become(w, s)
    BY <1>1 DEF ReconcilePick
  <2> QED
    BY <1>1, <2>1, <2>2, SessionStep DEF ReconcilePick
<1>2. CASE ReconcilePolled(w)
  <2> DEFINE s == [sess[w] EXCEPT !.pc = "polled", !.outcome = Polled(remote[sess[w].ref])]
  <2>1. s \in Session /\ KnowsRows(s) /\ Covered(s)
    BY <1>s, <1>2 DEF ReconcilePolled, Polled, EventKinds, Session, PCs, KnowsRows, Covered
  <2>2. Become(w, s)
    BY <1>2 DEF ReconcilePolled
  <2> QED
    BY <1>2, <2>1, <2>2, SessionStep DEF ReconcilePolled
<1>3. CASE ReconcileError(w)
  BY <1>3, CloseType DEF ReconcileError, Rollback
<1>4. CASE ReconcileSettle(w)
  <2>0. sess[w].pc = "polled" /\ UNCHANGED <<tables, remote, lock, loop>>
    BY <1>4 DEF ReconcileSettle
  <2>1. CASE Move(w, "txn_read")
    <3> DEFINE s == [sess[w] EXCEPT !.pc = "txn_read"]
    <3>1. s \in Session /\ KnowsRows(s) /\ Covered(s)
      BY <1>s, <2>0 DEF Session, PCs, KnowsRows, Covered
    <3> QED
      BY <2>0, <2>1, <3>1, SessionStep DEF Move
  <2>2. CASE Become(w, [sess[w] EXCEPT !.pc = "txn_read", !.outcome = "failed"])
    <3> DEFINE s == [sess[w] EXCEPT !.pc = "txn_read", !.outcome = "failed"]
    <3>1. s \in Session /\ KnowsRows(s) /\ Covered(s)
      BY <1>s, <2>0 DEF Session, PCs, EventKinds, KnowsRows, Covered
    <3> QED
      BY <2>0, <2>2, <3>1, SessionStep
  <2> QED
    BY <1>4, <2>1, <2>2 DEF ReconcileSettle
<1>5. CASE ReconcileSkip(w)
  BY <1>5, CloseType DEF ReconcileSkip, Rollback
<1> QED
  BY <1>1, <1>2, <1>3, <1>4, <1>5 DEF ReconcileStep

\* The steps of an OTP's submission up to confirm_payout.
LEMMA OtpTyped ==
    ASSUME TypeOK, NonNegativeBalance, SessionInv, NEW w \in Workers, OtpStep(w)
    PROVE  TypeOK' /\ SessionInv'
<1> USE DEF TypeOK, tables
<1>s. sess[w] \in Session /\ KnowsRows(sess[w]) /\ Covered(sess[w])
  BY DEF SessionInv
<1>m. ASSUME NEW pc \in {"finalizing", "txn_read"}, sess[w].pc \in {"otp_loaded", "replied"},
             Move(w, pc)
      PROVE  sess' \in [Workers -> Session] /\ SessionInv'
  <2> DEFINE s == [sess[w] EXCEPT !.pc = pc]
  <2>0. pc \in PCs
    BY DEF PCs
  <2>1. s \in Session /\ KnowsRows(s) /\ Covered(s)
    BY <1>s, <1>m, <2>0, MovedType DEF KnowsRows, Covered
  <2> QED
    BY <1>m, <2>1, SessionStep DEF Move
<1>1. ASSUME NEW r \in Refs, OtpRequest(w, r) PROVE TypeOK' /\ SessionInv'
  <2> DEFINE s == [Opened("otp_api", "authed", r) EXCEPT !.balance = balance[Owner[BillOf[r]]]]
  <2>0. "otp_api" \in JobKinds /\ "authed" \in PCs
    BY DEF JobKinds, PCs
  <2>1. s \in Session /\ KnowsRows(s) /\ Covered(s)
    BY <2>0, OpenedType DEF Session, KnowsRows, Covered, NonNegativeBalance
  <2>2. Become(w, s)
    BY <1>1 DEF OtpRequest
  <2> QED
    BY <1>1, <2>1, <2>2, SessionStep DEF OtpRequest
<1>2. ASSUME NEW r \in Refs, OtpCommand(w, r) PROVE TypeOK' /\ SessionInv'
  <2> DEFINE s == [Opened("otp_bot", "otp_loaded", r) EXCEPT !.balance = balance[Owner[BillOf[r]]]]
  <2>0. "otp_bot" \in JobKinds /\ "otp_loaded" \in PCs
    BY DEF JobKinds, PCs
  <2>1. s \in Session /\ KnowsRows(s) /\ Covered(s)
    BY <2>0, OpenedType DEF Session, KnowsRows, Covered, NonNegativeBalance
  <2>2. Become(w, s)
    BY <1>2 DEF OtpCommand
  <2> QED
    BY <1>2, <2>1, <2>2, SessionStep DEF OtpCommand
<1>3. CASE OtpLoadBill(w)
  <2> DEFINE row == bill[sess[w].bill]
             s == [sess[w] EXCEPT !.pc = "otp_loaded", !.status = row.status, !.retry = row.retry]
  <2>1. s \in Session /\ KnowsRows(s) /\ Covered(s)
    BY <1>s, <1>3 DEF OtpLoadBill, Session, PCs, KnowsRows, Covered, BillRow
  <2>2. Become(w, s)
    BY <1>3 DEF OtpLoadBill
  <2> QED
    BY <1>3, <2>1, <2>2, SessionStep DEF OtpLoadBill, Hold
<1>4. CASE OtpLock(w)
  <2>1. lock' \in [Rows -> Workers \cup {Nobody}] /\ loop' \in Workers \cup {Nobody}
    BY <1>4 DEF OtpLock, TakeLock, Await
  <2> QED
    BY <1>4, <1>m, <2>1 DEF OtpLock
<1>5. CASE OtpNotFound(w) \/ OtpPending(w)
  BY <1>5, CloseType DEF OtpNotFound, OtpPending, Rollback
<1>6. CASE OtpAccepted(w)
  <2>0. sess[w].pc = "finalizing" /\ UNCHANGED <<tables, lock, loop>>
        /\ remote' \in [Refs -> RemoteStatus]
    BY <1>6 DEF OtpAccepted, RemoteStatus
  <2>1. PICK answer \in {"success", "pending", "failed"} :
          Become(w, [sess[w] EXCEPT !.pc = "replied", !.outcome = answer])
    BY <1>6 DEF OtpAccepted, InProgress
  <2> DEFINE s == [sess[w] EXCEPT !.pc = "replied", !.outcome = answer]
  <2>2. s \in Session /\ KnowsRows(s) /\ Covered(s)
    BY <1>s, <2>0 DEF Session, PCs, EventKinds, KnowsRows, Covered
  <2> QED
    BY <2>0, <2>1, <2>2, SessionStep
<1>7. CASE OtpRejected(w)
  <2>1. remote' \in [Refs -> RemoteStatus]
    BY <1>7 DEF OtpRejected, RemoteStatus
  <2> QED
    BY <1>7, <2>1, CloseType DEF OtpRejected
<1>8. CASE OtpSettle(w)
  BY <1>8, <1>m DEF OtpSettle, Hold
<1> QED
  BY <1>1, <1>2, <1>3, <1>4, <1>5, <1>6, <1>7, <1>8 DEF OtpStep

\* The steps of confirm_payout.
LEMMA ConfirmTyped ==
    ASSUME TypeOK, NonNegativeBalance, SessionInv, NEW w \in Workers, ConfirmStep(w)
    PROVE  TypeOK' /\ SessionInv'
<1> USE DEF TypeOK, tables
<1>s. sess[w] \in Session /\ KnowsRows(sess[w]) /\ Covered(sess[w])
  BY DEF SessionInv
<1>d. ASSUME sess[w].pc = "flushing", Deliver(w)
      PROVE  sess[w].bill \in Bills /\ sess[w].ref \in Refs
  BY <1>s, <1>d DEF KnowsRows
<1>0. CASE ConfirmReadBill(w)
  <2> DEFINE row == IF sess[w].job = "otp_api"
                    THEN [status |-> sess[w].status, retry |-> sess[w].retry]
                    ELSE bill[sess[w].bill]
             s == [sess[w] EXCEPT !.pc = "bill_read", !.status = row.status, !.retry = row.retry]
  <2>0. sess[w].bill \in Bills /\ sess[w].pc = "txn_read"
    BY <1>s, <1>0 DEF ConfirmReadBill, KnowsRows
  <2>1. row.status \in BillStatus /\ row.retry \in Nat
    BY <1>s, <2>0 DEF Session, BillRow
  <2>2. s \in Session /\ KnowsRows(s) /\ Covered(s)
    BY <1>s, <2>0, <2>1 DEF Session, PCs, KnowsRows, Covered
  <2>3. Become(w, s)
    BY <1>0 DEF ConfirmReadBill
  <2> QED
    BY <1>0, <2>2, <2>3, SessionStep DEF ConfirmReadBill
<1>1. CASE ConfirmReadUser(w)
  <2> DEFINE wallet == IF sess[w].job \in {"otp_api", "otp_bot"} THEN sess[w].balance
                       ELSE balance[Owner[sess[w].bill]]
             s == [sess[w] EXCEPT !.pc = "flushing", !.balance = wallet]
  <2>0. sess[w].bill \in Bills /\ sess[w].pc = "bill_read"
    BY <1>s, <1>1 DEF ConfirmReadUser, KnowsRows
  <2>1. wallet \in Int /\ wallet >= 0
    BY <1>s, <2>0 DEF Session, Covered, NonNegativeBalance
  <2>2. s \in Session /\ KnowsRows(s) /\ Covered(s)
    BY <1>s, <2>0, <2>1 DEF Session, PCs, KnowsRows, Covered
  <2>3. Become(w, s)
    BY <1>1 DEF ConfirmReadUser
  <2> QED
    BY <1>1, <2>2, <2>3, SessionStep DEF ConfirmReadUser
<1>2. CASE FlushRow(w)
  BY <1>2 DEF FlushRow, TakeLock, SessionInv
<1>3. CASE ConfirmSuccess(w)
  <2>0. sess[w].pc = "flushing" /\ Deliver(w) /\ sess[w].outcome \in EventKinds
    BY <1>3 DEF ConfirmSuccess, FlushDone, EventKinds
  <2>1. txn' \in [Refs -> TxnRow]
    BY <1>3, TxnRowType DEF ConfirmSuccess
  <2>2. bill' \in [Bills -> BillRow]
    <3>1. bill' = [bill EXCEPT ![sess[w].bill].status =
                     Written(sess[w].status, "paid", bill[sess[w].bill].status)]
      BY <1>3 DEF ConfirmSuccess
    <3>2. \A row \in BillRow : Written(sess[w].status, "paid", row.status) \in BillStatus
      BY DEF Written, BillStatus, BillRow
    <3> QED
      BY <3>1, <3>2, BillRowType
  <2>3. events' \subseteq Refs \X EventKinds
    BY <1>s, <2>0, <1>d DEF Deliver, KnowsRows
  <2> QED
    BY <1>3, <2>1, <2>2, <2>3, CloseType DEF ConfirmSuccess
<1>4. CASE ConfirmFailure(w)
  <2>0. sess[w].pc = "flushing" /\ Deliver(w)
    BY <1>4 DEF ConfirmFailure, FlushDone
  <2>1. txn' \in [Refs -> TxnRow]
    BY <1>4, TxnRowType DEF ConfirmFailure
  <2>2. sess[w].retry + 1 \in Nat
    BY <1>s DEF Session
  <2>3. bill' \in [Bills -> BillRow]
    BY <1>4, <2>2, BillRowType, RetryType DEF ConfirmFailure, Written, BillRow
  <2>4. balance' \in [Users -> Int]
    BY <1>s, <1>4, <1>d, <2>0, ChargeType DEF ConfirmFailure, Session
  <2>5. events' \subseteq Refs \X EventKinds
    BY <1>s, <2>0, <1>d DEF Deliver, KnowsRows
  <2> QED
    BY <1>4, <2>1, <2>3, <2>4, <2>5, CloseType DEF ConfirmFailure
<1> QED
  BY <1>0, <1>1, <1>2, <1>3, <1>4 DEF ConfirmStep

\* The steps of a cancellation.
LEMMA CancelTyped ==
    ASSUME TypeOK, NonNegativeBalance, SessionInv, NEW w \in Workers, CancelStep(w)
    PROVE  TypeOK' /\ SessionInv'
<1> USE DEF TypeOK, tables
<1>1. ASSUME NEW b \in Bills, CancelLoad(w, b) PROVE TypeOK' /\ SessionInv'
  <2> DEFINE s == [NewSession("cancel", "cancelling", b, NoRef) EXCEPT !.status = bill[b].status]
  <2>1. s \in Session /\ KnowsRows(s) /\ Covered(s)
    <3> DEFINE n == NewSession("cancel", "cancelling", b, NoRef)
    <3>1. "cancel" \in JobKinds /\ "cancelling" \in PCs /\ bill[b].status \in BillStatus
      BY DEF JobKinds, PCs, BillRow
    <3>2. n \in Session /\ n.pc = "cancelling" /\ n.bill = b /\ n.job = "cancel" /\ n.balance = 0
      BY <3>1, NewType DEF BillStatus
    <3>3. s \in Session
      BY <3>1, <3>2 DEF Session
    <3>4. s.pc = "cancelling" /\ s.bill = b /\ s.job = "cancel" /\ s.balance = 0
      BY <3>2 DEF Session
    <3> HIDE DEF s
    <3> QED
      BY <3>3, <3>4 DEF KnowsRows, Covered
  <2>2. Become(w, s)
    BY <1>1 DEF CancelLoad
  <2> QED
    BY <1>1, <2>1, <2>2, SessionStep DEF CancelLoad
<1>2. CASE CancelCommit(w)
  <2>1. bill' \in [Bills -> BillRow]
    BY <1>2, BillRowType DEF CancelCommit, BillStatus
  <2> QED
    BY <1>2, <2>1, CloseType DEF CancelCommit
<1> QED
  BY <1>1, <1>2 DEF CancelStep

\* Every step keeps the types and what the sessions know.
LEMMA NextTyped ==
    TypeOK /\ NonNegativeBalance /\ SessionInv /\ [Next]_vars => TypeOK' /\ SessionInv'
<1> SUFFICES ASSUME TypeOK, NonNegativeBalance, SessionInv, [Next]_vars
             PROVE  TypeOK' /\ SessionInv'
  OBVIOUS
<1>1. ASSUME NEW w \in Workers,
             \/ PayStep(w) \/ CallStep(w) \/ WebhookStep(w) \/ ReconcileStep(w)
             \/ OtpStep(w) \/ ConfirmStep(w) \/ CancelStep(w)
      PROVE  TypeOK' /\ SessionInv'
  BY <1>1, PayTyped, CallTyped, WebhookTyped, ReconcileTyped, OtpTyped, ConfirmTyped, CancelTyped
<1>2. ASSUME NEW w \in Workers, DeadlockAbort(w) PROVE TypeOK' /\ SessionInv'
  BY <1>2, CloseType DEF DeadlockAbort, Rollback, TypeOK, tables
<1>3. ASSUME NEW r \in Refs, RemoteSettle(r) PROVE TypeOK' /\ SessionInv'
  <2>1. remote' \in [Refs -> RemoteStatus]
    BY <1>3 DEF RemoteSettle, TypeOK, RemoteStatus
  <2> QED
    BY <1>3, <2>1 DEF RemoteSettle, TypeOK, SessionInv, tables
<1>4. CASE Crash
  BY <1>4, IdleType DEF Crash, TypeOK, SessionInv, tables, Rows
<1>5. CASE UNCHANGED vars
  BY <1>5 DEF vars, TypeOK, SessionInv
<1> QED
  BY <1>1, <1>2, <1>3, <1>4, <1>5 DEF Next, StepOf

\* The balance is written by a debit and by a refund only.
LEMMA NextSolvent ==
    TypeOK /\ NonNegativeBalance /\ SessionInv /\ [Next]_vars => NonNegativeBalance'
<1> SUFFICES ASSUME TypeOK, NonNegativeBalance, SessionInv, [Next]_vars
             PROVE  NonNegativeBalance'
  OBVIOUS
<1>u. UNCHANGED balance => NonNegativeBalance'
  BY DEF NonNegativeBalance
<1>s. ASSUME NEW w \in Workers
      PROVE  sess[w] \in Session /\ KnowsRows(sess[w]) /\ Covered(sess[w])
  BY DEF TypeOK, SessionInv
<1>1. ASSUME NEW w \in Workers, CommitDebit(w) PROVE NonNegativeBalance'
  <2>1. /\ sess[w].bill \in Bills
        /\ sess[w].balance - Charge(sess[w].bill) >= 0
    BY <1>s, <1>1, ChargeType DEF CommitDebit, KnowsRows, Covered, Session
  <2> QED
    BY <1>1, <2>1 DEF CommitDebit, TypeOK, NonNegativeBalance
<1>2. ASSUME NEW w \in Workers, ConfirmFailure(w) PROVE NonNegativeBalance'
  <2>1. /\ sess[w].bill \in Bills
        /\ sess[w].balance + Refund(sess[w].bill) >= 0
    BY <1>s, <1>2, ChargeType DEF ConfirmFailure, FlushDone, KnowsRows, Covered, Session
  <2> QED
    BY <1>2, <2>1 DEF ConfirmFailure, TypeOK, NonNegativeBalance
<1>3. ASSUME NEW w \in Workers, PayStep(w) PROVE NonNegativeBalance'
  BY <1>1, <1>3, <1>u DEF PayStep, PayRequest, AutopayRecheck, PayLoadBill, LockBill,
       RefusePayout, StartPayout, CommitRefund, Rollback, tables
<1>4. ASSUME NEW w \in Workers, ConfirmStep(w) PROVE NonNegativeBalance'
  BY <1>2, <1>4, <1>u DEF ConfirmStep, ConfirmReadBill, ConfirmReadUser, FlushRow, ConfirmSuccess, tables
<1>5. ASSUME NEW w \in Workers, CallStep(w) \/ WebhookStep(w) PROVE UNCHANGED balance
  BY <1>5 DEF CallStep, CallRejected, CallRaises, CallAccepted, CallLost, WebhookStep,
       WebhookIgnored, WebhookRead, Rollback, tables
<1>6. ASSUME NEW w \in Workers, ReconcileStep(w) PROVE UNCHANGED balance
  BY <1>6 DEF ReconcileStep, ReconcilePick, ReconcilePolled, ReconcileError,
       ReconcileSettle, ReconcileSkip, Rollback, tables
<1>7. ASSUME NEW w \in Workers, OtpStep(w) PROVE UNCHANGED balance
  BY <1>7 DEF OtpStep, OtpRequest, OtpCommand, OtpLoadBill, OtpLock, OtpNotFound,
       OtpAccepted, OtpRejected, OtpPending, OtpSettle, Rollback, tables
<1>8. ASSUME NEW w \in Workers, CancelStep(w) \/ DeadlockAbort(w) PROVE UNCHANGED balance
  BY <1>8 DEF CancelStep, CancelLoad, CancelCommit, DeadlockAbort, Rollback, tables
<1>9. (\E r \in Refs : RemoteSettle(r)) \/ Crash \/ UNCHANGED vars => UNCHANGED balance
  BY DEF RemoteSettle, Crash, vars, tables
<1> QED
  BY <1>u, <1>3, <1>4, <1>5, <1>6, <1>7, <1>8, <1>9 DEF Next, StepOf

\* Types, solvency and what the sessions know, together an invariant.
LEMMA Typed == Spec => [](TypeOK /\ NonNegativeBalance /\ SessionInv)
BY InitTyped, NextTyped, NextSolvent, PTL DEF Spec

\* Every reachable state is well typed.
THEOREM TypeCorrect == Spec => []TypeOK
BY Typed, PTL

\* The wallet of every user stays at zero or above, whatever stale balance a
\* session writes back: execute_payout charges the balance it has checked.
THEOREM WalletNeverNegative == Spec => []NonNegativeBalance
BY Typed, PTL

-----------------------------------------------------------------------------
(* Row locks                                                               *)

\* A step of session w changes no other session and frees no row of another.
Alone(w) ==
    /\ \A v \in Workers : v # w => sess'[v] = sess[v]
    /\ \A row \in Rows : lock[row] \notin {Nobody, w} => lock'[row] = lock[row]

\* A step that leaves the locks of others alone keeps their rows held.
LEMMA AloneKeeps ==
    ASSUME NEW w \in Workers, SessionInv, LockInv, Alone(w), HoldsRows(w)'
    PROVE  LockInv'
<1> SUFFICES ASSUME NEW v \in Workers, v # w PROVE HoldsRows(v)'
  BY DEF LockInv
<1>1. HoldsRows(v) /\ sess'[v] = sess[v] /\ v # Nobody
  BY DEF LockInv, Alone
<1>2. sess[v].pc \in Holding \cup {"bill_locked"} =>
        sess[v].bill \in Rows /\ Owner[sess[v].bill] \in Rows
  BY DEF SessionInv, KnowsRows, Holding, Rows
<1> QED
  BY <1>1, <1>2 DEF Alone, HoldsRows, Holding

\* Closing a session gives up its own rows only.
LEMMA CloseKeeps ==
    ASSUME NEW w \in Workers, TypeOK, SessionInv, LockInv, Close(w)
    PROVE  LockInv'
<1>1. Alone(w) /\ sess'[w].pc = "idle"
  BY IdleType DEF Close, Become, Alone, TypeOK
<1> QED
  BY <1>1, AloneKeeps DEF HoldsRows, Holding

\* A session that is not paying holds no row that matters here.
LEMMA MoveKeeps ==
    ASSUME NEW w \in Workers, NEW s, TypeOK, SessionInv, LockInv, Become(w, s),
           s.pc \notin Holding \cup {"bill_locked"},
           lock' = lock \/ \E row \in Rows : TakeLock(w, row)
    PROVE  LockInv'
<1>1. Alone(w) /\ sess'[w] = s
  BY DEF Become, Alone, TypeOK, TakeLock, LockFree
<1> QED
  BY <1>1, AloneKeeps DEF HoldsRows

\* The steps of a payment: rows are held from their lock to the commit.
LEMMA PayKeeps ==
    ASSUME TypeOK, SessionInv, LockInv, NEW w \in Workers, PayStep(w)
    PROVE  LockInv'
<1>s. sess[w] \in Session /\ KnowsRows(sess[w]) /\ sess \in [Workers -> Session]
  BY DEF SessionInv, TypeOK
<1>1. ASSUME NEW r \in Refs, PayRequest(w, r) PROVE LockInv'
  <2> DEFINE s == [Opened("pay", "authed", r) EXCEPT !.balance = balance[Owner[BillOf[r]]]]
  <2>1. Become(w, s) /\ s.pc = "authed" /\ lock' = lock
    BY <1>1 DEF PayRequest, Opened, NewSession
  <2> QED
    BY <2>1, MoveKeeps DEF Holding
<1>2. ASSUME NEW r \in Refs, AutopayRecheck(w, r) PROVE LockInv'
  <2> DEFINE s == Opened("autopay", "loaded", r)
  <2>1. Become(w, s) /\ s.pc = "loaded" /\ lock' = lock
    BY <1>2 DEF AutopayRecheck, Opened, NewSession
  <2> QED
    BY <2>1, MoveKeeps DEF Holding
<1>3. CASE PayLoadBill(w)
  <2> DEFINE row == bill[sess[w].bill]
             s == [sess[w] EXCEPT !.pc = "loaded", !.status = row.status, !.retry = row.retry]
  <2>1. Become(w, s) /\ s.pc = "loaded" /\ lock' = lock
    BY <1>3, <1>s DEF PayLoadBill, Session
  <2> QED
    BY <2>1, MoveKeeps DEF Holding
<1>4. CASE LockBill(w)
  <2>1. sess'[w].pc = "bill_locked" /\ sess'[w].bill = sess[w].bill /\ sess[w].bill \in Bills
    BY <1>4, <1>s DEF LockBill, Become, Session, KnowsRows
  <2>2. Alone(w) /\ lock'[sess[w].bill] = w
    BY <1>4, <1>s, <2>1 DEF LockBill, Become, Alone, TakeLock, LockFree, TypeOK, Rows
  <2> QED
    BY <2>1, <2>2, AloneKeeps DEF HoldsRows, Holding
<1>5. CASE RefusePayout(w)
  BY <1>5, CloseKeeps DEF RefusePayout, Rollback
<1>6. CASE StartPayout(w)
  <2>1. sess'[w].bill = sess[w].bill /\ sess[w].bill \in Bills /\ lock[sess[w].bill] = w
    BY <1>6, <1>s DEF StartPayout, Become, Session, KnowsRows, LockInv, HoldsRows
  <2>2. Alone(w) /\ lock'[sess[w].bill] = w /\ lock'[Owner[sess[w].bill]] = w
    BY <1>6, <1>s, <2>1 DEF StartPayout, Become, Alone, TakeLock, LockFree, TypeOK, Rows
  <2> QED
    BY <2>1, <2>2, AloneKeeps DEF HoldsRows
<1>7. CASE CommitDebit(w) \/ CommitRefund(w)
  BY <1>7, CloseKeeps DEF CommitDebit, CommitRefund
<1> QED
  BY <1>1, <1>2, <1>3, <1>4, <1>5, <1>6, <1>7 DEF PayStep

\* The provider's answers leave every lock where it is.
LEMMA CallKeeps ==
    ASSUME TypeOK, SessionInv, LockInv, NEW w \in Workers, CallStep(w)
    PROVE  LockInv'
<1>s. sess[w] \in Session /\ KnowsRows(sess[w]) /\ sess \in [Workers -> Session]
  BY DEF SessionInv, TypeOK
<1>1. CASE CallRaises(w)
  BY <1>1, CloseKeeps DEF CallRaises, Rollback
<1>2. CASE CallRejected(w) \/ CallAccepted(w) \/ CallLost(w)
  <2>1. sess'[w].bill = sess[w].bill /\ Alone(w) /\ lock' = lock /\ sess[w].pc \in Holding
    <3>1. /\ lock' = lock /\ sess[w].pc = "calling"
          /\ \/ \E pc \in {"accepted", "refunding"} : Move(w, pc)
             \/ Become(w, [sess[w] EXCEPT !.pc = "accepted", !.code = TRUE])
      BY <1>2 DEF CallRejected, CallAccepted, CallLost
    <3>2. CASE \E pc \in {"accepted", "refunding"} : Move(w, pc)
      BY <1>s, <3>1, <3>2 DEF Move, Become, Alone, Session, Holding
    <3>3. CASE Become(w, [sess[w] EXCEPT !.pc = "accepted", !.code = TRUE])
      BY <1>s, <3>1, <3>3 DEF Become, Alone, Session, Holding
    <3> QED
      BY <3>1, <3>2, <3>3
  <2> QED
    BY <2>1, AloneKeeps DEF HoldsRows, LockInv
<1> QED
  BY <1>1, <1>2 DEF CallStep

\* Webhooks and the reconciliation job hold nothing before they flush.
LEMMA SettleKeeps ==
    ASSUME TypeOK, SessionInv, LockInv, NEW w \in Workers,
           WebhookStep(w) \/ ReconcileStep(w)
    PROVE  LockInv'
<1>s. sess[w] \in Session /\ sess \in [Workers -> Session]
  BY DEF TypeOK
<1>1. ASSUME NEW r \in Refs, NEW e \in EventKinds, WebhookIgnored(w, r, e) PROVE LockInv'
  BY <1>1 DEF WebhookIgnored, LockInv, HoldsRows
<1>2. ASSUME NEW r \in Refs, NEW e \in EventKinds, WebhookRead(w, r, e) PROVE LockInv'
  <2> DEFINE s == [Opened("webhook", "txn_read", r) EXCEPT !.outcome = e]
  <2>1. Become(w, s) /\ s.pc = "txn_read" /\ lock' = lock
    BY <1>2 DEF WebhookRead, Opened, NewSession
  <2> QED
    BY <2>1, MoveKeeps DEF Holding
<1>3. ASSUME NEW r \in Refs, ReconcilePick(w, r) PROVE LockInv'
  <2> DEFINE s == [Opened("reconcile", "polling", r) EXCEPT !.code = txn[r].code]
  <2>1. Become(w, s) /\ s.pc = "polling" /\ lock' = lock
    BY <1>3 DEF ReconcilePick, Opened, NewSession
  <2> QED
    BY <2>1, MoveKeeps DEF Holding
<1>4. CASE ReconcilePolled(w)
  <2> DEFINE s == [sess[w] EXCEPT !.pc = "polled", !.outcome = Polled(remote[sess[w].ref])]
  <2>1. Become(w, s) /\ s.pc = "polled" /\ lock' = lock
    BY <1>4, <1>s DEF ReconcilePolled, Session
  <2> QED
    BY <2>1, MoveKeeps DEF Holding
<1>5. CASE ReconcileError(w) \/ ReconcileSkip(w)
  BY <1>5, CloseKeeps DEF ReconcileError, ReconcileSkip, Rollback
<1>6. CASE ReconcileSettle(w)
  <2>1. PICK s : Become(w, s) /\ s.pc = "txn_read" /\ lock' = lock
    BY <1>6, <1>s DEF ReconcileSettle, Move, Session
  <2> QED
    BY <2>1, MoveKeeps DEF Holding
<1> QED
  BY <1>1, <1>2, <1>3, <1>4, <1>5, <1>6 DEF WebhookStep, ReconcileStep

\* An OTP's submission locks its own debit's row only.
LEMMA OtpKeeps ==
    ASSUME TypeOK, SessionInv, LockInv, NEW w \in Workers, OtpStep(w)
    PROVE  LockInv'
<1>s. sess[w] \in Session /\ KnowsRows(sess[w]) /\ sess \in [Workers -> Session]
  BY DEF SessionInv, TypeOK
<1>1. ASSUME NEW r \in Refs, OtpRequest(w, r) \/ OtpCommand(w, r) PROVE LockInv'
  <2>1. PICK s : Become(w, s) /\ s.pc \in {"authed", "otp_loaded"} /\ lock' = lock
    BY <1>1 DEF OtpRequest, OtpCommand, Opened, NewSession
  <2> QED
    BY <2>1, MoveKeeps DEF Holding
<1>2. CASE OtpLoadBill(w)
  <2> DEFINE row == bill[sess[w].bill]
             s == [sess[w] EXCEPT !.pc = "otp_loaded", !.status = row.status, !.retry = row.retry]
  <2>1. Become(w, s) /\ s.pc = "otp_loaded" /\ lock' = lock
    BY <1>2, <1>s DEF OtpLoadBill, Session
  <2> QED
    BY <2>1, MoveKeeps DEF Holding
<1>3. CASE OtpLock(w)
  <2> DEFINE s == [sess[w] EXCEPT !.pc = "finalizing"]
  <2>1. Become(w, s) /\ s.pc = "finalizing" /\ TakeLock(w, sess[w].ref)
    BY <1>3, <1>s DEF OtpLock, Move, Session
  <2>2. sess[w].ref \in Rows
    BY <1>3, <1>s DEF OtpLock, KnowsRows, Rows
  <2> QED
    BY <2>1, <2>2, MoveKeeps DEF Holding
<1>4. CASE OtpNotFound(w) \/ OtpPending(w) \/ OtpRejected(w)
  BY <1>4, CloseKeeps DEF OtpNotFound, OtpPending, OtpRejected, Rollback
<1>5. CASE OtpAccepted(w)
  <2>1. PICK answer : Become(w, [sess[w] EXCEPT !.pc = "replied", !.outcome = answer])
    BY <1>5 DEF OtpAccepted
  <2> DEFINE s == [sess[w] EXCEPT !.pc = "replied", !.outcome = answer]
  <2>2. s.pc = "replied" /\ lock' = lock
    BY <1>5, <1>s DEF OtpAccepted, Session
  <2> QED
    BY <2>1, <2>2, MoveKeeps DEF Holding
<1>6. CASE OtpSettle(w)
  <2> DEFINE s == [sess[w] EXCEPT !.pc = "txn_read"]
  <2>1. Become(w, s) /\ s.pc = "txn_read" /\ lock' = lock
    BY <1>6, <1>s DEF OtpSettle, Move, Session
  <2> QED
    BY <2>1, MoveKeeps DEF Holding
<1> QED
  BY <1>1, <1>2, <1>3, <1>4, <1>5, <1>6 DEF OtpStep

\* confirm_payout and a cancellation take no row that is held.
LEMMA ConfirmKeeps ==
    ASSUME TypeOK, SessionInv, LockInv, NEW w \in Workers, ConfirmStep(w) \/ CancelStep(w)
    PROVE  LockInv'
<1>s. sess[w] \in Session /\ KnowsRows(sess[w]) /\ sess \in [Workers -> Session]
  BY DEF SessionInv, TypeOK
<1>0. CASE ConfirmReadBill(w)
  <2> DEFINE row == IF sess[w].job = "otp_api"
                    THEN [status |-> sess[w].status, retry |-> sess[w].retry]
                    ELSE bill[sess[w].bill]
             s == [sess[w] EXCEPT !.pc = "bill_read", !.status = row.status, !.retry = row.retry]
  <2>1. Become(w, s) /\ lock' = lock
    BY <1>0 DEF ConfirmReadBill
  <2>2. s.pc = "bill_read"
    BY <1>s DEF Session
  <2> QED
    BY <2>1, <2>2, MoveKeeps DEF Holding
<1>1. CASE ConfirmReadUser(w)
  <2> DEFINE wallet == IF sess[w].job \in {"otp_api", "otp_bot"} THEN sess[w].balance
                       ELSE balance[Owner[sess[w].bill]]
             s == [sess[w] EXCEPT !.pc = "flushing", !.balance = wallet]
  <2>1. Become(w, s) /\ lock' = lock
    BY <1>1 DEF ConfirmReadUser
  <2>2. s.pc = "flushing"
    BY <1>s DEF Session
  <2> QED
    BY <2>1, <2>2, MoveKeeps DEF Holding
<1>2. CASE FlushRow(w)
  <2>1. sess' = sess /\ sess[w].pc = "flushing" /\ \E row \in Flushed(w) : TakeLock(w, row)
    BY <1>2 DEF FlushRow
  <2>2. Flushed(w) \subseteq Rows
    BY <1>s, <2>1 DEF Flushed, KnowsRows, Rows
  <2>3. Alone(w)
    BY <2>1, <2>2 DEF Alone, TakeLock, LockFree, TypeOK
  <2> QED
    BY <2>1, <2>3, AloneKeeps DEF HoldsRows, Holding
<1>3. CASE ConfirmSuccess(w) \/ ConfirmFailure(w) \/ CancelCommit(w)
  BY <1>3, CloseKeeps DEF ConfirmSuccess, ConfirmFailure, CancelCommit
<1>4. ASSUME NEW b \in Bills, CancelLoad(w, b) PROVE LockInv'
  <2> DEFINE s == [NewSession("cancel", "cancelling", b, NoRef) EXCEPT !.status = bill[b].status]
  <2>1. Become(w, s) /\ s.pc = "cancelling" /\ lock' = lock
    BY <1>4 DEF CancelLoad, NewSession
  <2> QED
    BY <2>1, MoveKeeps DEF Holding
<1> QED
  BY <1>0, <1>1, <1>2, <1>3, <1>4 DEF ConfirmStep, CancelStep

\* Every step keeps the rows of a payout held.
LEMMA NextKeeps ==
    TypeOK /\ SessionInv /\ LockInv /\ [Next]_vars => LockInv'
<1> SUFFICES ASSUME TypeOK, SessionInv, LockInv, [Next]_vars PROVE LockInv'
  OBVIOUS
<1>1. ASSUME NEW w \in Workers, DeadlockAbort(w) PROVE LockInv'
  BY <1>1, CloseKeeps DEF DeadlockAbort, Rollback
<1>2. ASSUME NEW r \in Refs, RemoteSettle(r) PROVE LockInv'
  BY <1>2 DEF RemoteSettle, LockInv, HoldsRows
<1>3. CASE Crash
  BY <1>3, IdleType DEF Crash, LockInv, HoldsRows, Holding
<1>4. CASE UNCHANGED vars
  BY <1>4 DEF vars, LockInv, HoldsRows
<1> QED
  BY <1>1, <1>2, <1>3, <1>4, PayKeeps, CallKeeps, SettleKeeps, OtpKeeps, ConfirmKeeps DEF Next, StepOf

\* What the row locks guarantee, an invariant.
LEMMA Locked == Spec => []LockInv
<1>1. Init => LockInv
  BY IdleType DEF Init, LockInv, HoldsRows, Holding
<1> QED
  BY <1>1, NextKeeps, Typed, PTL DEF Spec

\* No two payouts of one wallet are past their checks at the same time.
THEOREM PayoutsOfAWalletSerialize == Spec => []OnePayoutPerWallet
<1>1. LockInv => OnePayoutPerWallet
  BY DEF LockInv, HoldsRows, OnePayoutPerWallet
<1> QED
  BY <1>1, Locked, PTL

-----------------------------------------------------------------------------
(* What the provider knows                                                 *)

\* The session that steps is replaced, and the others stay as they are.
LEMMA OthersSame ==
    ASSUME NEW w \in Workers, NEW s, Become(w, s), TypeOK
    PROVE  sess'[w] = s /\ \A v \in Workers : v # w => sess'[v] = sess[v]
BY DEF Become, TypeOK

\* A step that tells the provider nothing keeps RemoteInv, if the session that
\* takes it has learnt nothing wrong and reserves no reference but its own.
LEMMA QuietStep ==
    ASSUME NEW w \in Workers, NEW s, TypeOK, RemoteInv, Become(w, s), remote' = remote,
           Truthful(s), Unknown(s),
           Reserved(s) => \A v \in Workers : v # w => sess[v].ref # s.ref \/ ~Reserved(sess[v])
    PROVE  RemoteInv'
<1>1. sess'[w] = s /\ \A v \in Workers : v # w => sess'[v] = sess[v]
  BY OthersSame
<1>2. ASSUME NEW v \in Workers PROVE Unknown(sess[v])' /\ Truthful(sess[v])'
  BY <1>1 DEF RemoteInv, Unknown, Truthful, Reserved, Answered
<1>3. ASSUME NEW v \in Workers, NEW x \in Workers PROVE OwnReference(v, x)'
  BY <1>1 DEF RemoteInv, OwnReference, Reserved
<1> QED
  BY <1>2, <1>3 DEF RemoteInv

\* ... in particular a session that reserves nothing and knows no success.
LEMMA IdleStep ==
    ASSUME NEW w \in Workers, NEW s, TypeOK, RemoteInv, Become(w, s), remote' = remote,
           ~Reserved(s), s.pc # "accepted", s.pc \in Answered => s.outcome # "success"
    PROVE  RemoteInv'
<1>1. Truthful(s) /\ Unknown(s)
  BY DEF Truthful, Unknown
<1> QED
  BY <1>1, QuietStep

\* ... as a session does that closes.
LEMMA CloseQuiet ==
    ASSUME NEW w \in Workers, TypeOK, RemoteInv, Close(w), remote' = remote
    PROVE  RemoteInv'
<1>1. ~Reserved(Idle) /\ Idle.pc # "accepted" /\ Idle.pc \notin Answered
  BY DEF Idle, NewSession, Reserved, Answered
<1> QED
  BY <1>1, IdleStep DEF Close

\* A payment reserves a reference the provider has not seen.
LEMMA PayRemote ==
    ASSUME TypeOK, SessionInv, RemoteInv, NEW w \in Workers, PayStep(w)
    PROVE  RemoteInv'
<1>s. sess[w] \in Session /\ KnowsRows(sess[w]) /\ sess \in [Workers -> Session]
  BY DEF SessionInv, TypeOK
<1>1. ASSUME NEW r \in Refs, PayRequest(w, r) PROVE RemoteInv'
  <2> DEFINE s == [Opened("pay", "authed", r) EXCEPT !.balance = balance[Owner[BillOf[r]]]]
  <2>1. Become(w, s) /\ s.pc = "authed" /\ s.ref = r /\ remote' = remote /\ Unused(r)
    BY <1>1 DEF PayRequest, Opened, NewSession
  <2>2. Truthful(s) /\ Unknown(s) /\ \A v \in Workers : sess[v].ref # s.ref
    BY <2>1 DEF Truthful, Unknown, Unused, Answered
  <2> QED
    BY <2>1, <2>2, QuietStep
<1>2. ASSUME NEW r \in Refs, AutopayRecheck(w, r) PROVE RemoteInv'
  <2> DEFINE s == Opened("autopay", "loaded", r)
  <2>1. Become(w, s) /\ s.pc = "loaded" /\ s.ref = r /\ remote' = remote /\ Unused(r)
    BY <1>2 DEF AutopayRecheck, Opened, NewSession
  <2>2. Truthful(s) /\ Unknown(s) /\ \A v \in Workers : sess[v].ref # s.ref
    BY <2>1 DEF Truthful, Unknown, Unused, Answered
  <2> QED
    BY <2>1, <2>2, QuietStep
<1>3. CASE PayLoadBill(w) \/ LockBill(w) \/ StartPayout(w)
  <2>1. PICK s : /\ Become(w, s) /\ s.pc \in {"loaded", "bill_locked", "calling"}
                 /\ s.ref = sess[w].ref
    <3>3. CASE PayLoadBill(w)
      <4> DEFINE s == [sess[w] EXCEPT !.pc = "loaded",
                       !.status = bill[sess[w].bill].status, !.retry = bill[sess[w].bill].retry]
      <4>1. Become(w, s)
        BY <3>3 DEF PayLoadBill
      <4>2. s.pc \in {"loaded", "bill_locked", "calling"} /\ s.ref = sess[w].ref
        BY <1>s DEF Session
      <4> QED
        BY <4>1, <4>2
    <3>4. CASE LockBill(w)
      <4> DEFINE s == [sess[w] EXCEPT !.pc = "bill_locked",
                       !.status = CachedBill(w).status, !.retry = CachedBill(w).retry]
      <4>1. Become(w, s)
        BY <3>4 DEF LockBill
      <4>2. s.pc \in {"loaded", "bill_locked", "calling"} /\ s.ref = sess[w].ref
        BY <1>s DEF Session
      <4> QED
        BY <4>1, <4>2
    <3>5. CASE StartPayout(w)
      <4> DEFINE s == [sess[w] EXCEPT !.pc = "calling", !.balance = CachedBalance(w)]
      <4>1. Become(w, s)
        BY <3>5 DEF StartPayout
      <4>2. s.pc \in {"loaded", "bill_locked", "calling"} /\ s.ref = sess[w].ref
        BY <1>s DEF Session
      <4> QED
        BY <4>1, <4>2
    <3> QED
      BY <1>3, <3>3, <3>4, <3>5
  <2>2. remote' = remote /\ Reserved(sess[w])
    BY <1>3 DEF PayLoadBill, LockBill, StartPayout, Reserved
  <2>3. Truthful(s) /\ Unknown(s)
    BY <2>1, <2>2 DEF RemoteInv, Truthful, Unknown, Reserved, Answered
  <2>4. \A v \in Workers : v # w => sess[v].ref # s.ref \/ ~Reserved(sess[v])
    BY <2>1, <2>2 DEF RemoteInv, OwnReference
  <2> QED
    BY <2>1, <2>2, <2>3, <2>4, QuietStep
<1>4. CASE RefusePayout(w) \/ CommitDebit(w) \/ CommitRefund(w)
  BY <1>4, CloseQuiet DEF RefusePayout, CommitDebit, CommitRefund, Rollback
<1> QED
  BY <1>1, <1>2, <1>3, <1>4 DEF PayStep

\* The provider forgets no transfer, and a completed one stays so.
Progress ==
    \A r \in Refs : /\ remote[r] # "none" => remote'[r] # "none"
                    /\ remote[r] \in {"success", "reversed"} =>
                         remote'[r] \in {"success", "reversed"}

\* The call tells the provider of the session's own reference only.
LEMMA CallRemote ==
    ASSUME TypeOK, SessionInv, RemoteInv, NEW w \in Workers, CallStep(w)
    PROVE  RemoteInv' /\ Progress
<1>s. sess[w] \in Session /\ KnowsRows(sess[w]) /\ sess \in [Workers -> Session]
  BY DEF SessionInv, TypeOK
<1>1. CASE CallRaises(w)
  BY <1>1, CloseQuiet DEF CallRaises, Rollback, Progress
<1>2. CASE CallRejected(w)
  <2> DEFINE s == [sess[w] EXCEPT !.pc = "refunding"]
  <2>1. Become(w, s) /\ s.pc = "refunding" /\ remote' = remote
    BY <1>2, <1>s DEF CallRejected, Move, Session
  <2> QED
    BY <2>1, IdleStep DEF Reserved, Answered, Progress
<1>3. CASE CallAccepted(w) \/ CallLost(w)
  <2> DEFINE q == sess[w].ref
  <2>0. PICK st \in {"pending", "otp"} : remote' = [remote EXCEPT ![q] = st]
    BY <1>3 DEF CallAccepted, CallLost
  <2>1. PICK s : Become(w, s) /\ s.pc \in {"accepted", "refunding"} /\ s.ref = q
    <3>m. \A pc \in {"accepted", "refunding"} :
            [sess[w] EXCEPT !.pc = pc].pc = pc /\ [sess[w] EXCEPT !.pc = pc].ref = q
      BY <1>s, MovedType DEF PCs
    <3>o. /\ [sess[w] EXCEPT !.pc = "accepted", !.code = TRUE].pc = "accepted"
          /\ [sess[w] EXCEPT !.pc = "accepted", !.code = TRUE].ref = q
      BY <1>s DEF Session
    <3>1. \/ Move(w, "accepted") \/ Move(w, "refunding")
          \/ Become(w, [sess[w] EXCEPT !.pc = "accepted", !.code = TRUE])
      BY <1>3 DEF CallAccepted, CallLost
    <3>2. CASE Move(w, "accepted")
      <4> DEFINE s == [sess[w] EXCEPT !.pc = "accepted"]
      <4>1. Become(w, s)
        BY <3>2 DEF Move
      <4>2. s.pc = "accepted" /\ s.ref = q
        BY <3>m
      <4> QED
        BY <4>1, <4>2
    <3>3. CASE Move(w, "refunding")
      <4> DEFINE s == [sess[w] EXCEPT !.pc = "refunding"]
      <4>1. Become(w, s)
        BY <3>3 DEF Move
      <4>2. s.pc = "refunding" /\ s.ref = q
        BY <3>m
      <4> QED
        BY <4>1, <4>2
    <3>4. CASE Become(w, [sess[w] EXCEPT !.pc = "accepted", !.code = TRUE])
      BY <3>4, <3>o
    <3> QED
      BY <3>1, <3>2, <3>3, <3>4
  <2>2. sess[w].pc = "calling" /\ q \in Refs
    BY <1>3, <1>s DEF CallAccepted, CallLost, KnowsRows
  <2>3. Reserved(sess[w]) /\ remote[q] = "none"
    BY <2>2 DEF RemoteInv, Unknown, Reserved
  <2>4. remote'[q] = st /\ \A r \in Refs : r # q => remote'[r] = remote[r]
    BY <2>0, <2>2 DEF TypeOK
  <2>5. sess'[w] = s /\ \A v \in Workers : v # w => sess'[v] = sess[v]
    BY <2>1, OthersSame
  <2>6. ASSUME NEW v \in Workers, v # w PROVE Unknown(sess[v])' /\ Truthful(sess[v])'
    <3>1. Unknown(sess[v]) /\ Truthful(sess[v]) /\ OwnReference(w, v) /\ KnowsRows(sess[v])
      BY DEF RemoteInv, SessionInv
    <3>2. Reserved(sess[v]) => sess[v].ref \in Refs /\ sess[v].ref # q
      BY <2>3, <2>6, <3>1 DEF OwnReference, KnowsRows, Reserved
    <3>3. sess[v].pc \in Answered \cup {"accepted"} => sess[v].ref \in Refs
      BY <3>1 DEF KnowsRows, Answered
    <3>4. Unknown(sess[v])'
      BY <2>4, <2>5, <2>6, <3>1, <3>2 DEF Unknown, Reserved
    <3>5. Truthful(sess[v])'
      BY <2>3, <2>4, <2>5, <2>6, <3>1, <3>3 DEF Truthful, Answered
    <3> QED
      BY <3>4, <3>5
  <2>7. ~Reserved(sess'[w]) /\ Unknown(sess[w])' /\ Truthful(sess[w])'
    BY <2>1, <2>4, <2>5 DEF Unknown, Truthful, Reserved, Answered
  <2>8. \A v, x \in Workers : OwnReference(v, x)'
    BY <2>5, <2>7 DEF RemoteInv, OwnReference, Reserved
  <2>9. Progress
    BY <2>3, <2>4 DEF Progress
  <2> QED
    BY <2>6, <2>7, <2>8, <2>9 DEF RemoteInv
<1> QED
  BY <1>1, <1>2, <1>3 DEF CallStep

\* The provider moves on by itself: nothing a session relies on is taken back.
Settles == Progress /\ \A r \in Refs : remote[r] = "none" => remote'[r] = "none"

\* What other sessions know stays true when a transfer progresses.
LEMMA OtherTruths ==
    ASSUME NEW v \in Workers, SessionInv, RemoteInv, Settles, sess'[v] = sess[v]
    PROVE  Unknown(sess[v])' /\ Truthful(sess[v])'
<1>1. Unknown(sess[v]) /\ Truthful(sess[v]) /\ KnowsRows(sess[v])
  BY DEF RemoteInv, SessionInv
<1>2. sess[v].pc \notin {"idle", "cancelling"} => sess[v].ref \in Refs
  BY <1>1 DEF KnowsRows
<1>3. Unknown(sess[v])'
  BY <1>1, <1>2 DEF Unknown, Reserved, Settles
<1>4. Truthful(sess[v])'
  BY <1>1, <1>2 DEF Truthful, Answered, Settles, Progress
<1> QED
  BY <1>3, <1>4

\* A step in which transfers only progress keeps RemoteInv.
LEMMA SettlesStep ==
    ASSUME NEW w \in Workers, NEW s, TypeOK, SessionInv, RemoteInv, Become(w, s), Settles,
           ~Reserved(s), s.pc # "accepted",
           s.pc \in Answered /\ s.outcome = "success" => remote'[s.ref] \in {"success", "reversed"}
    PROVE  RemoteInv'
<1>1. sess'[w] = s /\ \A v \in Workers : v # w => sess'[v] = sess[v]
  BY OthersSame
<1>2. ASSUME NEW v \in Workers PROVE Unknown(sess[v])' /\ Truthful(sess[v])'
  BY <1>1, OtherTruths DEF Unknown, Truthful, Reserved, Answered
<1>3. ASSUME NEW v \in Workers, NEW x \in Workers PROVE OwnReference(v, x)'
  BY <1>1 DEF RemoteInv, OwnReference, Reserved
<1> QED
  BY <1>2, <1>3 DEF RemoteInv

\* A step that tells the provider nothing is one.
LEMMA StillSettles == remote' = remote => Settles
BY DEF Settles, Progress

\* A webhook's success is one at the provider.
LEMMA WebhookRemote ==
    ASSUME TypeOK, SessionInv, RemoteInv, NEW w \in Workers, WebhookStep(w)
    PROVE  RemoteInv' /\ remote' = remote
<1>1. ASSUME NEW r \in Refs, NEW e \in EventKinds, WebhookIgnored(w, r, e)
      PROVE  RemoteInv' /\ remote' = remote
  BY <1>1 DEF WebhookIgnored, RemoteInv, Unknown, Truthful, OwnReference
<1>2. ASSUME NEW r \in Refs, NEW e \in EventKinds, WebhookRead(w, r, e)
      PROVE  RemoteInv' /\ remote' = remote
  <2> DEFINE s == [Opened("webhook", "txn_read", r) EXCEPT !.outcome = e]
  <2>1. /\ Become(w, s) /\ remote' = remote
        /\ s.pc = "txn_read" /\ s.job = "webhook" /\ s.outcome = e /\ s.ref = r
    BY <1>2 DEF WebhookRead, Opened, NewSession
  <2>2. e = "success" => remote[r] \in {"success", "reversed"}
    BY <1>2 DEF WebhookRead, Accepts, Emitted
  <2> QED
    BY <2>1, <2>2, StillSettles, SettlesStep DEF Reserved
<1> QED
  BY <1>1, <1>2 DEF WebhookStep

\* A polled success is one at the provider.
LEMMA ReconcileRemote ==
    ASSUME TypeOK, SessionInv, RemoteInv, NEW w \in Workers, ReconcileStep(w)
    PROVE  RemoteInv' /\ remote' = remote
<1>s. sess[w] \in Session /\ Truthful(sess[w])
  BY DEF RemoteInv, TypeOK
<1>1. ASSUME NEW r \in Refs, ReconcilePick(w, r) PROVE RemoteInv' /\ remote' = remote
  <2> DEFINE s == [Opened("reconcile", "polling", r) EXCEPT !.code = txn[r].code]
  <2>1. Become(w, s) /\ remote' = remote /\ s.pc = "polling" /\ s.job = "reconcile"
    BY <1>1 DEF ReconcilePick, Opened, NewSession
  <2> QED
    BY <2>1, IdleStep DEF Reserved, Answered
<1>2. CASE ReconcilePolled(w)
  <2> DEFINE s == [sess[w] EXCEPT !.pc = "polled", !.outcome = Polled(remote[sess[w].ref])]
  <2>1. Become(w, s) /\ remote' = remote
    BY <1>2 DEF ReconcilePolled
  <2>2. s.pc = "polled" /\ s.ref = sess[w].ref /\ s.outcome = Polled(remote[sess[w].ref])
    BY <1>s DEF Session
  <2>3. s.outcome = "success" => remote[s.ref] = "success"
    BY <2>2 DEF Polled
  <2> QED
    BY <2>1, <2>2, <2>3, StillSettles, SettlesStep DEF Reserved
<1>3. CASE ReconcileError(w) \/ ReconcileSkip(w)
  BY <1>3, CloseQuiet DEF ReconcileError, ReconcileSkip, Rollback
<1>4. CASE ReconcileSettle(w)
  <2>0. sess[w].pc = "polled" /\ remote' = remote
    BY <1>4 DEF ReconcileSettle
  <2>1. CASE Move(w, "txn_read")
    <3> DEFINE s == [sess[w] EXCEPT !.pc = "txn_read"]
    <3>1. Become(w, s)
      BY <2>1 DEF Move
    <3>2. s.pc = "txn_read" /\ s.ref = sess[w].ref /\ s.outcome = sess[w].outcome
      BY <1>s DEF Session
    <3> QED
      BY <1>s, <2>0, <3>1, <3>2, StillSettles, SettlesStep DEF Reserved, Truthful, Answered
  <2>2. CASE Become(w, [sess[w] EXCEPT !.pc = "txn_read", !.outcome = "failed"])
    <3> DEFINE s == [sess[w] EXCEPT !.pc = "txn_read", !.outcome = "failed"]
    <3>1. s.pc = "txn_read" /\ s.outcome = "failed"
      BY <1>s DEF Session
    <3> QED
      BY <2>0, <2>2, <3>1, IdleStep DEF Reserved
  <2> QED
    BY <1>4, <2>0, <2>1, <2>2 DEF ReconcileSettle
<1> QED
  BY <1>1, <1>2, <1>3, <1>4 DEF ReconcileStep

\* The success that answers an OTP is one at the provider.
LEMMA OtpRemote ==
    ASSUME TypeOK, SessionInv, RemoteInv, NEW w \in Workers, OtpStep(w)
    PROVE  RemoteInv' /\ Progress
<1>s. sess[w] \in Session /\ Truthful(sess[w]) /\ KnowsRows(sess[w])
  BY DEF RemoteInv, SessionInv, TypeOK
<1>u. remote' = remote => Progress
  BY DEF Progress
<1>1. ASSUME NEW r \in Refs, OtpRequest(w, r) PROVE RemoteInv' /\ Progress
  <2> DEFINE s == [Opened("otp_api", "authed", r) EXCEPT !.balance = balance[Owner[BillOf[r]]]]
  <2>1. Become(w, s) /\ remote' = remote /\ s.pc = "authed" /\ s.job = "otp_api"
    BY <1>1 DEF OtpRequest, Opened, NewSession
  <2> QED
    BY <1>u, <2>1, IdleStep DEF Reserved, Answered
<1>2. ASSUME NEW r \in Refs, OtpCommand(w, r) PROVE RemoteInv' /\ Progress
  <2> DEFINE s == [Opened("otp_bot", "otp_loaded", r) EXCEPT !.balance = balance[Owner[BillOf[r]]]]
  <2>1. Become(w, s) /\ remote' = remote /\ s.pc = "otp_loaded" /\ s.job = "otp_bot"
    BY <1>2 DEF OtpCommand, Opened, NewSession
  <2> QED
    BY <1>u, <2>1, IdleStep DEF Reserved, Answered
<1>3. CASE OtpLoadBill(w)
  <2> DEFINE row == bill[sess[w].bill]
             s == [sess[w] EXCEPT !.pc = "otp_loaded", !.status = row.status, !.retry = row.retry]
  <2>1. Become(w, s) /\ remote' = remote
    BY <1>3 DEF OtpLoadBill
  <2>2. s.pc = "otp_loaded"
    BY <1>s DEF Session
  <2> QED
    BY <1>u, <2>1, <2>2, IdleStep DEF Reserved, Answered
<1>4. CASE OtpLock(w)
  <2> DEFINE s == [sess[w] EXCEPT !.pc = "finalizing"]
  <2>1. Become(w, s) /\ remote' = remote
    BY <1>4 DEF OtpLock, Move
  <2>2. s.pc = "finalizing"
    BY <1>s DEF Session
  <2> QED
    BY <1>u, <2>1, <2>2, IdleStep DEF Reserved, Answered
<1>5. CASE OtpNotFound(w) \/ OtpPending(w)
  BY <1>5, <1>u, CloseQuiet DEF OtpNotFound, OtpPending, Rollback
<1>6. CASE OtpAccepted(w)
  <2>1. PICK answer : /\ Become(w, [sess[w] EXCEPT !.pc = "replied", !.outcome = answer])
                      /\ answer = "success" => remote' = [remote EXCEPT ![sess[w].ref] = "success"]
    BY <1>6 DEF OtpAccepted, InProgress
  <2> DEFINE s == [sess[w] EXCEPT !.pc = "replied", !.outcome = answer]
  <2>2. s.pc = "replied" /\ s.outcome = answer /\ s.ref = sess[w].ref
    BY <1>s DEF Session
  <2>3. sess[w].ref \in Refs /\ remote[sess[w].ref] = "otp"
    BY <1>s, <1>6 DEF OtpAccepted, KnowsRows
  <2>4. Settles
    BY <1>6, <2>3 DEF OtpAccepted, Settles, Progress, TypeOK
  <2>5. answer = "success" => remote'[s.ref] = "success"
    BY <2>1, <2>2, <2>3 DEF TypeOK
  <2> QED
    BY <2>1, <2>2, <2>4, <2>5, SettlesStep DEF Reserved, Settles
<1>7. CASE OtpRejected(w)
  <2>1. Become(w, Idle) /\ Idle.pc = "idle"
    BY <1>7, IdleType DEF OtpRejected, Close
  <2>2. Settles
    BY <1>7 DEF OtpRejected, Settles, Progress, TypeOK
  <2> QED
    BY <2>1, <2>2, SettlesStep DEF Reserved, Answered, Settles
<1>8. CASE OtpSettle(w)
  <2> DEFINE s == [sess[w] EXCEPT !.pc = "txn_read"]
  <2>1. Become(w, s) /\ remote' = remote /\ sess[w].pc = "replied"
    BY <1>8 DEF OtpSettle, Move
  <2>2. s.pc = "txn_read" /\ s.ref = sess[w].ref /\ s.outcome = sess[w].outcome
    BY <1>s DEF Session
  <2> QED
    BY <1>s, <1>u, <2>1, <2>2, StillSettles, SettlesStep DEF Reserved, Truthful, Answered
<1> QED
  BY <1>1, <1>2, <1>3, <1>4, <1>5, <1>6, <1>7, <1>8 DEF OtpStep

\* confirm_payout and a cancellation tell the provider nothing.
LEMMA ConfirmRemote ==
    ASSUME TypeOK, SessionInv, RemoteInv, NEW w \in Workers, ConfirmStep(w) \/ CancelStep(w)
    PROVE  RemoteInv' /\ remote' = remote
<1>s. sess[w] \in Session /\ Truthful(sess[w])
  BY DEF RemoteInv, TypeOK
<1>0. CASE ConfirmReadBill(w)
  <2> DEFINE row == IF sess[w].job = "otp_api"
                    THEN [status |-> sess[w].status, retry |-> sess[w].retry]
                    ELSE bill[sess[w].bill]
             s == [sess[w] EXCEPT !.pc = "bill_read", !.status = row.status, !.retry = row.retry]
  <2>1. Become(w, s) /\ remote' = remote /\ sess[w].pc = "txn_read"
    BY <1>0 DEF ConfirmReadBill
  <2>2. s.pc = "bill_read" /\ s.ref = sess[w].ref /\ s.outcome = sess[w].outcome
    BY <1>s DEF Session
  <2> QED
    BY <1>s, <2>1, <2>2, StillSettles, SettlesStep DEF Reserved, Truthful, Answered
<1>1. CASE ConfirmReadUser(w)
  <2> DEFINE wallet == IF sess[w].job \in {"otp_api", "otp_bot"} THEN sess[w].balance
                       ELSE balance[Owner[sess[w].bill]]
             s == [sess[w] EXCEPT !.pc = "flushing", !.balance = wallet]
  <2>1. Become(w, s) /\ remote' = remote /\ sess[w].pc = "bill_read"
    BY <1>1 DEF ConfirmReadUser
  <2>2. s.pc = "flushing" /\ s.ref = sess[w].ref /\ s.outcome = sess[w].outcome
    BY <1>s DEF Session
  <2> QED
    BY <1>s, <2>1, <2>2, StillSettles, SettlesStep DEF Reserved, Truthful, Answered
<1>2. CASE FlushRow(w)
  BY <1>2 DEF FlushRow, RemoteInv, Unknown, Truthful, OwnReference
<1>3. CASE ConfirmSuccess(w) \/ ConfirmFailure(w) \/ CancelCommit(w)
  BY <1>3, CloseQuiet DEF ConfirmSuccess, ConfirmFailure, CancelCommit
<1>4. ASSUME NEW b \in Bills, CancelLoad(w, b) PROVE RemoteInv' /\ remote' = remote
  <2> DEFINE s == [NewSession("cancel", "cancelling", b, NoRef) EXCEPT !.status = bill[b].status]
  <2>1. Become(w, s) /\ remote' = remote /\ s.pc = "cancelling"
    BY <1>4 DEF CancelLoad, NewSession
  <2> QED
    BY <2>1, IdleStep DEF Reserved, Answered
<1> QED
  BY <1>0, <1>1, <1>2, <1>3, <1>4 DEF ConfirmStep, CancelStep

\* Every step keeps RemoteInv, and transfers only progress.
LEMMA NextRemote ==
    TypeOK /\ SessionInv /\ RemoteInv /\ [Next]_vars => RemoteInv' /\ Progress
<1> SUFFICES ASSUME TypeOK, SessionInv, RemoteInv, [Next]_vars PROVE RemoteInv' /\ Progress
  OBVIOUS
<1>u. remote' = remote => Progress
  BY DEF Progress
<1>1. ASSUME NEW w \in Workers, PayStep(w) PROVE Progress
  BY <1>1, <1>u DEF PayStep, PayRequest, AutopayRecheck, PayLoadBill, LockBill,
       RefusePayout, StartPayout, CommitDebit, CommitRefund, Rollback
<1>2. ASSUME NEW w \in Workers, DeadlockAbort(w) PROVE RemoteInv' /\ Progress
  BY <1>2, <1>u, CloseQuiet DEF DeadlockAbort, Rollback
<1>3. ASSUME NEW r \in Refs, RemoteSettle(r) PROVE RemoteInv' /\ Progress
  <2>1. Settles /\ sess' = sess
    BY <1>3 DEF RemoteSettle, Settles, Progress, TypeOK
  <2> QED
    BY <2>1, OtherTruths DEF RemoteInv, OwnReference, Settles
<1>4. CASE Crash
  <2>1. ~Reserved(Idle) /\ Idle.pc # "accepted" /\ Idle.pc \notin Answered
    BY DEF Idle, NewSession, Reserved, Answered
  <2>2. \A w \in Workers : sess'[w] = Idle
    BY <1>4 DEF Crash
  <2>3. remote' = remote
    BY <1>4 DEF Crash
  <2> QED
    BY <1>u, <2>1, <2>2, <2>3 DEF RemoteInv, Unknown, Truthful, OwnReference, Reserved, Answered
<1>5. CASE UNCHANGED vars
  BY <1>5, <1>u DEF vars, RemoteInv, Unknown, Truthful, OwnReference
<1>6. ASSUME NEW w \in Workers,
             \/ PayStep(w) \/ CallStep(w) \/ WebhookStep(w) \/ ReconcileStep(w)
             \/ OtpStep(w) \/ ConfirmStep(w) \/ CancelStep(w)
      PROVE  RemoteInv' /\ Progress
  BY <1>1, <1>6, <1>u, PayRemote, CallRemote, WebhookRemote, ReconcileRemote, OtpRemote,
     ConfirmRemote
<1> QED
  BY <1>2, <1>3, <1>4, <1>5, <1>6 DEF Next, StepOf

\* What a step does to the rows that record a debit.
LEMMA NextCharged ==
    /\ TypeOK /\ SessionInv /\ RemoteInv /\ ChargedMeansAccepted /\ [Next]_vars
    => ChargedMeansAccepted'
<1> SUFFICES ASSUME TypeOK, SessionInv, RemoteInv, ChargedMeansAccepted, [Next]_vars
             PROVE  ChargedMeansAccepted'
  OBVIOUS
<1>p. Progress
  BY NextRemote
<1>u. txn' = txn => ChargedMeansAccepted'
  BY <1>p DEF ChargedMeansAccepted, Progress
<1>s. ASSUME NEW w \in Workers PROVE KnowsRows(sess[w]) /\ Truthful(sess[w])
  BY DEF SessionInv, RemoteInv
<1>1. ASSUME NEW w \in Workers, CommitDebit(w) PROVE ChargedMeansAccepted'
  <2>1. remote' = remote /\ remote[sess[w].ref] # "none"
    BY <1>s, <1>1 DEF CommitDebit, Truthful
  <2> QED
    BY <1>1, <2>1 DEF CommitDebit, ChargedMeansAccepted, TypeOK
<1>2. ASSUME NEW w \in Workers, ConfirmSuccess(w) PROVE ChargedMeansAccepted'
  <2>1. remote' = remote /\ remote[sess[w].ref] # "none"
    BY <1>s, <1>2 DEF ConfirmSuccess, FlushDone, Truthful, Answered
  <2> QED
    BY <1>2, <2>1 DEF ConfirmSuccess, ChargedMeansAccepted, TypeOK, TxnRow
<1>3. ASSUME NEW w \in Workers, CommitRefund(w) PROVE ChargedMeansAccepted'
  BY <1>3 DEF CommitRefund, ChargedMeansAccepted, TypeOK
<1>4. ASSUME NEW w \in Workers, ConfirmFailure(w) PROVE ChargedMeansAccepted'
  BY <1>4 DEF ConfirmFailure, ChargedMeansAccepted, TypeOK, TxnRow
<1>5. ASSUME NEW w \in Workers, PayStep(w) PROVE ChargedMeansAccepted'
  BY <1>1, <1>3, <1>5, <1>u DEF PayStep, PayRequest, AutopayRecheck, PayLoadBill, LockBill,
       RefusePayout, StartPayout, Rollback, tables
<1>6. ASSUME NEW w \in Workers, ConfirmStep(w) \/ CancelStep(w) PROVE ChargedMeansAccepted'
  BY <1>2, <1>4, <1>6, <1>u DEF ConfirmStep, ConfirmReadBill, ConfirmReadUser, FlushRow, CancelStep, CancelLoad,
       CancelCommit, tables
<1>7. ASSUME NEW w \in Workers,
             CallStep(w) \/ WebhookStep(w) \/ ReconcileStep(w) \/ DeadlockAbort(w)
      PROVE  txn' = txn
  BY <1>7 DEF CallStep, CallRejected, CallRaises, CallAccepted, CallLost, WebhookStep,
       WebhookIgnored, WebhookRead, ReconcileStep, ReconcilePick, ReconcilePolled,
       ReconcileError, ReconcileSettle, ReconcileSkip, DeadlockAbort, Rollback, tables
<1>8. ASSUME NEW w \in Workers, OtpStep(w) PROVE txn' = txn
  BY <1>8 DEF OtpStep, OtpRequest, OtpCommand, OtpLoadBill, OtpLock, OtpNotFound,
       OtpAccepted, OtpRejected, OtpPending, OtpSettle, Rollback, tables
<1>9. (\E r \in Refs : RemoteSettle(r)) \/ Crash \/ UNCHANGED vars => txn' = txn
  BY DEF RemoteSettle, Crash, vars, tables
<1> QED
  BY <1>u, <1>5, <1>6, <1>7, <1>8, <1>9 DEF Next, StepOf

\* What a step does to the status of the bills.
LEMMA NextPaid ==
    /\ TypeOK /\ SessionInv /\ RemoteInv /\ PaidMeansTransferred /\ [Next]_vars
    => PaidMeansTransferred'
<1> SUFFICES ASSUME TypeOK, SessionInv, RemoteInv, PaidMeansTransferred, [Next]_vars
             PROVE  PaidMeansTransferred'
  OBVIOUS
<1> DEFINE Done(b) == \E r \in Refs : BillOf[r] = b /\ remote'[r] \in {"success", "reversed"}
<1>p. Progress
  BY NextRemote
<1>q. (\A b \in Bills : bill'[b].status = "paid" => bill[b].status = "paid" \/ Done(b))
        => PaidMeansTransferred'
  BY <1>p DEF PaidMeansTransferred, Progress
<1>u. bill' = bill => PaidMeansTransferred'
  BY <1>q
<1>s. ASSUME NEW w \in Workers
      PROVE  sess[w] \in Session /\ KnowsRows(sess[w]) /\ Truthful(sess[w])
  BY DEF SessionInv, RemoteInv, TypeOK
<1>1. ASSUME NEW w \in Workers, CommitDebit(w) PROVE PaidMeansTransferred'
  BY <1>1, <1>q DEF CommitDebit, TypeOK, BillRow
<1>2. ASSUME NEW w \in Workers, CommitRefund(w) PROVE PaidMeansTransferred'
  <2>1. RetryStatus(sess[w].retry + 1) # "paid"
    BY DEF RetryStatus
  <2> QED
    BY <1>2, <2>1, <1>q DEF CommitRefund, TypeOK, BillRow
<1>3. ASSUME NEW w \in Workers, ConfirmSuccess(w) PROVE PaidMeansTransferred'
  <2>1. Done(sess[w].bill)
    BY <1>s, <1>3 DEF ConfirmSuccess, FlushDone, KnowsRows, Truthful, Answered
  <2>2. \A b \in Bills : b # sess[w].bill => bill'[b] = bill[b]
    BY <1>3 DEF ConfirmSuccess, TypeOK
  <2> QED
    BY <2>1, <2>2, <1>q
<1>4. ASSUME NEW w \in Workers, ConfirmFailure(w) PROVE PaidMeansTransferred'
  <2>1. RetryStatus(sess[w].retry + 1) # "paid"
    BY DEF RetryStatus
  <2> QED
    BY <1>4, <2>1, <1>q DEF ConfirmFailure, Written, TypeOK, BillRow
<1>5. ASSUME NEW w \in Workers, CancelCommit(w) PROVE PaidMeansTransferred'
  BY <1>5, <1>q DEF CancelCommit, TypeOK, BillRow
<1>6. ASSUME NEW w \in Workers, PayStep(w) PROVE PaidMeansTransferred'
  BY <1>1, <1>2, <1>6, <1>u DEF PayStep, PayRequest, AutopayRecheck, PayLoadBill, LockBill,
       RefusePayout, StartPayout, Rollback, tables
<1>7. ASSUME NEW w \in Workers, ConfirmStep(w) \/ CancelStep(w) PROVE PaidMeansTransferred'
  BY <1>3, <1>4, <1>5, <1>7, <1>u DEF ConfirmStep, ConfirmReadBill, ConfirmReadUser, FlushRow, CancelStep,
       CancelLoad, tables
<1>8. ASSUME NEW w \in Workers,
             CallStep(w) \/ WebhookStep(w) \/ ReconcileStep(w) \/ DeadlockAbort(w)
      PROVE  bill' = bill
  BY <1>8 DEF CallStep, CallRejected, CallRaises, CallAccepted, CallLost, WebhookStep,
       WebhookIgnored, WebhookRead, ReconcileStep, ReconcilePick, ReconcilePolled,
       ReconcileError, ReconcileSettle, ReconcileSkip, DeadlockAbort, Rollback, tables
<1>9. ASSUME NEW w \in Workers, OtpStep(w) PROVE bill' = bill
  BY <1>9 DEF OtpStep, OtpRequest, OtpCommand, OtpLoadBill, OtpLock, OtpNotFound,
       OtpAccepted, OtpRejected, OtpPending, OtpSettle, Rollback, tables
<1>10. (\E r \in Refs : RemoteSettle(r)) \/ Crash \/ UNCHANGED vars => bill' = bill
  BY DEF RemoteSettle, Crash, vars, tables
<1> QED
  BY <1>u, <1>6, <1>7, <1>8, <1>9, <1>10 DEF Next, StepOf

\* At the start the provider knows of no transfer.
LEMMA InitInformed == Init => RemoteInv /\ ChargedMeansAccepted /\ PaidMeansTransferred
<1>1. ASSUME Init PROVE RemoteInv
  <2>1. ~Reserved(Idle) /\ Idle.pc # "accepted" /\ Idle.pc \notin Answered
    BY DEF Idle, NewSession, Reserved, Answered
  <2>2. \A w \in Workers : sess[w] = Idle
    BY <1>1 DEF Init
  <2> QED
    BY <2>1, <2>2 DEF RemoteInv, Unknown, Truthful, OwnReference
<1>2. Init => ChargedMeansAccepted
  BY DEF Init, ChargedMeansAccepted, NoTxn
<1>3. Init => PaidMeansTransferred
  BY DEF Init, PaidMeansTransferred
<1> QED
  BY <1>1, <1>2, <1>3

\* What the provider knows, together an invariant.
LEMMA Informed == Spec => [](RemoteInv /\ ChargedMeansAccepted /\ PaidMeansTransferred)
BY InitInformed, NextRemote, NextCharged, NextPaid, Typed, PTL DEF Spec

\* A debit that counts belongs to a transfer the provider accepted: across
\* crashes, lost answers, repeated webhooks and stale sessions.
THEOREM DebitsAreAccepted == Spec => []ChargedMeansAccepted
BY Informed, PTL

\* A bill is shown as paid only if a transfer made for it was completed at the
\* provider: no webhook, poll or OTP answer makes it paid otherwise.
THEOREM PaidBillsAreTransferred == Spec => []PaidMeansTransferred
BY Informed, PTL

\* The invariant that carries them all is one of every reachable state.
THEOREM InductiveInvariant == Spec => []IInv
BY Typed, Locked, Informed, PTL DEF IInv

-----------------------------------------------------------------------------
(* What is charged to a user                                               *)

\* What each reference is a debit of.
Prices == [r \in Refs |-> Charge(BillOf[r])]

\* The sum the model takes of the charges of some debits is their total.
LEMMA ChargesTotal ==
    ASSUME IsFiniteSet(Refs), NEW D \in SUBSET Refs
    PROVE  SumOfCharges(D) = Total(Prices, D)
<1> DEFINE F == CHOOSE f : f = [s \in SUBSET D |-> IF s = {} THEN 0 
                  ELSE Charge(BillOf[Pick(s)]) + f[s \ {Pick(s)}]]
<1>1. SumOfCharges(D) = F[D]
  BY DEF SumOfCharges, MapThenSumSet, MapThenFoldSet, Pick
<1>2. IsFiniteSet(D)
  BY FS_Subset
<1>3. \A s \in SUBSET D : s # {} => Prices[Pick(s)] = Charge(BillOf[Pick(s)])
  BY PickType DEF Prices
<1>a. ASSUME NEW f PROVE Summed(f, Prices, D) <=> f = [s \in SUBSET D |-> IF s = {} THEN 0 
                  ELSE Charge(BillOf[Pick(s)]) + f[s \ {Pick(s)}]]
  <2> DEFINE one(s) == IF s = {} THEN 0 ELSE Prices[Pick(s)] + f[s \ {Pick(s)}]
             two(s) == IF s = {} THEN 0 ELSE Charge(BillOf[Pick(s)]) + f[s \ {Pick(s)}]
  <2>1. \A s \in SUBSET D : one(s) = two(s)
    BY <1>3
  <2>2. [s \in SUBSET D |-> one(s)] = [s \in SUBSET D |-> two(s)]
    <3> HIDE DEF one, two
    <3> QED
      BY <2>1
  <2> QED
    BY <2>2 DEF Summed
<1>4. Summed(F, Prices, D)
  <2>1. PICK f : Summed(f, Prices, D)
    BY <1>2, SummedExists
  <2>2. f = [s \in SUBSET D |-> IF s = {} THEN 0 
                  ELSE Charge(BillOf[Pick(s)]) + f[s \ {Pick(s)}]]
    BY <2>1, <1>a
  <2>3. F = [s \in SUBSET D |-> IF s = {} THEN 0 
                  ELSE Charge(BillOf[Pick(s)]) + F[s \ {Pick(s)}]]
    BY <2>2
  <2> QED
    BY <2>3, <1>a
<1> HIDE DEF F
<1>5. F[D] = Total(Prices, D)
  BY <1>2, <1>4, TotalSummed
<1> QED
  BY <1>1, <1>5

\* What is charged to a user is the total of the user's debits, before and
\* after a step.
LEMMA ChargedTotal ==
    ASSUME IsFiniteSet(Refs), NEW u
    PROVE  /\ Charged(u) = Total(Prices, DebitsOf(u))
           /\ Charged(u)' = Total(Prices, DebitsOf(u)')
<1>1. Charged(u) = SumOfCharges(DebitsOf(u)) 
  BY DEF Charged
<1>2. Charged(u)' = SumOfCharges(DebitsOf(u)') 
  BY DEF Charged
<1>3. DebitsOf(u) \in SUBSET Refs /\ DebitsOf(u)' \in SUBSET Refs
  BY DEF DebitsOf
<1> QED
  BY <1>1, <1>2, <1>3, ChargesTotal

-----------------------------------------------------------------------------
(* What is recorded of a transfer, when the provider's answers arrive      *)

\* What the steps are taken under, and what a transfer is known by.
Answering == AnswersArrive /\ TypeOK /\ SessionInv /\ RemoteInv /\ OutcomeInv
Transfers == <<txn, remote>>

\* A closed session has nothing to know.
LEMMA IdleKnows == KnowsOutcome(Idle) /\ ~Attempting(Idle) /\ KnowsOutcome(Idle)'
<1>1. Idle.pc = "idle" /\ Idle.job = "none" /\ Idle.code = FALSE
  BY DEF Idle, NewSession
<1> QED
  BY <1>1 DEF KnowsOutcome, Attempting, Holding, Recording, Answered

\* A step of one session that leaves the debits and the transfers alone.
LEMMA KnowsStep ==
    ASSUME Answering, NEW w \in Workers, NEW s \in Session, Become(w, s), UNCHANGED Transfers,
           KnowsOutcome(s),
           Attempting(s) =>
             \A v \in Workers : v # w /\ Attempting(sess[v]) => sess[v].ref # s.ref
    PROVE  OutcomeInv'
<1>1. sess'[w] = s /\ \A v \in Workers : v # w => sess'[v] = sess[v]
  BY OneChanges DEF Answering, TypeOK
<1>2. txn' = txn /\ remote' = remote
  BY DEF Transfers
<1>3. ASSUME NEW v \in Workers PROVE KnowsOutcome(sess[v])'
  <2>1. KnowsOutcome(sess'[v])
    BY <1>1 DEF Answering, OutcomeInv
  <2> QED
    BY <1>2, <2>1 DEF KnowsOutcome, Attempting
<1>4. ASSUME NEW v \in Workers, NEW x \in Workers PROVE OwnAttempt(v, x)'
  BY <1>1 DEF Answering, OutcomeInv, OwnAttempt, Attempting
<1>5. NoneParked' /\ FailedIsOver'
  BY <1>2 DEF Answering, OutcomeInv, NoneParked, FailedIsOver
<1> QED
  BY <1>3, <1>4, <1>5 DEF OutcomeInv

\* A session that closes without a commit.
LEMMA KnowsClose ==
    ASSUME Answering, NEW w \in Workers, Close(w), UNCHANGED Transfers
    PROVE  OutcomeInv'
BY IdleType, IdleKnows, KnowsStep DEF Close

\* An attempt that goes on with the reference it has.
LEMMA KnowsAttempt ==
    ASSUME Answering, NEW w \in Workers, NEW s \in Session, Become(w, s), UNCHANGED Transfers,
           Attempting(sess[w]), Attempting(s), s.job = sess[w].job, s.ref = sess[w].ref,
           s.code = sess[w].code, s.pc = "refunding" => remote[s.ref] = "none"
    PROVE  OutcomeInv'
<1>1. KnowsOutcome(sess[w]) /\ \A v \in Workers : OwnAttempt(w, v)
  BY DEF Answering, OutcomeInv
<1>2. KnowsOutcome(s)
  BY <1>1 DEF KnowsOutcome, Attempting, Holding, Recording, Answered
<1> QED
  BY <1>1, <1>2, KnowsStep DEF OwnAttempt

\* A confirmation that goes on with the debit it has.
LEMMA KnowsConfirming ==
    ASSUME Answering, NEW w \in Workers, NEW s \in Session, Become(w, s), UNCHANGED Transfers,
           sess[w].pc \in {"polling", "polled"} \cup Recording, s.pc \in {"polled"} \cup Recording,
           s.job = sess[w].job, s.ref = sess[w].ref, s.code = sess[w].code,
           s.pc \in Recording => s.outcome \in EventKinds,
           s.outcome \in {"failed", "reversed"} => remote[s.ref] \in {"failed", "reversed"}
    PROVE  OutcomeInv'
<1>1. KnowsOutcome(sess[w])
  BY DEF Answering, OutcomeInv
<1>2. KnowsOutcome(s) /\ ~Attempting(s)
  BY <1>1 DEF KnowsOutcome, Attempting, Holding, Recording, Answered
<1> QED
  BY <1>1, <1>2, KnowsStep

\* A session that commits what becomes of a debit, and closes.
LEMMA KnowsCommit ==
    ASSUME Answering, NEW w \in Workers, Close(w), remote' = remote,
           NEW r \in Refs, r = sess[w].ref, \A q \in Refs : q # r => txn'[q] = txn[q],
           Attempting(sess[w]) \/ txn[r].status # "none",
           ~txn'[r].code, txn'[r].status # "none",
           txn'[r].status = "failed" => remote[r] \in {"none", "failed", "reversed"}
    PROVE  OutcomeInv'
<1>1. sess'[w] = Idle /\ \A v \in Workers : v # w => sess'[v] = sess[v]
  BY IdleType, OneChanges DEF Close, Answering, TypeOK
<1>2. ASSUME NEW v \in Workers, v # w PROVE KnowsOutcome(sess[v])'
  <2>1. KnowsOutcome(sess[v]) /\ OwnAttempt(v, w) /\ KnowsRows(sess[v])
    BY DEF Answering, OutcomeInv, SessionInv
  <2>2. ASSUME Attempting(sess[v]) PROVE txn'[sess[v].ref] = txn[sess[v].ref]
    <3>1. sess[v].ref \in Refs
      BY <2>1, <2>2 DEF KnowsRows, Attempting, Holding
    <3>2. sess[v].ref # r
      BY <1>2, <2>1, <2>2 DEF OwnAttempt, KnowsOutcome
    <3> QED
      BY <3>1, <3>2
  <2>3. ASSUME sess[v].pc \in {"polling", "polled"} \cup Recording
        PROVE  txn'[sess[v].ref].status # "none"
    <3>1. sess[v].ref \in Refs /\ txn[sess[v].ref].status # "none"
      BY <2>1, <2>3 DEF KnowsRows, KnowsOutcome, Recording
    <3> QED
      BY <3>1
  <2>4. sess'[v] = sess[v]
    BY <1>1, <1>2
  <2> QED
    BY <2>1, <2>2, <2>3, <2>4 DEF KnowsOutcome, Attempting
<1>3. KnowsOutcome(sess[w])'
  BY <1>1, IdleKnows DEF KnowsOutcome, Attempting
<1>4. ASSUME NEW v \in Workers, NEW x \in Workers PROVE OwnAttempt(v, x)'
  BY <1>1, IdleKnows DEF Answering, OutcomeInv, OwnAttempt, Attempting
<1>5. NoneParked' /\ FailedIsOver'
  BY DEF Answering, OutcomeInv, NoneParked, FailedIsOver
<1> QED
  BY <1>2, <1>3, <1>4, <1>5 DEF OutcomeInv

\* The steps of a payment.
LEMMA PayKnows ==
    ASSUME Answering, NEW w \in Workers, PayStep(w)
    PROVE  OutcomeInv'
<1>s. /\ sess[w] \in Session /\ KnowsRows(sess[w]) /\ KnowsOutcome(sess[w])
      /\ balance \in [Users -> Int] /\ bill \in [Bills -> BillRow]
  BY DEF Answering, TypeOK, SessionInv, OutcomeInv
<1>o. ASSUME NEW s \in Session, NEW r \in Refs, Become(w, s), UNCHANGED Transfers, Unused(r),
             s.pc \in {"authed", "loaded"}, s.job \in {"pay", "autopay"}, s.ref = r, ~s.code
      PROVE  OutcomeInv'
  <2>1. txn[r].status = "none" /\ \A v \in Workers : sess[v].ref # r
    BY <1>o DEF Unused, NoTxn
  <2>2. KnowsOutcome(s)
    BY <1>o, <2>1 DEF KnowsOutcome, Recording, Answered
  <2> QED
    BY <1>o, <2>1, <2>2, KnowsStep
<1>1. ASSUME NEW r \in Refs, PayRequest(w, r) PROVE OutcomeInv'
  <2> DEFINE s == [Opened("pay", "authed", r) EXCEPT !.balance = balance[Owner[BillOf[r]]]]
  <2>0. "pay" \in JobKinds /\ "authed" \in PCs /\ balance[Owner[BillOf[r]]] \in Int
    BY <1>s DEF JobKinds, PCs
  <2>1. s \in Session /\ s.pc = "authed" /\ s.job = "pay" /\ s.ref = r
    BY <2>0, OpenedType DEF Session
  <2>2. Become(w, s) /\ Unused(r) /\ UNCHANGED Transfers /\ s.code = FALSE
    BY <1>1 DEF PayRequest, tables, Transfers, Opened, NewSession
  <2> HIDE DEF s
  <2> QED
    BY <1>o, <2>1, <2>2
<1>2. ASSUME NEW r \in Refs, AutopayRecheck(w, r) PROVE OutcomeInv'
  <2> DEFINE s == Opened("autopay", "loaded", r)
  <2>0. "autopay" \in JobKinds /\ "loaded" \in PCs
    BY DEF JobKinds, PCs
  <2>1. s \in Session /\ s.pc = "loaded" /\ s.job = "autopay" /\ s.ref = r
    BY <2>0, OpenedType
  <2>2. Become(w, s) /\ Unused(r) /\ UNCHANGED Transfers /\ s.code = FALSE
    BY <1>2 DEF AutopayRecheck, tables, Transfers, Opened, NewSession
  <2> HIDE DEF s
  <2> QED
    BY <1>o, <2>1, <2>2
<1>3. CASE PayLoadBill(w)
  <2> DEFINE row == bill[sess[w].bill]
             s == [sess[w] EXCEPT !.pc = "loaded", !.status = row.status, !.retry = row.retry]
  <2>1. Become(w, s) /\ UNCHANGED Transfers /\ sess[w].pc = "authed"
    BY <1>3 DEF PayLoadBill, tables, Transfers
  <2>2. row.status \in BillStatus /\ row.retry \in Nat
    BY <1>s, <2>1 DEF KnowsRows, BillRow
  <2>3. /\ s \in Session /\ s.pc = "loaded" /\ s.job = sess[w].job /\ s.ref = sess[w].ref
        /\ s.code = sess[w].code
    BY <1>s, <2>2 DEF Session, PCs
  <2> HIDE DEF s
  <2> QED
    BY <2>1, <2>3, KnowsAttempt DEF Attempting
<1>4. CASE LockBill(w)
  <2> DEFINE row == CachedBill(w)
             s == [sess[w] EXCEPT !.pc = "bill_locked", !.status = row.status, !.retry = row.retry]
  <2>1. Become(w, s) /\ UNCHANGED Transfers /\ sess[w].pc = "loaded"
    BY <1>4 DEF LockBill, tables, Transfers
  <2>2. row.status \in BillStatus /\ row.retry \in Nat
    BY <1>s, <2>1 DEF CachedBill, KnowsRows, Session, BillRow
  <2>3. /\ s \in Session /\ s.pc = "bill_locked" /\ s.job = sess[w].job /\ s.ref = sess[w].ref
        /\ s.code = sess[w].code
    BY <1>s, <2>2 DEF Session, PCs
  <2> HIDE DEF s
  <2> QED
    BY <2>1, <2>3, KnowsAttempt DEF Attempting
<1>5. CASE RefusePayout(w)
  BY <1>5, KnowsClose DEF RefusePayout, Rollback, tables, Transfers
<1>6. CASE StartPayout(w)
  <2> DEFINE s == [sess[w] EXCEPT !.pc = "calling", !.balance = CachedBalance(w)]
  <2>1. Become(w, s) /\ UNCHANGED Transfers /\ sess[w].pc = "bill_locked"
    BY <1>6 DEF StartPayout, tables, Transfers
  <2>2. CachedBalance(w) \in Int
    BY <1>s, <2>1 DEF CachedBalance, KnowsRows, Session
  <2>3. /\ s \in Session /\ s.pc = "calling" /\ s.job = sess[w].job /\ s.ref = sess[w].ref
        /\ s.code = sess[w].code
    BY <1>s, <2>2 DEF Session, PCs
  <2> HIDE DEF s
  <2> QED
    BY <2>1, <2>3, KnowsAttempt DEF Attempting, Holding
<1>7. CASE CommitDebit(w)
  <2>1. PICK r \in Refs : r = sess[w].ref
    BY <1>s, <1>7 DEF CommitDebit, KnowsRows
  <2>2. /\ txn' = [txn EXCEPT ![r] = [status |-> "processing", code |-> sess[w].code]]
        /\ Close(w) /\ remote' = remote /\ Attempting(sess[w])
    BY <1>7, <2>1 DEF CommitDebit, Attempting, Holding
  <2>3. /\ txn'[r].status = "processing" /\ ~txn'[r].code
        /\ \A q \in Refs : q # r => txn'[q] = txn[q]
    BY <1>s, <2>2 DEF Answering, TypeOK, KnowsOutcome
  <2> QED
    BY <2>1, <2>2, <2>3, KnowsCommit
<1>8. CASE CommitRefund(w)
  <2>1. PICK r \in Refs : r = sess[w].ref
    BY <1>s, <1>8 DEF CommitRefund, KnowsRows
  <2>2. /\ txn' = [txn EXCEPT ![r] = [status |-> "failed", code |-> FALSE]]
        /\ Close(w) /\ remote' = remote /\ Attempting(sess[w]) /\ remote[r] = "none"
    BY <1>s, <1>8, <2>1 DEF CommitRefund, Attempting, Holding, KnowsOutcome
  <2>3. /\ txn'[r].status = "failed" /\ ~txn'[r].code
        /\ \A q \in Refs : q # r => txn'[q] = txn[q]
    BY <2>2 DEF Answering, TypeOK
  <2> QED
    BY <2>1, <2>2, <2>3, KnowsCommit
<1> QED
  BY <1>1, <1>2, <1>3, <1>4, <1>5, <1>6, <1>7, <1>8 DEF PayStep

\* The provider's answers: all but its refusals begin the transfer.
LEMMA CallKnows ==
    ASSUME Answering, NEW w \in Workers, CallStep(w)
    PROVE  OutcomeInv'
<1>s. sess[w] \in Session /\ KnowsRows(sess[w]) /\ KnowsOutcome(sess[w]) /\ Unknown(sess[w])
  BY DEF Answering, TypeOK, SessionInv, OutcomeInv, RemoteInv
<1>1. CASE CallRejected(w)
  <2> DEFINE s == [sess[w] EXCEPT !.pc = "refunding"]
  <2>1. Become(w, s) /\ UNCHANGED Transfers /\ sess[w].pc = "calling"
    BY <1>1 DEF CallRejected, Move, tables, Transfers
  <2>2. /\ s \in Session /\ s.pc = "refunding" /\ s.job = sess[w].job /\ s.ref = sess[w].ref
        /\ s.code = sess[w].code
    BY <1>s DEF Session, PCs
  <2>3. remote[s.ref] = "none"
    BY <1>s, <2>1, <2>2 DEF Unknown, Reserved
  <2> HIDE DEF s
  <2> QED
    BY <2>1, <2>2, <2>3, KnowsAttempt DEF Attempting, Holding
<1>2. CASE CallRaises(w)
  BY <1>2, KnowsClose DEF CallRaises, Rollback, tables, Transfers
<1>3. CASE CallLost(w)
  BY <1>3 DEF CallLost, Answering, AnswersArrive
<1>4. CASE CallAccepted(w)
  <2> DEFINE s == [sess[w] EXCEPT !.pc = "accepted"]
  <2>1. PICK q \in Refs : q = sess[w].ref
    BY <1>s, <1>4 DEF CallAccepted, KnowsRows
  <2>2. /\ Become(w, s) /\ sess[w].pc = "calling" /\ txn' = txn
        /\ remote' = [remote EXCEPT ![q] = "pending"]
    BY <1>4, <2>1 DEF CallAccepted, Move, tables, Answering, AnswersArrive
  <2>3. /\ s \in Session /\ s.pc = "accepted" /\ s.job = sess[w].job /\ s.ref = q
        /\ s.code = sess[w].code
    BY <1>s, <2>1 DEF Session, PCs
  <2>4. remote[q] = "none" /\ txn[q].status = "none" /\ Attempting(sess[w])
    BY <1>s, <2>1, <2>2 DEF Unknown, Reserved, KnowsOutcome, Attempting, Holding
  <2> HIDE DEF s
  <2>5. sess'[w] = s /\ \A v \in Workers : v # w => sess'[v] = sess[v]
    BY <2>2, <2>3, OneChanges DEF Answering, TypeOK
  <2>6. remote'[q] = "pending" /\ \A r \in Refs : r # q => remote'[r] = remote[r]
    BY <2>2 DEF Answering, TypeOK
  <2>7. KnowsOutcome(sess[w])'
    BY <1>s, <2>2, <2>3, <2>4, <2>5
    DEF KnowsOutcome, Attempting, Holding, Recording, Answered
  <2>8. ASSUME NEW v \in Workers, v # w PROVE KnowsOutcome(sess[v])'
    <3>1. KnowsOutcome(sess[v]) /\ OwnAttempt(v, w) /\ KnowsRows(sess[v])
      BY DEF Answering, OutcomeInv, SessionInv
    <3>2. ASSUME sess[v].pc = "refunding" PROVE remote'[sess[v].ref] = "none"
      <4>1. sess[v].ref \in Refs /\ sess[v].ref # q /\ remote[sess[v].ref] = "none"
        BY <2>1, <2>4, <2>8, <3>1, <3>2
        DEF KnowsRows, OwnAttempt, KnowsOutcome, Attempting, Holding
      <4> QED
        BY <2>6, <4>1
    <3>3. ASSUME sess[v].pc \in Answered, sess[v].outcome \in {"failed", "reversed"}
          PROVE  remote'[sess[v].ref] \in {"failed", "reversed"}
      <4>1. sess[v].ref \in Refs /\ remote[sess[v].ref] \in {"failed", "reversed"}
        BY <3>1, <3>3 DEF KnowsRows, KnowsOutcome, Answered
      <4> QED
        BY <2>4, <2>6, <4>1
    <3>4. sess'[v] = sess[v]
      BY <2>5, <2>8
    <3> QED
      BY <2>2, <3>1, <3>2, <3>3, <3>4 DEF KnowsOutcome, Attempting
  <2>9. ASSUME NEW v \in Workers, NEW x \in Workers PROVE OwnAttempt(v, x)'
    <3>1. \A u \in Workers : /\ Attempting(sess'[u]) => Attempting(sess[u])
                             /\ Attempting(sess[u]) => sess'[u].ref = sess[u].ref
      BY <2>1, <2>3, <2>4, <2>5
    <3> QED
      BY <3>1 DEF Answering, OutcomeInv, OwnAttempt, Attempting
  <2>10. NoneParked' /\ FailedIsOver'
    BY <2>2, <2>4, <2>6 DEF Answering, OutcomeInv, NoneParked, FailedIsOver
  <2> QED
    BY <2>7, <2>8, <2>9, <2>10 DEF OutcomeInv
<1> QED
  BY <1>1, <1>2, <1>3, <1>4 DEF CallStep

\* A webhook tells what has become of its transfer.
LEMMA WebhookKnows ==
    ASSUME Answering, NEW w \in Workers, WebhookStep(w)
    PROVE  OutcomeInv'
<1>1. ASSUME NEW r \in Refs, NEW e \in EventKinds, WebhookIgnored(w, r, e) PROVE OutcomeInv'
  BY <1>1 DEF WebhookIgnored, Answering, OutcomeInv, NoneParked, FailedIsOver, KnowsOutcome,
     OwnAttempt, Attempting
<1>2. ASSUME NEW r \in Refs, NEW e \in EventKinds, WebhookRead(w, r, e) PROVE OutcomeInv'
  <2> DEFINE s == [Opened("webhook", "txn_read", r) EXCEPT !.outcome = e]
  <2>0. "webhook" \in JobKinds /\ "txn_read" \in PCs
    BY DEF JobKinds, PCs
  <2>1. s \in Session /\ s.pc = "txn_read" /\ s.job = "webhook" /\ s.ref = r /\ s.outcome = e
    BY <2>0, OpenedType DEF Session
  <2>2. Become(w, s) /\ UNCHANGED Transfers /\ txn[r].status = "processing" /\ s.code = FALSE
    BY <1>2 DEF WebhookRead, tables, Transfers, Opened, NewSession
  <2>3. e \in {"failed", "reversed"} => remote[r] \in {"failed", "reversed"}
    BY <1>2 DEF WebhookRead, Accepts, Emitted
  <2> HIDE DEF s
  <2>4. KnowsOutcome(s) /\ ~Attempting(s)
    BY <2>1, <2>2, <2>3 DEF KnowsOutcome, Attempting, Holding, Recording, Answered
  <2> QED
    BY <2>1, <2>2, <2>4, KnowsStep
<1> QED
  BY <1>1, <1>2 DEF WebhookStep

\* The reconciliation job records what it was told.
LEMMA ReconcileKnows ==
    ASSUME Answering, NEW w \in Workers, ReconcileStep(w)
    PROVE  OutcomeInv'
<1>s. sess[w] \in Session /\ KnowsRows(sess[w]) /\ KnowsOutcome(sess[w])
  BY DEF Answering, TypeOK, SessionInv, OutcomeInv
<1>1. ASSUME NEW r \in Refs, ReconcilePick(w, r) PROVE OutcomeInv'
  <2> DEFINE s == [Opened("reconcile", "polling", r) EXCEPT !.code = txn[r].code]
  <2>0. "reconcile" \in JobKinds /\ "polling" \in PCs /\ ~txn[r].code /\ txn[r].code \in BOOLEAN
    BY DEF JobKinds, PCs, Answering, TypeOK, TxnRow, OutcomeInv, NoneParked
  <2>1. /\ s \in Session /\ s.pc = "polling" /\ s.job = "reconcile" /\ s.ref = r
        /\ s.code = txn[r].code
    BY <2>0, OpenedType DEF Session
  <2>2. Become(w, s) /\ UNCHANGED Transfers /\ txn[r].status = "processing"
    BY <1>1 DEF ReconcilePick, tables, Transfers
  <2> HIDE DEF s
  <2>4. KnowsOutcome(s) /\ ~Attempting(s)
    BY <2>0, <2>1, <2>2 DEF KnowsOutcome, Attempting, Holding, Recording, Answered
  <2> QED
    BY <2>1, <2>2, <2>4, KnowsStep
<1>2. CASE ReconcilePolled(w)
  <2> DEFINE s == [sess[w] EXCEPT !.pc = "polled", !.outcome = Polled(remote[sess[w].ref])]
  <2>0. Polled(remote[sess[w].ref]) \in EventKinds \cup {"pending"}
    BY DEF Polled
  <2>1. /\ s \in Session /\ s.pc = "polled" /\ s.job = sess[w].job /\ s.ref = sess[w].ref
        /\ s.code = sess[w].code /\ s.outcome = Polled(remote[sess[w].ref])
    BY <1>s, <2>0 DEF Session, PCs
  <2>2. Become(w, s) /\ UNCHANGED Transfers /\ sess[w].pc = "polling"
    BY <1>2 DEF ReconcilePolled, tables, Transfers
  <2>3. s.outcome \in {"failed", "reversed"} => remote[s.ref] \in {"failed", "reversed"}
    BY <2>1 DEF Polled
  <2> HIDE DEF s
  <2> QED
    BY <2>1, <2>2, <2>3, KnowsConfirming DEF Recording
<1>3. CASE ReconcileError(w) \/ ReconcileSkip(w)
  BY <1>3, KnowsClose DEF ReconcileError, ReconcileSkip, Rollback, tables, Transfers
<1>4. CASE ReconcileSettle(w)
  <2> DEFINE s == [sess[w] EXCEPT !.pc = "txn_read"]
  <2>1. /\ Become(w, s) /\ UNCHANGED Transfers /\ sess[w].pc = "polled"
        /\ sess[w].outcome \in EventKinds
    BY <1>s, <1>4 DEF ReconcileSettle, Move, KnowsOutcome, tables, Transfers
  <2>2. /\ s \in Session /\ s.pc = "txn_read" /\ s.job = sess[w].job /\ s.ref = sess[w].ref
        /\ s.code = sess[w].code /\ s.outcome = sess[w].outcome
    BY <1>s DEF Session, PCs
  <2>3. s.outcome \in {"failed", "reversed"} => remote[s.ref] \in {"failed", "reversed"}
    BY <1>s, <2>1, <2>2 DEF KnowsOutcome, Answered
  <2> HIDE DEF s
  <2> QED
    BY <2>1, <2>2, <2>3, KnowsConfirming DEF Recording
<1> QED
  BY <1>1, <1>2, <1>3, <1>4 DEF ReconcileStep

\* confirm_payout records what has happened.
LEMMA ConfirmKnows ==
    ASSUME Answering, NEW w \in Workers, ConfirmStep(w)
    PROVE  OutcomeInv'
<1>s. /\ sess[w] \in Session /\ KnowsRows(sess[w]) /\ KnowsOutcome(sess[w])
      /\ balance \in [Users -> Int] /\ bill \in [Bills -> BillRow] /\ txn \in [Refs -> TxnRow]
  BY DEF Answering, TypeOK, SessionInv, OutcomeInv
<1>m. ASSUME NEW s \in Session, Become(w, s), UNCHANGED Transfers, sess[w].pc \in Recording,
             s.pc \in Recording, s.job = sess[w].job, s.ref = sess[w].ref,
             s.code = sess[w].code, s.outcome = sess[w].outcome
      PROVE  OutcomeInv'
  BY <1>s, <1>m, KnowsConfirming DEF KnowsOutcome, Recording, Answered
<1>1. CASE ConfirmReadBill(w)
  <2> DEFINE row == IF sess[w].job = "otp_api"
                    THEN [status |-> sess[w].status, retry |-> sess[w].retry]
                    ELSE bill[sess[w].bill]
             s == [sess[w] EXCEPT !.pc = "bill_read", !.status = row.status, !.retry = row.retry]
  <2>1. Become(w, s) /\ UNCHANGED Transfers /\ sess[w].pc = "txn_read"
    BY <1>1 DEF ConfirmReadBill, tables, Transfers
  <2>2. row.status \in BillStatus /\ row.retry \in Nat
    BY <1>s, <2>1 DEF KnowsRows, Session, BillRow
  <2> HIDE DEF row
  <2>3. /\ s \in Session /\ s.pc = "bill_read" /\ s.job = sess[w].job /\ s.ref = sess[w].ref
        /\ s.code = sess[w].code /\ s.outcome = sess[w].outcome
    BY <1>s, <2>2 DEF Session, PCs
  <2> HIDE DEF s
  <2> QED
    BY <1>m, <2>1, <2>3 DEF Recording
<1>2. CASE ConfirmReadUser(w)
  <2> DEFINE wallet == IF sess[w].job \in {"otp_api", "otp_bot"} THEN sess[w].balance
                       ELSE balance[Owner[sess[w].bill]]
             s == [sess[w] EXCEPT !.pc = "flushing", !.balance = wallet]
  <2>1. Become(w, s) /\ UNCHANGED Transfers /\ sess[w].pc = "bill_read"
    BY <1>2 DEF ConfirmReadUser, tables, Transfers
  <2>2. wallet \in Int
    BY <1>s, <2>1 DEF KnowsRows, Session
  <2>3. /\ s \in Session /\ s.pc = "flushing" /\ s.job = sess[w].job /\ s.ref = sess[w].ref
        /\ s.code = sess[w].code /\ s.outcome = sess[w].outcome
    BY <1>s, <2>2 DEF Session, PCs
  <2> HIDE DEF s
  <2> QED
    BY <1>m, <2>1, <2>3 DEF Recording
<1>3. CASE FlushRow(w)
  BY <1>3 DEF FlushRow, tables, Answering, OutcomeInv, NoneParked, FailedIsOver, KnowsOutcome,
     OwnAttempt, Attempting
<1>4. CASE ConfirmSuccess(w) \/ ConfirmFailure(w)
  <2>0. sess[w].pc = "flushing"
    BY <1>4 DEF ConfirmSuccess, ConfirmFailure, FlushDone
  <2>1. PICK r \in Refs : r = sess[w].ref
    BY <1>s, <2>0 DEF KnowsRows
  <2>2. txn[r].status # "none" /\ ~txn[r].code
    BY <1>s, <2>0, <2>1 DEF KnowsOutcome, Recording, Answering, OutcomeInv, NoneParked
  <2>3. ASSUME ConfirmSuccess(w) PROVE OutcomeInv'
    <3>1. txn' = [txn EXCEPT ![r].status = "success"] /\ Close(w) /\ remote' = remote
      BY <2>1, <2>3 DEF ConfirmSuccess
    <3>2. /\ txn'[r].status = "success" /\ txn'[r].code = txn[r].code
          /\ \A q \in Refs : q # r => txn'[q] = txn[q]
      BY <1>s, <3>1 DEF TxnRow
    <3> QED
      BY <2>1, <2>2, <3>1, <3>2, KnowsCommit
  <2>4. ASSUME ConfirmFailure(w) PROVE OutcomeInv'
    <3>1. txn' = [txn EXCEPT ![r].status = "failed"] /\ Close(w) /\ remote' = remote
      BY <2>1, <2>4 DEF ConfirmFailure
    <3>2. /\ txn'[r].status = "failed" /\ txn'[r].code = txn[r].code
          /\ \A q \in Refs : q # r => txn'[q] = txn[q]
      BY <1>s, <3>1 DEF TxnRow
    <3>3. remote[r] \in {"failed", "reversed"}
      BY <1>s, <2>0, <2>1, <2>4 DEF ConfirmFailure, KnowsOutcome, Recording, Answered, EventKinds
    <3> QED
      BY <2>1, <2>2, <3>1, <3>2, <3>3, KnowsCommit
  <2> QED
    BY <1>4, <2>3, <2>4
<1> QED
  BY <1>1, <1>2, <1>3, <1>4 DEF ConfirmStep

\* Nobody submits an OTP, and a cancellation has nothing to do with transfers.
LEMMA OtherKnows ==
    ASSUME Answering, NEW w \in Workers, OtpStep(w) \/ CancelStep(w) \/ DeadlockAbort(w)
    PROVE  OutcomeInv'
<1>s. sess[w] \in Session /\ KnowsOutcome(sess[w])
  BY DEF Answering, TypeOK, OutcomeInv
<1>1. ~OtpStep(w)
  <2>1. \A r \in Refs : ~AwaitsOtp(r)
    BY DEF Answering, OutcomeInv, NoneParked, AwaitsOtp
  <2> QED
    BY <1>s, <2>1 DEF OtpStep, OtpRequest, OtpCommand, OtpLoadBill, OtpLock, OtpNotFound,
       OtpAccepted, OtpRejected, OtpPending, OtpSettle, KnowsOutcome
<1>2. ASSUME NEW b \in Bills, CancelLoad(w, b) PROVE OutcomeInv'
  <2> DEFINE n == NewSession("cancel", "cancelling", b, NoRef)
             s == [n EXCEPT !.status = bill[b].status]
  <2>1. "cancel" \in JobKinds /\ "cancelling" \in PCs /\ bill[b].status \in BillStatus
    BY DEF JobKinds, PCs, BillRow, Answering, TypeOK
  <2>2. /\ n \in Session /\ n.pc = "cancelling" /\ n.job = "cancel" /\ n.code = FALSE
    BY <2>1, NewType DEF NewSession
  <2>3. s \in Session /\ s.pc = "cancelling" /\ s.job = "cancel" /\ s.code = FALSE
    BY <2>1, <2>2 DEF Session
  <2>4. Become(w, s) /\ UNCHANGED Transfers
    BY <1>2 DEF CancelLoad, tables, Transfers
  <2> HIDE DEF s, n
  <2>5. KnowsOutcome(s) /\ ~Attempting(s)
    BY <2>3 DEF KnowsOutcome, Attempting, Holding, Recording, Answered
  <2> QED
    BY <2>3, <2>4, <2>5, KnowsStep
<1>3. CASE CancelCommit(w) \/ DeadlockAbort(w)
  BY <1>3, KnowsClose DEF CancelCommit, DeadlockAbort, Rollback, tables, Transfers
<1> QED
  BY <1>1, <1>2, <1>3 DEF CancelStep

\* Every step keeps what is known of outcomes.
LEMMA NextKnows == Answering /\ [Next]_vars => OutcomeInv'
<1> SUFFICES ASSUME Answering, [Next]_vars PROVE OutcomeInv'
  OBVIOUS
<1>1. ASSUME NEW w \in Workers, StepOf(w) PROVE OutcomeInv'
  BY <1>1, PayKnows, CallKnows, WebhookKnows, ReconcileKnows, ConfirmKnows, OtherKnows DEF StepOf
<1>2. ASSUME NEW r \in Refs, RemoteSettle(r) PROVE OutcomeInv'
  <2>1. /\ sess' = sess /\ txn' = txn
        /\ \A q \in Refs : /\ remote'[q] # "otp"
                           /\ remote[q] = "none" => remote'[q] = "none"
                           /\ remote[q] \in {"failed", "reversed"} =>
                                remote'[q] \in {"failed", "reversed"}
    BY <1>2 DEF RemoteSettle, tables, Answering, TypeOK, OutcomeInv, NoneParked
  <2>2. ASSUME NEW w \in Workers PROVE KnowsOutcome(sess[w])'
    <3>1. KnowsOutcome(sess[w]) /\ KnowsRows(sess[w])
      BY DEF Answering, OutcomeInv, SessionInv
    <3>2. sess[w].pc \in Answered \cup {"refunding"} => sess[w].ref \in Refs
      BY <3>1 DEF KnowsRows, Answered
    <3> QED
      BY <2>1, <3>1, <3>2 DEF KnowsOutcome, Attempting
  <2>3. \A v, w \in Workers : OwnAttempt(v, w)'
    BY <2>1 DEF Answering, OutcomeInv, OwnAttempt, Attempting
  <2>4. NoneParked' /\ FailedIsOver'
    BY <2>1 DEF Answering, OutcomeInv, NoneParked, FailedIsOver
  <2> QED
    BY <2>2, <2>3, <2>4 DEF OutcomeInv
<1>3. CASE Crash
  <2>1. txn' = txn /\ remote' = remote /\ \A w \in Workers : sess'[w] = Idle
    BY <1>3 DEF Crash, tables
  <2>2. \A w \in Workers : KnowsOutcome(sess[w])'
    BY <2>1, IdleKnows DEF KnowsOutcome, Attempting
  <2>3. \A v, w \in Workers : OwnAttempt(v, w)'
    BY <2>1, IdleKnows DEF OwnAttempt, Attempting
  <2> QED
    BY <2>1, <2>2, <2>3 DEF Answering, OutcomeInv, NoneParked, FailedIsOver
<1>4. CASE UNCHANGED vars
  BY <1>4 DEF vars, Answering, OutcomeInv, NoneParked, FailedIsOver, KnowsOutcome, OwnAttempt,
     Attempting
<1> QED
  BY <1>1, <1>2, <1>3, <1>4 DEF Next

\* At the start no transfer has been made.
LEMMA InitKnows == Init => OutcomeInv
BY IdleKnows DEF Init, NoTxn, OutcomeInv, NoneParked, FailedIsOver, OwnAttempt

\* Where the provider's answers arrive and it parks no transfer for an OTP,
\* what is recorded of a transfer is true of it.
LEMMA OutcomesKnown == AnswersArrive /\ Spec => []OutcomeInv
<1>1. /\ AnswersArrive /\ TypeOK /\ SessionInv /\ RemoteInv /\ OutcomeInv /\ [Next]_vars
      => AnswersArrive' /\ OutcomeInv'
  BY NextKnows DEF Answering, AnswersArrive
<1> QED
  BY <1>1, InitKnows, Typed, Informed, PTL DEF Spec

\* A debit is refunded only if its vendor was not paid and never will be,
\* whatever jobs run side by side (payout.py confirm_payout, execute_payout).
THEOREM RefundsAreUnpaid == AnswersArrive /\ Spec => []RefundedStaysUnpaid
<1>1. OutcomeInv => RefundedStaysUnpaid
  BY DEF OutcomeInv, FailedIsOver, RefundedStaysUnpaid
<1> QED
  BY <1>1, OutcomesKnown, PTL
=============================================================================
