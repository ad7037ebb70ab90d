---------------------------- MODULE AccountsProofs ----------------------------
(***************************************************************************)
(* Proofs about Accounts, for any users, tokens, requests and provider     *)
(* answers.                                                                *)
(*                                                                         *)
(* ExchangedIsDead and SignOutHolds are about a tree of tokens: the parent *)
(* of a token is an older token of the same user, and it is dead.  What    *)
(* requests have read of tokens stays true of them, because a dead token   *)
(* never lives again (RequestKnows).                                       *)
(***************************************************************************)
EXTENDS Accounts, TLAPS

\* A token that is not issued is in its first state; a parent is an issued and
\* dead token of the same user.
TokenTree ==
    \A t \in Tokens : /\ token[t].user \notin People => token[t] = Unissued
                      /\ token[t].parent # NoToken =>
                            /\ token[token[t].parent].user = token[t].user
                            /\ ~token[token[t].parent].live
                            /\ token[t].user \in People

\* Tokens that a sign-out closed are dead, and nothing grows from them.
ClosedIsOver ==
    /\ \A t \in closed : ~token[t].live /\ token[t].user \in People
    /\ \A t \in Tokens : token[t].parent \in closed => t \in closed

\* What a request at work has read.
Knows(s) ==
    /\ s.pc # "idle" => s.user \in People
    /\ s.pc \in {"rotating", "one_read"} => s.token \in Tokens /\ token[s.token].user = s.user
    /\ s.pc = "rotating" => s.token \notin closed
    /\ s.pc = "closing" => /\ \A t \in s.known : /\ token[t].user = s.user
                                                 /\ token[t].live => t \in s.live
                           /\ s.live \subseteq s.known
    /\ s.pc = "answered" => s.number \in Numbers
    /\ s.pc = "kyc_read" => s.bvn \in BVNs

RequestKnows == \A d \in Devices : Knows(desk[d])

TokenInv == AccTypeOK /\ TokenTree /\ ClosedIsOver /\ RequestKnows

-----------------------------------------------------------------------------
LEMMA AccInit_Inv == AccInit => TokenInv /\ ToldIsOnRecord
<1> SUFFICES ASSUME AccInit PROVE TokenInv /\ ToldIsOnRecord
  OBVIOUS
<1>1. AccTypeOK
  BY DEF AccInit, AccTypeOK, TokenRow, Unissued, NoRequest, Request, AccPCs
<1>2. TokenTree /\ ClosedIsOver
  BY AccountsAssumption DEF AccInit, TokenTree, ClosedIsOver, Unissued
<1>3. RequestKnows
  BY DEF AccInit, RequestKnows, Knows, NoRequest
<1>4. ToldIsOnRecord
  BY DEF AccInit, ToldIsOnRecord
<1> QED
  BY <1>1, <1>2, <1>3, <1>4 DEF TokenInv

-----------------------------------------------------------------------------
\* Tokens age: an issued one stays its user's, and a dead one dead.
Older ==
    \A t \in Tokens : token[t].user \in People =>
        token'[t].user = token[t].user /\ (token'[t].live => token[t].live)

\* What a request knows stays so while tokens age.
LEMMA KnowsStays ==
    ASSUME TokenInv, NEW s \in Request, Knows(s), Older, closed' = closed
    PROVE  Knows(s)'
BY DEF Knows, Older, Request

LEMMA IdleKnows == NoRequest \in Request /\ NoRequest.pc = "idle" /\ Knows(NoRequest)
BY DEF NoRequest, Request, AccPCs, Knows

\* A request goes on, and no token changes.
LEMMA DeskStep ==
    ASSUME TokenInv, UNCHANGED <<token, closed>>, NEW d \in Devices,
           NEW s \in Request, Knows(s), Serve(d, s)
    PROVE  TokenTree' /\ ClosedIsOver' /\ RequestKnows' /\ desk' \in [Devices -> Request]
<1>1. desk' = [desk EXCEPT ![d] = s] /\ desk \in [Devices -> Request]
  BY DEF Serve, TokenInv, AccTypeOK
<1>2. TokenTree' /\ ClosedIsOver'
  BY DEF TokenInv, TokenTree, ClosedIsOver
<1>3. \A e \in Devices : desk'[e] \in {desk[e], s}
  BY <1>1
<1>4. RequestKnows'
  BY <1>3 DEF TokenInv, RequestKnows, Knows
<1> QED
  BY <1>1, <1>2, <1>4

\* Tokens age, or a new one is issued, and a request ends.
LEMMA TokenStep ==
    ASSUME TokenInv, Older, closed' = closed, NEW d \in Devices,
           desk' = desk \/ Answer(d)
    PROVE  RequestKnows' /\ desk' \in [Devices -> Request]
<1>1. desk \in [Devices -> Request]
  BY DEF TokenInv, AccTypeOK
<1>2. \A e \in Devices : desk'[e] \in {desk[e], NoRequest}
  BY <1>1 DEF Answer, Serve
<1>3. desk' \in [Devices -> Request]
  BY <1>1, IdleKnows DEF Answer, Serve
<1>4. \A e \in Devices : Knows(desk[e])' \/ desk'[e] = NoRequest
  <2> SUFFICES ASSUME NEW e \in Devices, desk'[e] # NoRequest PROVE Knows(desk[e])'
    OBVIOUS
  <2>1. desk'[e] = desk[e]
    BY <1>2
  <2>2. desk[e] \in Request /\ Knows(desk[e])
    BY <1>1 DEF TokenInv, RequestKnows
  <2> DEFINE s == desk[e]
  <2>3. s \in Request /\ Knows(s)
    BY <2>2
  <2> QED
    BY <2>1, <2>3 DEF Knows, Older, Request
<1>5. RequestKnows'
  BY <1>2, <1>4, IdleKnows DEF RequestKnows, Knows
<1> QED
  BY <1>3, <1>5

-----------------------------------------------------------------------------
\* Requests that change no token.
LEMMA SignReads ==
    ASSUME TokenInv, NEW d \in Devices,
           \/ \E u \in People : Signup(d, u) \/ LogoutEverywhere(d, u)
           \/ \E t \in Tokens : RefreshRead(d, t) \/ LogoutRead(d, t)
           \/ ReadLive(d)
    PROVE  TokenInv'
<1>1. AccTypeOK
  BY DEF TokenInv
<1>2. ASSUME NEW u \in People, Signup(d, u) PROVE TokenInv'
  <2> DEFINE s == [NoRequest EXCEPT !.pc = IF AutoProvision THEN "asking" ELSE "signed_up",
                                    !.user = u, !.signup = TRUE]
  <2>1. s \in Request /\ Knows(s)
    BY DEF NoRequest, Request, AccPCs, Knows
  <2>2. Serve(d, s) /\ users' \subseteq People /\ UNCHANGED <<token, va, kyc, opened, shown, closed>>
    BY <1>1, <1>2 DEF Signup, AccTypeOK
  <2> HIDE DEF s
  <2> QED
    BY <1>1, <2>1, <2>2, DeskStep DEF TokenInv, AccTypeOK
<1>3. ASSUME NEW u \in People, LogoutEverywhere(d, u) PROVE TokenInv'
  <2> DEFINE s == [NoRequest EXCEPT !.pc = "revoking", !.user = u]
  <2>1. s \in Request /\ Knows(s)
    BY DEF NoRequest, Request, AccPCs, Knows
  <2>2. Serve(d, s) /\ UNCHANGED <<rows, opened, shown, closed>>
    BY <1>3 DEF LogoutEverywhere, Begin
  <2> HIDE DEF s
  <2> QED
    BY <1>1, <2>1, <2>2, DeskStep DEF TokenInv, AccTypeOK, rows
<1>4. ASSUME NEW t \in Tokens, RefreshRead(d, t) PROVE TokenInv'
  <2> DEFINE s == [NoRequest EXCEPT !.pc = IF token[t].live THEN "rotating" ELSE "revoking",
                                    !.user = token[t].user, !.token = t]
  <2>1. token[t] \in TokenRow /\ token[t].user \in People
    BY <1>1, <1>4 DEF RefreshRead, AccTypeOK, TokenInv, TokenTree
  <2>2. s \in Request
    BY <2>1 DEF NoRequest, Request, AccPCs
  <2>3. s.pc \in {"rotating", "revoking"} /\ s.user = token[t].user /\ s.token = t
    BY DEF NoRequest
  <2>4. s.pc = "rotating" => t \notin closed
    BY DEF NoRequest, TokenInv, ClosedIsOver
  <2>5. Serve(d, s) /\ UNCHANGED <<rows, opened, shown, closed>>
    BY <1>4 DEF RefreshRead
  <2> HIDE DEF s
  <2>6. Knows(s)
    BY <2>1, <2>3, <2>4 DEF Knows
  <2> QED
    BY <1>1, <2>2, <2>5, <2>6, DeskStep DEF TokenInv, AccTypeOK, rows
<1>5. ASSUME NEW t \in Tokens, LogoutRead(d, t) PROVE TokenInv'
  <2> DEFINE s == [NoRequest EXCEPT !.pc = "one_read", !.user = token[t].user, !.token = t]
  <2> ~Unissued.live
    BY DEF Unissued
  <2> token[t] # Unissued
    BY <1>5 DEF LogoutRead
  <2>1. token[t] \in TokenRow /\ token[t].user \in People
    BY <1>1, <1>5 DEF AccTypeOK, TokenInv, TokenTree
  <2>2. s \in Request /\ Knows(s)
    BY <2>1 DEF NoRequest, Request, AccPCs, Knows
  <2>3. Serve(d, s) /\ UNCHANGED <<rows, opened, shown, closed>>
    BY <1>5 DEF LogoutRead
  <2> HIDE DEF s
  <2> QED
    BY <1>1, <2>2, <2>3, DeskStep DEF TokenInv, AccTypeOK, rows
<1>6. CASE ReadLive(d)
  <2> DEFINE u == desk[d].user
             s == [desk[d] EXCEPT !.pc = "closing", !.live = LiveOf(u), !.known = Issued(u)]
  <2>1. desk[d] \in Request /\ u \in People
    BY <1>1, <1>6 DEF ReadLive, AccTypeOK, TokenInv, RequestKnows, Knows
  <2>2. LiveOf(u) \subseteq Tokens /\ Issued(u) \subseteq Tokens
    BY DEF LiveOf, Issued
  <2>3. s \in Request
    BY <2>1, <2>2 DEF Request, AccPCs
  <2>4. s.pc = "closing" /\ s.user = u /\ s.live = LiveOf(u) /\ s.known = Issued(u)
    BY <2>1 DEF Request
  <2>5. Serve(d, s) /\ UNCHANGED <<rows, opened, shown, closed>>
    BY <1>6 DEF ReadLive
  <2> HIDE DEF s
  <2>6. Knows(s)
    BY <2>1, <2>4 DEF Knows, LiveOf, Issued
  <2> QED
    BY <1>1, <2>3, <2>5, <2>6, DeskStep DEF TokenInv, AccTypeOK, rows
<1> QED
  BY <1>2, <1>3, <1>4, <1>5, <1>6

-----------------------------------------------------------------------------
\* A token is issued, and the one it continues dies.
LEMMA TokenIssued ==
    ASSUME TokenInv, NEW t \in Tokens, token[t] = Unissued, NEW u \in People,
           NEW parent \in Tokens \cup {NoToken},
           parent # NoToken => token[parent].user = u /\ parent \notin closed,
           token' \in [Tokens -> TokenRow],
           token'[t] = [user |-> u, parent |-> parent, live |-> TRUE],
           \A r \in Tokens \ {t} : /\ token'[r].user = token[r].user
                                   /\ token'[r].parent = token[r].parent
                                   /\ r = parent => ~token'[r].live
                                   /\ r # parent => token'[r] = token[r],
           closed' = closed
    PROVE  Older /\ TokenTree' /\ ClosedIsOver'
<1>1. token[t].user \notin People /\ parent # t /\ t \notin closed
  BY AccountsAssumption DEF Unissued, TokenInv, ClosedIsOver
<1>2. Older
  BY <1>1 DEF Older
<1>3. token'[t].user = u /\ token'[t].parent = parent
  OBVIOUS
<1>4. TokenTree'
  <2> SUFFICES ASSUME NEW r \in Tokens
               PROVE  /\ token'[r].user \notin People => token'[r] = Unissued
                      /\ token'[r].parent # NoToken =>
                            /\ token'[token'[r].parent].user = token'[r].user
                            /\ ~token'[token'[r].parent].live
                            /\ token'[r].user \in People
    BY DEF TokenTree
  <2>1. CASE r = t
    BY <1>1, <1>3, <2>1
  <2>2. CASE r # t
    <3>1. token'[r].user \notin People => token'[r] = Unissued
      BY <2>2, AccountsAssumption DEF TokenInv, TokenTree
    <3>2. ASSUME token'[r].parent # NoToken
          PROVE  /\ token'[token'[r].parent].user = token'[r].user
                 /\ ~token'[token'[r].parent].live
                 /\ token'[r].user \in People
      <4> DEFINE p == token[r].parent
      <4>1. /\ p # NoToken /\ token'[r].parent = p
            /\ token[p].user = token[r].user /\ ~token[p].live /\ token[r].user \in People
        BY <2>2, <3>2 DEF TokenInv, TokenTree
      <4>2. p \in Tokens
        BY <4>1 DEF TokenInv, AccTypeOK, TokenRow
      <4>3. p # t
        BY <1>1, <4>1
      <4> QED
        BY <2>2, <4>1, <4>2, <4>3
    <3> QED
      BY <3>1, <3>2
  <2> QED
    BY <2>1, <2>2
<1>5. ClosedIsOver'
  <2>1. \A r \in closed : r # t /\ r \in Tokens
    BY <1>1 DEF TokenInv, AccTypeOK
  <2>2. \A r \in closed' : ~token'[r].live /\ token'[r].user \in People
    BY <2>1 DEF TokenInv, ClosedIsOver
  <2>3. \A r \in Tokens : token'[r].parent \in closed' => r \in closed'
    BY <1>3, <2>1, AccountsAssumption DEF TokenInv, ClosedIsOver
  <2> QED
    BY <2>2, <2>3 DEF ClosedIsOver
<1> QED
  BY <1>2, <1>4, <1>5

\* A token is issued that continues none.
LEMMA SessionOpened ==
    ASSUME TokenInv, NEW t \in Tokens, token[t] = Unissued, NEW u \in People,
           token' \in [Tokens -> TokenRow],
           token'[t] = [user |-> u, parent |-> NoToken, live |-> TRUE],
           \A r \in Tokens \ {t} : token'[r] = token[r],
           closed' = closed
    PROVE  Older /\ TokenTree' /\ ClosedIsOver'
<1> DEFINE parent == NoToken
<1>1. parent \in Tokens \cup {NoToken} /\ ~(parent # NoToken)
  OBVIOUS
<1>2. \A r \in Tokens \ {t} : r # parent /\ token'[r] = token[r]
  BY AccountsAssumption
<1>3. token'[t] = [user |-> u, parent |-> parent, live |-> TRUE]
  OBVIOUS
<1> HIDE DEF parent
<1> QED
  BY <1>1, <1>2, <1>3, TokenIssued

\* Sign-up ends, login, and the exchange of a token.
LEMMA IssueSteps ==
    ASSUME TokenInv, NEW d \in Devices, NEW t \in Tokens,
           SignupTokens(d, t) \/ Rotate(d, t) \/ \E u \in People : Login(d, u, t)
    PROVE  TokenInv'
<1>1. AccTypeOK /\ token \in [Tokens -> TokenRow] /\ Knows(desk[d])
  BY DEF TokenInv, AccTypeOK, RequestKnows
<1>2. CASE SignupTokens(d, t)
  <2> DEFINE u == desk[d].user
  <2>1. /\ u \in People /\ token[t] = Unissued /\ Answer(d)
        /\ token' = [token EXCEPT ![t] = [user |-> u, parent |-> NoToken, live |-> TRUE]]
        /\ UNCHANGED <<users, va, kyc, opened, shown, closed>>
    BY <1>1, <1>2 DEF SignupTokens, Insert, Knows
  <2> HIDE DEF u
  <2>2. [user |-> u, parent |-> NoToken, live |-> TRUE] \in TokenRow
    BY <2>1 DEF TokenRow
  <2>3. token' \in [Tokens -> TokenRow]
    BY <1>1, <2>1, <2>2
  <2>4. token'[t] = [user |-> u, parent |-> NoToken, live |-> TRUE]
    BY <1>1, <2>1
  <2>5. \A r \in Tokens \ {t} : token'[r] = token[r]
    BY <1>1, <2>1
  <2>6. Older /\ TokenTree' /\ ClosedIsOver'
    BY <2>1, <2>3, <2>4, <2>5, SessionOpened
  <2> QED
    BY <1>1, <2>1, <2>3, <2>6, TokenStep DEF TokenInv, AccTypeOK
<1>3. ASSUME NEW u \in People, Login(d, u, t) PROVE TokenInv'
  <2>1. /\ token[t] = Unissued /\ desk' = desk
        /\ token' = [token EXCEPT ![t] = [user |-> u, parent |-> NoToken, live |-> TRUE]]
        /\ UNCHANGED <<users, va, kyc, opened, shown, closed>>
    BY <1>3 DEF Login, Insert
  <2>2. [user |-> u, parent |-> NoToken, live |-> TRUE] \in TokenRow
    BY DEF TokenRow
  <2>3. token' \in [Tokens -> TokenRow]
    BY <1>1, <2>1, <2>2
  <2>4. token'[t] = [user |-> u, parent |-> NoToken, live |-> TRUE]
    BY <1>1, <2>1
  <2>5. \A r \in Tokens \ {t} : token'[r] = token[r]
    BY <1>1, <2>1
  <2>6. Older /\ TokenTree' /\ ClosedIsOver'
    BY <2>1, <2>3, <2>4, <2>5, SessionOpened
  <2> QED
    BY <1>1, <2>1, <2>3, <2>6, TokenStep DEF TokenInv, AccTypeOK
<1>4. CASE Rotate(d, t)
  <2> DEFINE u == desk[d].user
             p == desk[d].token
  <2>1. /\ u \in People /\ p \in Tokens /\ p \notin closed /\ token[p].user = u
        /\ token[t] = Unissued /\ Answer(d)
        /\ UNCHANGED <<users, va, kyc, opened, shown, closed>>
    BY <1>1, <1>4 DEF Rotate, Knows
  <2>2. token' = [[token EXCEPT ![t] = [user |-> u, parent |-> p, live |-> TRUE]]
                        EXCEPT ![p].live = FALSE]
    BY <1>4 DEF Rotate, Rotated, Insert
  <2> HIDE DEF u, p
  <2> token[p].user # token[t].user
    BY <2>1, AccountsAssumption DEF Unissued
  <2> p # t /\ token[p] \in TokenRow
    BY <1>1, <2>1
  <2>3. /\ [user |-> u, parent |-> p, live |-> TRUE] \in TokenRow
        /\ [token[p] EXCEPT !.live = FALSE] \in TokenRow
    BY <2>1 DEF TokenRow
  <2>4. /\ token' \in [Tokens -> TokenRow]
        /\ token'[t] = [user |-> u, parent |-> p, live |-> TRUE]
        /\ token'[p] = [token[p] EXCEPT !.live = FALSE]
        /\ \A q \in Tokens \ {t, p} : token'[q] = token[q]
    BY <1>1, <2>1, <2>3, <2>2
  <2>5. Older /\ TokenTree' /\ ClosedIsOver'
    <3>1. \A q \in Tokens \ {t} :
             /\ token'[q].user = token[q].user /\ token'[q].parent = token[q].parent
             /\ q = p => ~token'[q].live
             /\ q # p => token'[q] = token[q]
      BY <2>3, <2>4 DEF TokenRow
    <3> QED
      BY <2>1, <2>4, <3>1, TokenIssued
  <2> QED
    BY <1>1, <2>1, <2>4, <2>5, TokenStep DEF TokenInv, AccTypeOK
<1> QED
  BY <1>2, <1>3, <1>4

-----------------------------------------------------------------------------
\* Some tokens of a user are revoked.
LEMMA TokensRevoked ==
    ASSUME TokenInv, NEW R \in SUBSET Tokens,
           \A t \in R : token[t].user \in People,
           token' = [t \in Tokens |-> IF t \in R THEN [token[t] EXCEPT !.live = FALSE]
                                                 ELSE token[t]]
    PROVE  /\ token' \in [Tokens -> TokenRow] /\ Older /\ TokenTree'
           /\ \A t \in Tokens : /\ token'[t].user = token[t].user
                                /\ token'[t].parent = token[t].parent
                                /\ token'[t].live => token[t].live /\ t \notin R
<1>1. token \in [Tokens -> TokenRow]
  BY DEF TokenInv, AccTypeOK
<1>2. \A t \in Tokens : [token[t] EXCEPT !.live = FALSE] \in TokenRow
  BY <1>1 DEF TokenRow
<1>3. token' \in [Tokens -> TokenRow]
  BY <1>1, <1>2
<1>4. \A t \in Tokens : /\ token'[t].user = token[t].user
                        /\ token'[t].parent = token[t].parent
                        /\ token'[t].live => token[t].live /\ t \notin R
                        /\ t \notin R => token'[t] = token[t]
  BY <1>1 DEF TokenRow
<1>5. Older
  BY <1>4 DEF Older
<1>6. TokenTree'
  <2>1. \A t \in Tokens : token'[t].user \notin People => token'[t] = Unissued
    BY <1>4 DEF TokenInv, TokenTree
  <2>2. ASSUME NEW t \in Tokens, token'[t].parent # NoToken
        PROVE  /\ token'[token'[t].parent].user = token'[t].user
               /\ ~token'[token'[t].parent].live
               /\ token'[t].user \in People
    <3>1. token[t].parent \in Tokens
      BY <1>1, <1>4, <2>2 DEF TokenRow
    <3> QED
      BY <1>4, <2>2, <3>1 DEF TokenInv, TokenTree
  <2> QED
    BY <2>1, <2>2 DEF TokenTree
<1> QED
  BY <1>3, <1>4, <1>5, <1>6

\* Logout, and the writes of a sign-out everywhere.
LEMMA RevokeSteps ==
    ASSUME TokenInv, NEW d \in Devices, RevokeAll(d) \/ LogoutOne(d)
    PROVE  TokenInv'
<1> DEFINE s == desk[d]
           u == s.user
<1>1. AccTypeOK /\ token \in [Tokens -> TokenRow] /\ s \in Request /\ Knows(s)
  BY DEF TokenInv, AccTypeOK, RequestKnows
<1>2. CASE RevokeAll(d)
  <2>1. /\ s.pc = "closing" /\ u \in People /\ s.live \subseteq Tokens /\ s.known \subseteq Tokens
        /\ \A t \in s.known : token[t].user = u /\ (token[t].live => t \in s.live)
        /\ s.live \subseteq s.known
    BY <1>1, <1>2 DEF RevokeAll, Knows, Request
  <2>2. token' = [t \in Tokens |-> IF t \in s.live THEN [token[t] EXCEPT !.live = FALSE]
                                                   ELSE token[t]]
    BY <1>2 DEF RevokeAll, Revoked
  <2>3. /\ closed' = IF Unoverlapped(d) THEN closed \cup s.known ELSE closed
        /\ Answer(d) /\ UNCHANGED <<users, va, kyc, opened, shown>>
    BY <1>2 DEF RevokeAll
  <2>4. s.live \in SUBSET Tokens /\ \A t \in s.live : token[t].user \in People
    BY <2>1
  <2> HIDE DEF s
  <2>5. /\ token' \in [Tokens -> TokenRow] /\ Older /\ TokenTree'
        /\ \A t \in Tokens : /\ token'[t].user = token[t].user
                             /\ token'[t].parent = token[t].parent
                             /\ token'[t].live => token[t].live /\ t \notin s.live
    BY <2>2, <2>4, TokensRevoked
  <2>6. closed \subseteq Tokens /\ closed' \subseteq Tokens
    BY <1>1, <2>1, <2>3 DEF AccTypeOK
  <2>7. \A t \in closed' : ~token'[t].live /\ token'[t].user \in People
    BY <2>1, <2>3, <2>5, <2>6 DEF TokenInv, ClosedIsOver
  <2>8. \A t \in Tokens : token'[t].parent \in closed' => t \in closed'
    <3> SUFFICES ASSUME NEW t \in Tokens, token'[t].parent \in closed' PROVE t \in closed'
      OBVIOUS
    <3> DEFINE p == token[t].parent
    <3>1. p \in closed' /\ token'[t].parent = p
      BY <2>5
    <3>2. p \in closed => t \in closed
      BY DEF TokenInv, ClosedIsOver
    <3>3. CASE Unoverlapped(d) /\ p \in s.known
      <4>1. p # NoToken /\ token[p].user = u
        BY <2>1, <3>3, AccountsAssumption
      <4>2. token[t].user = u
        BY <4>1 DEF TokenInv, TokenTree
      <4>3. t \in s.known
        BY <3>3, <4>2 DEF Unoverlapped, Issued, s
      <4> QED
        BY <2>3, <3>3, <4>3
    <3> QED
      BY <2>3, <3>1, <3>2, <3>3
  <2>9. ClosedIsOver'
    BY <2>7, <2>8 DEF ClosedIsOver
  <2>10. desk' \in [Devices -> Request] /\ RequestKnows'
    <3>1. desk \in [Devices -> Request] /\ NoRequest \in Request
      BY <1>1, IdleKnows DEF AccTypeOK
    <3>2. /\ desk' \in [Devices -> Request] /\ desk'[d] = NoRequest
          /\ \A e \in Devices \ {d} : desk'[e] = desk[e]
      BY <2>3, <3>1 DEF Answer, Serve
    <3>3. ASSUME NEW e \in Devices \ {d} PROVE Knows(desk[e])'
      <4> DEFINE r == desk[e]
      <4>1. r \in Request /\ Knows(r) /\ desk'[e] = r
        BY <3>1, <3>2 DEF TokenInv, RequestKnows
      <4>2. ASSUME r.pc = "rotating" PROVE r.token \notin closed'
        <5>1. r.token \in Tokens /\ token[r.token].user = r.user /\ r.token \notin closed
          BY <4>1, <4>2 DEF Knows
        <5>2. Unoverlapped(d) => r.user # u
          BY <4>2 DEF Unoverlapped, s
        <5> QED
          BY <2>1, <2>3, <5>1, <5>2
      <4>3. \A t \in Tokens : token'[t].user = token[t].user /\ (token'[t].live => token[t].live)
        BY <2>5
      <4>4. r.known \subseteq Tokens
        BY <4>1 DEF Request
      <4> QED
        BY <4>1, <4>2, <4>3, <4>4 DEF Knows
    <3>4. Knows(NoRequest)'
      BY DEF Knows, NoRequest
    <3>5. \A e \in Devices : Knows(desk[e])'
      BY <3>2, <3>3, <3>4 DEF Knows
    <3> QED
      BY <3>2, <3>5 DEF RequestKnows, Knows
  <2> QED
    BY <1>1, <2>3, <2>5, <2>6, <2>9, <2>10 DEF TokenInv, AccTypeOK
<1>3. CASE LogoutOne(d)
  <2> DEFINE p == s.token
  <2>1. p \in Tokens /\ u \in People /\ token[p].user = u
    BY <1>1, <1>3 DEF LogoutOne, Knows
  <2>2. /\ token' = [token EXCEPT ![p].live = FALSE]
        /\ Answer(d) /\ UNCHANGED <<users, va, kyc, opened, shown, closed>>
    BY <1>3 DEF LogoutOne
  <2> HIDE DEF p, s
  <2>3. token' = [t \in Tokens |-> IF t \in {p} THEN [token[t] EXCEPT !.live = FALSE] ELSE token[t]]
    BY <1>1, <2>1, <2>2
  <2>4. {p} \in SUBSET Tokens /\ \A t \in {p} : token[t].user \in People
    BY <2>1
  <2>5. /\ token' \in [Tokens -> TokenRow] /\ Older /\ TokenTree'
        /\ \A t \in Tokens : /\ token'[t].user = token[t].user
                             /\ token'[t].parent = token[t].parent
                             /\ token'[t].live => token[t].live /\ t \notin {p}
    BY <2>3, <2>4, TokensRevoked
  <2>6. ClosedIsOver'
    BY <1>1, <2>2, <2>5 DEF TokenInv, ClosedIsOver, AccTypeOK
  <2> QED
    BY <1>1, <2>2, <2>5, <2>6, TokenStep DEF TokenInv, AccTypeOK
<1> QED
  BY <1>2, <1>3
-----------------------------------------------------------------------------
\* The records change no token; a request that ends knows nothing.
LEMMA RecordSteps ==
    ASSUME TokenInv, NEW d \in Devices, RecordStep(d) \/ Drop(d)
    PROVE  TokenInv'
<1> DEFINE r == desk[d]
<1>1. AccTypeOK /\ r \in Request /\ Knows(r)
  BY DEF TokenInv, AccTypeOK, RequestKnows
<1>2. UNCHANGED <<token, closed, users>>
  BY DEF RecordStep, Drop, ShowAccount, Provision, ProviderOpens, ProviderFails, StoreAccount,
         StoreConflict, KycRead, KycStore, KycConflict, rows
<1>3. desk' = desk \/ \E s \in Request : Knows(s) /\ Serve(d, s)
  <2>1. CASE \E u \in People : ShowAccount(d, u)
    BY <2>1 DEF ShowAccount
  <2>2. ASSUME NEW u \in People, Provision(d, u) PROVE \E s \in Request : Knows(s) /\ Serve(d, s)
    <3> DEFINE s == [NoRequest EXCEPT !.pc = "asking", !.user = u]
    <3>1. s \in Request /\ Knows(s) /\ Serve(d, s)
      BY <2>2 DEF Provision, Begin, NoRequest, Request, AccPCs, Knows
    <3> QED
      BY <3>1
  <2>3. ASSUME ProviderOpens(d) PROVE \E s \in Request : Knows(s) /\ Serve(d, s)
    <3>1. PICK n \in Numbers : Serve(d, [r EXCEPT !.pc = "answered", !.number = n])
      BY <2>3 DEF ProviderOpens
    <3> DEFINE s == [r EXCEPT !.pc = "answered", !.number = n]
    <3>2. r.user \in People
      BY <1>1, <2>3 DEF ProviderOpens, Knows
    <3>3. s \in Request
      BY <1>1 DEF Request, AccPCs
    <3>4. s.pc = "answered" /\ s.user = r.user /\ s.number = n
      BY <1>1 DEF Request
    <3> HIDE DEF s
    <3>5. Knows(s)
      BY <3>2, <3>4 DEF Knows
    <3> QED
      BY <3>1, <3>3, <3>5 DEF s
  <2>4. ASSUME Continue(d, "signed_up"), r.pc \in {"asking", "answered"}
        PROVE  \E s \in Request : Knows(s) /\ Serve(d, s)
    <3> DEFINE s == [r EXCEPT !.pc = "signed_up"]
    <3>1. s \in Request /\ Serve(d, s)
      BY <1>1, <2>4 DEF Continue, Request, AccPCs
    <3>2. s.pc = "signed_up" /\ s.user = r.user /\ r.user \in People
      BY <1>1, <2>4 DEF Request, Knows
    <3> HIDE DEF s
    <3>3. Knows(s)
      BY <3>2 DEF Knows
    <3> QED
      BY <3>1, <3>3
  <2>5. ASSUME Answer(d) PROVE \E s \in Request : Knows(s) /\ Serve(d, s)
    BY <2>5, IdleKnows DEF Answer
  <2>6. ASSUME NEW u \in People, NEW b \in BVNs, KycRead(d, u, b)
        PROVE  \E s \in Request : Knows(s) /\ Serve(d, s)
    <3> DEFINE s == [NoRequest EXCEPT !.pc = "kyc_read", !.user = u, !.bvn = b]
    <3>1. s \in Request /\ Knows(s) /\ Serve(d, s)
      BY <2>6 DEF KycRead, NoRequest, Request, AccPCs, Knows
    <3> QED
      BY <3>1
  <2>7. CASE ProviderFails(d) \/ StoreAccount(d)
    BY <2>4, <2>5, <2>7 DEF ProviderFails, StoreAccount
  <2>8. CASE StoreConflict(d) \/ KycStore(d) \/ KycConflict(d) \/ Drop(d)
    BY <2>5, <2>8 DEF StoreConflict, KycStore, KycConflict, Drop
  <2> QED
    BY <2>1, <2>2, <2>3, <2>6, <2>7, <2>8 DEF RecordStep
<1>4. TokenTree' /\ ClosedIsOver' /\ RequestKnows' /\ desk' \in [Devices -> Request]
  <2>1. CASE desk' = desk
    BY <1>1, <1>2, <2>1 DEF TokenInv, AccTypeOK, TokenTree, ClosedIsOver, RequestKnows, Knows
  <2>2. CASE \E s \in Request : Knows(s) /\ Serve(d, s)
    BY <1>2, <2>2, DeskStep
  <2> QED
    BY <1>3, <2>1, <2>2
<1>5. /\ va' \in [People -> Numbers \cup {NoNumber}]
      /\ kyc' \in [People -> BVNs \cup {NoBVN}]
      /\ opened' \in [Numbers -> People \cup {NoOne}]
      /\ shown' \in [People -> SUBSET (Numbers \cup BVNs)]
  <2>1. CASE \E u \in People : ShowAccount(d, u) \/ Provision(d, u)
    BY <1>1, <2>1 DEF ShowAccount, Provision, rows, AccTypeOK
  <2>2. CASE ProviderOpens(d)
    BY <1>1, <2>2 DEF ProviderOpens, rows, AccTypeOK, Request
  <2>3. CASE ProviderFails(d)
    BY <1>1, <2>3 DEF ProviderFails, rows, AccTypeOK, Request
  <2>4. CASE StoreAccount(d)
    <3>1. r.user \in People /\ r.number \in Numbers
      BY <1>1, <2>4 DEF StoreAccount, Knows
    <3> QED
      BY <1>1, <2>4, <3>1 DEF StoreAccount, AccTypeOK
  <2>5. CASE KycStore(d)
    <3>1. r.user \in People /\ r.bvn \in BVNs
      BY <1>1, <2>5 DEF KycStore, Knows
    <3> QED
      BY <1>1, <2>5, <3>1 DEF KycStore, AccTypeOK
  <2>6. CASE StoreConflict(d) \/ KycConflict(d) \/ Drop(d)
             \/ \E u \in People, b \in BVNs : KycRead(d, u, b)
    BY <1>1, <2>6 DEF StoreConflict, KycConflict, Drop, KycRead, rows, AccTypeOK
  <2> QED
    BY <2>1, <2>2, <2>3, <2>4, <2>5, <2>6 DEF RecordStep
<1> QED
  BY <1>1, <1>2, <1>4, <1>5 DEF TokenInv, AccTypeOK

LEMMA AccNext_TokenInv == TokenInv /\ [AccNext]_accVars => TokenInv'
<1> SUFFICES ASSUME TokenInv, [AccNext]_accVars PROVE TokenInv'
  OBVIOUS
<1>1. CASE UNCHANGED accVars
  BY <1>1 DEF accVars, TokenInv, AccTypeOK, TokenTree, ClosedIsOver, RequestKnows, Knows
<1>2. ASSUME NEW d \in Devices, SignStep(d) PROVE TokenInv'
  BY <1>2, SignReads, IssueSteps, RevokeSteps DEF SignStep
<1>3. ASSUME NEW d \in Devices, RecordStep(d) \/ Drop(d) PROVE TokenInv'
  BY <1>3, RecordSteps
<1> QED
  BY <1>1, <1>2, <1>3 DEF AccNext

-----------------------------------------------------------------------------
\* A record is written only where there is none.
LEMMA AccNext_Told == TokenInv /\ ToldIsOnRecord /\ [AccNext]_accVars => ToldIsOnRecord'
<1> SUFFICES ASSUME TokenInv, ToldIsOnRecord, [AccNext]_accVars PROVE ToldIsOnRecord'
  OBVIOUS
<1>1. AccTypeOK
  BY DEF TokenInv
<1>2. CASE UNCHANGED <<va, kyc, shown>>
  BY <1>2 DEF ToldIsOnRecord
<1>3. ASSUME NEW d \in Devices, SignStep(d) PROVE UNCHANGED <<va, kyc, shown>>
  BY <1>3 DEF SignStep, Signup, LogoutEverywhere, SignupTokens, RefreshRead, Rotate, LogoutRead,
              Login, ReadLive, RevokeAll, LogoutOne, rows
<1>4. ASSUME NEW d \in Devices, NEW u \in People, ShowAccount(d, u) PROVE ToldIsOnRecord'
  BY <1>1, <1>4 DEF ShowAccount, rows, ToldIsOnRecord, AccTypeOK
<1>5. ASSUME NEW d \in Devices, StoreAccount(d) PROVE ToldIsOnRecord'
  <2> DEFINE s == desk[d]
  <2>1. s.user \in People /\ s.number \in Numbers /\ va[s.user] = NoNumber
    BY <1>5 DEF StoreAccount, Room, TokenInv, RequestKnows, Knows
  <2>2. /\ va' = [va EXCEPT ![s.user] = s.number] /\ kyc' = kyc
        /\ shown' = shown \/ shown' = [shown EXCEPT ![s.user] = @ \cup {s.number}]
    BY <1>5 DEF StoreAccount
  <2>3. \A u \in People : shown[u] \subseteq Numbers \cup BVNs /\ shown[u] \subseteq {va[u], kyc[u]}
    BY <1>1 DEF AccTypeOK, ToldIsOnRecord
  <2>4. NoNumber \notin shown[s.user]
    BY <2>1, <2>3, AccountsAssumption
  <2> HIDE DEF s
  <2> QED
    BY <1>1, <2>1, <2>2, <2>3, <2>4 DEF ToldIsOnRecord, AccTypeOK
<1>6. ASSUME NEW d \in Devices, KycStore(d) PROVE ToldIsOnRecord'
  <2> DEFINE s == desk[d]
  <2>1. s.user \in People /\ s.bvn \in BVNs /\ kyc[s.user] = NoBVN
    BY <1>6 DEF KycStore, Room, TokenInv, RequestKnows, Knows
  <2>2. /\ kyc' = [kyc EXCEPT ![s.user] = s.bvn] /\ va' = va
        /\ shown' = [shown EXCEPT ![s.user] = @ \cup {s.bvn}]
    BY <1>6 DEF KycStore
  <2>3. \A u \in People : shown[u] \subseteq Numbers \cup BVNs /\ shown[u] \subseteq {va[u], kyc[u]}
    BY <1>1 DEF AccTypeOK, ToldIsOnRecord
  <2>4. NoBVN \notin shown[s.user]
    BY <2>1, <2>3, AccountsAssumption
  <2> HIDE DEF s
  <2> QED
    BY <1>1, <2>1, <2>2, <2>3, <2>4 DEF ToldIsOnRecord, AccTypeOK
<1>7. ASSUME NEW d \in Devices, RecordStep(d) \/ Drop(d)
      PROVE  \/ UNCHANGED <<va, kyc, shown>>
             \/ \E u \in People : ShowAccount(d, u)
             \/ StoreAccount(d) \/ KycStore(d)
  BY <1>7 DEF RecordStep, Drop, Provision, ProviderOpens, ProviderFails, StoreConflict, KycRead,
              KycConflict, rows
<1> QED
  BY <1>2, <1>3, <1>4, <1>5, <1>6, <1>7 DEF AccNext, accVars

-----------------------------------------------------------------------------
LEMMA AccInvariant == AccSpec => [](TokenInv /\ ToldIsOnRecord)
<1>1. TokenInv /\ ToldIsOnRecord /\ [AccNext]_accVars => (TokenInv /\ ToldIsOnRecord)'
  BY AccNext_TokenInv, AccNext_Told
<1> QED
  BY AccInit_Inv, <1>1, PTL DEF AccSpec

\* Every user, token, record and open request has its type.
THEOREM AccTypeCorrect == AccSpec => []AccTypeOK
<1>1. TokenInv => AccTypeOK
  BY DEF TokenInv
<1> QED
  BY <1>1, AccInvariant, PTL

\* A token that was exchanged for another is dead, however many refreshes,
\* sign-outs and lost requests there are.
THEOREM ExchangedTokensAreDead == AccSpec => []ExchangedIsDead
<1>1. TokenInv => ExchangedIsDead
  BY DEF TokenInv, TokenTree, ExchangedIsDead
<1> QED
  BY <1>1, AccInvariant, PTL

\* A sign-out everywhere that nothing overlapped ends every token on record
\* for good, and whatever would have been issued from one.
THEOREM SignOutsHold == AccSpec => []SignOutHolds
<1>1. TokenInv => SignOutHolds
  BY DEF TokenInv, ClosedIsOver, SignOutHolds
<1> QED
  BY <1>1, AccInvariant, PTL

\* An account number or BVN a user was told is on record stays on record.
THEOREM RecordsStay == AccSpec => []ToldIsOnRecord
<1>1. TokenInv /\ ToldIsOnRecord => ToldIsOnRecord
  OBVIOUS
<1> QED
  BY <1>1, AccInvariant, PTL
=============================================================================
