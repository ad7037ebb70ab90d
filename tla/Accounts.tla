------------------------------- MODULE Accounts -------------------------------
(***************************************************************************)
(* Users, their refresh tokens, and the two records a user has once: the   *)
(* virtual account the provider opens for deposits, and the KYC record.    *)
(* Sign-up and provisioning are coroutines that await the provider; login, *)
(* refresh, logout and KYC run in threads.  No row is locked by a read, so *)
(* what a request has read may be old when it writes.                      *)
(***************************************************************************)
EXTENDS Integers

CONSTANTS
    People,          \* who may sign up, by email and phone
    Tokens,          \* refresh tokens; a jti makes each one new
    Numbers, BVNs,   \* the provider's account numbers; what KYC submits
    Devices,         \* the requests that can be open at the same time
    AutoProvision,   \* settings.auto_provision_dva_on_signup
    NoOne, NoToken, NoNumber, NoBVN

ASSUME AccountsAssumption ==
    /\ AutoProvision \in BOOLEAN
    /\ NoOne \notin People /\ NoToken \notin Tokens
    /\ {NoNumber, NoBVN} \cap (Numbers \cup BVNs) = {}

VARIABLES
    users,     \* users: who has a row
    token,     \* refresh_tokens
    va, kyc,   \* virtual_accounts and kyc_records, unique for each user
    opened,    \* the provider: for whom it opened each account number
    shown,     \* what a user was told is on record
    closed,    \* tokens on record when a sign-out that nothing overlapped ended
    desk       \* the open requests

rows == <<users, token, va, kyc>>
accVars == <<users, token, va, kyc, opened, shown, closed, desk>>

TokenRow == [user : People \cup {NoOne}, parent : Tokens \cup {NoToken}, live : BOOLEAN]
Unissued == [user |-> NoOne, parent |-> NoToken, live |-> FALSE]

AccPCs == {"idle", "signed_up", "asking", "answered", "rotating", "revoking",
           "closing", "one_read", "kyc_read"}

Request ==
    [pc : AccPCs, user : People \cup {NoOne}, signup : BOOLEAN,
     token : Tokens \cup {NoToken},
     live : SUBSET Tokens, known : SUBSET Tokens,   \* what a revoke-all has read
     number : Numbers \cup {NoNumber}, bvn : BVNs \cup {NoBVN}]
NoRequest ==
    [pc |-> "idle", user |-> NoOne, signup |-> FALSE, token |-> NoToken,
     live |-> {}, known |-> {}, number |-> NoNumber, bvn |-> NoBVN]

Free(d) == desk[d] = NoRequest
Serve(d, s) == desk' = [desk EXCEPT ![d] = s]
Begin(d, u, pc) == Serve(d, [NoRequest EXCEPT !.pc = pc, !.user = u])
Continue(d, pc) == Serve(d, [desk[d] EXCEPT !.pc = pc])
Answer(d) == Serve(d, NoRequest)

Issued(u) == {t \in Tokens : token[t].user = u}
LiveOf(u) == {t \in Issued(u) : token[t].live}

\* Mutant: the session the token continues is left out.
InsertBare(t, u, parent) == [token EXCEPT ![t] = [user |-> u, live |-> TRUE]]

\* _store_refresh_token: a new row.
Insert(t, u, parent) == [token EXCEPT ![t] = [user |-> u, parent |-> parent, live |-> TRUE]]

-----------------------------------------------------------------------------
(* Sign-up, login, refresh                                                 *)

\* signup_user and the commit after it: the user is durable whatever follows.
Signup(d, u) ==
    /\ Free(d) /\ u \notin users
    /\ users' = users \cup {u}
    /\ Serve(d, [NoRequest EXCEPT !.pc = IF AutoProvision THEN "asking" ELSE "signed_up",
                                  !.user = u, !.signup = TRUE])
    /\ UNCHANGED <<token, va, kyc, opened, shown, closed>>

\* issue_tokens, at the end of sign-up and in login.
SignupTokens(d, t) ==
    /\ desk[d].pc = "signed_up" /\ token[t] = Unissued
    /\ token' = Insert(t, desk[d].user, NoToken)
    /\ Answer(d)
    /\ UNCHANGED <<users, va, kyc, opened, shown, closed>>

Login(d, u, t) ==
    /\ Free(d) /\ u \in users /\ token[t] = Unissued
    /\ token' = Insert(t, u, NoToken)
    /\ UNCHANGED <<users, va, kyc, opened, shown, closed, desk>>

\* rotate_tokens reads the row without locking it ...
RefreshRead(d, t) ==
    /\ Free(d) /\ token[t] # Unissued
    /\ Serve(d, [NoRequest EXCEPT !.pc = IF token[t].live THEN "rotating" ELSE "revoking",
                                  !.user = token[t].user, !.token = t])
    /\ UNCHANGED <<rows, opened, shown, closed>>

\* Mutant: the new token is committed before the old one is revoked.
RotatedLate(d, t) == Insert(t, desk[d].user, desk[d].token)

\* ... and revokes it and stores its successor in one transaction.
Rotated(d, t) ==
    [Insert(t, desk[d].user, desk[d].token) EXCEPT ![desk[d].token].live = FALSE]

Rotate(d, t) ==
    /\ desk[d].pc = "rotating" /\ token[t] = Unissued
    /\ token' = Rotated(d, t)
    /\ Answer(d)
    /\ UNCHANGED <<users, va, kyc, opened, shown, closed>>

-----------------------------------------------------------------------------
(* Sign-out: a token that was revoked is presented again, or the user logs *)
(* out without naming a token.                                             *)

LogoutEverywhere(d, u) ==
    /\ Free(d) /\ u \in users
    /\ Begin(d, u, "revoking")
    /\ UNCHANGED <<rows, opened, shown, closed>>

\* _revoke_all_for_user: the rows that are not revoked are read ...
ReadLive(d) ==
    LET u == desk[d].user IN
    /\ desk[d].pc = "revoking"
    /\ Serve(d, [desk[d] EXCEPT !.pc = "closing", !.live = LiveOf(u), !.known = Issued(u)])
    /\ UNCHANGED <<rows, opened, shown, closed>>

\* No refresh was under way, no token came since the rows were read.
Unoverlapped(d) ==
    /\ Issued(desk[d].user) = desk[d].known
    /\ \A e \in Devices : desk[e].pc = "rotating" => desk[e].user # desk[d].user

\* Mutant: only the token that was presented is revoked.
RevokedBy(d) == desk[d].live \cap {desk[d].token}

\* ... and written.
Revoked(d) == desk[d].live

RevokeAll(d) ==
    /\ desk[d].pc = "closing"
    /\ token' = [t \in Tokens |-> IF t \in Revoked(d) THEN [token[t] EXCEPT !.live = FALSE]
                                                      ELSE token[t]]
    /\ closed' = IF Unoverlapped(d) THEN closed \cup desk[d].known ELSE closed
    /\ Answer(d)
    /\ UNCHANGED <<users, va, kyc, opened, shown>>

\* revoke_refresh: logout with the token named; a revoked one is left alone.
LogoutRead(d, t) ==
    /\ Free(d) /\ token[t].live
    /\ Serve(d, [NoRequest EXCEPT !.pc = "one_read", !.user = token[t].user, !.token = t])
    /\ UNCHANGED <<rows, opened, shown, closed>>

LogoutOne(d) ==
    /\ desk[d].pc = "one_read"
    /\ token' = [token EXCEPT ![desk[d].token].live = FALSE]
    /\ Answer(d)
    /\ UNCHANGED <<users, va, kyc, opened, shown, closed>>

-----------------------------------------------------------------------------
(* Records a user has once: no row is there when the request looks, and    *)
(* the unique constraint decides when it inserts.                          *)

\* provision_virtual_account: an account on record is shown ...
ShowAccount(d, u) ==
    /\ Free(d) /\ u \in users /\ va[u] # NoNumber
    /\ shown' = [shown EXCEPT ![u] = @ \cup {va[u]}]
    /\ UNCHANGED <<rows, opened, closed, desk>>

\* ... and otherwise the provider is asked for one.
Provision(d, u) ==
    /\ Free(d) /\ u \in users /\ va[u] = NoNumber
    /\ Begin(d, u, "asking")
    /\ UNCHANGED <<rows, opened, shown, closed>>

\* The provider opens an account, or answers with one it opened before.
ProviderOpens(d) ==
    /\ desk[d].pc = "asking"
    /\ \E n \in Numbers :
         /\ opened[n] \in {NoOne, desk[d].user}
         /\ opened' = [opened EXCEPT ![n] = desk[d].user]
         /\ Serve(d, [desk[d] EXCEPT !.pc = "answered", !.number = n])
    /\ UNCHANGED <<rows, shown, closed>>

\* It refuses, or its answer is lost: sign-up goes on, /provision is a 502.
ProviderFails(d) ==
    /\ desk[d].pc = "asking"
    /\ \/ UNCHANGED opened
       \/ \E n \in Numbers : opened[n] = NoOne /\ opened' = [opened EXCEPT ![n] = desk[d].user]
    /\ IF desk[d].signup THEN Continue(d, "signed_up") ELSE Answer(d)
    /\ UNCHANGED <<rows, shown, closed>>

\* Mutant: what is on record is overwritten.
RoomAlways(record, u, value, none) == TRUE

\* The insert succeeds when there is still no row of the user nor of the value.
Room(record, u, value, none) == record[u] = none /\ \A v \in People : record[v] # value

StoreAccount(d) ==
    LET s == desk[d] IN
    /\ s.pc = "answered" /\ Room(va, s.user, s.number, NoNumber)
    /\ va' = [va EXCEPT ![s.user] = s.number]
    /\ IF s.signup
       THEN Continue(d, "signed_up") /\ UNCHANGED shown
       ELSE Answer(d) /\ shown' = [shown EXCEPT ![s.user] = @ \cup {s.number}]
    /\ UNCHANGED <<users, token, kyc, opened, closed>>

\* IntegrityError, which nobody catches: a 500, and no tokens for a sign-up.
StoreConflict(d) ==
    /\ desk[d].pc = "answered" /\ ~Room(va, desk[d].user, desk[d].number, NoNumber)
    /\ Answer(d)
    /\ UNCHANGED <<rows, opened, shown, closed>>

\* submit_bvn: 409 when a record is there, which changes nothing.
KycRead(d, u, b) ==
    /\ Free(d) /\ u \in users /\ kyc[u] = NoBVN
    /\ Serve(d, [NoRequest EXCEPT !.pc = "kyc_read", !.user = u, !.bvn = b])
    /\ UNCHANGED <<rows, opened, shown, closed>>

KycStore(d) ==
    LET s == desk[d] IN
    /\ s.pc = "kyc_read" /\ Room(kyc, s.user, s.bvn, NoBVN)
    /\ kyc' = [kyc EXCEPT ![s.user] = s.bvn]
    /\ shown' = [shown EXCEPT ![s.user] = @ \cup {s.bvn}]
    /\ Answer(d)
    /\ UNCHANGED <<users, token, va, opened, closed>>

KycConflict(d) ==
    /\ desk[d].pc = "kyc_read" /\ ~Room(kyc, desk[d].user, desk[d].bvn, NoBVN)
    /\ Answer(d)
    /\ UNCHANGED <<rows, opened, shown, closed>>

-----------------------------------------------------------------------------
\* The process dies, or one request does: what it has not committed is lost.
Drop(d) ==
    /\ ~Free(d)
    /\ Answer(d)
    /\ UNCHANGED <<rows, opened, shown, closed>>

AccInit ==
    /\ users = {}
    /\ token = [t \in Tokens |-> Unissued]
    /\ va = [u \in People |-> NoNumber] /\ kyc = [u \in People |-> NoBVN]
    /\ opened = [n \in Numbers |-> NoOne]
    /\ shown = [u \in People |-> {}]
    /\ closed = {}
    /\ desk = [d \in Devices |-> NoRequest]

SignStep(d) ==
    \/ \E u \in People : Signup(d, u) \/ LogoutEverywhere(d, u)
    \/ \E t \in Tokens : \/ SignupTokens(d, t) \/ RefreshRead(d, t) \/ Rotate(d, t)
                         \/ LogoutRead(d, t) \/ \E u \in People : Login(d, u, t)
    \/ ReadLive(d) \/ RevokeAll(d) \/ LogoutOne(d)
RecordStep(d) ==
    \/ \E u \in People : ShowAccount(d, u) \/ Provision(d, u)
    \/ ProviderOpens(d) \/ ProviderFails(d) \/ StoreAccount(d) \/ StoreConflict(d)
    \/ \E u \in People, b \in BVNs : KycRead(d, u, b)
    \/ KycStore(d) \/ KycConflict(d)

AccNext == \E d \in Devices : SignStep(d) \/ RecordStep(d) \/ Drop(d)

AccSpec == AccInit /\ [][AccNext]_accVars

-----------------------------------------------------------------------------
(* Properties                                                              *)

AccTypeOK ==
    /\ users \subseteq People
    /\ token \in [Tokens -> TokenRow]
    /\ va \in [People -> Numbers \cup {NoNumber}]
    /\ kyc \in [People -> BVNs \cup {NoBVN}]
    /\ opened \in [Numbers -> People \cup {NoOne}]
    /\ shown \in [People -> SUBSET (Numbers \cup BVNs)]
    /\ closed \subseteq Tokens
    /\ desk \in [Devices -> Request]

\* A token that was exchanged is dead from the moment its successor exists,
\* whatever else runs or stops (services/auth.py, rotate_tokens: "revoke +
\* insert in one transaction").
ExchangedIsDead ==
    \A t \in Tokens : token[t].parent # NoToken => ~token[token[t].parent].live

\* After a sign-out everywhere, or the replay of a revoked token, that no
\* refresh or login overlaps, every token issued before it is dead for good,
\* and no successor of one is ever issued (logout_user, rotate_tokens).
SignOutHolds ==
    \A t \in Tokens : /\ t \in closed => ~token[t].live
                      /\ t \notin closed => token[t].parent \notin closed

\* The account number or BVN a user was told is on record is the one that
\* is, and stays: of two requests that both found nothing, the loser stores
\* and acknowledges nothing (provision_virtual_account, submit_bvn).
ToldIsOnRecord ==
    \A u \in People : shown[u] \subseteq {va[u], kyc[u]}
=============================================================================
