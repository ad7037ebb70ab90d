-------------------------- MODULE TelegramLinkProofs --------------------------
(***************************************************************************)
(* Proofs about TelegramLink, for any number of users, chats, codes and    *)
(* web requests.                                                           *)
(*                                                                         *)
(* A chat is on record only through a code sent from it (ChatHasCode),     *)
(* whatever the other column says; that only the bot links, one command at *)
(* a time, keeps what it has read of codes and chats true until it commits *)
(* (BotKnows).                                                             *)
(***************************************************************************)
EXTENDS TelegramLink, TLAPS

\* A chat in a user's row was put there by a used code of that user.
ChatHasCode ==
    \A u \in Members : link[u].chat # NoChat =>
        \E k \in Codes : code[k].owner = u /\ code[k].used /\ link[u].chat \in linked[k]

\* A code that linked a chat is used up.
LinkedIsUsed == \A k \in Codes : linked[k] # {} => code[k].used

\* What the bot's command at work has read, and that still holds.
BotKnows ==
    /\ bot.pc \in {"code_read", "user_read"} =>
          /\ bot.user \in Members /\ bot.chat \in Chats /\ bot.code \in Codes
          /\ code[bot.code].owner = bot.user /\ linked[bot.code] = {}
    /\ bot.pc = "user_read" => ~Claimed(bot.user, bot.chat)
    /\ bot.pc = "unlinking" => bot.user \in Members

\* The web's requests name users, and codes that were made.
WebKnows ==
    \A w \in Clerks : /\ clerk[w].pc = "unlinking" => clerk[w].user \in Members
                      /\ \A k \in clerk[w].found : code[k].owner \in Members

\* Codes of nobody are not made yet.
MadeForSomeone == \A k \in Codes : code[k].owner \notin Members => code[k] = Unmade

LinkInv ==
    /\ LinkTypeOK /\ ChatHasCode /\ LinkedIsUsed /\ BotKnows /\ WebKnows
    /\ MadeForSomeone /\ OneUserPerChat /\ CodeLinksOnce

-----------------------------------------------------------------------------
\* A row that is written keeps its type, and its chat or takes the new one.
LEMMA UpdatedRow ==
    ASSUME NEW now \in Link, NEW loaded, NEW new \in Link
    PROVE  /\ Updated(now, loaded, new) \in Link
           /\ Updated(now, loaded, new).chat \in {now.chat, new.chat}
BY DEF Updated, Link

\* Nothing is linked in the first state.
LEMMA LinkInit_Inv == LinkInit => LinkInv
<1> SUFFICES ASSUME LinkInit PROVE LinkInv
  OBVIOUS
<1> USE DEF LinkInit, Unlinked, Unmade, NoWork
<1>1. LinkTypeOK
  BY DEF LinkTypeOK, Link, CodeRow, Work
<1> QED
  BY <1>1 DEF LinkInv, ChatHasCode, LinkedIsUsed, BotKnows, WebKnows, MadeForSomeone,
              OneUserPerChat, CodeLinksOnce

\* Rows of codes change: a used code stays used, a made one keeps its owner.
LEMMA CodesStep ==
    ASSUME LinkInv, UNCHANGED <<link, linked, bot>>,
           \A k \in Codes : /\ code[k].used => code'[k].used
                            /\ code[k].owner \in Members => code'[k].owner = code[k].owner
    PROVE  ChatHasCode' /\ LinkedIsUsed' /\ BotKnows' /\ OneUserPerChat' /\ CodeLinksOnce'
<1> USE DEF LinkInv
<1>1. ChatHasCode'
  BY DEF ChatHasCode
<1>2. LinkedIsUsed' /\ OneUserPerChat' /\ CodeLinksOnce'
  BY DEF LinkedIsUsed, OneUserPerChat, CodeLinksOnce
<1>3. BotKnows'
  BY DEF BotKnows, Claimed
<1> QED
  BY <1>1, <1>2, <1>3

\* A user is unlinked, as far as the columns as loaded say there is a change.
LEMMA UnlinkStep ==
    ASSUME LinkInv, NEW u \in Members, NEW loaded,
           link' = [link EXCEPT ![u] = Updated(@, loaded, Unlinked)],
           UNCHANGED <<code, linked>>, bot' \in {bot, NoWork}
    PROVE  /\ link' \in [Members -> Link]
           /\ ChatHasCode' /\ LinkedIsUsed' /\ BotKnows' /\ OneUserPerChat' /\ CodeLinksOnce'
<1> USE DEF LinkInv
<1>1. link \in [Members -> Link] /\ Unlinked \in Link /\ Unlinked.chat = NoChat
  BY DEF LinkTypeOK, Unlinked, Link
<1>2. link[u] \in Link
  BY <1>1
<1>3. link' \in [Members -> Link]
  BY <1>1, <1>2, UpdatedRow
<1>4. \A v \in Members : link'[v].chat \in {link[v].chat, NoChat}
  BY <1>1, <1>2, UpdatedRow
<1>5. ChatHasCode'
  BY <1>4 DEF ChatHasCode
<1>6. LinkedIsUsed' /\ CodeLinksOnce'
  BY DEF LinkedIsUsed, CodeLinksOnce
<1>7. OneUserPerChat'
  BY <1>4 DEF OneUserPerChat
<1>8. BotKnows'
  <2>1. CASE bot' = bot
    <3>1. bot.pc = "user_read" => ~Claimed(bot.user, bot.chat)'
      BY <1>4, <2>1, LinkAssumption DEF BotKnows, Claimed
    <3> QED
      BY <2>1, <3>1 DEF BotKnows
  <2>2. CASE bot' = NoWork
    BY <2>2 DEF BotKnows, NoWork
  <2> QED
    BY <2>1, <2>2
<1> QED
  BY <1>3, <1>5, <1>6, <1>7, <1>8

\* The bot's command goes on, and no row changes.
LEMMA BotStep ==
    ASSUME LinkInv, UNCHANGED <<link, code, linked, clerk>>, bot' \in Work, BotKnows'
    PROVE  LinkInv'
<1> USE DEF LinkInv
<1>1. LinkTypeOK'
  BY DEF LinkTypeOK
<1>2. ChatHasCode' /\ LinkedIsUsed' /\ OneUserPerChat' /\ CodeLinksOnce'
  BY DEF ChatHasCode, LinkedIsUsed, OneUserPerChat, CodeLinksOnce
<1>3. WebKnows' /\ MadeForSomeone'
  BY DEF WebKnows, MadeForSomeone
<1> QED
  BY <1>1, <1>2, <1>3

-----------------------------------------------------------------------------
\* The web's requests.
LEMMA WebKeepsInv ==
    ASSUME LinkInv, NEW w \in Clerks,
           \/ \E u \in Members : SpoilRead(w, u) \/ WebUnlinkRead(w, u)
           \/ SpoilWrite(w) \/ WebUnlink(w)
    PROVE  LinkInv'
<1> USE DEF LinkInv
<1>1. NoWork \in Work /\ NoWork.pc = "idle" /\ NoWork.found = {}
  BY DEF NoWork, Work, Unlinked, Link
<1>2. ASSUME NEW u \in Members, SpoilRead(w, u) PROVE LinkInv'
  <2> DEFINE s == [NoWork EXCEPT !.pc = "spoiling", !.user = u,
                         !.found = {k \in Codes : code[k].owner = u /\ ~code[k].used}]
  <2>1. s \in Work /\ s.pc = "spoiling" /\ \A k \in s.found : code[k].owner = u
    BY <1>1 DEF Work, NoWork
  <2>2. clerk' = [clerk EXCEPT ![w] = s]
    BY <1>2 DEF SpoilRead
  <2> HIDE DEF s
  <2>3. LinkTypeOK'
    BY <1>2, <2>1, <2>2 DEF SpoilRead, LinkTypeOK, linkRows
  <2>4. WebKnows' /\ MadeForSomeone'
    BY <1>2, <2>1, <2>2 DEF SpoilRead, linkRows, WebKnows, LinkTypeOK, MadeForSomeone
  <2> QED
    BY <1>2, <2>3, <2>4, CodesStep DEF SpoilRead, linkRows
<1>3. CASE SpoilWrite(w)
  <2>1. \A k \in Codes : code[k] \in CodeRow
    BY DEF LinkTypeOK
  <2>2. \A k \in Codes : [code[k] EXCEPT !.used = TRUE] \in CodeRow
    BY <2>1 DEF CodeRow
  <2>3. code' \in [Codes -> CodeRow]
    BY <1>3, <2>1, <2>2 DEF SpoilWrite
  <2>4. \A k \in Codes : /\ code[k].used => code'[k].used
                         /\ code[k].owner \in Members => code'[k].owner = code[k].owner
    BY <1>3, <2>1 DEF SpoilWrite, CodeRow
  <2>5. LinkTypeOK'
    BY <1>1, <1>3, <2>3 DEF SpoilWrite, LinkTypeOK
  <2>6. \A x \in Clerks : clerk'[x] \in {clerk[x], NoWork} /\ clerk[x].found \subseteq Codes
    BY <1>3 DEF SpoilWrite, LinkTypeOK, Work
  <2>7. WebKnows'
    BY <1>1, <2>4, <2>6 DEF WebKnows
  <2>8. MadeForSomeone'
    <3>1. \A j \in clerk[w].found : code[j].owner \in Members
      BY DEF WebKnows
    <3> QED
      BY <1>3, <2>1, <3>1 DEF SpoilWrite, MadeForSomeone, CodeRow
  <2> QED
    BY <1>3, <2>4, <2>5, <2>7, <2>8, CodesStep DEF SpoilWrite
<1>4. ASSUME NEW u \in Members, WebUnlinkRead(w, u) PROVE LinkInv'
  <2> DEFINE s == [NoWork EXCEPT !.pc = "unlinking", !.user = u, !.loaded = link[u]]
  <2>1. s \in Work /\ s.user = u /\ s.found = {}
    BY <1>1 DEF Work, NoWork, LinkTypeOK
  <2>2. clerk' = [clerk EXCEPT ![w] = s]
    BY <1>4 DEF WebUnlinkRead
  <2> HIDE DEF s
  <2>3. LinkTypeOK'
    BY <1>4, <2>1, <2>2 DEF WebUnlinkRead, LinkTypeOK, linkRows
  <2>4. WebKnows' /\ MadeForSomeone'
    BY <1>4, <2>1, <2>2 DEF WebUnlinkRead, linkRows, WebKnows, LinkTypeOK, MadeForSomeone
  <2> QED
    BY <1>4, <2>3, <2>4, CodesStep DEF WebUnlinkRead, linkRows
<1>5. CASE WebUnlink(w)
  <2>1. clerk[w].user \in Members
    BY <1>5 DEF WebUnlink, WebKnows
  <2>2. /\ link' \in [Members -> Link]
        /\ ChatHasCode' /\ LinkedIsUsed' /\ BotKnows' /\ OneUserPerChat' /\ CodeLinksOnce'
    BY <1>5, <2>1, UnlinkStep DEF WebUnlink
  <2>3. LinkTypeOK' /\ WebKnows' /\ MadeForSomeone'
    BY <1>1, <1>5, <2>2 DEF WebUnlink, LinkTypeOK, WebKnows, MadeForSomeone
  <2> QED
    BY <2>2, <2>3
<1> QED
  BY <1>2, <1>3, <1>4, <1>5

\* A code is made or expires.
LEMMA CodeKeepsInv ==
    ASSUME LinkInv, NEW k \in Codes, Expire(k) \/ \E u \in Members : MakeCode(u, k)
    PROVE  LinkInv'
<1> USE DEF LinkInv
<1>1. \A j \in Codes : code[j] \in CodeRow
  BY DEF LinkTypeOK
<1>2. code' \in [Codes -> CodeRow]
  <2>1. CASE Expire(k)
    <3>1. [code[k] EXCEPT !.expired = TRUE] \in CodeRow
      BY <1>1 DEF CodeRow
    <3> QED
      BY <2>1, <3>1 DEF Expire, LinkTypeOK
  <2>2. ASSUME NEW u \in Members, MakeCode(u, k) PROVE code' \in [Codes -> CodeRow]
    <3>1. [code[k] EXCEPT !.owner = u] \in CodeRow
      BY <1>1 DEF CodeRow
    <3> QED
      BY <2>2, <3>1 DEF MakeCode, LinkTypeOK
  <2> QED
    BY <2>1, <2>2
<1>3. \A j \in Codes : /\ code[j].used => code'[j].used
                       /\ code[j].owner \in Members => code'[j].owner = code[j].owner
  BY <1>1, LinkAssumption DEF MakeCode, Expire, CodeRow, Unmade, LinkTypeOK
<1>4. UNCHANGED <<link, linked, bot, clerk>>
  BY DEF MakeCode, Expire
<1>5. LinkTypeOK'
  BY <1>2, <1>4 DEF LinkTypeOK
<1>6. WebKnows'
  BY <1>3, <1>4 DEF WebKnows, LinkTypeOK, Work
<1>7. MadeForSomeone'
  BY <1>1 DEF MakeCode, Expire, MadeForSomeone, CodeRow, LinkTypeOK
<1> QED
  BY <1>3, <1>4, <1>5, <1>6, <1>7, CodesStep

-----------------------------------------------------------------------------
\* The bot reads: a code that can be used has linked nothing yet.
LEMMA BotReadKeepsInv ==
    ASSUME LinkInv,
           \/ \E c \in Chats, k \in Codes : LinkRead(c, k)
           \/ LinkRefused \/ LinkLoad
           \/ \E c \in Chats : BotUnlinkRead(c)
    PROVE  LinkInv'
<1> USE DEF LinkInv
<1>1. NoWork \in Work /\ NoWork.pc = "idle"
  BY DEF NoWork, Work, Unlinked, Link
<1>2. ASSUME NEW c \in Chats, NEW k \in Codes, LinkRead(c, k) PROVE LinkInv'
  <2> DEFINE s == [NoWork EXCEPT !.pc = "code_read", !.user = code[k].owner,
                                 !.chat = c, !.code = k]
  <2>1. code[k] \in CodeRow /\ ~code[k].used /\ code[k] # Unmade
    BY <1>2 DEF LinkRead, Usable, LinkTypeOK
  <2>2. linked[k] = {} /\ code[k].owner \in Members
    BY <2>1 DEF LinkedIsUsed, MadeForSomeone
  <2>3. s \in Work /\ s.pc = "code_read" /\ s.user = code[k].owner /\ s.chat = c /\ s.code = k
    BY <1>1, <2>1 DEF Work, CodeRow, NoWork
  <2>4. bot' = s /\ UNCHANGED <<link, code, linked, clerk>>
    BY <1>2 DEF LinkRead, linkRows
  <2> HIDE DEF s
  <2> QED
    BY <2>1, <2>2, <2>3, <2>4, BotStep DEF BotKnows
<1>3. CASE LinkRefused
  BY <1>1, <1>3, BotStep DEF LinkRefused, linkRows, BotKnows
<1>4. CASE LinkLoad
  <2>1. bot \in Work /\ bot.user \in Members
    BY <1>4 DEF LinkLoad, LinkTypeOK, BotKnows
  <2> DEFINE s == [bot EXCEPT !.pc = "user_read", !.loaded = link[bot.user]]
  <2>2. /\ s \in Work /\ s.pc = "user_read"
        /\ s.user = bot.user /\ s.chat = bot.chat /\ s.code = bot.code
    BY <2>1 DEF Work, LinkTypeOK
  <2>3. bot' = s /\ UNCHANGED <<link, code, linked, clerk>> /\ ~Claimed(bot.user, bot.chat)
    BY <1>4 DEF LinkLoad, linkRows
  <2> HIDE DEF s
  <2> QED
    BY <1>4, <2>2, <2>3, BotStep DEF LinkLoad, BotKnows, Claimed
<1>5. ASSUME NEW c \in Chats, BotUnlinkRead(c) PROVE LinkInv'
  <2> PICK u \in Members :
        bot' = [NoWork EXCEPT !.pc = "unlinking", !.user = u, !.loaded = link[u]]
    BY <1>5 DEF BotUnlinkRead, SpeaksFor
  <2>1. bot' \in Work /\ bot'.pc = "unlinking" /\ bot'.user = u
    BY <1>1 DEF Work, NoWork, LinkTypeOK
  <2> QED
    BY <1>5, <2>1, BotStep DEF BotUnlinkRead, linkRows, BotKnows
<1> QED
  BY <1>2, <1>3, <1>4, <1>5

\* The link is stored: the code is used up, and the chat is nobody else's.
LEMMA LinkCommitKeepsInv ==
    ASSUME LinkInv, LinkCommit
    PROVE  LinkInv'
<1> USE DEF LinkInv
<1> DEFINE u == bot.user
           c == bot.chat
           k == bot.code
<1>1. /\ u \in Members /\ c \in Chats /\ k \in Codes
      /\ code[k].owner = u /\ linked[k] = {} /\ ~Claimed(u, c)
  BY DEF LinkCommit, BotKnows
<1>2. /\ link' = [link EXCEPT ![u] = Updated(@, bot.loaded, [chat |-> c, on |-> TRUE])]
      /\ code' = [code EXCEPT ![k].used = TRUE]
      /\ linked' = [linked EXCEPT ![k] = @ \cup {c}]
      /\ bot' = NoWork /\ clerk' = clerk
  BY DEF LinkCommit, LinkedTo, UsedUp
<1>3. /\ link \in [Members -> Link] /\ code \in [Codes -> CodeRow]
      /\ linked \in [Codes -> SUBSET Chats]
  BY DEF LinkTypeOK
<1>4. [chat |-> c, on |-> TRUE] \in Link /\ [chat |-> c, on |-> TRUE].chat = c
  BY <1>1 DEF Link
<1>5. link'[u] \in Link /\ link'[u].chat \in {link[u].chat, c}
  BY <1>1, <1>2, <1>3, <1>4, UpdatedRow
<1>6. \A v \in Members \ {u} : link'[v] = link[v]
  BY <1>2, <1>3
<1>7. \A j \in Codes : /\ code'[j].owner = code[j].owner
                       /\ j = k \/ code[j].used => code'[j].used
                       /\ linked'[j] = IF j = k THEN {c} ELSE linked[j]
  BY <1>1, <1>2, <1>3 DEF CodeRow
<1> HIDE DEF u, c, k
<1>8. LinkTypeOK'
  <2>1. link' \in [Members -> Link]
    BY <1>2, <1>3, <1>5
  <2>2. code' \in [Codes -> CodeRow]
    BY <1>1, <1>2, <1>3 DEF CodeRow
  <2>3. linked' \in [Codes -> SUBSET Chats]
    BY <1>1, <1>2, <1>3
  <2>4. NoWork \in Work
    BY DEF NoWork, Work, Unlinked, Link
  <2> QED
    BY <1>2, <2>1, <2>2, <2>3, <2>4 DEF LinkTypeOK
<1>9. ChatHasCode'
  <2> SUFFICES ASSUME NEW v \in Members, link'[v].chat # NoChat
               PROVE  \E j \in Codes : /\ code'[j].owner = v /\ code'[j].used
                                       /\ link'[v].chat \in linked'[j]
    BY DEF ChatHasCode
  <2>1. CASE v = u /\ link'[v].chat = c
    BY <1>1, <1>7, <2>1
  <2>2. CASE link'[v].chat = link[v].chat
    <3> PICK j \in Codes : code[j].owner = v /\ code[j].used /\ link[v].chat \in linked[j]
      BY <2>2 DEF ChatHasCode
    <3>1. j # k
      BY <1>1
    <3> QED
      BY <1>7, <2>2, <3>1
  <2> QED
    BY <1>5, <1>6, <2>1, <2>2
<1>10. LinkedIsUsed' /\ CodeLinksOnce'
  BY <1>7 DEF LinkedIsUsed, CodeLinksOnce
<1>11. OneUserPerChat'
  <2>1. \A v \in Members \ {u} : link[v].chat # c
    BY <1>1 DEF Claimed
  <2> QED
    BY <1>5, <1>6, <2>1 DEF OneUserPerChat
<1>12. BotKnows' /\ WebKnows'
  BY <1>2, <1>7 DEF BotKnows, WebKnows, NoWork, LinkTypeOK, Work
<1>13. MadeForSomeone'
  BY <1>1, <1>2, <1>3, <1>7 DEF MadeForSomeone
<1> QED
  BY <1>8, <1>9, <1>10, <1>11, <1>12, <1>13

LEMMA BotUnlinkKeepsInv ==
    ASSUME LinkInv, BotUnlink
    PROVE  LinkInv'
<1> USE DEF LinkInv
<1>1. bot.user \in Members
  BY DEF BotUnlink, BotKnows
<1>2. /\ link' \in [Members -> Link]
      /\ ChatHasCode' /\ LinkedIsUsed' /\ BotKnows' /\ OneUserPerChat' /\ CodeLinksOnce'
  BY <1>1, UnlinkStep DEF BotUnlink
<1>3. LinkTypeOK' /\ WebKnows' /\ MadeForSomeone'
  BY <1>2 DEF BotUnlink, LinkTypeOK, WebKnows, MadeForSomeone, NoWork, Work, Unlinked, Link
<1> QED
  BY <1>2, <1>3

\* A crash forgets what was read.
LEMMA CrashKeepsInv ==
    ASSUME LinkInv, LinkCrash
    PROVE  LinkInv'
<1> USE DEF LinkInv
<1>1. NoWork \in Work /\ NoWork.pc = "idle" /\ NoWork.found = {}
  BY DEF NoWork, Work, Unlinked, Link
<1>2. LinkTypeOK'
  BY <1>1 DEF LinkCrash, linkRows, LinkTypeOK
<1>3. ChatHasCode' /\ LinkedIsUsed' /\ OneUserPerChat' /\ CodeLinksOnce'
  BY DEF LinkCrash, linkRows, ChatHasCode, LinkedIsUsed, OneUserPerChat, CodeLinksOnce
<1>4. BotKnows' /\ WebKnows' /\ MadeForSomeone'
  BY <1>1 DEF LinkCrash, linkRows, BotKnows, WebKnows, MadeForSomeone
<1> QED
  BY <1>2, <1>3, <1>4

\* Every step keeps the invariant.
LEMMA LinkNext_Inv == LinkInv /\ [LinkNext]_linkVars => LinkInv'
<1> SUFFICES ASSUME LinkInv, [LinkNext]_linkVars PROVE LinkInv'
  OBVIOUS
<1>1. CASE LinkNext
  BY <1>1, WebKeepsInv, CodeKeepsInv, BotReadKeepsInv, LinkCommitKeepsInv,
     BotUnlinkKeepsInv, CrashKeepsInv DEF LinkNext
<1>2. CASE UNCHANGED linkVars
  BY <1>2 DEF linkVars, LinkInv, LinkTypeOK, ChatHasCode, LinkedIsUsed, BotKnows, Claimed,
              WebKnows, MadeForSomeone, OneUserPerChat, CodeLinksOnce
<1> QED
  BY <1>1, <1>2

-----------------------------------------------------------------------------
LEMMA LinkInvariant == LinkSpec => []LinkInv
BY LinkInit_Inv, LinkNext_Inv, PTL DEF LinkSpec

\* The rows and what is at work keep their types.
THEOREM LinkTypeCorrect == LinkSpec => []LinkTypeOK
<1>1. LinkInv => LinkTypeOK
  BY DEF LinkInv
<1> QED
  BY LinkInvariant, <1>1, PTL

\* A chat speaks for a user only through a used code of that user that was
\* sent from it (link_command), for every overlap of links and unlinks.
THEOREM ChatsSpeakByCode == LinkSpec => []SpeaksByItsCode
<1>1. LinkInv => SpeaksByItsCode
  BY LinkAssumption DEF LinkInv, ChatHasCode, SpeaksByItsCode, SpeaksFor
<1> QED
  BY LinkInvariant, <1>1, PTL

\* No chat is in the rows of two users, so the check of link_command never
\* leaves it to the unique constraint.
THEOREM ChatsAreNotShared == LinkSpec => []OneUserPerChat
<1>1. LinkInv => OneUserPerChat
  BY DEF LinkInv
<1> QED
  BY LinkInvariant, <1>1, PTL

\* A code links one chat, though it is read in one session and used up in
\* another (is_used).
THEOREM CodesLinkOnce == LinkSpec => []CodeLinksOnce
<1>1. LinkInv => CodeLinksOnce
  BY DEF LinkInv
<1> QED
  BY LinkInvariant, <1>1, PTL
=============================================================================
