----------------------------- MODULE TelegramLink -----------------------------
(***************************************************************************)
(* Which Telegram chat speaks for which user.  The web hands out codes and *)
(* unlinks, in threads; the bot links and unlinks, without an await between*)
(* its first read and its commit, so one of its commands is at work at a   *)
(* time.  Nothing is locked by a read, and a commit writes the columns     *)
(* that differ from what its session loaded.                               *)
(***************************************************************************)
EXTENDS Integers

CONSTANTS
    Members, Chats,  \* users with an account; Telegram chats
    Codes,           \* link codes, random and unique
    Clerks,          \* threads that serve the web
    NoMember, NoChat, NoCode

ASSUME LinkAssumption ==
    NoMember \notin Members /\ NoChat \notin Chats /\ NoCode \notin Codes

VARIABLES
    link,      \* users: telegram_chat_id and is_telegram_linked
    code,      \* telegram_link_codes
    linked,    \* the chats each code has linked
    bot,       \* the bot's command at work
    clerk      \* the web's requests at work

linkRows == <<link, code>>
linkVars == <<link, code, linked, bot, clerk>>

Link == [chat : Chats \cup {NoChat}, on : BOOLEAN]
Unlinked == [chat |-> NoChat, on |-> FALSE]

CodeRow == [owner : Members \cup {NoMember}, used : BOOLEAN, expired : BOOLEAN]
Unmade == [owner |-> NoMember, used |-> FALSE, expired |-> FALSE]

\* A command or request: the user's columns as loaded, or the codes read.
Work == [pc : {"idle", "code_read", "user_read", "unlinking", "spoiling"},
         user : Members \cup {NoMember}, chat : Chats \cup {NoChat},
         code : Codes \cup {NoCode}, loaded : Link, found : SUBSET Codes]
NoWork == [pc |-> "idle", user |-> NoMember, chat |-> NoChat, code |-> NoCode,
           loaded |-> Unlinked, found |-> {}]

\* get_linked_user: whom a chat speaks for.
SpeaksFor(c) == {u \in Members : link[u].chat = c /\ link[u].on}

\* A flush: columns that were not changed keep what is in the row now.
Updated(now, loaded, new) ==
    [chat |-> IF new.chat = loaded.chat THEN now.chat ELSE new.chat,
     on |-> IF new.on = loaded.on THEN now.on ELSE new.on]

-----------------------------------------------------------------------------
(* The web                                                                 *)

\* create_telegram_link_code: earlier codes stay good.
MakeCode(u, k) ==
    /\ code[k] = Unmade
    /\ code' = [code EXCEPT ![k].owner = u]
    /\ UNCHANGED <<link, linked, bot, clerk>>

\* invalidate_telegram_link_codes reads the unused codes of the user ...
SpoilRead(w, u) ==
    /\ clerk[w] = NoWork
    /\ clerk' = [clerk EXCEPT ![w] =
          [NoWork EXCEPT !.pc = "spoiling", !.user = u,
                         !.found = {k \in Codes : code[k].owner = u /\ ~code[k].used}]]
    /\ UNCHANGED <<linkRows, linked, bot>>

\* ... and marks them used.
SpoilWrite(w) ==
    /\ clerk[w].pc = "spoiling"
    /\ code' = [k \in Codes |-> IF k \in clerk[w].found THEN [code[k] EXCEPT !.used = TRUE]
                                                        ELSE code[k]]
    /\ clerk' = [clerk EXCEPT ![w] = NoWork]
    /\ UNCHANGED <<link, linked, bot>>

\* unlink_telegram writes to the user that get_current_user has loaded.
WebUnlinkRead(w, u) ==
    /\ clerk[w] = NoWork
    /\ clerk' = [clerk EXCEPT ![w] =
          [NoWork EXCEPT !.pc = "unlinking", !.user = u, !.loaded = link[u]]]
    /\ UNCHANGED <<linkRows, linked, bot>>

WebUnlink(w) ==
    /\ clerk[w].pc = "unlinking"
    /\ link' = [link EXCEPT ![clerk[w].user] = Updated(@, clerk[w].loaded, Unlinked)]
    /\ clerk' = [clerk EXCEPT ![w] = NoWork]
    /\ UNCHANGED <<code, linked, bot>>

\* A code is older than 15 minutes.
Expire(k) ==
    /\ code[k] # Unmade /\ ~code[k].expired
    /\ code' = [code EXCEPT ![k].expired = TRUE]
    /\ UNCHANGED <<link, linked, bot, clerk>>

-----------------------------------------------------------------------------
(* The bot                                                                 *)

\* Mutant: a code stays good until it expires.
UsableTwice(k) == code[k] # Unmade /\ ~code[k].expired

Usable(k) == code[k] # Unmade /\ ~code[k].used /\ ~code[k].expired

\* link_command: the chat must not speak for anyone, the code must be good ...
LinkRead(c, k) ==
    /\ bot = NoWork /\ SpeaksFor(c) = {} /\ Usable(k)
    /\ bot' = [NoWork EXCEPT !.pc = "code_read", !.user = code[k].owner,
                             !.chat = c, !.code = k]
    /\ UNCHANGED <<linkRows, linked, clerk>>

\* Mutant: a chat on record for another user is taken over.
NeverClaimed(u, c) == FALSE

Claimed(u, c) == \E v \in Members \ {u} : link[v].chat = c

\* ... the chat must be on record for no other user, who may have unlinked
\* it in part, ...
LinkRefused ==
    /\ bot.pc = "code_read" /\ Claimed(bot.user, bot.chat)
    /\ bot' = NoWork
    /\ UNCHANGED <<linkRows, linked, clerk>>

LinkLoad ==
    /\ bot.pc = "code_read" /\ ~Claimed(bot.user, bot.chat)
    /\ bot' = [bot EXCEPT !.pc = "user_read", !.loaded = link[bot.user]]
    /\ UNCHANGED <<linkRows, linked, clerk>>

\* Mutant: the code is left as it was.
LeftGood(k) == code

\* The code is used up with the link, in one commit.
UsedUp(k) == [code EXCEPT ![k].used = TRUE]

\* Mutant: the code is stored for the chat.
LinkedToCode(u, c) == Updated(link[u], bot.loaded, [chat |-> bot.code, on |-> TRUE])

LinkedTo(u, c) == Updated(link[u], bot.loaded, [chat |-> c, on |-> TRUE])

LinkCommit ==
    /\ bot.pc = "user_read"
    /\ link' = [link EXCEPT ![bot.user] = LinkedTo(bot.user, bot.chat)]
    /\ code' = UsedUp(bot.code)
    /\ linked' = [linked EXCEPT ![bot.code] = @ \cup {bot.chat}]
    /\ bot' = NoWork
    /\ UNCHANGED clerk

\* unlink_command: the user the chat speaks for is read, and unlinked.
BotUnlinkRead(c) ==
    /\ bot = NoWork
    /\ \E u \in SpeaksFor(c) :
         bot' = [NoWork EXCEPT !.pc = "unlinking", !.user = u, !.loaded = link[u]]
    /\ UNCHANGED <<linkRows, linked, clerk>>

BotUnlink ==
    /\ bot.pc = "unlinking"
    /\ link' = [link EXCEPT ![bot.user] = Updated(@, bot.loaded, Unlinked)]
    /\ bot' = NoWork
    /\ UNCHANGED <<code, linked, clerk>>

-----------------------------------------------------------------------------
\* The process dies; the rows are what was committed.
LinkCrash ==
    /\ bot' = NoWork /\ clerk' = [w \in Clerks |-> NoWork]
    /\ UNCHANGED <<linkRows, linked>>

LinkInit ==
    /\ link = [u \in Members |-> Unlinked]
    /\ code = [k \in Codes |-> Unmade]
    /\ linked = [k \in Codes |-> {}]
    /\ bot = NoWork /\ clerk = [w \in Clerks |-> NoWork]

LinkNext ==
    \/ \E k \in Codes : \/ \E u \in Members : MakeCode(u, k)
                        \/ Expire(k)
                        \/ \E c \in Chats : LinkRead(c, k)
    \/ \E w \in Clerks : \/ \E u \in Members : SpoilRead(w, u) \/ WebUnlinkRead(w, u)
                         \/ SpoilWrite(w) \/ WebUnlink(w)
    \/ LinkRefused \/ LinkLoad \/ LinkCommit
    \/ \E c \in Chats : BotUnlinkRead(c)
    \/ BotUnlink \/ LinkCrash

LinkSpec == LinkInit /\ [][LinkNext]_linkVars

-----------------------------------------------------------------------------
(* Properties                                                              *)

LinkTypeOK ==
    /\ link \in [Members -> Link]
    /\ code \in [Codes -> CodeRow]
    /\ linked \in [Codes -> SUBSET Chats]
    /\ bot \in Work /\ clerk \in [Clerks -> Work]

\* A chat speaks for a user only through a code of that user that was sent
\* from that chat, whichever unlinks and relinks overlap (link_command).
SpeaksByItsCode ==
    \A c \in Chats : \A u \in SpeaksFor(c) :
        \E k \in Codes : code[k].owner = u /\ code[k].used /\ c \in linked[k]

\* No two users hold one chat, so a command from it is never taken for
\* another's; the database's unique constraint is never what refuses
\* (link_command's check, made before the thread pool may change the rows).
OneUserPerChat ==
    \A u, v \in Members : link[u].chat = link[v].chat /\ link[u].chat # NoChat => u = v

\* A code that leaks after it was used links no second chat (is_used).
CodeLinksOnce ==
    \A k \in Codes : \A c, d \in linked[k] : c = d
=============================================================================
