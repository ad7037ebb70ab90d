------------------------------- MODULE BotState -------------------------------
(***************************************************************************)
(* One user's chat with the Telegram bot: the state of its three           *)
(* conversations (/topup, /schedule and a bill sent to the bot), the       *)
(* user_data dictionary that all three keep their data in, and the update  *)
(* handlers at work.                                                       *)
(*                                                                         *)
(* A handler of a button first answers the callback query, an await; then  *)
(* it does its work and sends a message, another await; what it returns    *)
(* becomes the conversation's state only after that.  A handler of a text  *)
(* or a command does its work at once.  By polling one update is handled at*)
(* a time (MaxInFlight = 1), in webhook mode each request handles its own. *)
(***************************************************************************)
EXTENDS Naturals

CONSTANTS
    MaxInFlight,   \* how many updates are handled at the same time
    MaxBooked      \* bound on the bills that /schedule stores

ASSUME BotAssumption ==
    MaxInFlight \in Nat \ {0} /\ MaxBooked \in Nat

VARIABLES
    conv,        \* the state of each conversation, "END" when there is none
    inFlight,    \* the handlers at work
    user_data,   \* context.user_data: only the keys that are present
    rows,        \* how many bills each conversation has committed
    review,      \* the draft as /schedule's last message shows it
    offered      \* the inputs that /schedule's last message asks for

botVars == <<conv, inFlight, user_data, rows, review, offered>>
chat == <<conv, review, offered>>

Conversations == {"topup", "schedule", "bill"}
Keys == {"sch", "bill", "editing_field", "bill_id"}
Slots == 1..MaxInFlight

\* An account may be linked to the chat, or unlinked, at any time: what
\* get_linked_user finds is a free choice.
get_linked_user == BOOLEAN

Nothing == [k \in {} |-> {}]
Put(dict, key, value) ==
    [k \in DOMAIN dict \cup {key} |-> IF k = key THEN value ELSE dict[k]]
Without(dict, keys) == [k \in DOMAIN dict \ keys |-> dict[k]]

-----------------------------------------------------------------------------
(* Handlers                                                                *)

Handler(c, step, next, drop, asks, text) ==
    [conv |-> c, step |-> step, next |-> next, drop |-> drop, asks |-> asks, text |-> text]

\* Nothing at work; a button's handler that waits for its query's answer.
Idle == Handler("none", "idle", "END", {}, {}, Nothing)
Answering(c, button) == Handler(c, button, "END", {}, {}, Nothing)

Free(i) == inFlight[i] = Idle
Answered(i, button) == inFlight[i].step = button
Become(i, h) == inFlight' = [inFlight EXCEPT ![i] = h]

\* The last message of a handler, which then pops the keys drop and returns
\* next.  A message of /schedule asks for the inputs asks.
Reply(i, c, next) == Become(i, Handler(c, "reply", next, {}, {}, Nothing))
EndWith(i, c, drop) == Become(i, Handler(c, "reply", "END", drop, {}, Nothing))
Ask(i, next, asks) == Become(i, Handler("schedule", "reply", next, {}, asks, Nothing))
Review(i, draft, asks) == Become(i, Handler("schedule", "reply", "SCH_CONFIRM", {}, asks, draft))

\* A KeyError leaves the handler; the conversation stays where it was.
RaiseKeyError(i) == Become(i, Idle)

\* The message is sent, and the conversation takes the returned state.
Return(i) ==
    LET h == inFlight[i]
    IN /\ h.step = "reply"
       /\ conv' = [conv EXCEPT ![h.conv] = h.next]
       /\ user_data' = Without(user_data, h.drop)
       /\ review' = IF h.conv = "schedule" THEN h.text ELSE review
       /\ offered' = IF h.conv = "schedule" THEN h.asks ELSE offered
       /\ Become(i, Idle)
       /\ UNCHANGED rows

\* Telegram refuses or loses a message: the handler ends there, _on_error
\* logs, and the conversation stays in the state it was in.
SendFails(i) ==
    /\ inFlight[i] # Idle
    /\ Become(i, Idle)
    /\ UNCHANGED <<user_data, rows, chat>>

=============================================================================
