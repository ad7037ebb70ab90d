--------------------------------- MODULE Bot ---------------------------------
(***************************************************************************)
(* The three conversations of the bot in one chat.                         *)
(***************************************************************************)
EXTENDS TopupConversation, ScheduleConversation, BillConversation

Buttons(c) ==
    CASE c = "topup" -> TopupButtons[conv[c]]
      [] c = "schedule" -> ScheduleButtons[conv[c]]
      [] c = "bill" -> BillButtons[conv[c]]

\* A button is tapped that its conversation's state has a handler for; the
\* handlers in Priming fill in an empty draft before they await the answer.
Tap(i) ==
    /\ Free(i)
    /\ \E c \in Conversations : \E button \in Buttons(c) :
          /\ Become(i, Answering(c, button))
          /\ user_data' = IF button \in Priming THEN WithDraft ELSE user_data
    /\ UNCHANGED <<rows, chat>>

BotInit ==
    /\ conv = [c \in Conversations |-> "END"]
    /\ inFlight = [i \in Slots |-> Idle]
    /\ user_data = Nothing
    /\ rows = [c \in {"schedule", "bill"} |-> 0]
    /\ review = Nothing
    /\ offered = {}

BotNext ==
    \/ \E i \in Slots : Tap(i) \/ TopupHandler(i) \/ ScheduleHandler(i) \/ BillHandler(i)
    \/ \E i \in Slots : Return(i) \/ SendFails(i)

BotSpec == BotInit /\ [][BotNext]_botVars

-----------------------------------------------------------------------------
(* Properties                                                              *)

Drafts(d) ==
    /\ DOMAIN d \subseteq Fields
    /\ "due_date" \in DOMAIN d => d["due_date"] \in DueDates
    /\ "recurrence_interval" \in DOMAIN d => d["recurrence_interval"] \in Intervals

\* The conversations are in states they have, user_data holds the keys the
\* handlers know, drafts the fields of a bill.
BotTypeOK ==
    /\ conv["topup"] \in TopupStates
    /\ conv["schedule"] \in ScheduleStates
    /\ conv["bill"] \in BillStates
    /\ DOMAIN user_data \subseteq Keys
    /\ Drafts(Draft) /\ Drafts(review)
    /\ rows \in [{"schedule", "bill"} -> 0..MaxBooked]

\* create_scheduled_bill stores what the user saw in the review he confirmed,
\* though the draft lives in a dictionary that the conversation about a bill
\* clears, and whichever prompts, edits and Back buttons came before.
BookedAsReviewed == [][rows' # rows => Draft = review]_botVars

\* A bill of /schedule has every field the six prompts ask for: a draft that
\* was lost on the way is refused, it does not make a bill without a payee.
BookedWhole == [][rows' # rows => DOMAIN Draft = Fields]_botVars

\* When /schedule has asked for something, a button or a text, the state it
\* has returned has a handler for it.
PromptIsAnswered ==
    LET accepted == ScheduleButtons[conv["schedule"]] \cup
                    (IF conv["schedule"] \in TextStates THEN {"text"} ELSE {})
    IN (\A i \in Slots : inFlight[i].conv # "schedule") => offered \subseteq accepted

\* "Persist the bill first so the agent has a bill_id to refer to": the id
\* that handle_confirm puts into user_data is a stored bill's.
ConfirmedIsStored ==
    "bill_id" \in DOMAIN user_data => rows["bill"] > 0

=============================================================================
