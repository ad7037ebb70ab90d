------------------------------ MODULE BotProofs ------------------------------
(***************************************************************************)
(* Proofs about Bot.  Types, and that prompts are answered, hold for any   *)
(* number of updates handled at the same time; that a bill of /schedule is *)
(* stored whole and as it was shown, for updates handled one at a time,    *)
(* with any number of bills.                                               *)
(***************************************************************************)
EXTENDS Bot, TLAPS

Accepted(s) == ScheduleButtons[s] \cup (IF s \in TextStates THEN {"text"} ELSE {})

\* What a handler that sends its last message returns.
ReplyOK(h) ==
    h.step = "reply" =>
        /\ h.conv \in Conversations
        /\ h.conv = "topup" => h.next \in TopupStates
        /\ h.conv = "bill" => h.next \in BillStates
        /\ h.conv = "schedule" => /\ h.next \in ScheduleStates
                                  /\ h.asks \subseteq Accepted(h.next)
                                  /\ Drafts(h.text)

ConvOK ==
    /\ conv \in [Conversations -> TopupStates \cup ScheduleStates \cup BillStates]
    /\ conv["topup"] \in TopupStates
    /\ conv["schedule"] \in ScheduleStates
    /\ conv["bill"] \in BillStates

DictOK == DOMAIN user_data \subseteq Keys /\ Drafts(Draft)

HandlersOK == /\ inFlight = [i \in Slots |-> inFlight[i]]
              /\ \A i \in Slots : ReplyOK(inFlight[i])

RowsOK == rows \in [{"schedule", "bill"} -> 0..MaxBooked]
ShownOK == Drafts(review) /\ offered \subseteq Accepted(conv["schedule"])

BotInv == ConvOK /\ DictOK /\ HandlersOK /\ RowsOK /\ ShownOK

-----------------------------------------------------------------------------
(* Dictionaries                                                            *)

\* A field that is given is one of a bill.
FieldOK(field, value) ==
    /\ field \in Fields
    /\ field = "due_date" => value \in DueDates
    /\ field = "recurrence_interval" => value \in Intervals

LEMMA NothingIsDraft == DOMAIN Nothing = {} /\ Drafts(Nothing)
BY DEF Nothing, Drafts

LEMMA PutIsDraft ==
    ASSUME NEW draft, Drafts(draft), NEW field, NEW value, FieldOK(field, value)
    PROVE  Drafts(Put(draft, field, value))
<1> DEFINE new == Put(draft, field, value)
<1>1. /\ DOMAIN new = DOMAIN draft \cup {field} /\ new[field] = value
      /\ \A k \in DOMAIN draft \ {field} : new[k] = draft[k]
  BY DEF Put
<1> HIDE DEF new
<1>2. Drafts(new)
  BY <1>1 DEF Drafts, FieldOK
<1> QED
  BY <1>2 DEF new

\* What the steps of the bot do with the draft.
LEMMA DraftKept ==
    ASSUME UNCHANGED user_data PROVE Draft' = Draft /\ (DictOK => DictOK')
BY DEF Draft, DictOK, Drafts

LEMMA DraftWritten ==
    ASSUME NEW new, user_data' = Put(user_data, "sch", new)
    PROVE  Draft' = new /\ (DictOK /\ Drafts(new) => DictOK')
<1>1. DOMAIN user_data' = DOMAIN user_data \cup {"sch"} /\ user_data'["sch"] = new
  BY DEF Put
<1>2. Draft' = new
  BY <1>1 DEF Draft
<1>3. DictOK /\ Drafts(new) => DictOK'
  BY <1>1, <1>2 DEF DictOK, Keys, Drafts
<1> QED
  BY <1>2, <1>3

LEMMA KeyWritten ==
    ASSUME NEW key \in Keys \ {"sch"}, NEW value, user_data' = Put(user_data, key, value)
    PROVE  Draft' = Draft /\ (DictOK => DictOK')
<1>1. /\ DOMAIN user_data' = DOMAIN user_data \cup {key}
      /\ \A k \in DOMAIN user_data \ {key} : user_data'[k] = user_data[k]
  BY DEF Put
<1>2. Draft' = Draft
  BY <1>1 DEF Draft
<1>3. DictOK => DictOK'
  BY <1>1, <1>2 DEF DictOK, Drafts
<1> QED
  BY <1>2, <1>3

LEMMA KeysDropped ==
    ASSUME NEW keys, user_data' = Without(user_data, keys)
    PROVE  /\ Draft' \in {Draft, Nothing} /\ (DictOK => DictOK')
           /\ "sch" \in keys => Draft' = Nothing
<1>1. /\ DOMAIN user_data' = DOMAIN user_data \ keys
      /\ \A k \in DOMAIN user_data \ keys : user_data'[k] = user_data[k]
  BY DEF Without
<1>2. Draft' = (IF "sch" \in keys THEN Nothing ELSE Draft)
  BY <1>1 DEF Draft
<1>3. DictOK => DictOK'
  BY <1>1, <1>2, NothingIsDraft DEF DictOK, Drafts
<1> QED
  BY <1>2, <1>3

-----------------------------------------------------------------------------
(* Handlers                                                                *)

LEMMA IdleIsOK == ReplyOK(Idle) /\ Idle.step = "idle" /\ Idle.conv = "none"
BY DEF ReplyOK, Idle, Handler

LEMMA AnsweringIsOK ==
    ASSUME NEW c, NEW button, button # "reply"
    PROVE  ReplyOK(Answering(c, button))
BY DEF ReplyOK, Answering, Handler

LEMMA TopupReplyIsOK ==
    ASSUME NEW next \in TopupStates, NEW drop, NEW asks, NEW text
    PROVE  ReplyOK(Handler("topup", "reply", next, drop, asks, text))
BY DEF ReplyOK, Handler, Conversations

LEMMA BillReplyIsOK ==
    ASSUME NEW next \in BillStates, NEW drop, NEW asks, NEW text
    PROVE  ReplyOK(Handler("bill", "reply", next, drop, asks, text))
BY DEF ReplyOK, Handler, Conversations

LEMMA ScheduleReplyIsOK ==
    ASSUME NEW next \in ScheduleStates, NEW drop, NEW asks, asks \subseteq Accepted(next),
           NEW text, Drafts(text)
    PROVE  ReplyOK(Handler("schedule", "reply", next, drop, asks, text))
<1> DEFINE h == Handler("schedule", "reply", next, drop, asks, text)
<1>1. h.conv = "schedule" /\ h.next = next /\ h.asks = asks /\ h.text = text
  BY DEF Handler
<1> HIDE DEF h
<1>2. ReplyOK(h)
  BY <1>1 DEF ReplyOK, Conversations
<1> QED
  BY <1>2 DEF h

\* A handler goes on: it holds what it should, and no conversation moves.
LEMMA HandlerStep ==
    ASSUME BotInv, NEW i \in Slots, NEW h, Become(i, h), ReplyOK(h), DictOK', RowsOK',
           UNCHANGED <<conv, review>>, offered' \in {offered, {}}
    PROVE  BotInv'
<1>1. inFlight' = [inFlight EXCEPT ![i] = h] /\ HandlersOK
  BY DEF Become, BotInv
<1>2. \A j \in Slots : inFlight'[j] \in {h, inFlight[j]}
  BY <1>1 DEF HandlersOK
<1>3. HandlersOK'
  <2>1. inFlight' = [j \in Slots |-> inFlight'[j]]
    BY <1>1 DEF HandlersOK
  <2>2. ASSUME NEW j \in Slots PROVE ReplyOK(inFlight[j])'
    <3>1. CASE inFlight'[j] = h
      BY <3>1 DEF ReplyOK
    <3>2. CASE inFlight'[j] = inFlight[j]
      BY <1>1, <3>2 DEF ReplyOK, HandlersOK
    <3> QED
      BY <1>2, <3>1, <3>2
  <2> QED
    BY <2>1, <2>2 DEF HandlersOK
<1>4. ConvOK' /\ ShownOK'
  BY DEF BotInv, ConvOK, ShownOK, Drafts
<1> QED
  BY <1>3, <1>4 DEF BotInv

LEMMA TopupSteps ==
    ASSUME BotInv, NEW i \in Slots, TopupHandler(i)
    PROVE  /\ \E next \in TopupStates : Reply(i, "topup", next)
           /\ TopupFrame
BY DEF TopupHandler, topup_command, handle_quickpick, handle_custom, handle_custom_back,
       handle_custom_amount, handle_topup_cancel, handle_done_again, handle_done_balance,
       handle_done_close, handle_verify, topup_cancel_command, TopupStates

LEMMA TopupKeeps == ASSUME BotInv, NEW i \in Slots, TopupHandler(i) PROVE BotInv'
<1>1. PICK next \in TopupStates : Reply(i, "topup", next)
  BY TopupSteps
<1>2. UNCHANGED <<user_data, rows, conv, review, offered>>
  BY TopupSteps DEF TopupFrame, chat
<1>3. DictOK' /\ RowsOK'
  BY <1>2, DraftKept DEF BotInv, RowsOK
<1> QED
  BY <1>1, <1>2, <1>3, TopupReplyIsOK, HandlerStep DEF Reply

\* A handler of the bill conversation touches the draft only to clear it.
BillMove(i) ==
    /\ \/ Become(i, Idle)
       \/ \E step \in {"extract", "resolve"} : Become(i, Answering("bill", step))
       \/ \E next \in BillStates, drop \in SUBSET Keys :
             Become(i, Handler("bill", "reply", next, drop, {}, Nothing))
    /\ \/ UNCHANGED user_data \/ user_data' = Nothing
       \/ \E key \in Keys \ {"sch"} : user_data' = Put(user_data, key, TRUE)
    /\ UNCHANGED <<rows, chat>>

LEMMA BillSteps == ASSUME NEW i \in Slots, BillHandler(i) PROVE BillMove(i)
<1> USE DEF BillFrame, Reply, EndWith, Shows, BillStates, Keys
<1>1. CASE receive_bill(i) \/ Extracted(i)
  BY <1>1 DEF receive_bill, Extracted, BillMove
<1>2. CASE handle_confirm(i)
  BY <1>2 DEF handle_confirm, InsertBill, BillMove
<1>3. CASE handle_resolve_account(i)
  BY <1>3 DEF handle_resolve_account, BillMove
<1>4. CASE handle_edit(i) \/ handle_edit_done(i) \/ handle_date_quickpick(i) \/ handle_cancel(i)
  BY <1>4 DEF handle_edit, handle_edit_done, handle_date_quickpick, handle_cancel, BillMove
<1>5. CASE handle_bill_edit_field(i)
  BY <1>5 DEF handle_bill_edit_field, BillMove
<1>6. CASE handle_edit_discard(i) \/ handle_new_value(i)
  BY <1>6 DEF handle_edit_discard, handle_new_value, RaiseKeyError, BillMove
<1>7. CASE cancel_command(i)
  BY <1>7 DEF cancel_command, BillMove
<1> QED
  BY <1>1, <1>2, <1>3, <1>4, <1>5, <1>6, <1>7 DEF BillHandler

LEMMA BillDraft ==
    ASSUME NEW i \in Slots, BillMove(i)
    PROVE  Draft' \in {Draft, Nothing} /\ (DictOK => DictOK')
<1>1. CASE UNCHANGED user_data
  BY <1>1, DraftKept
<1>2. CASE user_data' = Nothing
  <2>1. DOMAIN user_data' = {} /\ Draft' = Nothing
    BY <1>2 DEF Nothing, Draft
  <2> QED
    BY <1>2, <2>1, NothingIsDraft DEF DictOK, Drafts
<1>3. CASE \E key \in Keys \ {"sch"} : user_data' = Put(user_data, key, TRUE)
  BY <1>3, KeyWritten
<1> QED
  BY <1>1, <1>2, <1>3 DEF BillMove

LEMMA BillKeeps == ASSUME BotInv, NEW i \in Slots, BillHandler(i) PROVE BotInv'
<1>1. BillMove(i)
  BY BillSteps
<1>2. UNCHANGED <<rows, conv, review, offered>> /\ DictOK' /\ RowsOK'
  BY <1>1, BillDraft DEF BillMove, chat, BotInv, RowsOK
<1>3. PICK h : Become(i, h) /\ ReplyOK(h)
  <2>1. CASE Become(i, Idle)
    BY <2>1, IdleIsOK
  <2>2. ASSUME NEW step \in {"extract", "resolve"}, Become(i, Answering("bill", step))
        PROVE  \E h : Become(i, h) /\ ReplyOK(h)
    BY <2>2, AnsweringIsOK
  <2>3. ASSUME NEW next \in BillStates, NEW drop,
               Become(i, Handler("bill", "reply", next, drop, {}, Nothing))
        PROVE  \E h : Become(i, h) /\ ReplyOK(h)
    BY <2>3, BillReplyIsOK
  <2> QED
    BY <1>1, <2>1, <2>2, <2>3 DEF BillMove
<1> QED
  BY <1>2, <1>3, HandlerStep

-----------------------------------------------------------------------------
(* /schedule                                                               *)

\* Every prompt asks for what its state takes.
LEMMA PromptsFit ==
    /\ \A s \in {"SCH_VENDOR", "SCH_AMOUNT", "SCH_ACCOUNT", "SCH_BANK"} : {"text"} \subseteq Accepted(s)
    /\ {"sch_bank"} \subseteq Accepted("SCH_BANK")
    /\ bank_quick_pick_keyboard \subseteq Accepted("SCH_BANK")
    /\ date_quick_pick_keyboard \subseteq Accepted("SCH_DATE")
    /\ recurrence_keyboard \subseteq Accepted("SCH_RECURRENCE")
    /\ confirm_keyboard \subseteq Accepted("SCH_CONFIRM")
    /\ edit_keyboard \subseteq Accepted("SCH_CONFIRM")
BY DEF Accepted, ScheduleButtons, ScheduleStates, TextStates, bank_quick_pick_keyboard,
       date_quick_pick_keyboard, recurrence_keyboard, confirm_keyboard, edit_keyboard

\* What a handler of /schedule leaves.
ScheduleMove(i) ==
    /\ \E h : Become(i, h) /\ ReplyOK(h)
    /\ DictOK' /\ RowsOK' /\ UNCHANGED <<conv, review>> /\ offered' \in {offered, {}}

LEMMA AskMoves ==
    ASSUME BotInv, NEW i \in Slots, NEW next \in ScheduleStates, NEW asks,
           asks \subseteq Accepted(next), Ask(i, next, asks), DictOK', ScheduleFrame
    PROVE  ScheduleMove(i)
<1>1. ReplyOK(Handler("schedule", "reply", next, {}, asks, Nothing))
  BY ScheduleReplyIsOK, NothingIsDraft
<1> QED
  BY <1>1 DEF Ask, ScheduleMove, ScheduleFrame, chat, BotInv, RowsOK

LEMMA TypedMoves ==
    ASSUME BotInv, NEW i \in Slots, NEW s, NEW field, NEW value, FieldOK(field, value),
           NEW next \in ScheduleStates, NEW asks, asks \subseteq Accepted(next),
           Typed(i, s, field, value, next, asks)
    PROVE  ScheduleMove(i)
<1>1. Drafts(Put(Draft, field, value))
  BY PutIsDraft DEF BotInv, DictOK
<1>2. DictOK'
  BY <1>1, DraftWritten DEF Typed, BotInv
<1> QED
  BY <1>2, AskMoves DEF Typed

LEMMA RefusedMoves ==
    ASSUME BotInv, NEW i \in Slots, NEW s \in ScheduleStates, NEW asks,
           asks \subseteq Accepted(s), Refused(i, s, asks)
    PROVE  ScheduleMove(i)
<1>1. DictOK'
  BY DraftWritten DEF Refused, WithDraft, BotInv, DictOK
<1> QED
  BY <1>1, AskMoves DEF Refused

LEMMA PickMoves ==
    ASSUME BotInv, NEW i \in Slots, NEW button, NEW field, NEW value, FieldOK(field, value),
           NEW next \in ScheduleStates, NEW asks, asks \subseteq Accepted(next),
           NEW text, Drafts(text), Pick(i, button, field, value, next, asks, text)
    PROVE  ScheduleMove(i)
<1>1. CASE "sch" \in DOMAIN user_data
  <2>1. DictOK'
    BY <1>1, PutIsDraft, DraftWritten DEF Pick, BotInv, DictOK
  <2>2. ReplyOK(Handler("schedule", "reply", next, {}, asks, text))
    BY ScheduleReplyIsOK
  <2> QED
    BY <1>1, <2>1, <2>2 DEF Pick, ScheduleMove, ScheduleFrame, chat, BotInv, RowsOK
<1>2. CASE "sch" \notin DOMAIN user_data
  BY <1>2, IdleIsOK, DraftKept
  DEF Pick, RaiseKeyError, ScheduleMove, ScheduleFrame, chat, BotInv, RowsOK
<1> QED
  BY <1>1, <1>2

LEMMA LeadsMoves ==
    ASSUME BotInv, NEW i \in Slots, NEW button, NEW next \in ScheduleStates, NEW asks,
           asks \subseteq Accepted(next), Leads(i, button, next, asks)
    PROVE  ScheduleMove(i)
BY DraftKept, AskMoves DEF Leads, BotInv

LEMMA ReviewMoves ==
    ASSUME BotInv, NEW i \in Slots, NEW asks, asks \subseteq Accepted("SCH_CONFIRM"),
           Review(i, Draft, asks), ScheduleFrame, UNCHANGED user_data
    PROVE  ScheduleMove(i)
<1>1. ReplyOK(Handler("schedule", "reply", "SCH_CONFIRM", {}, asks, Draft))
  BY ScheduleReplyIsOK DEF BotInv, DictOK, ScheduleStates
<1> QED
  BY <1>1, DraftKept DEF Review, ScheduleMove, ScheduleFrame, chat, BotInv, RowsOK

LEMMA EndMoves ==
    ASSUME BotInv, NEW i \in Slots, NEW drop, EndWith(i, "schedule", drop), DictOK', RowsOK',
           UNCHANGED <<conv, review>>, offered' \in {offered, {}}
    PROVE  ScheduleMove(i)
<1>1. ReplyOK(Handler("schedule", "reply", "END", drop, {}, Nothing))
  BY ScheduleReplyIsOK, NothingIsDraft DEF ScheduleStates
<1> QED
  BY <1>1 DEF EndWith, ScheduleMove

LEMMA ScheduleSteps ==
    ASSUME BotInv, NEW i \in Slots, ScheduleHandler(i)
    PROVE  ScheduleMove(i)
<1> USE DEF ScheduleStates
<1>1. \A f \in Fields \ {"due_date", "recurrence_interval"} : FieldOK(f, "given")
  BY DEF FieldOK
<1>2. \A due \in DueDates : FieldOK("due_date", due)
  BY DEF FieldOK, Fields
<1>3. \A interval \in Intervals : FieldOK("recurrence_interval", interval)
  BY DEF FieldOK, Fields
<1>4. CASE schedule_command(i)
  <2>1. CASE user_data' = Put(user_data, "sch", Nothing) /\ Ask(i, "SCH_VENDOR", {"text"})
    BY <1>4, <2>1, NothingIsDraft, DraftWritten, PromptsFit, AskMoves DEF schedule_command, BotInv
  <2>2. CASE UNCHANGED user_data /\ Ask(i, "END", {})
    BY <1>4, <2>2, DraftKept, AskMoves DEF schedule_command, BotInv
  <2> QED
    BY <1>4, <2>1, <2>2 DEF schedule_command
<1>5. CASE handle_vendor(i)
  BY <1>1, <1>5, TypedMoves, RefusedMoves, PromptsFit DEF handle_vendor, Fields
<1>6. CASE handle_amount(i)
  BY <1>1, <1>6, TypedMoves, RefusedMoves, PromptsFit DEF handle_amount, Fields
<1>7. CASE handle_account(i)
  BY <1>1, <1>7, TypedMoves, RefusedMoves, PromptsFit DEF handle_account, Fields
<1>8. CASE handle_bank_typed(i)
  BY <1>1, <1>8, TypedMoves, RefusedMoves, PromptsFit DEF handle_bank_typed, Fields
<1>9. CASE handle_date_typed(i)
  BY <1>2, <1>9, TypedMoves, RefusedMoves, PromptsFit DEF handle_date_typed
<1>10. CASE handle_bank_picked(i)
  BY <1>1, <1>10, PickMoves, PromptsFit, NothingIsDraft DEF handle_bank_picked, Fields
<1>11. CASE handle_date_picked(i)
  BY <1>2, <1>11, PickMoves, PromptsFit, NothingIsDraft DEF handle_date_picked
<1>12. CASE handle_recurrence(i)
  <2>1. PICK interval \in Intervals :
          Pick(i, "sch_recur", "recurrence_interval", interval, "SCH_CONFIRM",
               confirm_keyboard, Put(Draft, "recurrence_interval", interval))
    BY <1>12 DEF handle_recurrence
  <2>2. Drafts(Put(Draft, "recurrence_interval", interval))
    BY <1>3, PutIsDraft DEF BotInv, DictOK
  <2> QED
    BY <1>3, <2>1, <2>2, PickMoves, PromptsFit
<1>13. CASE handle_bank_other(i) \/ handle_back_account(i) \/ handle_back_bank(i) \/ handle_back_date(i)
  BY <1>13, LeadsMoves, PromptsFit
  DEF handle_bank_other, handle_back_account, handle_back_bank, handle_back_date
<1>14. CASE handle_confirm_edit(i)
  BY <1>14, ReviewMoves, PromptsFit DEF handle_confirm_edit
<1>15. CASE handle_edit_field(i)
  BY <1>15, ReviewMoves, LeadsMoves, PromptsFit DEF handle_edit_field
<1>16. CASE handle_confirm_yes(i)
  <2>1. RowsOK'
    BY <1>16, BotAssumption DEF handle_confirm_yes, BotInv, RowsOK
  <2> QED
    BY <1>16, <2>1, DraftKept, EndMoves DEF handle_confirm_yes, BotInv
<1>17. CASE handle_schedule_cancel(i)
  BY <1>17, DraftKept, EndMoves DEF handle_schedule_cancel, ScheduleFrame, chat, BotInv, RowsOK
<1>18. CASE schedule_cancel_command(i)
  BY <1>18, KeysDropped, EndMoves DEF schedule_cancel_command, ScheduleFrame, chat, BotInv, RowsOK
<1> QED
  BY <1>4, <1>5, <1>6, <1>7, <1>8, <1>9, <1>10, <1>11, <1>12, <1>13, <1>14, <1>15, <1>16,
     <1>17, <1>18 DEF ScheduleHandler

LEMMA ScheduleKeeps == ASSUME BotInv, NEW i \in Slots, ScheduleHandler(i) PROVE BotInv'
BY ScheduleSteps, HandlerStep DEF ScheduleMove

-----------------------------------------------------------------------------
(* The bot                                                                 *)

TopupNames == {"topup_amount", "topup_custom", "topup_cancel", "topup_back", "topup_done_again",
               "topup_done_balance", "topup_done_close", "topup_verify"}
BillNames == {"confirm", "edit", "cancel", "edit_field", "edit_due_date", "date_quickpick",
              "edit_done", "edit_discard"}
Steps == {"idle", "reply", "extract", "resolve"}

LEMMA ButtonNames ==
    ASSUME ConvOK
    PROVE  /\ TopupButtons[conv["topup"]] \subseteq TopupNames
           /\ BillButtons[conv["bill"]] \subseteq BillNames
           /\ \A s \in ScheduleStates : Steps \cap ScheduleButtons[s] = {}
<1>1. TopupButtons[conv["topup"]] \subseteq TopupNames
  BY DEF ConvOK, TopupButtons, TopupStates, TopupNames
<1>2. BillButtons[conv["bill"]] \subseteq BillNames
  BY DEF ConvOK, BillButtons, BillStates, BillNames
<1>3. \A s \in ScheduleStates : Steps \cap ScheduleButtons[s] = {}
  BY DEF ScheduleButtons, ScheduleStates, Steps
<1> QED
  BY <1>1, <1>2, <1>3

\* What a tap does.
LEMMA TapSteps ==
    ASSUME BotInv, NEW i \in Slots, Tap(i)
    PROVE  /\ \E c \in Conversations :
                 \E button \in TopupNames \cup BillNames \cup ScheduleButtons[conv["schedule"]] :
                    Become(i, Answering(c, button)) /\ button # "reply"
           /\ Draft' = Draft /\ DictOK' /\ UNCHANGED <<rows, chat>>
<1>1. PICK c \in Conversations : \E button \in Buttons(c) :
         /\ Become(i, Answering(c, button))
         /\ user_data' = IF button \in Priming THEN WithDraft ELSE user_data
  BY DEF Tap
<1>2. Buttons(c) \subseteq TopupNames \cup BillNames \cup ScheduleButtons[conv["schedule"]]
  BY ButtonNames DEF Buttons, Conversations, BotInv
<1>3. "reply" \notin TopupNames \cup BillNames \cup ScheduleButtons[conv["schedule"]]
  BY ButtonNames DEF BotInv, ConvOK, Steps, TopupNames, BillNames
<1>4. user_data' = Put(user_data, "sch", Draft) \/ UNCHANGED user_data
  BY <1>1 DEF WithDraft
<1>5. Draft' = Draft /\ DictOK'
  BY <1>4, DraftWritten, DraftKept DEF BotInv, DictOK
<1> QED
  BY <1>1, <1>2, <1>3, <1>5 DEF Tap

LEMMA TapKeeps == ASSUME BotInv, NEW i \in Slots, Tap(i) PROVE BotInv'
<1>1. PICK c, button : Become(i, Answering(c, button)) /\ button # "reply"
  BY TapSteps
<1>2. DictOK' /\ UNCHANGED <<rows, conv, review, offered>>
  BY TapSteps DEF chat
<1> QED
  BY <1>1, <1>2, AnsweringIsOK, HandlerStep DEF BotInv, RowsOK

LEMMA SendFailsKeeps == ASSUME BotInv, NEW i \in Slots, SendFails(i) PROVE BotInv'
<1>1. Become(i, Idle) /\ UNCHANGED <<user_data, rows, conv, review, offered>>
  BY DEF SendFails, chat
<1> QED
  BY <1>1, IdleIsOK, DraftKept, HandlerStep DEF BotInv, RowsOK

LEMMA ReturnKeeps == ASSUME BotInv, NEW i \in Slots, Return(i) PROVE BotInv'
<1> DEFINE h == inFlight[i]
<1>1. /\ h.step = "reply" /\ ReplyOK(h)
      /\ conv' = [conv EXCEPT ![h.conv] = h.next]
      /\ user_data' = Without(user_data, h.drop)
      /\ review' = IF h.conv = "schedule" THEN h.text ELSE review
      /\ offered' = IF h.conv = "schedule" THEN h.asks ELSE offered
      /\ Become(i, Idle) /\ UNCHANGED rows
  BY DEF Return, BotInv, HandlersOK
<1> HIDE DEF h
<1>2. DictOK' /\ RowsOK'
  BY <1>1, KeysDropped DEF BotInv, RowsOK
<1>3. ConvOK'
  BY <1>1 DEF BotInv, ConvOK, ReplyOK, Conversations
<1>4. ShownOK'
  <2>1. CASE h.conv = "schedule"
    <3>1. conv'["schedule"] = h.next /\ review' = h.text /\ offered' = h.asks
      BY <1>1, <2>1 DEF BotInv, ConvOK, Conversations
    <3>2. h.asks \subseteq Accepted(h.next) /\ Drafts(h.text)
      BY <1>1, <2>1 DEF ReplyOK
    <3> QED
      BY <3>1, <3>2 DEF ShownOK, Drafts
  <2>2. CASE h.conv # "schedule"
    <3>1. conv'["schedule"] = conv["schedule"] /\ review' = review /\ offered' = offered
      BY <1>1, <2>2 DEF BotInv, ConvOK, Conversations
    <3> QED
      BY <3>1 DEF BotInv, ShownOK, Drafts
  <2> QED
    BY <2>1, <2>2
<1>5. HandlersOK'
  <2>1. inFlight' = [inFlight EXCEPT ![i] = Idle] /\ HandlersOK
    BY <1>1 DEF Become, BotInv
  <2>2. \A j \in Slots : inFlight'[j] \in {Idle, inFlight[j]}
    BY <2>1 DEF HandlersOK
  <2>3. inFlight' = [j \in Slots |-> inFlight'[j]]
    BY <2>1 DEF HandlersOK
  <2>4. \A j \in Slots : ReplyOK(inFlight[j])'
    BY <2>1, <2>2, IdleIsOK DEF HandlersOK, ReplyOK
  <2> QED
    BY <2>3, <2>4 DEF HandlersOK
<1> QED
  BY <1>2, <1>3, <1>4, <1>5 DEF BotInv

LEMMA BotInit_Inv == BotInit => BotInv
<1> SUFFICES ASSUME BotInit PROVE BotInv
  OBVIOUS
<1>1. ConvOK
  BY DEF BotInit, ConvOK, Conversations, TopupStates, ScheduleStates, BillStates
<1>2. Draft = Nothing /\ DOMAIN user_data = {}
  BY NothingIsDraft DEF BotInit, Draft
<1>3. HandlersOK
  BY IdleIsOK DEF BotInit, HandlersOK
<1>4. RowsOK /\ ShownOK
  BY NothingIsDraft, BotAssumption DEF BotInit, RowsOK, ShownOK
<1> QED
  BY <1>1, <1>2, <1>3, <1>4, NothingIsDraft DEF BotInv, DictOK

LEMMA BotNext_Inv == BotInv /\ [BotNext]_botVars => BotInv'
<1> SUFFICES ASSUME BotInv, [BotNext]_botVars PROVE BotInv'
  OBVIOUS
<1>1. CASE BotNext
  BY <1>1, TapKeeps, TopupKeeps, ScheduleKeeps, BillKeeps, ReturnKeeps, SendFailsKeeps DEF BotNext
<1>2. CASE UNCHANGED botVars
  <2>1. DictOK'
    BY <1>2, DraftKept DEF botVars, BotInv
  <2> QED
    BY <1>2, <2>1 DEF botVars, BotInv, ConvOK, HandlersOK, ReplyOK, RowsOK, ShownOK, Drafts
<1> QED
  BY <1>1, <1>2

LEMMA BotInvariant == BotSpec => []BotInv
BY BotInit_Inv, BotNext_Inv, PTL DEF BotSpec

\* Conversations, drafts and stored bills keep their types, however many
\* updates are handled at the same time.
THEOREM BotTypeCorrect == BotSpec => []BotTypeOK
<1>1. BotInv => BotTypeOK
  BY DEF BotInv, ConvOK, DictOK, RowsOK, ShownOK, BotTypeOK
<1> QED
  BY <1>1, BotInvariant, PTL

\* What /schedule last asked for, it answers.
THEOREM PromptsAreAnswered == BotSpec => []PromptIsAnswered
<1>1. BotInv => PromptIsAnswered
  BY DEF BotInv, ShownOK, Accepted, PromptIsAnswered
<1> QED
  BY <1>1, BotInvariant, PTL

-----------------------------------------------------------------------------
(* One update at a time                                                    *)

\* The fields that the prompts before a state ask for.
Before(s) ==
    CASE s = "SCH_AMOUNT" -> {"vendor_name"}
      [] s = "SCH_ACCOUNT" -> {"vendor_name", "amount"}
      [] s = "SCH_BANK" -> {"vendor_name", "amount", "account_number"}
      [] s = "SCH_DATE" -> {"vendor_name", "amount", "account_number", "bank_code"}
      [] s = "SCH_RECURRENCE" -> Fields \ {"recurrence_interval"}
      [] s = "SCH_CONFIRM" -> Fields
      [] OTHER -> {}

\* A draft that was not lost has what was asked for: one that was begins
\* again without a payee.
Fits(draft, s) == "vendor_name" \in DOMAIN draft => Before(s) \subseteq DOMAIN draft

\* A handler waits for its query's answer, with a button of the state the
\* conversation is in, or for its last message.
Works(h) ==
    h.step \in Steps \cup TopupNames \cup BillNames \cup ScheduleButtons[conv["schedule"]]

\* What a handler returns fits the draft, and its review shows it.
ReplyFits(h, draft) ==
    h.step = "reply" /\ h.conv = "schedule" /\ "sch" \notin h.drop =>
        /\ Fits(draft, h.next)
        /\ h.next = "SCH_CONFIRM" => draft \in {h.text, Nothing}

ShownFits(draft) ==
    /\ Fits(draft, conv["schedule"])
    /\ conv["schedule"] = "SCH_CONFIRM" => draft \in {review, Nothing}

OneInv ==
    /\ MaxInFlight = 1 /\ BotInv /\ ShownFits(Draft)
    /\ \A i \in Slots : Works(inFlight[i]) /\ ReplyFits(inFlight[i], Draft)

\* A handler goes on: the only one, it holds what it should.
OneMove(i) ==
    /\ \E h : Become(i, h) /\ Works(h) /\ ReplyFits(h, Draft')
    /\ ShownFits(Draft') /\ UNCHANGED <<conv, review>>

LEMMA OneSlot == ASSUME OneInv, NEW i \in Slots PROVE i = 1 /\ Slots = {1}
BY DEF OneInv, Slots

LEMMA OneStep ==
    ASSUME OneInv, BotInv', NEW i \in Slots, OneMove(i)
    PROVE  OneInv'
<1>1. PICK h : Become(i, h) /\ Works(h) /\ ReplyFits(h, Draft')
  BY DEF OneMove
<1>2. inFlight'[i] = h
  BY <1>1 DEF Become, OneInv, BotInv, HandlersOK
<1>3. ASSUME NEW j \in Slots PROVE (Works(inFlight[j]) /\ ReplyFits(inFlight[j], Draft))'
  <2>1. j = i
    BY OneSlot
  <2> QED
    BY <1>1, <1>2, <2>1 DEF Works, ReplyFits, OneMove
<1>4. ShownFits(Draft)'
  BY DEF OneMove, ShownFits
<1> QED
  BY <1>3, <1>4 DEF OneInv

\* A draft that is lost fits any state.
LEMMA LostFits ==
    ASSUME NEW s PROVE Fits(Nothing, s)
BY NothingIsDraft DEF Fits

\* A handler that returns nothing to /schedule, and at most loses the draft.
LEMMA ForeignMoves ==
    ASSUME OneInv, NEW i \in Slots, NEW h, Become(i, h), Works(h),
           ~ (h.step = "reply" /\ h.conv = "schedule"),
           Draft' \in {Draft, Nothing}, UNCHANGED <<conv, review>>
    PROVE  OneMove(i)
<1>1. ReplyFits(h, Draft')
  BY DEF ReplyFits
<1>2. ShownFits(Draft')
  BY LostFits DEF OneInv, ShownFits
<1> QED
  BY <1>1, <1>2 DEF OneMove

LEMMA TopupOne == ASSUME OneInv, NEW i \in Slots, TopupHandler(i) PROVE OneMove(i)
<1>1. PICK next \in TopupStates : Reply(i, "topup", next)
  BY TopupSteps DEF OneInv
<1>2. Draft' = Draft /\ UNCHANGED <<conv, review>>
  BY TopupSteps, DraftKept DEF OneInv, TopupFrame, chat
<1> DEFINE h == Handler("topup", "reply", next, {}, {}, Nothing)
<1>3. Become(i, h) /\ h.step = "reply" /\ h.conv = "topup"
  BY <1>1 DEF Reply, Handler
<1> HIDE DEF h
<1>4. Works(h)
  BY <1>3 DEF Works, Steps
<1> QED
  BY <1>2, <1>3, <1>4, ForeignMoves

LEMMA BillOne == ASSUME OneInv, NEW i \in Slots, BillHandler(i) PROVE OneMove(i)
<1>1. BillMove(i)
  BY BillSteps
<1>2. Draft' \in {Draft, Nothing} /\ UNCHANGED <<conv, review>>
  BY <1>1, BillDraft DEF BillMove, chat
<1>3. \E h : Become(i, h) /\ h.step \in Steps /\ ~ (h.step = "reply" /\ h.conv = "schedule")
  <2>1. CASE Become(i, Idle)
    BY <2>1, IdleIsOK DEF Steps
  <2>2. ASSUME NEW step \in {"extract", "resolve"}, Become(i, Answering("bill", step))
        PROVE  \E h : Become(i, h) /\ h.step \in Steps /\ ~ (h.step = "reply" /\ h.conv = "schedule")
    <3>1. Answering("bill", step).conv = "bill" /\ Answering("bill", step).step = step
      BY DEF Answering, Handler
    <3> QED
      BY <2>2, <3>1 DEF Steps
  <2>3. ASSUME NEW next \in BillStates, NEW drop,
               Become(i, Handler("bill", "reply", next, drop, {}, Nothing))
        PROVE  \E h : Become(i, h) /\ h.step \in Steps /\ ~ (h.step = "reply" /\ h.conv = "schedule")
    <3> DEFINE h == Handler("bill", "reply", next, drop, {}, Nothing)
    <3>1. h.conv = "bill" /\ h.step = "reply"
      BY DEF Handler
    <3> QED
      BY <2>3, <3>1 DEF Steps
  <2> QED
    BY <1>1, <2>1, <2>2, <2>3 DEF BillMove
<1>4. PICK h : Become(i, h) /\ h.step \in Steps /\ ~ (h.step = "reply" /\ h.conv = "schedule")
  BY <1>3
<1>5. Works(h)
  BY <1>4 DEF Works
<1> QED
  BY <1>2, <1>4, <1>5, ForeignMoves

LEMMA TapOne == ASSUME OneInv, NEW i \in Slots, Tap(i) PROVE OneMove(i)
<1>1. PICK c \in Conversations,
           button \in TopupNames \cup BillNames \cup ScheduleButtons[conv["schedule"]] :
         Become(i, Answering(c, button)) /\ button # "reply"
  BY TapSteps DEF OneInv
<1>2. Draft' = Draft /\ UNCHANGED <<conv, review>>
  BY TapSteps DEF OneInv, chat
<1> DEFINE h == Answering(c, button)
<1>3. Become(i, h) /\ h.step = button
  BY <1>1 DEF Answering, Handler
<1> HIDE DEF h
<1>4. Works(h)
  BY <1>3 DEF Works
<1> QED
  BY <1>1, <1>2, <1>3, <1>4, ForeignMoves

LEMMA SendFailsOne == ASSUME OneInv, NEW i \in Slots, SendFails(i) PROVE OneMove(i)
<1>1. Become(i, Idle) /\ Draft' = Draft /\ UNCHANGED <<conv, review>>
  BY DraftKept DEF SendFails, chat
<1>2. Works(Idle) /\ Idle.step # "reply"
  BY IdleIsOK DEF Works, Steps
<1> QED
  BY <1>1, <1>2, ForeignMoves

LEMMA ReturnOne == ASSUME OneInv, BotInv', NEW i \in Slots, Return(i) PROVE OneInv'
<1> DEFINE h == inFlight[i]
<1>1. /\ h.step = "reply" /\ ReplyOK(h) /\ ReplyFits(h, Draft)
      /\ conv' = [conv EXCEPT ![h.conv] = h.next]
      /\ user_data' = Without(user_data, h.drop)
      /\ review' = IF h.conv = "schedule" THEN h.text ELSE review
      /\ Become(i, Idle)
  BY DEF Return, OneInv, BotInv, HandlersOK
<1> HIDE DEF h
<1>2. Draft' \in {Draft, Nothing} /\ ("sch" \in h.drop => Draft' = Nothing)
  BY <1>1, KeysDropped
<1>3. ShownFits(Draft)'
  <2>1. CASE h.conv = "schedule"
    <3>1. conv'["schedule"] = h.next /\ review' = h.text
      BY <1>1, <2>1 DEF OneInv, BotInv, ConvOK, Conversations
    <3>2. CASE Draft' = Nothing
      BY <3>1, <3>2, LostFits DEF ShownFits
    <3>3. CASE Draft' = Draft /\ "sch" \notin h.drop
      BY <1>1, <2>1, <3>1, <3>3 DEF ShownFits, ReplyFits
    <3> QED
      BY <1>2, <3>2, <3>3
  <2>2. CASE h.conv # "schedule"
    <3>1. conv'["schedule"] = conv["schedule"] /\ review' = review
      BY <1>1, <2>2 DEF OneInv, BotInv, ConvOK, Conversations
    <3> QED
      BY <1>2, <3>1, LostFits DEF OneInv, ShownFits
  <2> QED
    BY <2>1, <2>2
<1>4. ASSUME NEW j \in Slots PROVE (Works(inFlight[j]) /\ ReplyFits(inFlight[j], Draft))'
  <2>1. inFlight'[j] = Idle
    BY <1>1, OneSlot DEF Become, OneInv, BotInv, HandlersOK
  <2>2. Idle.step = "idle"
    BY IdleIsOK
  <2> QED
    BY <2>1, <2>2 DEF Works, ReplyFits, Steps
<1> QED
  BY <1>3, <1>4 DEF OneInv

\* With field, all is there that the prompts before next ask for, if all was
\* there that those before s ask for.
Completes(s, field, next) ==
    /\ s # "SCH_CONFIRM" /\ Before(next) \subseteq Before(s) \cup {field}
    /\ field = "vendor_name" => Before(s) = {}

LEMMA Order ==
    /\ Completes("SCH_VENDOR", "vendor_name", "SCH_AMOUNT")
    /\ Completes("SCH_AMOUNT", "amount", "SCH_ACCOUNT")
    /\ Completes("SCH_ACCOUNT", "account_number", "SCH_BANK")
    /\ Completes("SCH_BANK", "bank_code", "SCH_DATE")
    /\ Completes("SCH_DATE", "due_date", "SCH_RECURRENCE")
    /\ Completes("SCH_RECURRENCE", "recurrence_interval", "SCH_CONFIRM")
BY DEF Completes, Before, Fields

LEMMA FieldFits ==
    ASSUME OneInv, NEW s, conv["schedule"] = s, NEW field, NEW value, NEW next,
           Completes(s, field, next)
    PROVE  Fits(Put(Draft, field, value), next) /\ ShownFits(Put(Draft, field, value))
<1> DEFINE new == Put(Draft, field, value)
<1>1. DOMAIN new = DOMAIN Draft \cup {field}
  BY DEF Put
<1>2. Fits(Draft, s)
  BY DEF OneInv, ShownFits
<1> HIDE DEF new
<1>3. Fits(new, next) /\ Fits(new, s)
  BY <1>1, <1>2 DEF Fits, Completes
<1>4. ShownFits(new)
  BY <1>3 DEF ShownFits, Completes
<1> QED
  BY <1>3, <1>4 DEF new

\* A handler of /schedule that sends its last message.
LEMMA ReplyOne ==
    ASSUME OneInv, NEW i \in Slots, NEW next, NEW drop, NEW asks, NEW text,
           Become(i, Handler("schedule", "reply", next, drop, asks, text)),
           "sch" \in drop \/ Fits(Draft', next),
           "sch" \in drop \/ next # "SCH_CONFIRM" \/ Draft' = text,
           ShownFits(Draft'), UNCHANGED <<conv, review>>
    PROVE  OneMove(i)
<1> DEFINE h == Handler("schedule", "reply", next, drop, asks, text)
<1>1. Become(i, h) /\ h.step = "reply" /\ h.next = next /\ h.drop = drop /\ h.text = text
  BY DEF Handler
<1> HIDE DEF h
<1>2. Works(h) /\ ReplyFits(h, Draft')
  BY <1>1 DEF Works, Steps, ReplyFits
<1> QED
  BY <1>1, <1>2 DEF OneMove

LEMMA TypedOne ==
    ASSUME OneInv, NEW i \in Slots, NEW s, NEW field, NEW value, NEW next, NEW asks,
           Completes(s, field, next), next # "SCH_CONFIRM",
           Typed(i, s, field, value, next, asks)
    PROVE  OneMove(i)
<1>1. conv["schedule"] = s /\ Draft' = Put(Draft, field, value) /\ UNCHANGED <<conv, review>>
  BY DraftWritten DEF Typed, TakesScheduleText, ScheduleFrame, chat
<1>2. Fits(Draft', next) /\ ShownFits(Draft')
  BY <1>1, FieldFits
<1> QED
  BY <1>1, <1>2, ReplyOne DEF Typed, Ask

LEMMA RefusedOne ==
    ASSUME OneInv, NEW i \in Slots, NEW s, s # "SCH_CONFIRM", NEW asks, Refused(i, s, asks)
    PROVE  OneMove(i)
<1>1. conv["schedule"] = s /\ Draft' = Draft /\ UNCHANGED <<conv, review>>
  BY DraftWritten DEF Refused, WithDraft, TakesScheduleText, ScheduleFrame, chat
<1>2. Fits(Draft', s) /\ ShownFits(Draft')
  BY <1>1 DEF OneInv, ShownFits
<1> QED
  BY <1>1, <1>2, ReplyOne DEF Refused, Ask

LEMMA PickOne ==
    ASSUME OneInv, NEW i \in Slots, NEW s, conv["schedule"] = s, NEW button, NEW field,
           NEW value, NEW next, NEW asks, NEW text, Completes(s, field, next),
           next = "SCH_CONFIRM" => text = Put(Draft, field, value),
           Pick(i, button, field, value, next, asks, text)
    PROVE  OneMove(i)
<1>1. UNCHANGED <<conv, review>>
  BY DEF Pick, ScheduleFrame, chat
<1>2. CASE "sch" \in DOMAIN user_data
  <2>1. Draft' = Put(Draft, field, value)
    BY <1>2, DraftWritten DEF Pick
  <2>2. Fits(Draft', next) /\ ShownFits(Draft')
    BY <2>1, FieldFits
  <2> QED
    BY <1>1, <1>2, <2>1, <2>2, ReplyOne DEF Pick
<1>3. CASE "sch" \notin DOMAIN user_data
  <2>1. Become(i, Idle) /\ Draft' = Draft
    BY <1>3, DraftKept DEF Pick, RaiseKeyError
  <2>2. Works(Idle) /\ Idle.step # "reply"
    BY IdleIsOK DEF Works, Steps
  <2> QED
    BY <1>1, <2>1, <2>2, ForeignMoves
<1> QED
  BY <1>2, <1>3

LEMMA LeadsOne ==
    ASSUME OneInv, NEW i \in Slots, NEW button, NEW next, next # "SCH_CONFIRM",
           Before(next) \subseteq Before(conv["schedule"]), NEW asks, Leads(i, button, next, asks)
    PROVE  OneMove(i)
<1>1. Draft' = Draft /\ UNCHANGED <<conv, review>>
  BY DraftKept DEF Leads, ScheduleFrame, chat
<1>2. Fits(Draft', next) /\ ShownFits(Draft')
  BY <1>1 DEF OneInv, ShownFits, Fits
<1> QED
  BY <1>1, <1>2, ReplyOne DEF Leads, Ask

LEMMA ReviewOne ==
    ASSUME OneInv, NEW i \in Slots, conv["schedule"] = "SCH_CONFIRM", NEW asks,
           Review(i, Draft, asks), UNCHANGED <<user_data, conv, review>>
    PROVE  OneMove(i)
<1>1. Draft' = Draft
  BY DraftKept
<1>2. Fits(Draft', "SCH_CONFIRM") /\ ShownFits(Draft')
  BY <1>1 DEF OneInv, ShownFits
<1> QED
  BY <1>1, <1>2, ReplyOne DEF Review

LEMMA EndOne ==
    ASSUME OneInv, NEW i \in Slots, NEW drop, EndWith(i, "schedule", drop),
           Draft' \in {Draft, Nothing}, UNCHANGED <<conv, review>>
    PROVE  OneMove(i)
<1>1. Fits(Draft', "END")
  BY DEF Fits, Before
<1>2. ShownFits(Draft')
  BY LostFits DEF OneInv, ShownFits
<1> QED
  BY <1>1, <1>2, ReplyOne DEF EndWith

\* The state that a button of /schedule belongs to.
LEMMA ButtonsOf ==
    ASSUME NEW s \in ScheduleStates
    PROVE  /\ "sch_bank" \in ScheduleButtons[s] => s = "SCH_BANK"
           /\ "sch_bank_other" \in ScheduleButtons[s] => s = "SCH_BANK"
           /\ "sch_back_account" \in ScheduleButtons[s] => s = "SCH_BANK"
           /\ "sch_date" \in ScheduleButtons[s] => s = "SCH_DATE"
           /\ "sch_back_bank" \in ScheduleButtons[s] => s = "SCH_DATE"
           /\ "sch_recur" \in ScheduleButtons[s] => s = "SCH_RECURRENCE"
           /\ "sch_back_date" \in ScheduleButtons[s] => s = "SCH_RECURRENCE"
           /\ \A button \in {"sch_confirm_yes", "sch_confirm_edit", "sch_edit_back",
                             "sch_edit_vendor", "sch_edit_amount", "sch_edit_account",
                             "sch_edit_date", "sch_edit_recur"} :
                button \in ScheduleButtons[s] => s = "SCH_CONFIRM"
BY DEF ScheduleButtons, ScheduleStates

LEMMA AnsweredIn ==
    ASSUME OneInv, NEW i \in Slots, NEW button, Answered(i, button),
           button \notin Steps \cup TopupNames \cup BillNames
    PROVE  conv["schedule"] \in ScheduleStates /\ button \in ScheduleButtons[conv["schedule"]]
BY DEF OneInv, Works, Answered, BotInv, ConvOK

LEMMA ScheduleOne == ASSUME OneInv, NEW i \in Slots, ScheduleHandler(i) PROVE OneMove(i)
<1> DEFINE s == conv["schedule"]
<1>1. ASSUME NEW button, Answered(i, button), button \notin Steps \cup TopupNames \cup BillNames
      PROVE  s \in ScheduleStates /\ button \in ScheduleButtons[s]
  BY <1>1, AnsweredIn
<1> HIDE DEF s
<1>2. CASE schedule_command(i)
  <2>1. UNCHANGED <<conv, review>> /\ conv["schedule"] = "END"
    BY <1>2 DEF schedule_command, ScheduleFrame, chat
  <2>2. CASE user_data' = Put(user_data, "sch", Nothing) /\ Ask(i, "SCH_VENDOR", {"text"})
    <3>1. Draft' = Nothing
      BY <2>2, DraftWritten
    <3>2. Fits(Draft', "SCH_VENDOR") /\ ShownFits(Draft')
      BY <3>1, LostFits DEF ShownFits
    <3> QED
      BY <2>1, <2>2, <3>2, ReplyOne DEF Ask
  <2>3. CASE UNCHANGED user_data /\ Ask(i, "END", {})
    <3>1. Draft' = Draft /\ ShownFits(Draft')
      BY <2>3, DraftKept DEF OneInv
    <3>2. Fits(Draft', "END")
      BY <2>1, <3>1 DEF ShownFits
    <3> QED
      BY <2>1, <2>3, <3>1, <3>2, ReplyOne DEF Ask
  <2> QED
    BY <1>2, <2>2, <2>3 DEF schedule_command
<1>3. CASE handle_vendor(i)
  BY <1>3, Order, TypedOne, RefusedOne DEF handle_vendor
<1>4. CASE handle_amount(i)
  BY <1>4, Order, TypedOne, RefusedOne DEF handle_amount
<1>5. CASE handle_account(i)
  BY <1>5, Order, TypedOne, RefusedOne DEF handle_account
<1>6. CASE handle_bank_typed(i)
  BY <1>6, Order, TypedOne, RefusedOne DEF handle_bank_typed
<1>7. CASE handle_date_typed(i)
  BY <1>7, Order, TypedOne, RefusedOne DEF handle_date_typed
<1>8. CASE handle_bank_picked(i)
  <2>1. conv["schedule"] = "SCH_BANK"
    BY <1>1, <1>8, ButtonsOf DEF handle_bank_picked, Pick, Steps, TopupNames, BillNames, s
  <2> QED
    BY <1>8, <2>1, Order, PickOne DEF handle_bank_picked
<1>9. CASE handle_date_picked(i)
  <2>1. conv["schedule"] = "SCH_DATE"
    BY <1>1, <1>9, ButtonsOf DEF handle_date_picked, Pick, Steps, TopupNames, BillNames, s
  <2> QED
    BY <1>9, <2>1, Order, PickOne DEF handle_date_picked
<1>10. CASE handle_recurrence(i)
  <2>1. conv["schedule"] = "SCH_RECURRENCE"
    BY <1>1, <1>10, ButtonsOf DEF handle_recurrence, Pick, Steps, TopupNames, BillNames, s
  <2> QED
    BY <1>10, <2>1, Order, PickOne DEF handle_recurrence
<1>11. CASE handle_bank_other(i) \/ handle_back_account(i)
  <2>1. conv["schedule"] = "SCH_BANK"
    BY <1>1, <1>11, ButtonsOf
    DEF handle_bank_other, handle_back_account, Leads, Steps, TopupNames, BillNames, s
  <2>2. Before("SCH_ACCOUNT") \subseteq Before("SCH_BANK")
    BY DEF Before
  <2> QED
    BY <1>11, <2>1, <2>2, LeadsOne DEF handle_bank_other, handle_back_account
<1>12. CASE handle_back_bank(i)
  <2>1. conv["schedule"] = "SCH_DATE"
    BY <1>1, <1>12, ButtonsOf DEF handle_back_bank, Leads, Steps, TopupNames, BillNames, s
  <2>2. Before("SCH_BANK") \subseteq Before("SCH_DATE")
    BY DEF Before
  <2> QED
    BY <1>12, <2>1, <2>2, LeadsOne DEF handle_back_bank
<1>13. CASE handle_back_date(i)
  <2>1. conv["schedule"] = "SCH_RECURRENCE"
    BY <1>1, <1>13, ButtonsOf DEF handle_back_date, Leads, Steps, TopupNames, BillNames, s
  <2>2. Before("SCH_DATE") \subseteq Before("SCH_RECURRENCE")
    BY DEF Before, Fields
  <2> QED
    BY <1>13, <2>1, <2>2, LeadsOne DEF handle_back_date
<1>14. CASE handle_confirm_edit(i)
  <2>1. conv["schedule"] = "SCH_CONFIRM"
    BY <1>1, <1>14, ButtonsOf DEF handle_confirm_edit, Steps, TopupNames, BillNames, s
  <2> QED
    BY <1>14, <2>1, ReviewOne DEF handle_confirm_edit, ScheduleFrame, chat
<1>15. CASE handle_edit_field(i)
  <2>1. conv["schedule"] = "SCH_CONFIRM"
    BY <1>1, <1>15, ButtonsOf DEF handle_edit_field, Leads, Steps, TopupNames, BillNames, s
  <2>2. \A t \in {"SCH_VENDOR", "SCH_AMOUNT", "SCH_ACCOUNT", "SCH_DATE", "SCH_RECURRENCE"} :
          Before(t) \subseteq Before("SCH_CONFIRM")
    BY DEF Before, Fields
  <2> QED
    BY <1>15, <2>1, <2>2, LeadsOne, ReviewOne DEF handle_edit_field, ScheduleFrame, chat
<1>16. CASE handle_confirm_yes(i)
  BY <1>16, DraftKept, EndOne DEF handle_confirm_yes
<1>17. CASE handle_schedule_cancel(i)
  BY <1>17, DraftKept, EndOne DEF handle_schedule_cancel, ScheduleFrame, chat
<1>18. CASE schedule_cancel_command(i)
  BY <1>18, KeysDropped, EndOne DEF schedule_cancel_command, ScheduleFrame, chat
<1> QED
  BY <1>2, <1>3, <1>4, <1>5, <1>6, <1>7, <1>8, <1>9, <1>10, <1>11, <1>12, <1>13, <1>14,
     <1>15, <1>16, <1>17, <1>18 DEF ScheduleHandler

LEMMA OneInit == MaxInFlight = 1 /\ BotInit => OneInv
<1> SUFFICES ASSUME MaxInFlight = 1, BotInit PROVE OneInv
  OBVIOUS
<1>1. BotInv
  BY BotInit_Inv
<1>2. Draft = Nothing /\ ShownFits(Nothing)
  BY NothingIsDraft, LostFits DEF BotInit, Draft, ShownFits
<1>3. \A i \in Slots : inFlight[i].step = "idle"
  BY IdleIsOK DEF BotInit
<1>4. \A i \in Slots : Works(inFlight[i]) /\ ReplyFits(inFlight[i], Draft)
  BY <1>3 DEF Works, Steps, ReplyFits
<1> QED
  BY <1>1, <1>2, <1>4 DEF OneInv

LEMMA OneNext == OneInv /\ [BotNext]_botVars => OneInv'
<1> SUFFICES ASSUME OneInv, [BotNext]_botVars PROVE OneInv'
  OBVIOUS
<1>1. BotInv'
  BY BotNext_Inv DEF OneInv
<1>2. CASE BotNext
  BY <1>1, <1>2, TapOne, TopupOne, ScheduleOne, BillOne, SendFailsOne, ReturnOne, OneStep
  DEF BotNext
<1>3. CASE UNCHANGED botVars
  BY <1>1, <1>3, DraftKept DEF botVars, OneInv, ShownFits, Works, ReplyFits
<1> QED
  BY <1>2, <1>3

LEMMA OneInvariant == MaxInFlight = 1 /\ BotSpec => []OneInv
BY OneInit, OneNext, PTL DEF BotSpec

\* A bill is stored only by a confirmation.
LEMMA OnlyConfirmingStores ==
    ASSUME NEW i \in Slots, rows' # rows,
           Tap(i) \/ TopupHandler(i) \/ ScheduleHandler(i) \/ BillHandler(i)
             \/ Return(i) \/ SendFails(i)
    PROVE  handle_confirm_yes(i)
<1>1. ~ Tap(i) /\ ~ Return(i) /\ ~ SendFails(i)
  BY DEF Tap, Return, SendFails
<1>2. ~ BillHandler(i)
  BY BillSteps DEF BillMove
<1>3. ~ TopupHandler(i)
  BY DEF TopupHandler, topup_command, handle_quickpick, handle_custom, handle_custom_back,
         handle_custom_amount, handle_topup_cancel, handle_done_again, handle_done_balance,
         handle_done_close, handle_verify, topup_cancel_command, TopupFrame
<1>4. CASE ScheduleHandler(i)
  BY <1>4 DEF ScheduleHandler, ScheduleFrame, schedule_command, handle_vendor, handle_amount,
              handle_account, handle_bank_typed, handle_date_typed, handle_bank_picked,
              handle_date_picked, handle_recurrence, handle_bank_other, handle_back_account,
              handle_back_bank, handle_back_date, handle_confirm_edit, handle_edit_field,
              handle_schedule_cancel, schedule_cancel_command, Typed, Refused, Pick, Leads
<1> QED
  BY <1>1, <1>2, <1>3, <1>4

LEMMA StoredAsShown ==
    ASSUME OneInv, [BotNext]_botVars, rows' # rows
    PROVE  Draft = review /\ DOMAIN Draft = Fields
<1>1. PICK i \in Slots : handle_confirm_yes(i)
  BY OnlyConfirmingStores DEF BotNext, botVars
<1>2. "vendor_name" \in DOMAIN Draft
  BY <1>1 DEF handle_confirm_yes, Acceptable
<1>3. conv["schedule"] = "SCH_CONFIRM"
  BY <1>1, AnsweredIn, ButtonsOf DEF handle_confirm_yes, Steps, TopupNames, BillNames
<1>4. Fields \subseteq DOMAIN Draft /\ Draft \in {review, Nothing}
  BY <1>2, <1>3 DEF OneInv, ShownFits, Fits, Before
<1>5. DOMAIN Draft \subseteq Fields
  BY DEF OneInv, BotInv, DictOK, Drafts
<1>6. Draft # Nothing
  BY <1>2, NothingIsDraft
<1> QED
  BY <1>4, <1>5, <1>6

\* With updates handled one at a time, as by polling, what is stored is the
\* draft that the confirmed review showed.
THEOREM StoredIsReviewed == MaxInFlight = 1 /\ BotSpec => BookedAsReviewed
<1>1. OneInv /\ [BotNext]_botVars => [rows' # rows => Draft = review]_botVars
  BY StoredAsShown
<1> QED
  BY <1>1, OneInvariant, PTL DEF BotSpec, BookedAsReviewed

\* With updates handled one at a time, a bill of /schedule is stored with
\* all six fields, whatever the other conversations cleared meanwhile.
THEOREM StoredIsWhole == MaxInFlight = 1 /\ BotSpec => BookedWhole
<1>1. OneInv /\ [BotNext]_botVars => [rows' # rows => DOMAIN Draft = Fields]_botVars
  BY StoredAsShown
<1> QED
  BY <1>1, OneInvariant, PTL DEF BotSpec, BookedWhole

=============================================================================
