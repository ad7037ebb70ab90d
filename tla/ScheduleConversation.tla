------------------------- MODULE ScheduleConversation -------------------------
(***************************************************************************)
(* The /schedule conversation: six prompts fill the draft user_data["sch"],*)
(* a review shows it, and confirming stores it as a scheduled bill.  A     *)
(* draft is a function on the fields entered so far; the value of a text   *)
(* is left out, a due date is a time.                                      *)
(***************************************************************************)
EXTENDS BotState

ScheduleStates == {"END", "SCH_VENDOR", "SCH_AMOUNT", "SCH_ACCOUNT", "SCH_BANK",
                   "SCH_DATE", "SCH_RECURRENCE", "SCH_CONFIRM"}

ScheduleButtons ==
    [s \in ScheduleStates |->
        CASE s \in {"SCH_VENDOR", "SCH_AMOUNT", "SCH_ACCOUNT"} -> {"sch_cancel"}
          [] s = "SCH_BANK" -> {"sch_bank", "sch_bank_other", "sch_back_account", "sch_cancel"}
          [] s = "SCH_DATE" -> {"sch_date", "sch_back_bank", "sch_cancel"}
          [] s = "SCH_RECURRENCE" -> {"sch_recur", "sch_back_date", "sch_cancel"}
          [] s = "SCH_CONFIRM" -> {"sch_confirm_yes", "sch_confirm_edit", "sch_edit_back",
                                   "sch_edit_vendor", "sch_edit_amount", "sch_edit_account",
                                   "sch_edit_date", "sch_edit_recur", "sch_cancel"}
          [] OTHER -> {}]

TextStates == {"SCH_VENDOR", "SCH_AMOUNT", "SCH_ACCOUNT", "SCH_BANK", "SCH_DATE"}

\* Where a text goes: to the first conversation, in the order in which they
\* are registered, whose state takes one.
TakesScheduleText(i, s) ==
    Free(i) /\ conv["topup"] # "TOPUP_CUSTOM" /\ conv["schedule"] = s

\* The keyboards, and "text" where the message asks for one.
bank_quick_pick_keyboard == {"sch_bank", "sch_bank_other", "sch_back_account", "sch_cancel"}
date_quick_pick_keyboard == {"sch_date", "sch_back_bank", "sch_cancel"}
recurrence_keyboard == {"sch_recur", "sch_back_date", "sch_cancel"}
confirm_keyboard == {"sch_confirm_yes", "sch_confirm_edit", "sch_cancel"}
edit_keyboard == {"sch_edit_back", "sch_edit_vendor", "sch_edit_amount", "sch_edit_account",
                  "sch_edit_date", "sch_edit_recur", "sch_cancel"}

Fields == {"vendor_name", "amount", "account_number", "bank_code", "due_date",
           "recurrence_interval"}

\* A date picked as today's is past once more than a minute has gone by.
DueDates == {"today", "later"}
Intervals == {"none", "weekly"}

\* user_data.get("sch", {}) and user_data.setdefault("sch", {})
Draft == IF "sch" \in DOMAIN user_data THEN user_data["sch"] ELSE Nothing
WithDraft == Put(user_data, "sch", Draft)

ScheduleFrame == UNCHANGED <<rows, chat>>

-----------------------------------------------------------------------------
(* The prompts                                                             *)

schedule_command(i) ==
    /\ Free(i) /\ conv["schedule"] = "END"
    /\ \E linked \in get_linked_user :
          IF linked
          THEN user_data' = Put(user_data, "sch", Nothing) /\ Ask(i, "SCH_VENDOR", {"text"})
          ELSE UNCHANGED user_data /\ Ask(i, "END", {})
    /\ ScheduleFrame

\* Mutant: the text is stored as it was typed, not what it was parsed to.
TypedRaw(i, s, field, value, next, asks) ==
    /\ TakesScheduleText(i, s)
    /\ user_data' = Put(user_data, "sch", Put(Draft, field, "given"))
    /\ Ask(i, next, asks)
    /\ ScheduleFrame

\* A typed answer to the prompt of state s: it fills the field and asks for
\* what comes next, or is refused and asked for again.
Typed(i, s, field, value, next, asks) ==
    /\ TakesScheduleText(i, s)
    /\ user_data' = Put(user_data, "sch", Put(Draft, field, value))
    /\ Ask(i, next, asks)
    /\ ScheduleFrame

Refused(i, s, asks) ==
    /\ TakesScheduleText(i, s)
    /\ user_data' = WithDraft
    /\ Ask(i, s, asks)
    /\ ScheduleFrame

handle_vendor(i) ==
    \/ Typed(i, "SCH_VENDOR", "vendor_name", "given", "SCH_AMOUNT", {"text"})
    \/ Refused(i, "SCH_VENDOR", {"text"})

handle_amount(i) ==
    \/ Typed(i, "SCH_AMOUNT", "amount", "given", "SCH_ACCOUNT", {"text"})
    \/ Refused(i, "SCH_AMOUNT", {"text"})

handle_account(i) ==
    \/ Typed(i, "SCH_ACCOUNT", "account_number", "given", "SCH_BANK", bank_quick_pick_keyboard)
    \/ Refused(i, "SCH_ACCOUNT", {"text"})

\* No match asks again, several are offered as buttons.
handle_bank_typed(i) ==
    \/ Typed(i, "SCH_BANK", "bank_code", "given", "SCH_DATE", date_quick_pick_keyboard)
    \/ Refused(i, "SCH_BANK", {"text"})
    \/ Refused(i, "SCH_BANK", {"sch_bank"})

handle_date_typed(i) ==
    \/ \E due \in DueDates :
          Typed(i, "SCH_DATE", "due_date", due, "SCH_RECURRENCE", recurrence_keyboard)
    \/ Refused(i, "SCH_DATE", date_quick_pick_keyboard)

-----------------------------------------------------------------------------
(* The buttons                                                             *)

\* The buttons whose handlers begin with user_data.setdefault("sch", {}).
Priming == {"sch_bank", "sch_date", "sch_recur"}

\* user_data["sch"][field] = value, read again after the await.
Pick(i, button, field, value, next, asks, text) ==
    /\ Answered(i, button)
    /\ IF "sch" \in DOMAIN user_data
       THEN /\ user_data' = Put(user_data, "sch", Put(Draft, field, value))
            /\ Become(i, Handler("schedule", "reply", next, {}, asks, text))
       ELSE RaiseKeyError(i) /\ UNCHANGED user_data
    /\ ScheduleFrame

handle_bank_picked(i) ==
    Pick(i, "sch_bank", "bank_code", "given", "SCH_DATE", date_quick_pick_keyboard, Nothing)

handle_date_picked(i) ==
    \E due \in DueDates :
        Pick(i, "sch_date", "due_date", due, "SCH_RECURRENCE", recurrence_keyboard, Nothing)

\* Mutant: the review is rendered before the interval is stored.
HandleRecurrenceUnshown(i) ==
    \E interval \in Intervals :
        Pick(i, "sch_recur", "recurrence_interval", interval, "SCH_CONFIRM",
             confirm_keyboard, Draft)

\* _show_confirm renders the draft with the interval just picked.
handle_recurrence(i) ==
    \E interval \in Intervals :
        Pick(i, "sch_recur", "recurrence_interval", interval, "SCH_CONFIRM",
             confirm_keyboard, Put(Draft, "recurrence_interval", interval))

\* A button that only leads to another prompt.
Leads(i, button, next, asks) ==
    /\ Answered(i, button) /\ Ask(i, next, asks)
    /\ ScheduleFrame /\ UNCHANGED user_data

\* Mutant: the date's prompt comes back, the state does not.
BackDateStays(i) == Leads(i, "sch_back_date", "SCH_RECURRENCE", date_quick_pick_keyboard)

handle_bank_other(i) == Leads(i, "sch_bank_other", "SCH_BANK", {"text"})
handle_back_account(i) == Leads(i, "sch_back_account", "SCH_ACCOUNT", {"text"})
handle_back_bank(i) == Leads(i, "sch_back_bank", "SCH_BANK", bank_quick_pick_keyboard)
handle_back_date(i) == Leads(i, "sch_back_date", "SCH_DATE", date_quick_pick_keyboard)

\* The fields are shown again, and with them what the draft holds.
handle_confirm_edit(i) ==
    /\ Answered(i, "sch_confirm_edit") /\ Review(i, Draft, edit_keyboard)
    /\ ScheduleFrame /\ UNCHANGED user_data

handle_edit_field(i) ==
    \/ /\ Answered(i, "sch_edit_back") /\ Review(i, Draft, confirm_keyboard)
       /\ ScheduleFrame /\ UNCHANGED user_data
    \/ Leads(i, "sch_edit_vendor", "SCH_VENDOR", {"text"})
    \/ Leads(i, "sch_edit_amount", "SCH_AMOUNT", {"text"})
    \/ Leads(i, "sch_edit_account", "SCH_ACCOUNT", {"text"})
    \/ Leads(i, "sch_edit_date", "SCH_DATE", date_quick_pick_keyboard)
    \/ Leads(i, "sch_edit_recur", "SCH_RECURRENCE", recurrence_keyboard)

-----------------------------------------------------------------------------
(* Confirming and cancelling                                               *)

\* Mutant: create_scheduled_bill does not ask for a vendor.
AcceptableAnonymous(draft, past) == {"amount", "due_date"} \subseteq DOMAIN draft /\ ~ past

\* The validation of create_scheduled_bill.
Acceptable(draft, past) ==
    /\ {"vendor_name", "amount", "due_date"} \subseteq DOMAIN draft
    /\ ~ past
    /\ (/\ "recurrence_interval" \in DOMAIN draft
        /\ draft["recurrence_interval"] # "none")
          => {"account_number", "bank_code"} \subseteq DOMAIN draft

\* The draft is stored or refused; it is popped after the last message.
handle_confirm_yes(i) ==
    /\ Answered(i, "sch_confirm_yes")
    /\ \E linked \in get_linked_user, past \in BOOLEAN :
          /\ past => "due_date" \in DOMAIN Draft /\ Draft["due_date"] = "today"
          /\ IF linked /\ Acceptable(Draft, past)
             THEN rows["schedule"] < MaxBooked /\ rows' = [rows EXCEPT !["schedule"] = @ + 1]
             ELSE UNCHANGED rows
    /\ offered' = {}     \* the message became "Saving your bill"
    /\ EndWith(i, "schedule", {"sch"})
    /\ UNCHANGED <<conv, user_data, review>>

handle_schedule_cancel(i) ==
    /\ Answered(i, "sch_cancel") /\ EndWith(i, "schedule", {"sch"})
    /\ ScheduleFrame /\ UNCHANGED user_data

\* /cancel goes to the first conversation that is under way.
schedule_cancel_command(i) ==
    /\ Free(i) /\ conv["topup"] = "END" /\ conv["schedule"] # "END"
    /\ user_data' = Without(user_data, {"sch"})
    /\ EndWith(i, "schedule", {})
    /\ ScheduleFrame

ScheduleHandler(i) ==
    \/ schedule_command(i) \/ handle_vendor(i) \/ handle_amount(i) \/ handle_account(i)
    \/ handle_bank_typed(i) \/ handle_date_typed(i)
    \/ handle_bank_picked(i) \/ handle_date_picked(i) \/ handle_recurrence(i)
    \/ handle_bank_other(i) \/ handle_back_account(i) \/ handle_back_bank(i)
    \/ handle_back_date(i) \/ handle_confirm_edit(i) \/ handle_edit_field(i)
    \/ handle_confirm_yes(i) \/ handle_schedule_cancel(i) \/ schedule_cancel_command(i)

=============================================================================
