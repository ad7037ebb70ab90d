--------------------------- MODULE BillConversation ---------------------------
(***************************************************************************)
(* The conversation about a bill sent to the bot: extract it, let the user *)
(* edit it, look up the payee and ask the decision agent.                  *)
(*                                                                         *)
(* The key bill of user_data stands for what a bill brings with it: bill,  *)
(* staging, edited_keys and user_id; the values are left out.              *)
(*                                                                         *)
(* handle_confirm's transaction is never committed, so the bill that it has*)
(* inserted cannot be found again: what follows such a bill (the agent's   *)
(* answers, FINAL_CONFIRM, the status writes of the cancels) is out of the *)
(* program's reach.                                                        *)
(***************************************************************************)
EXTENDS BotState

BillStates == {"END", "CONFIRM", "EDIT_LIST", "EDIT_VALUE"}

BillButtons ==
    [s \in BillStates |->
        CASE s = "CONFIRM" -> {"confirm", "edit", "cancel"}
          [] s = "EDIT_LIST" -> {"edit_field", "edit_due_date", "date_quickpick",
                                 "edit_done", "edit_discard"}
          [] OTHER -> {}]

\* A text reaches this conversation when neither of the others takes it.
TakesBillText(i, s) ==
    /\ Free(i)
    /\ conv["topup"] # "TOPUP_CUSTOM"
    /\ conv["schedule"] \notin {"SCH_VENDOR", "SCH_AMOUNT", "SCH_ACCOUNT", "SCH_BANK", "SCH_DATE"}
    /\ conv["bill"] = s

BillFrame == UNCHANGED <<rows, chat>>
Shows(i, next) == Reply(i, "bill", next) /\ BillFrame /\ UNCHANGED user_data

-----------------------------------------------------------------------------
(* A bill arrives                                                          *)

\* A photo or a document finds no other conversation that takes it, a text
\* may.  The extraction is an await.
receive_bill(i) ==
    /\ Free(i) /\ conv["bill"] = "END"
    /\ \E linked \in get_linked_user :
          IF linked THEN Become(i, Answering("bill", "extract")) ELSE EndWith(i, "bill", {})
    /\ BillFrame /\ UNCHANGED user_data

\* No bill is found in it, or the bill becomes the conversation's.
Extracted(i) ==
    /\ Answered(i, "extract")
    /\ \/ Shows(i, "END")
       \/ /\ user_data' = Put(user_data, "bill", TRUE)
          /\ Reply(i, "bill", "CONFIRM")
          /\ BillFrame

-----------------------------------------------------------------------------
(* Confirm                                                                 *)

HasBill == "bill" \in DOMAIN user_data

\* INSERT and flush; session_scope closes the session without a commit.
InsertBill == UNCHANGED rows

\* Without an account, or with a bank that is not known, it ends here: the
\* agent is asked for a bill that is not there.  Else the payee is looked up.
handle_confirm(i) ==
    /\ Answered(i, "confirm")
    /\ IF HasBill
       THEN /\ InsertBill
            /\ user_data' = Put(user_data, "bill_id", TRUE)
            /\ Become(i, Answering("bill", "resolve")) \/ EndWith(i, "bill", {})
       ELSE EndWith(i, "bill", {}) /\ UNCHANGED <<user_data, rows>>
    /\ UNCHANGED chat

\* The lookup fails and everything is cleared; another name than the
\* vendor's comes back; or the names match and the agent is asked.
handle_resolve_account(i) ==
    /\ Answered(i, "resolve")
    /\ \/ EndWith(i, "bill", Keys)
       \/ Reply(i, "bill", "CONFIRM")
       \/ EndWith(i, "bill", {})
    /\ BillFrame /\ UNCHANGED user_data

-----------------------------------------------------------------------------
(* The editor                                                              *)

handle_edit(i) == Answered(i, "edit") /\ Shows(i, "EDIT_LIST")

\* The due date has buttons of its own in EDIT_LIST.
handle_bill_edit_field(i) ==
    /\ \/ Answered(i, "edit_due_date") /\ Reply(i, "bill", "EDIT_LIST")
       \/ Answered(i, "edit_field") /\ Reply(i, "bill", "EDIT_VALUE")
    /\ user_data' = Put(user_data, "editing_field", TRUE)
    /\ BillFrame

handle_date_quickpick(i) == Answered(i, "date_quickpick") /\ Shows(i, "EDIT_LIST")
handle_edit_done(i) == Answered(i, "edit_done") /\ Shows(i, "CONFIRM")

\* Back to what was extracted; without a bill there is nothing to show.
handle_edit_discard(i) ==
    /\ Answered(i, "edit_discard")
    /\ IF HasBill THEN Reply(i, "bill", "CONFIRM") ELSE RaiseKeyError(i)
    /\ BillFrame /\ UNCHANGED user_data

\* A value that does not parse is asked for again; when no field is being
\* edited any more the list is shown.
handle_new_value(i) ==
    /\ TakesBillText(i, "EDIT_VALUE")
    /\ \/ Reply(i, "bill", "EDIT_VALUE") /\ "editing_field" \in DOMAIN user_data
       \/ IF "editing_field" \in DOMAIN user_data /\ ~ HasBill
          THEN RaiseKeyError(i)
          ELSE Reply(i, "bill", "EDIT_LIST")
    /\ BillFrame /\ UNCHANGED user_data

-----------------------------------------------------------------------------
(* Cancelling: the whole of user_data is cleared                           *)

handle_cancel(i) ==
    /\ Answered(i, "cancel") /\ EndWith(i, "bill", Keys)
    /\ BillFrame /\ UNCHANGED user_data

cancel_command(i) ==
    /\ Free(i)
    /\ conv["topup"] = "END" /\ conv["schedule"] = "END" /\ conv["bill"] # "END"
    /\ user_data' = Nothing
    /\ EndWith(i, "bill", {})
    /\ BillFrame

BillHandler(i) ==
    \/ receive_bill(i) \/ Extracted(i) \/ handle_confirm(i) \/ handle_resolve_account(i)
    \/ handle_edit(i) \/ handle_edit_done(i) \/ handle_bill_edit_field(i)
    \/ handle_date_quickpick(i) \/ handle_edit_discard(i) \/ handle_new_value(i)
    \/ handle_cancel(i) \/ cancel_command(i)

=============================================================================
