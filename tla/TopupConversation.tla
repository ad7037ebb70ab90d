-------------------------- MODULE TopupConversation --------------------------
(***************************************************************************)
(* The /topup conversation: pick or type an amount, get a checkout link,   *)
(* verify the payment.  The row that start_topup stores and the credit that*)
(* verify_pending_topup makes are module Funding's; here is what becomes of*)
(* the conversation, which shares the chat's texts and /cancel with the    *)
(* other two.                                                              *)
(***************************************************************************)
EXTENDS BotState

TopupStates == {"END", "TOPUP_PICK", "TOPUP_CUSTOM", "TOPUP_DONE"}

\* The buttons each state has a handler for.
TopupButtons ==
    [s \in TopupStates |->
        CASE s = "TOPUP_PICK"   -> {"topup_amount", "topup_custom", "topup_cancel"}
          [] s = "TOPUP_CUSTOM" -> {"topup_back", "topup_cancel"}
          [] s = "TOPUP_DONE"   -> {"topup_done_again", "topup_done_balance",
                                    "topup_done_close", "topup_verify"}
          [] OTHER -> {}]

TakesTopupText == conv["topup"] = "TOPUP_CUSTOM"

\* What no handler of this conversation touches.
TopupFrame == UNCHANGED <<user_data, rows, chat>>

topup_command(i) ==
    /\ Free(i) /\ conv["topup"] = "END"
    /\ \E linked \in get_linked_user : Reply(i, "topup", IF linked THEN "TOPUP_PICK" ELSE "END")
    /\ TopupFrame

\* _init_topup ends in TOPUP_DONE with a link, or fails and returns END; the
\* handler of a typed amount returns TOPUP_DONE in either case.
handle_quickpick(i) ==
    /\ Answered(i, "topup_amount")
    /\ \E linked \in get_linked_user, started \in BOOLEAN :
          Reply(i, "topup", IF linked /\ started THEN "TOPUP_DONE" ELSE "END")
    /\ TopupFrame

handle_custom_amount(i) ==
    /\ Free(i) /\ TakesTopupText
    /\ \E next \in {"TOPUP_CUSTOM", "TOPUP_DONE"} : Reply(i, "topup", next)
    /\ TopupFrame

handle_custom(i) == Answered(i, "topup_custom") /\ Reply(i, "topup", "TOPUP_CUSTOM") /\ TopupFrame
handle_custom_back(i) == Answered(i, "topup_back") /\ Reply(i, "topup", "TOPUP_PICK") /\ TopupFrame
handle_topup_cancel(i) == Answered(i, "topup_cancel") /\ Reply(i, "topup", "END") /\ TopupFrame
handle_done_again(i) == Answered(i, "topup_done_again") /\ Reply(i, "topup", "TOPUP_PICK") /\ TopupFrame
handle_done_balance(i) == Answered(i, "topup_done_balance") /\ Reply(i, "topup", "END") /\ TopupFrame
handle_done_close(i) == Answered(i, "topup_done_close") /\ Reply(i, "topup", "END") /\ TopupFrame

handle_verify(i) ==
    /\ Answered(i, "topup_verify")
    /\ \E linked \in get_linked_user : Reply(i, "topup", IF linked THEN "TOPUP_DONE" ELSE "END")
    /\ TopupFrame

topup_cancel_command(i) ==
    /\ Free(i) /\ conv["topup"] # "END"
    /\ Reply(i, "topup", "END")
    /\ TopupFrame

TopupHandler(i) ==
    \/ topup_command(i) \/ handle_quickpick(i) \/ handle_custom(i)
    \/ handle_custom_back(i) \/ handle_custom_amount(i) \/ handle_topup_cancel(i)
    \/ handle_done_again(i) \/ handle_done_balance(i) \/ handle_done_close(i)
    \/ handle_verify(i) \/ topup_cancel_command(i)

=============================================================================
