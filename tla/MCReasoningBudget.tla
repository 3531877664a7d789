------------------------- MODULE MCReasoningBudget -------------------------
(* Small vocabularies for ReasoningBudget: "<t>" "w" opens a block, "</t>"  *)
(* closes it, "w" is a word, "lead" and "cont" are the byte-fallback tokens *)
(* of one two-byte character, and "ctl" is a control token, which           *)
(* common_token_to_piece gives no bytes.                                   *)
EXTENDS ReasoningBudget

Tokens    == {"<t>", "</t>", "w", "lead", "cont", "ctl"}
Pieces    == [t \in Tokens |-> CASE t = "lead" -> <<2>> [] t = "cont" -> <<0>>
                                 [] t = "ctl" -> <<>>
                                 [] OTHER -> <<1>>]
Start     == <<"<t>", "w">>
End       == <<"</t>">>
Forced    == <<"w", "</t>">>

=============================================================================
