---------------------------- MODULE MCSubmitBlock ----------------------------
(* Model-checking instance of SubmitBlock.                                  *)
EXTENDS SubmitBlock, TLC

CONSTANTS b1, b2

MCBuilders == {b1, b2}

(* Two submissions of b1 race for slot 1; b2 competes with them. *)
RaceBuilder == <<b1, b1, b2>>
RaceSlot == <<1, 1, 1>>

=============================================================================
