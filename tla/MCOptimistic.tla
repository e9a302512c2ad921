---------------------------- MODULE MCOptimistic ----------------------------
EXTENDS Optimistic

CONSTANTS b1, b2

MCBuilders == {b1, b2}

(* Two submissions of b1 for slot 2. *)
TwoSubBuilder == <<b1, b1>>
TwoSubSlot == <<2, 2>>

(* One submission of b1 and one of b2, both for slot 2. *)
PairSubBuilder == <<b1, b2>>
PairSubSlot == <<2, 2>>

=============================================================================
