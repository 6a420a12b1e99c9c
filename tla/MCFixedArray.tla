---------------------------- MODULE MCFixedArray ----------------------------
(* FixedArrayResource for TLC: an array too small for permuteIndex() to spread, *)
(* asked for what fits.                                                         *)
EXTENDS FixedArrayResource

Unspread == [i \in Slots |-> i]
Fitting == {[size |-> FALSE, alignment |-> FALSE]}
=============================================================================
