----------------------------- MODULE MCReadback -----------------------------
(***************************************************************************)
(* Readback for TLC: two bars, two pages, two colours.                     *)
(***************************************************************************)
EXTENDS Readback, TLC

Alike == Permutations(Bars) \cup Permutations(Pages) \cup Permutations(Colours)
=============================================================================
