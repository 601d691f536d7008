---------------------------- MODULE MCEffectLibrary ----------------------------
(***************************************************************************)
(* EffectLibrary for TLC: a saved effect and two devices that play it.     *)
(***************************************************************************)
EXTENDS EffectLibrary, TLC

CONSTANTS i1, d1, d2, s1, s2

Alike == Permutations(Devices) \cup Permutations(Signatures)
=============================================================================
