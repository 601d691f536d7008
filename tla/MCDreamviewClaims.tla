-------------------------- MODULE MCDreamviewClaims --------------------------
(***************************************************************************)
(* DreamviewClaims for TLC: two centres that want the same members.        *)
(***************************************************************************)
EXTENDS DreamviewClaims, TLC

Alike == Permutations(Centres) \cup Permutations(Members)
=============================================================================
