-------------------------- MODULE MCEffectPreview --------------------------
EXTENDS EffectPreview, TLC

CONSTANTS studio, phone

SessionSymmetry == Permutations(Sessions)
=============================================================================
