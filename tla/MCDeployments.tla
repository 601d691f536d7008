---------------------------- MODULE MCDeployments ----------------------------
EXTENDS Deployments, TLC

CONSTANTS authored, builtin, music, one, two

\* One effect is uploaded to a slot, another one is selected by the same
\* slot, and a music profile has its mode.
SlotAndMode == [o \in Ops |-> IF o = music THEN "mode" ELSE "slot"]

CallSymmetry == Permutations(Calls)
=============================================================================
