-------------------------- MODULE MCControlArbiter --------------------------
(* Small instances of ControlArbiter for TLC. *)
EXTENDS ControlArbiter, TLC

\* The safety properties never name a task.
TaskSymmetry == Permutations(Tasks)

=============================================================================
