---------------------------- MODULE MCReplyGate -----------------------------
(* Small instances of ReplyGate for TLC. *)
EXTENDS ReplyGate, TLC

KeySymmetry == Permutations(Keys)

=============================================================================
