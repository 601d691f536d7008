------------------------- MODULE MCEncryptionSession -------------------------
(* A small instance of EncryptionSession for TLC. *)
EXTENDS EncryptionSession

=============================================================================
