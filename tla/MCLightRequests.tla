-------------------------- MODULE MCLightRequests ---------------------------
(* Small instances of LightRequests for TLC. *)
EXTENDS LightRequests

=============================================================================
