------------------------------- MODULE MCClient -------------------------------
(* A finite instance of Client for TLC. *)
EXTENDS Client

=============================================================================
