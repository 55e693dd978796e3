------------------------ MODULE MCConnectionManager -------------------------
(* Instances of ConnectionManager for TLC. *)
EXTENDS ConnectionManager

=============================================================================
