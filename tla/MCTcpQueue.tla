----------------------------- MODULE MCTcpQueue -----------------------------
(* Instances of TcpQueue for TLC. *)
EXTENDS TcpQueue

=============================================================================
