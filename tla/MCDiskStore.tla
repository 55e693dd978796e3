---------------------------- MODULE MCDiskStore -----------------------------
(* Instances of DiskStore for TLC. *)
EXTENDS DiskStore

=============================================================================
