------------------------------ MODULE MCLuaApp ------------------------------
(* Instances of LuaApp for TLC. *)
EXTENDS LuaApp

=============================================================================
