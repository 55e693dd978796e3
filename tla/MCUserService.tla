--------------------------- MODULE MCUserService ----------------------------
(***************************************************************************)
(* The instances of UserService need nothing but the bounds that their     *)
(* configurations give.                                                    *)
(***************************************************************************)
EXTENDS UserService
=============================================================================
