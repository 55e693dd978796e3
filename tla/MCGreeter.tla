------------------------------ MODULE MCGreeter ------------------------------
(***************************************************************************)
(* The instance of Greeter: two users, one of them on the way, and one     *)
(* fault of each kind.                                                     *)
(***************************************************************************)
EXTENDS Greeter

CONSTANTS a, b, p, q     \* users and places

Apart == {[u \in User |-> IF u = a THEN p ELSE q]}

OneFault == {[f \in Fault |-> IF f = w THEN 1 ELSE 0] : w \in Fault}
=============================================================================
