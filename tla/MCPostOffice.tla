---------------------------- MODULE MCPostOffice ----------------------------
(* Instances of PostOffice: a root with two offices, one of which has an   *)
(* office of its own, and a mailbox in each.                               *)
EXTENDS PostOffice

Tree == [o \in {"A", "B", "C"} |-> IF o = "C" THEN "A" ELSE "R"]
Homes == [b \in {"r", "a", "b", "c"} |->
            CASE b = "r" -> "R" [] b = "a" -> "A" [] b = "b" -> "B" [] b = "c" -> "C"]

\* Between siblings, up and down the tree, and to a stranger.
Mail == [b \in {"r", "a", "b", "c"} |->
            CASE b = "r" -> <<<<"A", "C", "c">>>>
              [] b = "a" -> <<>>
              [] b = "b" -> <<<<"R", "A", "a">>>>
              [] b = "c" -> <<<<"peer", "x">>, <<"R", "r">>>>]
FromPeers == {<<"B", "nobody">>}
=============================================================================
