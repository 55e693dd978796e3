--------------------------- MODULE MCConversation ---------------------------
(***************************************************************************)
(* Who knows whom in the instances of Conversation, and what they do.      *)
(***************************************************************************)
EXTENDS Conversation

CONSTANTS a, b, c, d, e     \* users

Everyone == [n \in Node |-> Node \ {n}]

\* a and c know everyone, b knows only a, and d and e nobody yet.
Star == [n \in Node |-> CASE n \in {a, c} -> Node \ {n}
                          [] n = b -> {a}
                          [] OTHER -> {}]

\* a adds two users.
Joining == [starts |-> {{}}, invitations |-> {a} \X {b, c, d},
            losses |-> {}, twice |-> {},
            adds |-> 3, quits |-> 0, cuts |-> 0, dups |-> 0]

\* a and b leave, lose each other and come back.
Leaving == [starts |-> {{b}}, invitations |-> {<<a, b>>},
            losses |-> {<<a, b>>, <<b, a>>}, twice |-> MessageType,
            adds |-> 2, quits |-> 2, cuts |-> 1, dups |-> 1]

\* a adds two users and loses the one who knows them.
Losing == [starts |-> {{c}}, invitations |-> {a} \X {d, e},
           losses |-> {<<a, c>>}, twice |-> {},
           adds |-> 2, quits |-> 0, cuts |-> 1, dups |-> 0]

\* An answer comes twice while a adds two users.
Repeating == [Losing EXCEPT !.twice = {"ask_res"}, !.cuts = 0, !.dups = 1]

\* b may leave at once.
LeavingAtOnce == [Leaving EXCEPT !.starts = {{b}}, !.adds = 0, !.quits = 1, !.cuts = 0, !.dups = 0]

AllScenarios == {Joining, Leaving, Losing, Repeating}
OnlyLeaving == {LeavingAtOnce}
OnlyLosing == {Losing}

\* As MembersKnowEachOther, whatever has happened: the clique test of
\* conversation.cpp:153 does not suffice for it (conv_size.cfg).
CliqueTestSuffices == \A n \in Node : live[n] => Acquainted(n)
=============================================================================
