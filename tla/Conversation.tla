---------------------------- MODULE Conversation ----------------------------
(***************************************************************************)
(* Membership of one conversation (conversation/conversation and           *)
(* conversation_service) at every node.                                    *)
(*                                                                         *)
(* There is no owner: every node keeps its own list of the other members   *)
(* and tells them about it.  A node that learns of a new member asks the   *)
(* members it has whether they know the newcomer, and adds it when all of  *)
(* them do.  Two threads of a process work on the conversation: the        *)
(* service's thread handles messages, the GUI thread the user's wishes.    *)
(* _mutex protects the table of conversations, not the conversation, so    *)
(* the steps of the two interleave inside it.                              *)
(*                                                                         *)
(* Contact lists do not change here (UserService models how they do).      *)
(* Apps are left out.  Accesses to one container are atomic.               *)
(***************************************************************************)
EXTENDS Naturals, FiniteSets

CONSTANTS
    Node,           \* the users
    Knows,          \* Knows[n]: the contacts of n
    Founder,        \* the users that may create the conversation
    Scenarios,      \* what the users may do
    None            \* no thread

MessageType == {"sync", "quit", "ask_req", "ask_res"}

\* A scenario has the sets of contacts that the conversation may be created
\* with, the pairs <<n, c>> of users n that may add c to it and of users n that
\* may lose c, the types of messages that may come twice, and bounds for the
\* contacts that users add, users that leave, contacts that disconnect and
\* messages that come twice.
Scenario == [starts : SUBSET SUBSET Node, invitations : SUBSET (Node \X Node),
             losses : SUBSET (Node \X Node), twice : SUBSET MessageType,
             adds : Nat, quits : Nat, cuts : Nat, dups : Nat]

ASSUME ConversationAssumption ==
    /\ IsFiniteSet(Node)
    /\ Knows \in [Node -> SUBSET Node]
    /\ \A n \in Node : n \notin Knows[n]
    /\ Founder \subseteq Node
    /\ Scenarios \subseteq Scenario
    /\ \A s \in Scenarios : \A cs \in s.starts : IsFiniteSet(cs) /\ Cardinality(cs) <= 1

Thread == {"gui", "service"}

ASSUME ThreadAssumption == None \notin Thread

VARIABLES
    live,           \* live[n]: the conversation is in n's _conversations
    contacts,       \* contacts[n]: _contacts
    asked,          \* asked[n]: the ids that are keys of _pending_adds
    requests,       \* requests[n][id][c]: state of the request sent to c about id
    thread,         \* thread[n][t]: what thread t of n is in the middle of
    mutex,          \* mutex[n]: the thread that holds _mutex
    net,            \* messages on the way
    tab,            \* tab[n]: the GUI's tab for the conversation
    invited,        \* who created it or was added by a user, and has not left
    scenario,       \* what the users do
    used,           \* how much of its bounds is used up
    torn            \* the nodes where one of two mishaps has happened (history:
                    \* see LostWhileAsking and BothAdd)

vars == <<live, contacts, asked, requests, thread, mutex, net, tab, invited, scenario, used, torn>>

RequestState == {"NONE", "SENT", "KNOW", "DONT_KNOW"}
NoRequests == [c \in Node |-> "NONE"]

\* A tab that is announced ("mine": by this user's create_conversation,
\* "theirs": by a sync) is opened when the GUI gets the event.
TabState == {"none", "mine", "theirs", "open"}

\* Messages.  Fields that a type of message does not have are constant.
Message == [type : MessageType, src : Node, dst : Node,
            id : Node, list : SUBSET Node, know : BOOLEAN]
Msg(type, n, to, id, list, know) ==
    [type |-> type, src |-> n, dst |-> to, id |-> id, list |-> list, know |-> know]

\* sender::send drops what is not for a contact.
Post(n, type, to, id, list) ==
    {Msg(type, n, c, id, list, FALSE) : c \in to \intersect Knows[n]}

(***************************************************************************)
(* Threads.  pc says which statement is next: "next" takes the next        *)
(* contact of a sync, "add" and "ask" are what add_contact_to_conversation *)
(* has decided, "answer" and "remove" follow the lookup of the             *)
(* conversation in a handler.                                              *)
(***************************************************************************)
Idle == [pc |-> "idle", who |-> None, about |-> None, know |-> FALSE, todo |-> {}]
Frame(pc, who, about, know, todo) ==
    [pc |-> pc, who |-> who, about |-> about, know |-> know, todo |-> todo]

IsIdle(n, t) == thread[n][t] = Idle
At(n, t, pc) == thread[n][t].pc = pc
Unlocked(n) == mutex[n] = None

Run(n, t, f) == thread' = [thread EXCEPT ![n][t] = f]

\* The rest of a call of add_contact_to_conversation when todo is left to do.
\* At the end of a sync a new conversation is announced to the GUI and the
\* lock is released.
Resume(n, t, who, todo) ==
    IF todo # {}
    THEN /\ Run(n, t, Frame("next", who, None, FALSE, todo))
         /\ UNCHANGED <<mutex, tab>>
    ELSE /\ Run(n, t, Idle)
         /\ mutex' = [mutex EXCEPT ![n] = IF @ = t THEN None ELSE @]
         /\ tab' = [tab EXCEPT ![n] = IF mutex[n] = t /\ @ = "none"
                                      THEN IF t = "gui" THEN "mine" ELSE "theirs"
                                      ELSE @]

\* What add_contact_to_conversation does with c.
Decision(n, c) ==
    CASE c \in contacts[n] -> "present"
      [] c \notin contacts[n] /\ contacts[n] = {} /\ asked[n] = {} -> "add"
      [] OTHER -> "ask"

\* A member is lost while a question about somebody else is open.  The clique
\* test counts the questions, and one more member makes up for the one lost.
LostWhileAsking(n, c) == c \in contacts[n] /\ asked[n] \ contacts[n] # {}

\* A thread is about to add somebody while the other one is: the conversation
\* has lost its last member, and nobody was asked about one of the two.
BothAdd(n, adds) == adds /\ \E t \in Thread : At(n, t, "add")

Tear(n, mishap) == torn' = IF mishap THEN torn \union {n} ELSE torn

(***************************************************************************)
(* sync_conversation, on behalf of a message or of the user                *)
(***************************************************************************)
\* The locked section begins: the conversation is created if it is not there.
Begin(n, t, who, todo) ==
    /\ Unlocked(n)
    /\ live' = [live EXCEPT ![n] = TRUE]
    /\ contacts' = [contacts EXCEPT ![n] = IF live[n] THEN @ ELSE {}]
    /\ asked' = [asked EXCEPT ![n] = IF live[n] THEN @ ELSE {}]
    /\ requests' = [requests EXCEPT ![n] = IF live[n] THEN @ ELSE [id \in Node |-> NoRequests]]
    /\ mutex' = [mutex EXCEPT ![n] = t]
    /\ Run(n, t, Frame("next", who, None, FALSE, todo))

\* The loop over the contacts of a sync: the sender comes first.
NextContact(n, t) ==
    /\ At(n, t, "next")
    /\ LET f == thread[n][t] IN
       IF f.todo = {}
       THEN Resume(n, t, f.who, {}) /\ UNCHANGED torn
       ELSE \E c \in f.todo :
              /\ f.who \in f.todo => c = f.who
              /\ Tear(n, BothAdd(n, Decision(n, c) = "add"))
              /\ IF Decision(n, c) = "present"
                 THEN Resume(n, t, f.who, f.todo \ {c})
                 ELSE /\ Run(n, t, [f EXCEPT !.pc = Decision(n, c), !.about = c])
                      /\ UNCHANGED <<mutex, tab>>
    /\ UNCHANGED <<live, contacts, asked, requests, net, invited, used>>

\* sync_existing_conversation with the members in s.
SyncTo(n, s) == Post(n, "sync", s, n, s)

\* add_contact_to_conversation_p.
AddNow(n, t) ==
    /\ At(n, t, "add")
    /\ LET f == thread[n][t] IN
       /\ IF f.about \in contacts[n]
          THEN UNCHANGED <<contacts, net>>
          ELSE /\ contacts' = [contacts EXCEPT ![n] = @ \union {f.about}]
               /\ net' = net \union SyncTo(n, contacts[n] \union {f.about})
       /\ Resume(n, t, f.who, f.todo \ {f.about})
    /\ UNCHANGED <<live, asked, requests, invited, used, torn>>

\* ask_about: every member so far is asked, and what was answered before is
\* forgotten.
AskAbout(n, t) ==
    /\ At(n, t, "ask")
    /\ LET f == thread[n][t] IN
       /\ asked' = [asked EXCEPT ![n] = @ \union {f.about}]
       /\ requests' = [requests EXCEPT ![n][f.about] =
                         [c \in Node |-> IF c \in contacts[n] THEN "SENT" ELSE "NONE"]]
       /\ net' = net \union Post(n, "ask_req", contacts[n], f.about, {})
       /\ Resume(n, t, f.who, f.todo \ {f.about})
    /\ UNCHANGED <<live, contacts, invited, used, torn>>

(***************************************************************************)
(* The user                                                                *)
(***************************************************************************)
\* create_conversation, empty or with one contact.  Its id is new, so it
\* happens once.
Create(n, s) ==
    /\ n \in Founder
    /\ ~ used.created
    /\ IsIdle(n, "gui")
    /\ s \subseteq Knows[n]
    /\ Begin(n, "gui", n, s)
    /\ invited' = invited \union {n} \union s
    /\ used' = [used EXCEPT !.created = TRUE]
    /\ UNCHANGED <<net, tab, torn>>

\* new_conversation_event.  If the user created the conversation, it is
\* synced once more.
Show(n) ==
    /\ tab[n] \in {"mine", "theirs"}
    /\ IsIdle(n, "gui")
    /\ Unlocked(n)
    /\ net' = net \union (IF tab[n] = "mine" THEN SyncTo(n, contacts[n]) ELSE {})
    /\ tab' = [tab EXCEPT ![n] = "open"]
    /\ UNCHANGED <<live, contacts, asked, requests, thread, mutex, invited, used, torn>>

\* add_contact_to_conversation from the conversation's widget, without _mutex.
AddContact(n, c) ==
    /\ <<n, c>> \in scenario.invitations
    /\ used.adds < scenario.adds
    /\ tab[n] = "open"
    /\ IsIdle(n, "gui")
    /\ c \in Knows[n]
    /\ Decision(n, c) # "present"
    /\ Tear(n, BothAdd(n, Decision(n, c) = "add"))
    /\ Run(n, "gui", Frame(Decision(n, c), c, c, FALSE, {c}))
    /\ invited' = invited \union {c}
    /\ used' = [used EXCEPT !.adds = @ + 1]
    /\ UNCHANGED <<live, contacts, asked, requests, mutex, net, tab>>

\* quit_conversation, and the tab that its event closes.
Quit(n) ==
    /\ used.quits < scenario.quits
    /\ tab[n] = "open"
    /\ IsIdle(n, "gui")
    /\ Unlocked(n)
    /\ net' = net \union Post(n, "quit", contacts[n], n, {})
    /\ live' = [live EXCEPT ![n] = FALSE]
    /\ tab' = [tab EXCEPT ![n] = "none"]
    /\ invited' = invited \ {n}
    /\ used' = [used EXCEPT !.quits = @ + 1]
    /\ UNCHANGED <<contacts, asked, requests, thread, mutex, torn>>

\* conversation::remove_contact.
Forget(n, c) ==
    /\ contacts' = [contacts EXCEPT ![n] = @ \ {c}]
    /\ asked' = [asked EXCEPT ![n] = @ \ {c}]
    /\ requests' = [requests EXCEPT ![n][c] = NoRequests]
    /\ Tear(n, LostWhileAsking(n, c))

\* received_contact_disconnected of the widget: the user service has lost c.
Disconnected(n, c) ==
    /\ <<n, c>> \in scenario.losses
    /\ used.cuts < scenario.cuts
    /\ tab[n] = "open"
    /\ IsIdle(n, "gui")
    /\ c \in contacts[n]
    /\ Forget(n, c)
    /\ used' = [used EXCEPT !.cuts = @ + 1]
    /\ UNCHANGED <<live, thread, mutex, net, tab, invited>>

(***************************************************************************)
(* The service's thread takes a message                                    *)
(***************************************************************************)
\* A message is delivered at most once more than it was sent.
Take(m, sent) ==
    \/ /\ net' = (net \ {m}) \union sent
       /\ UNCHANGED used
    \/ /\ m.type \in scenario.twice
       /\ used.dups < scenario.dups
       /\ net' = net \union sent
       /\ used' = [used EXCEPT !.dups = @ + 1]

Ready(n, m) == m \in net /\ m.dst = n /\ IsIdle(n, "service") /\ Unlocked(n)

\* Messages from strangers, and for a conversation that is not there.
Ignored(n, m) ==
    \/ m.src \notin Knows[n]
    \/ m.type # "sync" /\ ~ live[n]
    \/ m.type = "ask_res" /\ m.id \notin Knows[n]

Ignore(n, m) ==
    /\ Ready(n, m)
    /\ Ignored(n, m)
    /\ Take(m, {})
    /\ UNCHANGED <<live, contacts, asked, requests, thread, mutex, tab, invited, torn>>

\* Mutant: a sync is answered with one.
ReceivedSyncEchoed(n, m) ==
    /\ Ready(n, m)
    /\ ~ Ignored(n, m)
    /\ m.type = "sync"
    /\ Begin(n, "service", m.src, {m.src} \union (m.list \intersect Knows[n]))
    /\ Take(m, SyncTo(n, {m.src}))
    /\ UNCHANGED <<tab, invited, torn>>

\* Mutant: a sync brings all contacts in.
ReceivedSyncOfAll(n, m) ==
    /\ Ready(n, m)
    /\ ~ Ignored(n, m)
    /\ m.type = "sync"
    /\ Begin(n, "service", m.src, Knows[n])
    /\ Take(m, {})
    /\ UNCHANGED <<tab, invited, torn>>

ReceivedSync(n, m) ==
    /\ Ready(n, m)
    /\ ~ Ignored(n, m)
    /\ m.type = "sync"
    /\ Begin(n, "service", m.src, {m.src} \union (m.list \intersect Knows[n]))
    /\ Take(m, {})
    /\ UNCHANGED <<tab, invited, torn>>

ReceivedAskReq(n, m) ==
    /\ Ready(n, m)
    /\ ~ Ignored(n, m)
    /\ m.type = "ask_req"
    /\ Take(m, {Msg("ask_res", n, m.src, m.id, {}, m.id \in Knows[n])})
    /\ UNCHANGED <<live, contacts, asked, requests, thread, mutex, tab, invited, torn>>

\* received_ask_contact_res and received_quit look the conversation up...
Lookup(n, m) ==
    /\ Ready(n, m)
    /\ ~ Ignored(n, m)
    /\ m.type \in {"ask_res", "quit"}
    /\ Run(n, "service", Frame(IF m.type = "quit" THEN "remove" ELSE "answer",
                               m.src, m.id, m.know, {}))
    /\ Take(m, {})
    /\ UNCHANGED <<live, contacts, asked, requests, mutex, tab, invited, torn>>

\* ...and go on with it, whether or not the user has quit meanwhile.
RemoveContact(n) ==
    /\ At(n, "service", "remove")
    /\ Forget(n, thread[n]["service"].who)
    /\ Run(n, "service", Idle)
    /\ UNCHANGED <<live, mutex, net, tab, invited, used>>

\* Mutant: members that joined after the question do not count.
CliqueOfAsked(n, id, r) ==
    LET to == {c \in Node : r[c] # "NONE"} IN
    IF id \notin asked[n] \/ \E c \in to : r[c] = "SENT"
    THEN "DONT_KNOW"
    ELSE IF \A c \in to : r[c] = "KNOW" THEN "PART" ELSE "NOT_PART"

\* part_of_clique, with the requests about id as they are after know_contact.
Clique(n, id, r) ==
    LET to == {c \in Node : r[c] # "NONE"} IN
    IF \/ id \notin asked[n]
       \/ Cardinality(to) # Cardinality(contacts[n])
       \/ \E c \in to : r[c] = "SENT"
    THEN "DONT_KNOW"
    ELSE IF \A c \in to : r[c] = "KNOW" THEN "PART" ELSE "NOT_PART"

\* know_contact and part_of_clique; a contact that is part is added next.
ApplyAnswer(n) ==
    /\ At(n, "service", "answer")
    /\ LET f == thread[n]["service"]
           r == IF f.about \in asked[n] /\ requests[n][f.about][f.who] # "NONE"
                THEN [requests[n][f.about] EXCEPT
                        ![f.who] = IF f.know THEN "KNOW" ELSE "DONT_KNOW"]
                ELSE requests[n][f.about]
       IN /\ requests' = [requests EXCEPT ![n][f.about] = r]
          /\ Run(n, "service", IF Clique(n, f.about, r) = "PART"
                               THEN Frame("add", f.who, f.about, FALSE, {f.about})
                               ELSE Idle)
          /\ Tear(n, BothAdd(n, Clique(n, f.about, r) = "PART"))
    /\ UNCHANGED <<live, contacts, asked, mutex, net, tab, invited, used>>

(***************************************************************************)
(* The specification                                                       *)
(***************************************************************************)
Init ==
    /\ live = [n \in Node |-> FALSE]
    /\ contacts = [n \in Node |-> {}]
    /\ asked = [n \in Node |-> {}]
    /\ requests = [n \in Node |-> [id \in Node |-> NoRequests]]
    /\ thread = [n \in Node |-> [t \in Thread |-> Idle]]
    /\ mutex = [n \in Node |-> None]
    /\ net = {}
    /\ tab = [n \in Node |-> "none"]
    /\ invited = {}
    /\ scenario \in Scenarios
    /\ used = [created |-> FALSE, adds |-> 0, quits |-> 0, cuts |-> 0, dups |-> 0]
    /\ torn = {}

Handle(n, m) ==
    \/ Ignore(n, m)
    \/ ReceivedSync(n, m)
    \/ ReceivedAskReq(n, m)
    \/ Lookup(n, m)

Step(n, t) ==
    \/ NextContact(n, t)
    \/ AddNow(n, t)
    \/ AskAbout(n, t)

Next ==
    /\ \E n \in Node :
           \/ \E s \in scenario.starts : Create(n, s)
           \/ \E c \in Node : AddContact(n, c) \/ Disconnected(n, c)
           \/ Show(n)
           \/ Quit(n)
           \/ \E m \in net : Handle(n, m)
           \/ \E t \in Thread : Step(n, t)
           \/ RemoveContact(n)
           \/ ApplyAnswer(n)
    /\ UNCHANGED scenario

Spec == Init /\ [][Next]_vars

\* The two threads of a process run.
ServiceRuns(n) ==
    /\ \/ \E m \in net : Handle(n, m)
       \/ Step(n, "service")
       \/ RemoveContact(n)
       \/ ApplyAnswer(n)
    /\ UNCHANGED scenario
GuiRuns(n) == (Step(n, "gui") \/ Show(n)) /\ UNCHANGED scenario

FairSpec ==
    /\ Spec
    /\ \A n \in Node : WF_vars(ServiceRuns(n)) /\ WF_vars(GuiRuns(n))

(***************************************************************************)
(* Properties                                                              *)
(***************************************************************************)
\* The types.  A member is always a contact, and never the user itself:
\* received_sync filters what it is told.
TypeOK ==
    /\ live \in [Node -> BOOLEAN]
    /\ contacts \in [Node -> SUBSET Node]
    /\ \A n \in Node : contacts[n] \subseteq Knows[n]
    /\ asked \in [Node -> SUBSET Node]
    /\ requests \in [Node -> [Node -> [Node -> RequestState]]]
    /\ \A n \in Node : \A t \in Thread :
         /\ thread[n][t].pc \in {"idle", "next", "add", "ask", "answer", "remove"}
         /\ thread[n][t].todo \subseteq Knows[n]
    /\ mutex \in [Node -> Thread \union {None}]
    /\ net \subseteq Message
    /\ tab \in [Node -> TabState]
    /\ invited \subseteq Node
    /\ scenario \in Scenarios
    /\ torn \subseteq Node

Acquainted(n) == \A p, q \in contacts[n] : p # q => p \in Knows[q] \/ q \in Knows[p]

(***************************************************************************)
(* The members that a node has know each other, in the direction in which  *)
(* they were asked.  Several newcomers are asked about at once, the        *)
(* answers come in any order, more than once or not at all, both threads   *)
(* add members, and members leave, are lost and come back.  The code does  *)
(* not survive two mishaps, which are exempt: a member that is lost while  *)
(* a question about somebody else is open (LostWhileAsking), and two       *)
(* additions to a conversation that has lost its last member (BothAdd).    *)
(***************************************************************************)
MembersKnowEachOther ==
    \A n \in Node : live[n] /\ n \notin torn => Acquainted(n)

\* As long as nobody has left, a node is in the conversation, and has another
\* as a member, only if a user created it or added them: syncs pass lists of
\* members on, and questions and answers name users who are not in it (yet).
OnlyInvited ==
    used.quits = 0 => \A n \in Node : live[n] => {n} \union contacts[n] \subseteq invited

\* Who is in the conversation created it, or a user has added it, since it
\* last left ("If you leave a conversation, you need someone who is still in
\* it to add you back", conversation/README.md).
MembersWereInvited ==
    \A n \in Node : live[n] => n \in invited

\* Nodes answer a sync with questions, and what they learn with more syncs, to
\* members that may have left and come back.  This ends: from some time on
\* nothing is on the way and both threads of every node are idle.
Settles ==
    <>[](net = {} /\ \A n \in Node : \A t \in Thread : IsIdle(n, t))
=============================================================================
