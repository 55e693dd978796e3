------------------------- MODULE ConversationProofs -------------------------
(***************************************************************************)
(* Proofs about Conversation, for any set of users, any contact lists, any *)
(* founders and any scenarios.  Four invariants, the last three resting on *)
(* the first:                                                              *)
(*                                                                         *)
(*   Typed        what the variables and the frames of the threads hold;   *)
(*   Invitations  until a user quits, every list that is kept, sent or     *)
(*                worked on names invited users only;                      *)
(*   Cliques      until a user quits or loses a contact, what threads      *)
(*                and answers say about acquaintance is true, and the one  *)
(*                addition without a question, to an empty conversation,   *)
(*                happens when nobody else is in it;                       *)
(*   Proper       whatever happens, at a node that was spared the two      *)
(*                mishaps, questions about users who are no members were   *)
(*                put to members only, and who is about to be added fits.  *)
(***************************************************************************)
EXTENDS Conversation, FiniteSetTheorems, TLAPS

(***************************************************************************)
(* Types                                                                   *)
(***************************************************************************)
PC == {"idle", "next", "add", "ask", "answer", "remove"}
Frames == [pc : PC, who : Node \cup {None}, about : Node \cup {None},
           know : BOOLEAN, todo : SUBSET Node]
Usage == [created : BOOLEAN, adds : Nat, quits : Nat, cuts : Nat, dups : Nat]

\* A frame of a thread of n: it only works on contacts of n.
FrameOf(n, f) ==
    /\ f \in Frames
    /\ f.todo \subseteq Knows[n]
    /\ f.pc \in {"add", "ask", "answer"} => f.about \in Knows[n]
    /\ f.pc \in {"answer", "remove"} => f.who \in Node

ThreadsTyped ==
    /\ thread \in [Node -> [Thread -> Frames]]
    /\ \A n \in Node : \A t \in Thread : FrameOf(n, thread[n][t])

DataTyped ==
    /\ live \in [Node -> BOOLEAN]
    /\ contacts \in [Node -> SUBSET Node]
    /\ \A n \in Node : contacts[n] \subseteq Knows[n]
    /\ asked \in [Node -> SUBSET Node]
    /\ requests \in [Node -> [Node -> [Node -> RequestState]]]
    /\ mutex \in [Node -> Thread \cup {None}]
    /\ net \subseteq Message
    /\ tab \in [Node -> TabState]
    /\ invited \subseteq Node
    /\ used \in Usage

Typed == DataTyped /\ ThreadsTyped

LEMMA KnowsNodes == \A n \in Node : Knows[n] \subseteq Node /\ n \notin Knows[n]
BY ConversationAssumption

\* The frame of a sync that has todo left.
Syncing(who, todo) == Frame("next", who, None, FALSE, todo)

LEMMA FramesMade ==
    ASSUME NEW n \in Node, NEW pc \in PC, NEW who \in Node \cup {None},
           NEW about \in Node \cup {None}, NEW know \in BOOLEAN,
           NEW todo \in SUBSET Knows[n],
           pc \in {"add", "ask", "answer"} => about \in Knows[n],
           pc \in {"answer", "remove"} => who \in Node
    PROVE  FrameOf(n, Frame(pc, who, about, know, todo))
BY KnowsNodes DEF Frame, FrameOf, Frames, PC

LEMMA IdleFrame ==
    \A n \in Node : FrameOf(n, Idle)
BY DEF Idle, FrameOf, Frames, PC

\* One thread goes on to a frame.
LEMMA RunFacts ==
    ASSUME ThreadsTyped, NEW n \in Node, NEW t \in Thread, NEW f, FrameOf(n, f), Run(n, t, f)
    PROVE  /\ ThreadsTyped'
           /\ thread'[n][t] = f
           /\ \A k \in Node : \A u \in Thread :
                 k # n \/ u # t => thread'[k][u] = thread[k][u]
<1>1. thread' = [thread EXCEPT ![n][t] = f] BY DEF Run
<1>2. /\ thread'[n][t] = f
      /\ \A k \in Node : \A u \in Thread : k # n \/ u # t => thread'[k][u] = thread[k][u]
  BY <1>1 DEF ThreadsTyped
<1>3. thread' \in [Node -> [Thread -> Frames]]
  BY <1>1 DEF ThreadsTyped, FrameOf
<1>4. \A k \in Node : \A u \in Thread : FrameOf(k, thread'[k][u])
  BY <1>2 DEF ThreadsTyped
<1> QED BY <1>2, <1>3, <1>4 DEF ThreadsTyped, FrameOf

\* What Resume leaves behind: the next frame of a sync, or an idle thread.
LEMMA ResumeFacts ==
    ASSUME Typed, NEW n \in Node, NEW t \in Thread, NEW who \in Node \cup {None},
           NEW todo \in SUBSET Knows[n], Resume(n, t, who, todo)
    PROVE  /\ ThreadsTyped'
           /\ todo # {} => thread'[n][t] = Syncing(who, todo)
           /\ todo = {} => thread'[n][t] = Idle
           /\ \A k \in Node : \A u \in Thread :
                 k # n \/ u # t => thread'[k][u] = thread[k][u]
           /\ mutex' \in [Node -> Thread \cup {None}]
           /\ tab' \in [Node -> TabState]
           /\ \A k \in Node : tab'[k] # tab[k] => k = n /\ todo = {} /\ tab'[n] # "none"
<1>1. CASE todo # {}
  <2>1. Run(n, t, Syncing(who, todo)) /\ UNCHANGED <<mutex, tab>>
    BY <1>1 DEF Resume, Syncing
  <2>2. FrameOf(n, Syncing(who, todo)) BY FramesMade DEF PC, Syncing
  <2>3. /\ ThreadsTyped'
        /\ thread'[n][t] = Syncing(who, todo)
        /\ \A k \in Node : \A u \in Thread :
              k # n \/ u # t => thread'[k][u] = thread[k][u]
    BY <2>1, <2>2, RunFacts DEF Typed
  <2>4. /\ mutex' \in [Node -> Thread \cup {None}] /\ tab' \in [Node -> TabState]
        /\ tab' = tab
    BY <2>1 DEF Typed, DataTyped
  <2> QED BY <1>1, <2>3, <2>4
<1>2. CASE todo = {}
  <2>1. /\ Run(n, t, Idle)
        /\ mutex' = [mutex EXCEPT ![n] = IF @ = t THEN None ELSE @]
        /\ tab' = [tab EXCEPT ![n] = IF mutex[n] = t /\ @ = "none"
                                     THEN IF t = "gui" THEN "mine" ELSE "theirs"
                                     ELSE @]
    BY <1>2 DEF Resume
  <2>2. mutex' \in [Node -> Thread \cup {None}]
    BY <2>1 DEF Typed, DataTyped
  <2>3. tab' \in [Node -> TabState]
    BY <2>1 DEF Typed, DataTyped, TabState
  <2>4. \A k \in Node : tab'[k] # tab[k] => k = n /\ tab'[n] # "none"
    BY <2>1 DEF Typed, DataTyped
  <2> QED BY <1>2, <2>1, <2>2, <2>3, <2>4, IdleFrame, RunFacts DEF Typed
<1> QED BY <1>1, <1>2

\* What begins a sync: a conversation that was not there begins empty.
LEMMA BeginFacts ==
    ASSUME Typed, NEW n \in Node, NEW t \in Thread, NEW who \in Node,
           NEW todo \in SUBSET Knows[n], Begin(n, t, who, todo)
    PROVE  /\ ThreadsTyped'
           /\ thread'[n][t] = Syncing(who, todo)
           /\ \A k \in Node : \A u \in Thread :
                 k # n \/ u # t => thread'[k][u] = thread[k][u]
           /\ live' \in [Node -> BOOLEAN]
           /\ live'[n]
           /\ contacts' \in [Node -> SUBSET Node]
           /\ asked' \in [Node -> SUBSET Node]
           /\ requests' \in [Node -> [Node -> [Node -> RequestState]]]
           /\ mutex' \in [Node -> Thread \cup {None}]
           /\ \A k \in Node : k # n \/ live[n] =>
                 /\ live'[k] = live[k] /\ contacts'[k] = contacts[k]
                 /\ asked'[k] = asked[k] /\ requests'[k] = requests[k]
           /\ ~ live[n] => /\ contacts'[n] = {} /\ asked'[n] = {}
                           /\ requests'[n] = [id \in Node |-> NoRequests]
<1>1. /\ live' = [live EXCEPT ![n] = TRUE]
      /\ contacts' = [contacts EXCEPT ![n] = IF live[n] THEN @ ELSE {}]
      /\ asked' = [asked EXCEPT ![n] = IF live[n] THEN @ ELSE {}]
      /\ requests' = [requests EXCEPT ![n] = IF live[n] THEN @ ELSE [id \in Node |-> NoRequests]]
      /\ mutex' = [mutex EXCEPT ![n] = t]
      /\ Run(n, t, Syncing(who, todo))
  BY DEF Begin, Syncing
<1>2. FrameOf(n, Syncing(who, todo)) BY FramesMade DEF PC, Syncing
<1>3. [id \in Node |-> NoRequests] \in [Node -> [Node -> RequestState]]
  BY DEF NoRequests, RequestState
<1>4. /\ live' \in [Node -> BOOLEAN] /\ contacts' \in [Node -> SUBSET Node]
      /\ asked' \in [Node -> SUBSET Node] /\ mutex' \in [Node -> Thread \cup {None}]
  BY <1>1 DEF Typed, DataTyped
<1>5. requests' \in [Node -> [Node -> [Node -> RequestState]]]
  <2> DEFINE z == [id \in Node |-> NoRequests]
  <2>1. z \in [Node -> [Node -> RequestState]] BY <1>3
  <2> HIDE DEF z
  <2> QED BY <1>1, <2>1 DEF Typed, DataTyped, z
<1>6. \A k \in Node : k # n \/ live[n] =>
         /\ live'[k] = live[k] /\ contacts'[k] = contacts[k]
         /\ asked'[k] = asked[k] /\ requests'[k] = requests[k]
  BY <1>1 DEF Typed, DataTyped
<1>7. /\ live'[n]
      /\ ~ live[n] => /\ contacts'[n] = {} /\ asked'[n] = {}
                      /\ requests'[n] = [id \in Node |-> NoRequests]
  BY <1>1 DEF Typed, DataTyped
<1>8. /\ ThreadsTyped'
      /\ thread'[n][t] = Syncing(who, todo)
      /\ \A k \in Node : \A u \in Thread : k # n \/ u # t => thread'[k][u] = thread[k][u]
  BY <1>1, <1>2, RunFacts DEF Typed
<1> QED BY <1>4, <1>5, <1>6, <1>7, <1>8

LEMMA BeginShrinks ==
    ASSUME Typed, NEW n \in Node, NEW t \in Thread, NEW who \in Node,
           NEW todo \in SUBSET Knows[n], Begin(n, t, who, todo)
    PROVE  \A k \in Node : /\ k # n => live'[k] = live[k]
                           /\ contacts'[k] \subseteq contacts[k]
                           /\ asked'[k] \subseteq asked[k]
<1> TAKE k \in Node
<1>1. CASE k # n \/ live[n] BY <1>1, BeginFacts
<1>2. CASE k = n /\ ~ live[n] BY <1>2, BeginFacts
<1> QED BY <1>1, <1>2

\* Messages that are sent are messages, and only contacts get them.
LEMMA PostFacts ==
    ASSUME NEW n \in Node, NEW type \in MessageType,
           NEW to, NEW id \in Node, NEW list \in SUBSET Node
    PROVE  /\ Post(n, type, to, id, list) \subseteq Message
           /\ \A m \in Post(n, type, to, id, list) :
                 m.type = type /\ m.src = n /\ m.dst \in to /\ m.id = id /\ m.list = list
<1> SUFFICES ASSUME NEW m \in Post(n, type, to, id, list)
             PROVE  /\ m \in Message
                    /\ m.type = type /\ m.src = n /\ m.dst \in to /\ m.id = id /\ m.list = list
  OBVIOUS
<1>1. PICK c \in to \cap Knows[n] :
         m = [type |-> type, src |-> n, dst |-> c, id |-> id, list |-> list, know |-> FALSE]
  BY DEF Post, Msg
<1>2. c \in Node BY KnowsNodes
<1> QED BY <1>1, <1>2 DEF Message

LEMMA SyncFacts ==
    ASSUME NEW n \in Node, NEW s \in SUBSET Node
    PROVE  /\ SyncTo(n, s) \subseteq Message
           /\ \A m \in SyncTo(n, s) : m.type = "sync" /\ m.src = n /\ m.dst \in s /\ m.list = s
BY PostFacts DEF SyncTo, MessageType

LEMMA TakeFacts ==
    ASSUME used \in Usage, NEW m, NEW sent, Take(m, sent)
    PROVE  /\ net' \subseteq net \cup sent
           /\ used' \in Usage
           /\ used'.created = used.created /\ used'.quits = used.quits /\ used'.cuts = used.cuts
<1>1. CASE net' = (net \ {m}) \cup sent /\ UNCHANGED used
  BY <1>1
<1>2. CASE net' = net \cup sent /\ used' = [used EXCEPT !.dups = @ + 1]
  BY <1>2 DEF Usage
<1> QED BY <1>1, <1>2 DEF Take

LEMMA Counting ==
    ASSUME NEW u \in Usage
    PROVE  /\ [u EXCEPT !.quits = @ + 1] \in Usage /\ [u EXCEPT !.quits = @ + 1].quits # 0
           /\ [u EXCEPT !.adds = @ + 1] \in Usage
           /\ [u EXCEPT !.cuts = @ + 1] \in Usage /\ [u EXCEPT !.cuts = @ + 1].cuts # 0
<1>1. u.adds + 1 \in Nat /\ u.quits + 1 \in Nat /\ u.quits + 1 # 0 /\ u.cuts + 1 \in Nat /\ u.cuts + 1 # 0
  BY DEF Usage
<1> QED BY <1>1 DEF Usage

\* The frame of a thread that is at some place.
LEMMA FrameAt ==
    ASSUME Typed, NEW n \in Node, NEW t \in Thread
    PROVE  /\ FrameOf(n, thread[n][t])
           /\ thread[n][t].todo \in SUBSET Knows[n]
           /\ thread[n][t].who \in Node \cup {None}
           /\ thread[n][t].about \in Node \cup {None}
           /\ thread[n][t].pc \in PC
           /\ thread[n][t].know \in BOOLEAN
BY DEF Typed, ThreadsTyped, FrameOf, Frames

LEMMA NextContactTyped ==
    ASSUME Typed, NEW n \in Node, NEW t \in Thread, NextContact(n, t)
    PROVE  Typed'
<1> DEFINE f == thread[n][t]
<1>1. /\ FrameOf(n, f) /\ f.todo \in SUBSET Knows[n] /\ f.who \in Node \cup {None}
  BY FrameAt
<1>2. UNCHANGED <<live, contacts, asked, requests, net, invited, used>>
  BY DEF NextContact
<1>3. ASSUME NEW todo \in SUBSET Knows[n], Resume(n, t, f.who, todo)
      PROVE  Typed'
  BY <1>1, <1>2, <1>3, ResumeFacts DEF Typed, DataTyped
<1>4. CASE f.todo = {}
  BY <1>1, <1>3, <1>4 DEF NextContact
<1>5. ASSUME NEW c \in f.todo,
             Run(n, t, [f EXCEPT !.pc = Decision(n, c), !.about = c]),
             UNCHANGED <<mutex, tab>>,
             Decision(n, c) # "present"
      PROVE  Typed'
  <2> DEFINE d == Decision(n, c)
             g == [f EXCEPT !.pc = d, !.about = c]
  <2>1. d \in {"add", "ask"} BY <1>5 DEF Decision
  <2>2. c \in Knows[n] /\ c \in Node BY <1>1, KnowsNodes
  <2> HIDE DEF d
  <2>3. FrameOf(n, g) BY <1>1, <2>1, <2>2 DEF FrameOf, Frames, PC
  <2>4. Run(n, t, g) BY <1>5 DEF d
  <2> HIDE DEF g
  <2>5. ThreadsTyped' BY <2>3, <2>4, RunFacts DEF Typed
  <2> QED BY <1>2, <1>5, <2>5 DEF Typed, DataTyped
<1>6. CASE f.todo # {}
  <2>1. PICK c \in f.todo :
           IF Decision(n, c) = "present"
           THEN Resume(n, t, f.who, f.todo \ {c})
           ELSE /\ Run(n, t, [f EXCEPT !.pc = Decision(n, c), !.about = c])
                /\ UNCHANGED <<mutex, tab>>
    BY <1>6 DEF NextContact
  <2>2. CASE Decision(n, c) = "present"
    <3>1. f.todo \ {c} \in SUBSET Knows[n] BY <1>1
    <3> QED BY <1>3, <2>1, <2>2, <3>1
  <2>3. CASE Decision(n, c) # "present"
    BY <1>5, <2>1, <2>3
  <2> QED BY <2>2, <2>3
<1> QED BY <1>4, <1>6

LEMMA AddNowTyped ==
    ASSUME Typed, NEW n \in Node, NEW t \in Thread, AddNow(n, t)
    PROVE  Typed'
<1> DEFINE f == thread[n][t]
<1>1. /\ FrameOf(n, f) /\ f.todo \in SUBSET Knows[n] /\ f.who \in Node \cup {None}
      /\ f.pc = "add"
  BY FrameAt DEF AddNow, At
<1>2. f.about \in Knows[n] /\ f.about \in Node BY <1>1, KnowsNodes DEF FrameOf
<1>3. /\ UNCHANGED <<live, asked, requests, invited, used>>
      /\ Resume(n, t, f.who, f.todo \ {f.about})
      /\ \/ UNCHANGED <<contacts, net>>
         \/ /\ contacts' = [contacts EXCEPT ![n] = @ \cup {f.about}]
            /\ net' = net \cup SyncTo(n, contacts[n] \cup {f.about})
  BY DEF AddNow
<1>4. f.todo \ {f.about} \in SUBSET Knows[n] BY <1>1
<1>5. /\ ThreadsTyped' /\ mutex' \in [Node -> Thread \cup {None}]
      /\ tab' \in [Node -> TabState]
  BY <1>1, <1>3, <1>4, ResumeFacts
<1>6. /\ contacts' \in [Node -> SUBSET Node] /\ net' \subseteq Message
      /\ \A k \in Node : contacts'[k] \subseteq Knows[k]
  <2>1. CASE UNCHANGED <<contacts, net>> BY <2>1 DEF Typed, DataTyped
  <2>2. CASE /\ contacts' = [contacts EXCEPT ![n] = @ \cup {f.about}]
             /\ net' = net \cup SyncTo(n, contacts[n] \cup {f.about})
    <3>1. contacts[n] \cup {f.about} \in SUBSET Node BY <1>2 DEF Typed, DataTyped
    <3>2. net' \subseteq Message BY <2>2, <3>1, SyncFacts DEF Typed, DataTyped
    <3> HIDE DEF f
    <3>3. /\ contacts' \in [Node -> SUBSET Node]
          /\ \A k \in Node : contacts'[k] \subseteq Knows[k]
      BY <1>2, <2>2 DEF Typed, DataTyped
    <3> QED BY <3>2, <3>3
  <2> QED BY <1>3, <2>1, <2>2
<1> QED BY <1>3, <1>5, <1>6 DEF Typed, DataTyped

LEMMA AskAboutTyped ==
    ASSUME Typed, NEW n \in Node, NEW t \in Thread, AskAbout(n, t)
    PROVE  Typed'
<1> DEFINE f == thread[n][t]
           r == [c \in Node |-> IF c \in contacts[n] THEN "SENT" ELSE "NONE"]
<1>1. /\ FrameOf(n, f) /\ f.todo \in SUBSET Knows[n] /\ f.who \in Node \cup {None}
      /\ f.pc = "ask"
  BY FrameAt DEF AskAbout, At
<1>2. f.about \in Knows[n] /\ f.about \in Node BY <1>1, KnowsNodes DEF FrameOf
<1>3. /\ UNCHANGED <<live, contacts, invited, used>>
      /\ Resume(n, t, f.who, f.todo \ {f.about})
      /\ asked' = [asked EXCEPT ![n] = @ \cup {f.about}]
      /\ requests' = [requests EXCEPT ![n][f.about] = r]
      /\ net' = net \cup Post(n, "ask_req", contacts[n], f.about, {})
  BY DEF AskAbout
<1>4. f.todo \ {f.about} \in SUBSET Knows[n] BY <1>1
<1>5. /\ ThreadsTyped' /\ mutex' \in [Node -> Thread \cup {None}]
      /\ tab' \in [Node -> TabState]
  BY <1>1, <1>3, <1>4, ResumeFacts
<1>6. r \in [Node -> RequestState] BY DEF RequestState
<1>7. asked' \in [Node -> SUBSET Node] /\ net' \subseteq Message
  BY <1>2, <1>3, PostFacts DEF MessageType, Typed, DataTyped
<1> HIDE DEF r
<1>8. requests' \in [Node -> [Node -> [Node -> RequestState]]]
  BY <1>2, <1>3, <1>6 DEF Typed, DataTyped
<1> QED BY <1>3, <1>5, <1>7, <1>8 DEF Typed, DataTyped

LEMMA CreateTyped ==
    ASSUME Typed, NEW n \in Node, NEW s, Create(n, s)
    PROVE  Typed'
<1>1. /\ s \in SUBSET Knows[n] /\ Begin(n, "gui", n, s) /\ "gui" \in Thread
      /\ invited' = invited \cup {n} \cup s
      /\ used' = [used EXCEPT !.created = TRUE]
      /\ UNCHANGED <<net, tab>>
  BY DEF Create, Thread
<1>2. used' \in Usage /\ invited' \subseteq Node
  BY <1>1, KnowsNodes DEF Typed, DataTyped, Usage
<1> QED BY <1>1, <1>2, BeginFacts DEF Typed, DataTyped

LEMMA ShowTyped ==
    ASSUME Typed, NEW n \in Node, Show(n)
    PROVE  Typed'
<1>1. /\ net' = net \cup (IF tab[n] = "mine" THEN SyncTo(n, contacts[n]) ELSE {})
      /\ tab' = [tab EXCEPT ![n] = "open"]
      /\ UNCHANGED <<live, contacts, asked, requests, thread, mutex, invited, used>>
  BY DEF Show
<1>2. net' \subseteq Message BY <1>1, SyncFacts DEF Typed, DataTyped
<1> QED BY <1>1, <1>2 DEF Typed, DataTyped, ThreadsTyped, TabState

LEMMA AddContactTyped ==
    ASSUME Typed, NEW n \in Node, NEW c \in Node, AddContact(n, c)
    PROVE  Typed'
<1> DEFINE d == Decision(n, c)
<1>1. /\ Run(n, "gui", Frame(d, c, c, FALSE, {c})) /\ "gui" \in Thread
      /\ c \in Knows[n] /\ d # "present"
      /\ invited' = invited \cup {c}
      /\ used' = [used EXCEPT !.adds = @ + 1]
      /\ UNCHANGED <<live, contacts, asked, requests, mutex, net, tab>>
  BY DEF AddContact, Thread
<1>2. d \in {"add", "ask"} BY <1>1 DEF Decision
<1> HIDE DEF d
<1>3. FrameOf(n, Frame(d, c, c, FALSE, {c})) BY <1>1, <1>2, FramesMade DEF PC, Syncing
<1>4. ThreadsTyped' BY <1>1, <1>3, RunFacts DEF Typed
<1>5. used' \in Usage /\ invited' \subseteq Node
  BY <1>1, Counting DEF Typed, DataTyped
<1> QED BY <1>1, <1>4, <1>5 DEF Typed, DataTyped

LEMMA QuitTyped ==
    ASSUME Typed, NEW n \in Node, Quit(n)
    PROVE  Typed' /\ used'.quits # 0
<1>1. /\ net' = net \cup Post(n, "quit", contacts[n], n, {})
      /\ live' = [live EXCEPT ![n] = FALSE]
      /\ tab' = [tab EXCEPT ![n] = "none"]
      /\ invited' = invited \ {n}
      /\ used' = [used EXCEPT !.quits = @ + 1]
      /\ UNCHANGED <<contacts, asked, requests, thread, mutex>>
  BY DEF Quit
<1>2. net' \subseteq Message BY <1>1, PostFacts DEF MessageType, Typed, DataTyped
<1>3. used' \in Usage /\ used'.quits # 0 BY <1>1, Counting DEF Typed, DataTyped
<1> QED BY <1>1, <1>2, <1>3 DEF Typed, DataTyped, ThreadsTyped, TabState

LEMMA ForgetFacts ==
    ASSUME Typed, NEW n \in Node, NEW c \in Node, Forget(n, c)
    PROVE  /\ contacts' \in [Node -> SUBSET Node]
           /\ asked' \in [Node -> SUBSET Node]
           /\ requests' \in [Node -> [Node -> [Node -> RequestState]]]
           /\ \A k \in Node : contacts'[k] \subseteq contacts[k] /\ asked'[k] \subseteq asked[k]
<1>1. NoRequests \in [Node -> RequestState] BY DEF NoRequests, RequestState
<1>2. /\ contacts' = [contacts EXCEPT ![n] = @ \ {c}]
      /\ asked' = [asked EXCEPT ![n] = @ \ {c}]
      /\ requests' = [requests EXCEPT ![n][c] = NoRequests]
  BY DEF Forget
<1> QED BY <1>1, <1>2 DEF Typed, DataTyped

LEMMA DisconnectedTyped ==
    ASSUME Typed, NEW n \in Node, NEW c \in Node, Disconnected(n, c)
    PROVE  Typed' /\ used'.cuts # 0
<1>1. /\ Forget(n, c)
      /\ used' = [used EXCEPT !.cuts = @ + 1]
      /\ UNCHANGED <<live, thread, mutex, net, tab, invited>>
  BY DEF Disconnected
<1>2. used' \in Usage /\ used'.cuts # 0 BY <1>1, Counting DEF Typed, DataTyped
<1>3. \A k \in Node : contacts'[k] \subseteq Knows[k]
  BY <1>1, ForgetFacts DEF Typed, DataTyped
<1> QED BY <1>1, <1>2, <1>3, ForgetFacts DEF Typed, DataTyped, ThreadsTyped

LEMMA RemoveContactTyped ==
    ASSUME Typed, NEW n \in Node, RemoveContact(n)
    PROVE  Typed'
<1> DEFINE c == thread[n]["service"].who
<1>1. /\ At(n, "service", "remove") /\ "service" \in Thread
      /\ Forget(n, c)
      /\ Run(n, "service", Idle)
      /\ UNCHANGED <<live, mutex, net, tab, invited, used>>
  BY DEF RemoveContact, Thread
<1>2. c \in Node BY <1>1, FrameAt DEF FrameOf, At
<1> HIDE DEF c
<1>3. ThreadsTyped' BY <1>1, IdleFrame, RunFacts DEF Typed
<1>4. \A k \in Node : contacts'[k] \subseteq Knows[k]
  BY <1>1, <1>2, ForgetFacts DEF Typed, DataTyped
<1> QED BY <1>1, <1>2, <1>3, <1>4, ForgetFacts DEF Typed, DataTyped

\* A message that the service's thread takes.
LEMMA Taken ==
    ASSUME Typed, NEW n \in Node, NEW m \in net
    PROVE  /\ m \in Message
           /\ m.src \in Node /\ m.dst \in Node /\ m.id \in Node
           /\ m.list \in SUBSET Node /\ m.know \in BOOLEAN
BY DEF Typed, DataTyped, Message

LEMMA IgnoreTyped ==
    ASSUME Typed, NEW n \in Node, NEW m \in net, Ignore(n, m)
    PROVE  Typed'
<1>1. /\ Take(m, {})
      /\ UNCHANGED <<live, contacts, asked, requests, thread, mutex, tab, invited>>
  BY DEF Ignore
<1> QED BY <1>1, TakeFacts DEF Typed, DataTyped, ThreadsTyped

LEMMA ReceivedSyncTyped ==
    ASSUME Typed, NEW n \in Node, NEW m \in net, ReceivedSync(n, m)
    PROVE  Typed'
<1> DEFINE todo == {m.src} \cup (m.list \cap Knows[n])
<1>1. /\ ~ Ignored(n, m) /\ Begin(n, "service", m.src, todo) /\ "service" \in Thread
      /\ Take(m, {}) /\ UNCHANGED <<tab, invited>>
  BY DEF ReceivedSync, Thread
<1>2. m.src \in Node /\ todo \in SUBSET Knows[n] BY <1>1, Taken DEF Ignored
<1> HIDE DEF todo
<1>3. net' \subseteq Message /\ used' \in Usage
  BY <1>1, TakeFacts DEF Typed, DataTyped
<1>4. \A k \in Node : contacts'[k] \subseteq Knows[k]
  BY <1>1, <1>2, BeginFacts DEF Typed, DataTyped
<1> QED BY <1>1, <1>2, <1>3, <1>4, BeginFacts DEF Typed, DataTyped

LEMMA ReceivedAskReqTyped ==
    ASSUME Typed, NEW n \in Node, NEW m \in net, ReceivedAskReq(n, m)
    PROVE  Typed'
<1> DEFINE k == m.id \in Knows[n]
           a == Msg("ask_res", n, m.src, m.id, {}, k)
<1>1. /\ Take(m, {a})
      /\ UNCHANGED <<live, contacts, asked, requests, thread, mutex, tab, invited>>
  BY DEF ReceivedAskReq
<1>2. m.src \in Node /\ m.id \in Node /\ k \in BOOLEAN BY Taken
<1> HIDE DEF k
<1>3. a \in Message BY <1>2 DEF Msg, Message, MessageType
<1> QED BY <1>1, <1>3, TakeFacts DEF Typed, DataTyped, ThreadsTyped

LEMMA LookupTyped ==
    ASSUME Typed, NEW n \in Node, NEW m \in net, Lookup(n, m)
    PROVE  Typed'
<1> DEFINE pc == IF m.type = "quit" THEN "remove" ELSE "answer"
<1>1. /\ ~ Ignored(n, m) /\ m.type \in {"ask_res", "quit"} /\ Take(m, {})
      /\ Run(n, "service", Frame(pc, m.src, m.id, m.know, {})) /\ "service" \in Thread
      /\ UNCHANGED <<live, contacts, asked, requests, mutex, tab, invited>>
  BY DEF Lookup, Thread
<1>2. pc \in {"remove", "answer"} /\ (pc = "answer" => m.id \in Knows[n])
  BY <1>1 DEF Ignored
<1> HIDE DEF pc
<1>3. FrameOf(n, Frame(pc, m.src, m.id, m.know, {}))
  <2>1. /\ m.src \in Node \cup {None} /\ m.id \in Node \cup {None} /\ m.know \in BOOLEAN
        /\ {} \in SUBSET Knows[n] /\ pc \in PC
    BY <1>2, Taken DEF PC
  <2> QED BY <1>2, <2>1, Taken, FramesMade
<1>4. ThreadsTyped' BY <1>1, <1>3, RunFacts DEF Typed
<1>5. net' \subseteq Message /\ used' \in Usage
  BY <1>1, TakeFacts DEF Typed, DataTyped
<1> QED BY <1>1, <1>4, <1>5 DEF Typed, DataTyped

\* What know_contact writes down.
Marked(n) ==
    LET f == thread[n]["service"] IN
    IF f.about \in asked[n] /\ requests[n][f.about][f.who] # "NONE"
    THEN [requests[n][f.about] EXCEPT ![f.who] = IF f.know THEN "KNOW" ELSE "DONT_KNOW"]
    ELSE requests[n][f.about]

\* What an answer changes.
LEMMA AnswerFacts ==
    ASSUME Typed, NEW n \in Node, ApplyAnswer(n)
    PROVE  LET f == thread[n]["service"]
               r == Marked(n)
           IN /\ FrameOf(n, f) /\ f.pc = "answer"
              /\ f.about \in Knows[n] /\ f.about \in Node /\ f.who \in Node
              /\ r \in [Node -> RequestState]
              /\ requests' = [requests EXCEPT ![n][f.about] = r]
              /\ Run(n, "service", IF Clique(n, f.about, r) = "PART"
                                   THEN Frame("add", f.who, f.about, FALSE, {f.about})
                                   ELSE Idle)
              /\ UNCHANGED <<live, contacts, asked, mutex, net, tab, invited, used>>
<1> DEFINE f == thread[n]["service"]
           r == Marked(n)
<1>1. /\ FrameOf(n, f) /\ f.pc = "answer"
  BY FrameAt DEF ApplyAnswer, At, Thread
<1>2. f.about \in Knows[n] /\ f.about \in Node /\ f.who \in Node
  BY <1>1, KnowsNodes DEF FrameOf
<1>3. r \in [Node -> RequestState]
  BY <1>2 DEF Marked, Typed, DataTyped, RequestState
<1>4. /\ requests' = [requests EXCEPT ![n][f.about] = r]
      /\ Run(n, "service", IF Clique(n, f.about, r) = "PART"
                           THEN Frame("add", f.who, f.about, FALSE, {f.about})
                           ELSE Idle)
      /\ UNCHANGED <<live, contacts, asked, mutex, net, tab, invited, used>>
  BY DEF ApplyAnswer, Marked
<1> QED BY <1>1, <1>2, <1>3, <1>4

LEMMA ApplyAnswerTyped ==
    ASSUME Typed, NEW n \in Node, ApplyAnswer(n)
    PROVE  Typed'
<1> DEFINE f == thread[n]["service"]
           r == Marked(n)
           c == Clique(n, f.about, r) = "PART"
           g == IF c THEN Frame("add", f.who, f.about, FALSE, {f.about}) ELSE Idle
<1>1. /\ f.about \in Knows[n] /\ f.about \in Node /\ f.who \in Node
      /\ r \in [Node -> RequestState]
      /\ requests' = [requests EXCEPT ![n][f.about] = r]
      /\ Run(n, "service", g) /\ "service" \in Thread
      /\ UNCHANGED <<live, contacts, asked, mutex, net, tab, invited, used>>
  BY AnswerFacts DEF Thread
<1> HIDE DEF c
<1>2. FrameOf(n, g)
  <2>1. {f.about} \in SUBSET Knows[n] BY <1>1
  <2>2. FrameOf(n, Frame("add", f.who, f.about, FALSE, {f.about}))
    BY <1>1, <2>1, FramesMade DEF PC, Syncing
  <2> QED BY <2>2, IdleFrame
<1> HIDE DEF g, r
<1>3. ThreadsTyped' BY <1>1, <1>2, RunFacts DEF Typed
<1>4. requests' \in [Node -> [Node -> [Node -> RequestState]]]
  BY <1>1 DEF Typed, DataTyped
<1> QED BY <1>1, <1>3, <1>4 DEF Typed, DataTyped

LEMMA StepTyped ==
    ASSUME Typed, [Next]_vars
    PROVE  Typed'
<1>1. CASE UNCHANGED vars
  BY <1>1 DEF vars, Typed, DataTyped, ThreadsTyped
<1>2. ASSUME NEW n \in Node, NEW m \in net, Handle(n, m)
      PROVE  Typed'
  BY <1>2, IgnoreTyped, ReceivedSyncTyped, ReceivedAskReqTyped, LookupTyped DEF Handle
<1>3. CASE Next
  BY <1>2, <1>3, CreateTyped, AddContactTyped, DisconnectedTyped, ShowTyped, QuitTyped,
     NextContactTyped, AddNowTyped, AskAboutTyped, RemoveContactTyped, ApplyAnswerTyped
  DEF Next, Step
<1> QED BY <1>1, <1>3

LEMMA InitTyped ==
    ASSUME Init
    PROVE  Typed
<1>1. ThreadsTyped BY IdleFrame DEF Init, ThreadsTyped, FrameOf
<1>2. used \in Usage BY DEF Init, Usage
<1>3. requests \in [Node -> [Node -> [Node -> RequestState]]]
  BY DEF Init, NoRequests, RequestState
<1> QED BY <1>1, <1>2, <1>3 DEF Init, Typed, DataTyped, TabState

LEMMA TypedAlways == Spec => []Typed
<1>1. Init => Typed BY InitTyped
<1>2. Typed /\ [Next]_vars => Typed' BY StepTyped
<1> QED BY <1>1, <1>2, PTL DEF Spec

\* A mishap at a node is not forgotten.
LEMMA TornGrows ==
    ASSUME [Next]_vars
    PROVE  torn \subseteq torn' /\ torn' \subseteq torn \cup Node
<1> DEFINE P == torn \subseteq torn' /\ torn' \subseteq torn \cup Node
<1>1. ASSUME NEW n \in Node, NEW mishap, Tear(n, mishap)
      PROVE  P
  BY <1>1 DEF Tear
<1>2. ASSUME UNCHANGED torn PROVE P BY <1>2
<1> HIDE DEF P
<1>3. ASSUME NEW n \in Node, NEW m, Handle(n, m)
      PROVE  P
  BY <1>2, <1>3 DEF Handle, Ignore, ReceivedSync, ReceivedAskReq, Lookup
<1>4. ASSUME NEW n \in Node, NEW t \in Thread, Step(n, t)
      PROVE  P
  BY <1>1, <1>2, <1>4 DEF Step, NextContact, AddNow, AskAbout
<1>5. ASSUME NEW n \in Node, NEW c, AddContact(n, c) \/ Disconnected(n, c)
      PROVE  P
  BY <1>1, <1>5 DEF AddContact, Disconnected, Forget
<1>6. ASSUME NEW n \in Node, NEW s, Create(n, s) \/ Show(n) \/ Quit(n)
      PROVE  P
  BY <1>2, <1>6 DEF Create, Show, Quit
<1>7. ASSUME NEW n \in Node, RemoveContact(n) \/ ApplyAnswer(n)
      PROVE  P
  BY <1>1, <1>7 DEF RemoveContact, Forget, ApplyAnswer
<1>8. ASSUME Next PROVE P BY <1>3, <1>4, <1>5, <1>6, <1>7, <1>8 DEF Next
<1>9. ASSUME UNCHANGED vars PROVE P BY <1>2, <1>9 DEF vars
<1> QED BY <1>8, <1>9 DEF P

\* The types hold: a member is always a contact of the node that has it, and
\* never the node itself, whatever lists syncs pass on.
THEOREM TypesHold == Spec => []TypeOK
<1>1. Spec => []Typed BY TypedAlways
<1>2. Spec => [](scenario \in Scenarios)
  <2>1. Init => scenario \in Scenarios BY DEF Init
  <2>2. scenario \in Scenarios /\ [Next]_vars => (scenario \in Scenarios)'
    BY DEF Next, vars
  <2> QED BY <2>1, <2>2, PTL DEF Spec
<1>3. Spec => [](torn \subseteq Node)
  <2>1. Init => torn \subseteq Node BY DEF Init
  <2>2. torn \subseteq Node /\ [Next]_vars => (torn \subseteq Node)' BY TornGrows
  <2> QED BY <2>1, <2>2, PTL DEF Spec
<1>4. Typed /\ torn \subseteq Node /\ scenario \in Scenarios => TypeOK
  BY DEF Typed, DataTyped, ThreadsTyped, TypeOK, FrameOf, Frames, PC
<1> QED BY <1>1, <1>2, <1>3, <1>4, PTL

(***************************************************************************)
(* Who is named                                                            *)
(***************************************************************************)
\* A thread of n with frame f, where S are the invited: if it works, n is one
\* of them, and so is everybody that it may add or ask about.  An answer may
\* name anybody: only pending questions let it through.
FrameWithin(n, f, S) ==
    /\ f.pc # "idle" => n \in S
    /\ f.pc \in {"next", "add", "ask"} => f.todo \subseteq S
    /\ f.pc \in {"add", "ask"} => f.about \in S

SyncWithin(m, S) ==
    m.type = "sync" => m.src \in S /\ m.dst \in S /\ m.list \subseteq S

ThreadsWithin == \A n \in Node : \A t \in Thread : FrameWithin(n, thread[n][t], invited)
NodesWithin == \A n \in Node : /\ live[n] \/ tab[n] # "none" => n \in invited
                               /\ contacts[n] \subseteq invited
                               /\ asked[n] \subseteq invited
NetWithin == \A m \in net : SyncWithin(m, invited)

Within == ThreadsWithin /\ NodesWithin /\ NetWithin
Invitations == used.quits = 0 => Within

\* One thread goes on, and nobody is uninvited.
LEMMA ThreadsWithinStep ==
    ASSUME ThreadsWithin, invited \subseteq invited', NEW n \in Node, NEW t \in Thread,
           FrameWithin(n, thread'[n][t], invited'),
           \A k \in Node : \A u \in Thread : k # n \/ u # t => thread'[k][u] = thread[k][u]
    PROVE  ThreadsWithin'
<1> SUFFICES ASSUME NEW k \in Node, NEW u \in Thread
             PROVE  FrameWithin(k, thread'[k][u], invited')
  BY DEF ThreadsWithin
<1>1. CASE k = n /\ u = t BY <1>1
<1>2. CASE k # n \/ u # t
  <2>1. FrameWithin(k, thread[k][u], invited) BY DEF ThreadsWithin
  <2>2. FrameWithin(k, thread[k][u], invited') BY <2>1 DEF FrameWithin
  <2> QED BY <1>2, <2>2
<1> QED BY <1>1, <1>2

\* Messages are lost, doubled or sent.
LEMMA NetWithinStep ==
    ASSUME NetWithin, invited \subseteq invited', NEW sent, net' \subseteq net \cup sent,
           \A m \in sent : SyncWithin(m, invited')
    PROVE  NetWithin'
<1> SUFFICES ASSUME NEW m \in net'
             PROVE  SyncWithin(m, invited')
  BY DEF NetWithin
<1> QED BY DEF NetWithin, SyncWithin

LEMMA IdleWithin == \A n, S : FrameWithin(n, Idle, S)
BY DEF Idle, FrameWithin

LEMMA MadeWithin ==
    ASSUME NEW S, NEW n \in S, NEW pc, NEW who, NEW about, NEW know, NEW todo \in SUBSET S,
           pc \in {"add", "ask"} => about \in S
    PROVE  FrameWithin(n, Frame(pc, who, about, know, todo), S)
BY DEF Frame, FrameWithin

\* After Resume the thread has less to do, and a tab is only opened where a
\* thread was at work.
LEMMA ResumeWithin ==
    ASSUME Typed, Within, invited \subseteq invited', NEW n \in Node, n \in invited,
           NEW t \in Thread, NEW who \in Node \cup {None}, NEW todo \in SUBSET Knows[n],
           todo \subseteq invited, Resume(n, t, who, todo)
    PROVE  /\ ThreadsWithin'
           /\ \A k \in Node : tab'[k] # "none" => k \in invited'
<1>1. /\ thread'[n][t] \in {Syncing(who, todo), Idle}
      /\ \A k \in Node : \A u \in Thread : k # n \/ u # t => thread'[k][u] = thread[k][u]
      /\ \A k \in Node : tab'[k] # tab[k] => k = n
  BY ResumeFacts
<1>2. FrameWithin(n, thread'[n][t], invited')
  <2>1. FrameWithin(n, Syncing(who, todo), invited')
    BY MadeWithin DEF Syncing
  <2> QED BY <1>1, <2>1, IdleWithin
<1>3. ThreadsWithin' BY <1>1, <1>2, ThreadsWithinStep DEF Within
<1>4. \A k \in Node : tab'[k] # "none" => k \in invited'
  BY <1>1 DEF Within, NodesWithin
<1> QED BY <1>3, <1>4

LEMMA NextContactWithin ==
    ASSUME Typed, Within, NEW n \in Node, NEW t \in Thread, NextContact(n, t)
    PROVE  Within'
<1> DEFINE f == thread[n][t]
<1>1. /\ f.todo \in SUBSET Knows[n] /\ f.who \in Node \cup {None} /\ f.pc = "next"
  BY FrameAt DEF NextContact, At
<1>2. n \in invited /\ f.todo \subseteq invited
  <2>1. FrameWithin(n, f, invited) BY DEF Within, ThreadsWithin
  <2> QED BY <1>1, <2>1 DEF FrameWithin
<1>3. UNCHANGED <<live, contacts, asked, requests, net, invited, used>>
  BY DEF NextContact
<1>4. ThreadsWithin' /\ NodesWithin'
  <2>1. ASSUME NEW todo \in SUBSET f.todo, Resume(n, t, f.who, todo)
        PROVE  ThreadsWithin' /\ NodesWithin'
    <3>1. todo \in SUBSET Knows[n] /\ todo \subseteq invited BY <1>1, <1>2
    <3>2. /\ ThreadsWithin'
          /\ \A k \in Node : tab'[k] # "none" => k \in invited'
      BY <1>1, <1>2, <1>3, <2>1, <3>1, ResumeWithin
    <3> QED BY <1>3, <3>2 DEF Within, NodesWithin
  <2>2. ASSUME NEW c \in f.todo, NEW d \in {"add", "ask"},
               Run(n, t, [f EXCEPT !.pc = d, !.about = c]), UNCHANGED <<mutex, tab>>
        PROVE  ThreadsWithin' /\ NodesWithin'
    <3> DEFINE g == [f EXCEPT !.pc = d, !.about = c]
    <3>1. c \in Knows[n] /\ c \in Node BY <1>1, KnowsNodes
    <3>2. FrameOf(n, f) BY FrameAt
    <3>3. FrameOf(n, g) BY <3>1, <3>2, <2>2 DEF FrameOf, Frames, PC
    <3>4. FrameWithin(n, g, invited) BY <1>2, <2>2, <3>2 DEF FrameWithin, FrameOf, Frames
    <3>5. Run(n, t, g) BY <2>2
    <3> HIDE DEF g
    <3>6. ThreadsWithin'
      <4>1. /\ thread'[n][t] = g
            /\ \A k \in Node : \A u \in Thread : k # n \/ u # t => thread'[k][u] = thread[k][u]
        BY <3>3, <3>5, RunFacts DEF Typed
      <4> QED BY <1>3, <3>4, <4>1, ThreadsWithinStep DEF Within
    <3> QED BY <1>3, <2>2, <3>6 DEF Within, NodesWithin
  <2>3. CASE f.todo = {}
    BY <2>1, <2>3 DEF NextContact
  <2>4. CASE f.todo # {}
    <3>1. PICK c \in f.todo :
             IF Decision(n, c) = "present"
             THEN Resume(n, t, f.who, f.todo \ {c})
             ELSE /\ Run(n, t, [f EXCEPT !.pc = Decision(n, c), !.about = c])
                  /\ UNCHANGED <<mutex, tab>>
      BY <2>4 DEF NextContact
    <3>2. CASE Decision(n, c) = "present" BY <2>1, <3>1, <3>2
    <3>3. CASE Decision(n, c) # "present"
      <4>1. Decision(n, c) \in {"add", "ask"} BY <3>3 DEF Decision
      <4> QED BY <2>2, <3>1, <3>3, <4>1
    <3> QED BY <3>2, <3>3
  <2> QED BY <2>3, <2>4
<1>5. NetWithin' BY <1>3 DEF Within, NetWithin
<1> QED BY <1>4, <1>5 DEF Within

LEMMA AddNowWithin ==
    ASSUME Typed, Within, NEW n \in Node, NEW t \in Thread, AddNow(n, t)
    PROVE  Within'
<1> DEFINE f == thread[n][t]
           S == contacts[n] \cup {f.about}
<1>1. /\ FrameOf(n, f) /\ f.todo \in SUBSET Knows[n] /\ f.who \in Node \cup {None}
      /\ f.pc = "add"
  BY FrameAt DEF AddNow, At
<1>2. f.about \in Node BY <1>1, KnowsNodes DEF FrameOf
<1>3. /\ UNCHANGED <<live, asked, requests, invited, used>>
      /\ Resume(n, t, f.who, f.todo \ {f.about})
      /\ \/ UNCHANGED <<contacts, net>>
         \/ /\ contacts' = [contacts EXCEPT ![n] = S]
            /\ net' = net \cup SyncTo(n, S)
  BY DEF AddNow
<1>4. n \in invited /\ f.todo \subseteq invited /\ f.about \in invited
  <2>1. FrameWithin(n, f, invited) BY DEF Within, ThreadsWithin
  <2> QED BY <1>1, <2>1 DEF FrameWithin
<1>5. /\ ThreadsWithin'
      /\ \A k \in Node : tab'[k] # "none" => k \in invited'
  <2>1. f.todo \ {f.about} \in SUBSET Knows[n] /\ f.todo \ {f.about} \subseteq invited
    BY <1>1, <1>4
  <2> QED BY <1>1, <1>3, <1>4, <2>1, ResumeWithin
<1>6. S \in SUBSET Node /\ S \subseteq invited
  BY <1>2, <1>4 DEF Typed, DataTyped, Within, NodesWithin
<1> HIDE DEF S, f
<1>7. \A k \in Node : contacts'[k] \subseteq invited
  <2>1. \A k \in Node : contacts'[k] = contacts[k] \/ contacts'[k] = S
    BY <1>3 DEF Typed, DataTyped
  <2> QED BY <1>6, <2>1 DEF Within, NodesWithin
<1>8. NetWithin'
  <2>1. \A m \in SyncTo(n, S) : SyncWithin(m, invited')
    BY <1>3, <1>4, <1>6, SyncFacts DEF SyncWithin
  <2>2. net' \subseteq net \cup SyncTo(n, S) BY <1>3
  <2> QED BY <1>3, <2>1, <2>2, NetWithinStep DEF Within
<1> QED BY <1>3, <1>5, <1>7, <1>8 DEF Within, NodesWithin

LEMMA AskAboutWithin ==
    ASSUME Typed, Within, NEW n \in Node, NEW t \in Thread, AskAbout(n, t)
    PROVE  Within'
<1> DEFINE f == thread[n][t]
<1>1. /\ FrameOf(n, f) /\ f.todo \in SUBSET Knows[n] /\ f.who \in Node \cup {None}
      /\ f.pc = "ask"
  BY FrameAt DEF AskAbout, At
<1>2. f.about \in Node BY <1>1, KnowsNodes DEF FrameOf
<1>3. /\ UNCHANGED <<live, contacts, invited, used>>
      /\ Resume(n, t, f.who, f.todo \ {f.about})
      /\ asked' = [asked EXCEPT ![n] = @ \cup {f.about}]
      /\ net' = net \cup Post(n, "ask_req", contacts[n], f.about, {})
  BY DEF AskAbout
<1>4. n \in invited /\ f.todo \subseteq invited /\ f.about \in invited
  <2>1. FrameWithin(n, f, invited) BY DEF Within, ThreadsWithin
  <2> QED BY <1>1, <2>1 DEF FrameWithin
<1>5. /\ ThreadsWithin'
      /\ \A k \in Node : tab'[k] # "none" => k \in invited'
  <2>1. f.todo \ {f.about} \in SUBSET Knows[n] /\ f.todo \ {f.about} \subseteq invited
    BY <1>1, <1>4
  <2> QED BY <1>1, <1>3, <1>4, <2>1, ResumeWithin
<1> DEFINE p == Post(n, "ask_req", contacts[n], f.about, {})
<1>6. \A m \in p : SyncWithin(m, invited')
  <2>1. \A m \in p : m.type = "ask_req" BY <1>2, PostFacts DEF MessageType
  <2> QED BY <2>1 DEF SyncWithin
<1> HIDE DEF p
<1>7. NetWithin'
  <2>1. net' \subseteq net \cup p BY <1>3 DEF p
  <2> QED BY <1>3, <1>6, <2>1, NetWithinStep DEF Within
<1> HIDE DEF f
<1>8. \A k \in Node : asked'[k] \subseteq invited
  BY <1>3, <1>4 DEF Typed, DataTyped, Within, NodesWithin
<1> QED BY <1>3, <1>5, <1>7, <1>8 DEF Within, NodesWithin

LEMMA BeginWithin ==
    ASSUME Typed, Within, invited \subseteq invited', UNCHANGED tab,
           NEW n \in Node, NEW t \in Thread, NEW who \in Node, NEW todo \in SUBSET Knows[n],
           n \in invited', todo \subseteq invited', Begin(n, t, who, todo)
    PROVE  ThreadsWithin' /\ NodesWithin'
<1>1. /\ thread'[n][t] = Syncing(who, todo)
      /\ \A k \in Node : \A u \in Thread : k # n \/ u # t => thread'[k][u] = thread[k][u]
  BY BeginFacts
<1>2. FrameWithin(n, Syncing(who, todo), invited')
  BY MadeWithin DEF Syncing
<1>3. ThreadsWithin' BY <1>1, <1>2, ThreadsWithinStep DEF Within
<1>4. \A k \in Node : /\ k # n => live'[k] = live[k]
                      /\ contacts'[k] \subseteq contacts[k]
                      /\ asked'[k] \subseteq asked[k]
  BY BeginShrinks
<1>5. NodesWithin'
  <2> SUFFICES ASSUME NEW k \in Node
               PROVE  /\ live'[k] \/ tab'[k] # "none" => k \in invited'
                      /\ contacts'[k] \subseteq invited'
                      /\ asked'[k] \subseteq invited'
    BY DEF NodesWithin
  <2>1. /\ live[k] \/ tab[k] # "none" => k \in invited
        /\ contacts[k] \subseteq invited /\ asked[k] \subseteq invited
    BY DEF Within, NodesWithin
  <2>2. /\ k # n => live'[k] = live[k]
        /\ contacts'[k] \subseteq contacts[k] /\ asked'[k] \subseteq asked[k]
    BY <1>4
  <2>3. live'[k] \/ tab'[k] # "none" => k \in invited'
    <3>1. CASE k = n BY <3>1
    <3>2. CASE k # n
      <4>1. tab'[k] = tab[k] OBVIOUS
      <4>2. k \in invited => k \in invited' OBVIOUS
      <4> QED BY <2>1, <2>2, <3>2, <4>1, <4>2
    <3> QED BY <3>1, <3>2
  <2>4. contacts'[k] \subseteq invited' /\ asked'[k] \subseteq invited'
    BY <2>1, <2>2
  <2> QED BY <2>3, <2>4
<1> QED BY <1>3, <1>5

LEMMA CreateWithin ==
    ASSUME Typed, Within, NEW n \in Node, NEW s, Create(n, s)
    PROVE  Within'
<1>1. /\ s \in SUBSET Knows[n] /\ Begin(n, "gui", n, s) /\ "gui" \in Thread
      /\ invited' = invited \cup {n} \cup s
      /\ UNCHANGED <<net, tab>>
  BY DEF Create, Thread
<1>2. ThreadsWithin' /\ NodesWithin'
  <2>1. invited \subseteq invited' /\ n \in invited' /\ s \subseteq invited' BY <1>1
  <2> QED BY <1>1, <2>1, BeginWithin
<1>3. NetWithin' BY <1>1 DEF Within, NetWithin, SyncWithin
<1> QED BY <1>2, <1>3 DEF Within

LEMMA ShowWithin ==
    ASSUME Typed, Within, NEW n \in Node, Show(n)
    PROVE  Within'
<1> DEFINE s == IF tab[n] = "mine" THEN SyncTo(n, contacts[n]) ELSE {}
<1>1. /\ tab[n] \in {"mine", "theirs"} /\ net' = net \cup s
      /\ tab' = [tab EXCEPT ![n] = "open"]
      /\ UNCHANGED <<live, contacts, asked, thread, invited>>
  BY DEF Show
<1>2. n \in invited BY <1>1 DEF Within, NodesWithin
<1>3. \A m \in s : SyncWithin(m, invited')
  <2>1. contacts[n] \in SUBSET Node /\ contacts[n] \subseteq invited
    BY DEF Typed, DataTyped, Within, NodesWithin
  <2> QED BY <1>1, <1>2, <2>1, SyncFacts DEF SyncWithin
<1> HIDE DEF s
<1>4. NetWithin' BY <1>1, <1>3, NetWithinStep DEF Within
<1> QED BY <1>1, <1>2, <1>4 DEF Typed, DataTyped, Within, NodesWithin, ThreadsWithin

LEMMA AddContactWithin ==
    ASSUME Typed, Within, NEW n \in Node, NEW c \in Node, AddContact(n, c)
    PROVE  Within'
<1> DEFINE d == Decision(n, c)
           f == Frame(d, c, c, FALSE, {c})
<1>1. /\ Run(n, "gui", f) /\ "gui" \in Thread
      /\ c \in Knows[n] /\ d # "present" /\ tab[n] = "open"
      /\ invited' = invited \cup {c}
      /\ UNCHANGED <<live, contacts, asked, net, tab>>
  BY DEF AddContact, Thread
<1>2. d \in {"add", "ask"} BY <1>1 DEF Decision
<1> HIDE DEF d
<1>3. n \in invited BY <1>1 DEF Within, NodesWithin
<1>4. FrameOf(n, f) BY <1>1, <1>2, FramesMade DEF PC, Syncing
<1>5. FrameWithin(n, f, invited')
  <2>1. n \in invited' /\ {c} \in SUBSET invited' BY <1>1, <1>3
  <2> QED BY <2>1, MadeWithin
<1> HIDE DEF f
<1>6. ThreadsWithin'
  <2>1. /\ thread'[n]["gui"] = f
        /\ \A k \in Node : \A u \in Thread :
              k # n \/ u # "gui" => thread'[k][u] = thread[k][u]
    BY <1>1, <1>4, RunFacts DEF Typed
  <2> QED BY <1>1, <1>5, <2>1, ThreadsWithinStep DEF Within
<1>7. NodesWithin' BY <1>1 DEF Within, NodesWithin
<1>8. NetWithin' BY <1>1 DEF Within, NetWithin, SyncWithin
<1> QED BY <1>6, <1>7, <1>8 DEF Within

LEMMA ForgetWithin ==
    ASSUME Typed, Within, NEW n \in Node, NEW c \in Node, Forget(n, c),
           UNCHANGED <<live, net, tab, invited>>
    PROVE  NodesWithin' /\ NetWithin'
<1>1. \A k \in Node : contacts'[k] \subseteq contacts[k] /\ asked'[k] \subseteq asked[k]
  BY ForgetFacts
<1> QED BY <1>1 DEF Within, NodesWithin, NetWithin

LEMMA DisconnectedWithin ==
    ASSUME Typed, Within, NEW n \in Node, NEW c \in Node, Disconnected(n, c)
    PROVE  Within'
<1>1. Forget(n, c) /\ UNCHANGED <<live, thread, mutex, net, tab, invited>>
  BY DEF Disconnected
<1> QED BY <1>1, ForgetWithin DEF Within, ThreadsWithin

LEMMA RemoveContactWithin ==
    ASSUME Typed, Within, NEW n \in Node, RemoveContact(n)
    PROVE  Within'
<1> DEFINE c == thread[n]["service"].who
<1>1. /\ At(n, "service", "remove") /\ "service" \in Thread
      /\ Forget(n, c) /\ Run(n, "service", Idle)
      /\ UNCHANGED <<live, mutex, net, tab, invited, used>>
  BY DEF RemoveContact, Thread
<1>2. c \in Node BY <1>1, FrameAt DEF FrameOf, At
<1> HIDE DEF c
<1>3. /\ thread'[n]["service"] = Idle
      /\ \A k \in Node : \A u \in Thread :
            k # n \/ u # "service" => thread'[k][u] = thread[k][u]
  BY <1>1, IdleFrame, RunFacts DEF Typed
<1>4. ThreadsWithin' BY <1>1, <1>3, IdleWithin, ThreadsWithinStep DEF Within
<1> QED BY <1>1, <1>2, <1>4, ForgetWithin DEF Within

LEMMA IgnoreWithin ==
    ASSUME Typed, Within, NEW n \in Node, NEW m \in net, Ignore(n, m)
    PROVE  Within'
<1>1. /\ Take(m, {})
      /\ UNCHANGED <<live, contacts, asked, requests, thread, mutex, tab, invited>>
  BY DEF Ignore
<1>2. net' \subseteq net \cup {} BY <1>1, TakeFacts DEF Typed, DataTyped
<1>3. NetWithin' BY <1>1, <1>2, NetWithinStep DEF Within
<1> QED BY <1>1, <1>3 DEF Within, NodesWithin, ThreadsWithin

LEMMA ReceivedSyncWithin ==
    ASSUME Typed, Within, NEW n \in Node, NEW m \in net, ReceivedSync(n, m)
    PROVE  Within'
<1> DEFINE todo == {m.src} \cup (m.list \cap Knows[n])
<1>1. /\ ~ Ignored(n, m) /\ Begin(n, "service", m.src, todo) /\ "service" \in Thread
      /\ m.type = "sync" /\ m.dst = n
      /\ Take(m, {}) /\ UNCHANGED <<tab, invited>>
  BY DEF ReceivedSync, Ready, Thread
<1>2. m.src \in Node /\ todo \in SUBSET Knows[n] BY <1>1, Taken DEF Ignored
<1>3. n \in invited /\ todo \subseteq invited
  <2>1. SyncWithin(m, invited) BY DEF Within, NetWithin
  <2> QED BY <1>1, <2>1 DEF SyncWithin
<1> HIDE DEF todo
<1>4. ThreadsWithin' /\ NodesWithin'
  BY <1>1, <1>2, <1>3, BeginWithin
<1>5. net' \subseteq net \cup {} BY <1>1, TakeFacts DEF Typed, DataTyped
<1>6. NetWithin' BY <1>1, <1>5, NetWithinStep DEF Within
<1> QED BY <1>4, <1>6 DEF Within

LEMMA ReceivedAskReqWithin ==
    ASSUME Typed, Within, NEW n \in Node, NEW m \in net, ReceivedAskReq(n, m)
    PROVE  Within'
<1> DEFINE a == Msg("ask_res", n, m.src, m.id, {}, m.id \in Knows[n])
<1>1. /\ Take(m, {a})
      /\ UNCHANGED <<live, contacts, asked, requests, thread, mutex, tab, invited>>
  BY DEF ReceivedAskReq
<1>2. \A x \in {a} : SyncWithin(x, invited') BY DEF Msg, SyncWithin
<1> HIDE DEF a
<1>3. net' \subseteq net \cup {a} BY <1>1, TakeFacts DEF Typed, DataTyped
<1>4. NetWithin' BY <1>1, <1>2, <1>3, NetWithinStep DEF Within
<1> QED BY <1>1, <1>4 DEF Within, NodesWithin, ThreadsWithin

LEMMA LookupWithin ==
    ASSUME Typed, Within, NEW n \in Node, NEW m \in net, Lookup(n, m)
    PROVE  Within'
<1> DEFINE pc == IF m.type = "quit" THEN "remove" ELSE "answer"
           f == Frame(pc, m.src, m.id, m.know, {})
<1>1. /\ ~ Ignored(n, m) /\ m.type \in {"ask_res", "quit"} /\ Take(m, {})
      /\ Run(n, "service", f) /\ "service" \in Thread
      /\ UNCHANGED <<live, contacts, asked, requests, mutex, tab, invited>>
  BY DEF Lookup, Thread
<1>2. n \in invited BY <1>1 DEF Ignored, Within, NodesWithin
<1>3. FrameWithin(n, f, invited) BY <1>2 DEF FrameWithin, Frame
<1>4. thread' = [thread EXCEPT ![n]["service"] = f] BY <1>1 DEF Run
<1> HIDE DEF f
<1>5. /\ thread'[n]["service"] = f
      /\ \A k \in Node : \A u \in Thread :
            k # n \/ u # "service" => thread'[k][u] = thread[k][u]
  BY <1>1, <1>4 DEF Typed, ThreadsTyped
<1>6. ThreadsWithin' BY <1>1, <1>3, <1>5, ThreadsWithinStep DEF Within
<1>7. net' \subseteq net \cup {} BY <1>1, TakeFacts DEF Typed, DataTyped
<1>8. NetWithin' BY <1>1, <1>7, NetWithinStep DEF Within
<1> QED BY <1>1, <1>6, <1>8 DEF Within, NodesWithin

\* A newcomer that is part of the clique was asked about.
LEMMA ApplyAnswerWithin ==
    ASSUME Typed, Within, NEW n \in Node, ApplyAnswer(n)
    PROVE  Within'
<1> DEFINE f == thread[n]["service"]
           r == Marked(n)
           c == Clique(n, f.about, r) = "PART"
           g == IF c THEN Frame("add", f.who, f.about, FALSE, {f.about}) ELSE Idle
<1>1. /\ f.pc = "answer" /\ "service" \in Thread
      /\ Run(n, "service", g)
      /\ UNCHANGED <<live, contacts, asked, mutex, net, tab, invited, used>>
  BY AnswerFacts DEF Thread
<1>2. n \in invited BY <1>1 DEF Within, ThreadsWithin, FrameWithin
<1>3. c => f.about \in asked[n] BY DEF Clique
<1> HIDE DEF c
<1>4. FrameWithin(n, g, invited)
  <2>1. CASE c
    <3>1. f.about \in invited BY <1>3, <2>1 DEF Within, NodesWithin
    <3>2. FrameWithin(n, Frame("add", f.who, f.about, FALSE, {f.about}), invited)
      BY <1>2, <3>1, MadeWithin
    <3> QED BY <2>1, <3>2
  <2>2. CASE ~ c BY <2>2, IdleWithin
  <2> QED BY <2>1, <2>2
<1>5. thread' = [thread EXCEPT ![n]["service"] = g] BY <1>1 DEF Run
<1> HIDE DEF g
<1>6. /\ thread'[n]["service"] = g
      /\ \A k \in Node : \A u \in Thread :
            k # n \/ u # "service" => thread'[k][u] = thread[k][u]
  BY <1>1, <1>5 DEF Typed, ThreadsTyped
<1>7. ThreadsWithin' BY <1>1, <1>4, <1>6, ThreadsWithinStep DEF Within
<1> QED BY <1>1, <1>7 DEF Within, NodesWithin, NetWithin

\* What was used up stays used up.
LEMMA UsedStays ==
    ASSUME Typed, [Next]_vars
    PROVE  /\ used'.quits = 0 => used.quits = 0
           /\ used'.cuts = 0 => used.cuts = 0
<1> DEFINE P == /\ used'.quits = 0 => used.quits = 0
                /\ used'.cuts = 0 => used.cuts = 0
<1>1. used \in Usage BY DEF Typed, DataTyped
<1>2. ASSUME NEW n \in Node, NEW m \in net, Handle(n, m)
      PROVE  P
  <2>1. \E sent : Take(m, sent)
    BY <1>2 DEF Handle, Ignore, ReceivedSync, ReceivedAskReq, Lookup
  <2> QED BY <1>1, <2>1, TakeFacts
<1>3. ASSUME NEW n \in Node, NEW s, Create(n, s)
      PROVE  P
  BY <1>1, <1>3 DEF Create, Usage
<1>4. ASSUME NEW n \in Node, NEW c \in Node, AddContact(n, c)
      PROVE  P
  BY <1>1, <1>4 DEF AddContact, Usage
<1>5. ASSUME NEW n \in Node, NEW c \in Node, Disconnected(n, c)
      PROVE  P
  <2>1. used'.cuts # 0 BY <1>5, DisconnectedTyped
  <2> QED BY <1>1, <1>5, <2>1 DEF Disconnected, Usage
<1>6. ASSUME NEW n \in Node, Quit(n)
      PROVE  P
  <2>1. used'.quits # 0 BY <1>6, QuitTyped
  <2> QED BY <1>1, <1>6, <2>1 DEF Quit, Usage
<1>7. ASSUME NEW n \in Node, NEW t \in Thread, Step(n, t)
      PROVE  P
  BY <1>7 DEF Step, NextContact, AddNow, AskAbout
<1>8. ASSUME NEW n \in Node, Show(n) \/ RemoveContact(n) \/ ApplyAnswer(n)
      PROVE  P
  BY <1>8 DEF Show, RemoveContact, ApplyAnswer
<1>9. ASSUME UNCHANGED vars PROVE P BY <1>9 DEF vars
<1> HIDE DEF P
<1>10. ASSUME Next PROVE P
  BY <1>2, <1>3, <1>4, <1>5, <1>6, <1>7, <1>8, <1>10 DEF Next
<1> QED BY <1>9, <1>10 DEF P

LEMMA StepWithin ==
    ASSUME Typed, Within, [Next]_vars, used'.quits = 0
    PROVE  Within'
<1>1. CASE UNCHANGED vars
  BY <1>1 DEF vars, Within, ThreadsWithin, NodesWithin, NetWithin
<1>2. ASSUME NEW n \in Node, NEW m \in net, Handle(n, m)
      PROVE  Within'
  BY <1>2, IgnoreWithin, ReceivedSyncWithin, ReceivedAskReqWithin, LookupWithin DEF Handle
<1>3. CASE Next
  BY <1>2, <1>3, CreateWithin, AddContactWithin, DisconnectedWithin, ShowWithin, QuitTyped,
     NextContactWithin, AddNowWithin, AskAboutWithin, RemoveContactWithin, ApplyAnswerWithin
  DEF Next, Step
<1> QED BY <1>1, <1>3

\* Until a user quits, a node that is in the conversation was invited by a
\* user, and so was every member that it has.  Syncs pass lists on, questions
\* name strangers, answers come late and twice; losing contacts does not
\* matter here.
THEOREM OnlyTheInvitedAreIn == Spec => []OnlyInvited
<1>1. Init => Invitations
  BY IdleWithin DEF Init, Invitations, Within, ThreadsWithin, NodesWithin, NetWithin
<1>2. Typed /\ Invitations /\ [Next]_vars => Invitations'
  BY StepWithin, UsedStays DEF Invitations
<1>3. Invitations => OnlyInvited
  BY DEF Invitations, Within, NodesWithin, OnlyInvited
<1> QED BY <1>1, <1>2, <1>3, TypedAlways, PTL DEF Spec

(***************************************************************************)
(* Who knows whom                                                          *)
(***************************************************************************)
Undisturbed == used.quits = 0 /\ used.cuts = 0

\* A node that has nothing to do with the conversation.
Asleep(n) ==
    /\ ~ live[n]
    /\ contacts[n] = {}
    /\ asked[n] = {}
    /\ tab[n] = "none"
    /\ \A t \in Thread : thread[n][t] = Idle

\* Until the founder adds somebody, nobody else takes part and nothing is on
\* the way.
Alone(n) ==
    /\ contacts[n] = {}
    /\ asked[n] = {}
    /\ net = {}
    /\ thread[n]["service"] = Idle
    /\ \A k \in Node \ {n} : Asleep(k)

\* The user of n works on a conversation without members.
Started(n) == (tab[n] # "none" \/ thread[n]["gui"] # Idle) /\ contacts[n] = {}

\* A frame f of thread t of a node with members S.  An addition that is
\* decided on is still right when it is made: all members know the newcomer,
\* and the GUI adds without a question only to an empty conversation.
FrameTrue(t, f, S) ==
    /\ f.pc = "ask" => S # {}
    /\ f.pc = "add" => \A q \in S : f.about \in Knows[q]
    /\ f.pc = "add" /\ t = "gui" => S = {}
    /\ f.pc = "next" /\ t = "service" => f.todo # {}
    /\ f.pc = "answer" /\ f.know => f.about \in Knows[f.who]
    /\ f.pc # "remove"

MessageTrue(m) ==
    /\ m.type # "quit"
    /\ m.type = "ask_res" /\ m.know => m.id \in Knows[m.src]

Sleep == \A n \in Node : live[n] \/ Asleep(n)
Creation == used.created \/ (net = {} /\ \A n \in Node : Asleep(n))
FoundersAlone == \A n \in Node : Started(n) => Alone(n)
NothingAsked == \A n \in Node : contacts[n] = {} => asked[n] = {}
FramesTrue == \A n \in Node : \A t \in Thread : FrameTrue(t, thread[n][t], contacts[n])
NetTrue == \A m \in net : MessageTrue(m)
AnswersTrue == \A n, id, c \in Node : requests[n][id][c] = "KNOW" => id \in Knows[c]
MembersAsked == \A n, id, c \in Node : requests[n][id][c] # "NONE" => c \in contacts[n]
AllAcquainted == \A n \in Node : Acquainted(n)

Known ==
    /\ Sleep /\ Creation /\ FoundersAlone /\ NothingAsked /\ FramesTrue /\ NetTrue
    /\ AnswersTrue /\ MembersAsked /\ AllAcquainted
Cliques == Undisturbed => Known

\* A node that has anything to do with the conversation is in it, and the
\* conversation was created.
LEMMA Awake ==
    ASSUME Known, NEW n \in Node, ~ Asleep(n)
    PROVE  live[n] /\ used.created
BY DEF Known, Sleep, Creation

LEMMA BusyIsAwake ==
    ASSUME NEW n \in Node, NEW t \in Thread, thread[n][t].pc # "idle"
    PROVE  ~ Asleep(n)
BY DEF Asleep, Idle

\* Somebody has members, or is sent something, or works on a message: then no
\* user works on an empty conversation.
LEMMA NobodyAlone ==
    ASSUME Known,
           \/ net # {}
           \/ \E k \in Node : contacts[k] # {}
           \/ \E k \in Node : thread[k]["service"] # Idle
    PROVE  \A n \in Node : ~ Started(n)
<1> SUFFICES ASSUME NEW n \in Node, Started(n) PROVE FALSE
  OBVIOUS
<1>1. Alone(n) BY DEF Known, FoundersAlone
<1>2. \A k \in Node : contacts[k] = {} /\ thread[k]["service"] = Idle
  BY <1>1 DEF Alone, Asleep, Thread
<1> QED BY <1>1, <1>2 DEF Alone

\* The parts of Known one by one, for steps that leave them nearly alone.
LEMMA AliveStep ==
    ASSUME Known, NEW n \in Node, live'[n], used'.created,
           \A k \in Node \ {n} :
              /\ live'[k] = live[k] /\ contacts'[k] = contacts[k]
              /\ asked'[k] = asked[k] /\ tab'[k] = tab[k]
              /\ \A t \in Thread : thread'[k][t] = thread[k][t]
    PROVE  Sleep' /\ Creation'
<1>1. ASSUME NEW k \in Node \ {n}, Asleep(k)
      PROVE  Asleep(k)'
  BY <1>1 DEF Asleep
<1>2. \A k \in Node \ {n} : live[k] => live'[k] OBVIOUS
<1>3. Sleep' BY <1>1, <1>2 DEF Known, Sleep
<1> QED BY <1>3 DEF Creation

\* Nobody was alone, and nobody starts on an empty conversation.
LEMMA NobodyStarts ==
    ASSUME \A k \in Node : ~ Started(k),
           \A k \in Node : contacts'[k] = {} => contacts[k] = {},
           \A k \in Node : \/ tab'[k] = tab[k] /\ thread'[k]["gui"] = thread[k]["gui"]
                           \/ contacts'[k] # {}
    PROVE  FoundersAlone'
BY DEF FoundersAlone, Started

\* A founder is alone, and stays so.
LEMMA StaysAlone ==
    ASSUME NEW n \in Node, Alone(n)'
    PROVE  FoundersAlone'
<1> SUFFICES ASSUME NEW k \in Node, Started(k)'
             PROVE  k = n
  BY DEF FoundersAlone
<1> QED BY DEF Alone, Asleep, Started, Thread

LEMMA FramesStep ==
    ASSUME FramesTrue, NEW n \in Node, NEW t \in Thread,
           \A k \in Node : \A u \in Thread : k # n \/ u # t => thread'[k][u] = thread[k][u],
           \A k \in Node : contacts'[k] = contacts[k],
           FrameTrue(t, thread'[n][t], contacts[n])
    PROVE  FramesTrue'
<1> SUFFICES ASSUME NEW k \in Node, NEW u \in Thread
             PROVE  FrameTrue(u, thread'[k][u], contacts'[k])
  BY DEF FramesTrue
<1>1. FrameTrue(u, thread[k][u], contacts[k]) BY DEF FramesTrue
<1>2. CASE k = n /\ u = t BY <1>2
<1>3. CASE k # n \/ u # t BY <1>1, <1>3
<1> QED BY <1>2, <1>3

LEMMA IdleTrue == \A t, S : FrameTrue(t, Idle, S)
BY DEF Idle, FrameTrue

LEMMA SyncingTrue ==
    ASSUME NEW t, NEW S, NEW who, NEW todo, t = "service" => todo # {}
    PROVE  FrameTrue(t, Syncing(who, todo), S)
BY DEF Syncing, Frame, FrameTrue

LEMMA NetTrueStep ==
    ASSUME NetTrue, NEW sent, net' \subseteq net \cup sent, \A m \in sent : MessageTrue(m)
    PROVE  NetTrue'
BY DEF NetTrue

\* Members stay and no question is forgotten or answered.
LEMMA MembersStay ==
    ASSUME Known, UNCHANGED requests, \A k \in Node : contacts'[k] = contacts[k],
           \A k \in Node : asked'[k] = asked[k]
    PROVE  NothingAsked' /\ AnswersTrue' /\ MembersAsked' /\ AllAcquainted'
<1>1. NothingAsked' BY DEF Known, NothingAsked
<1>2. AnswersTrue' BY DEF Known, AnswersTrue
<1>3. MembersAsked' BY DEF Known, MembersAsked
<1>4. AllAcquainted' BY DEF Known, AllAcquainted, Acquainted
<1> QED BY <1>1, <1>2, <1>3, <1>4

\* A thread of n goes on without touching members, questions or messages.
LEMMA QuietStep ==
    ASSUME Typed, Known, NEW n \in Node, NEW t \in Thread, thread[n][t].pc # "idle",
           UNCHANGED <<live, contacts, asked, requests, net, used>>,
           \A k \in Node : \A u \in Thread : k # n \/ u # t => thread'[k][u] = thread[k][u],
           FrameTrue(t, thread'[n][t], contacts[n]),
           \A k \in Node : tab'[k] # tab[k] => k = n /\ (t = "gui" \/ contacts[n] # {})
    PROVE  Known'
<1>1. live[n] /\ used.created BY BusyIsAwake, Awake
<1>2. Sleep' /\ Creation' BY <1>1, AliveStep
<1>3. FramesTrue' BY FramesStep DEF Known
<1>4. NetTrue' BY DEF Known, NetTrue
<1>5. NothingAsked' /\ AnswersTrue' /\ MembersAsked' /\ AllAcquainted' BY MembersStay
<1>6. "gui" \in Thread /\ "service" \in Thread /\ t \in {"gui", "service"} BY DEF Thread
<1>7. FoundersAlone'
  <2>1. CASE contacts[n] = {} /\ t = "gui"
    <3>1. Started(n) BY <2>1 DEF Started, Idle
    <3>2. Alone(n) BY <3>1 DEF Known, FoundersAlone
    <3>3. ASSUME NEW k \in Node \ {n}
          PROVE  Asleep(k)'
      <4>1. Asleep(k) BY <3>2 DEF Alone
      <4>2. tab'[k] = tab[k] /\ \A u \in Thread : thread'[k][u] = thread[k][u] OBVIOUS
      <4> QED BY <4>1, <4>2 DEF Asleep
    <3>4. thread'[n]["service"] = thread[n]["service"] BY <1>6, <2>1
    <3>5. Alone(n)' BY <3>2, <3>3, <3>4 DEF Alone
    <3> QED BY <3>5, StaysAlone
  <2>2. CASE contacts[n] = {} /\ t = "service"
    <3>1. thread[n]["service"] # Idle BY <2>2 DEF Idle
    <3>2. \A k \in Node : ~ Started(k) BY <3>1, NobodyAlone
    <3>3. \A k \in Node : tab'[k] = tab[k] BY <2>2
    <3>4. \A k \in Node : thread'[k]["gui"] = thread[k]["gui"] BY <1>6, <2>2
    <3> QED BY <3>2, <3>3, <3>4, NobodyStarts
  <2>3. CASE contacts[n] # {}
    <3>1. \A k \in Node : ~ Started(k) BY <2>3, NobodyAlone
    <3>2. \A k \in Node : \/ tab'[k] = tab[k] /\ thread'[k]["gui"] = thread[k]["gui"]
                          \/ contacts'[k] # {}
      BY <1>6, <2>3
    <3> QED BY <3>1, <3>2, NobodyStarts
  <2> QED BY <1>6, <2>1, <2>2, <2>3
<1> QED BY <1>2, <1>3, <1>4, <1>5, <1>7 DEF Known

LEMMA ResumeTrue ==
    ASSUME Typed, NEW n \in Node, NEW t \in Thread, NEW who \in Node \cup {None},
           NEW todo \in SUBSET Knows[n], Resume(n, t, who, todo)
    PROVE  \A S : FrameTrue(t, thread'[n][t], S)
<1>1. CASE todo = {} BY <1>1, ResumeFacts, IdleTrue
<1>2. CASE todo # {} BY <1>2, ResumeFacts, SyncingTrue
<1> QED BY <1>1, <1>2

LEMMA ResumeOthers ==
    ASSUME Typed, NEW n \in Node, NEW t \in Thread, NEW who \in Node \cup {None},
           NEW todo \in SUBSET Knows[n], Resume(n, t, who, todo)
    PROVE  /\ \A k \in Node : \A u \in Thread : k # n \/ u # t => thread'[k][u] = thread[k][u]
           /\ \A k \in Node : tab'[k] # tab[k] => k = n
           /\ todo # {} => \A k \in Node : tab'[k] = tab[k]
<1>1. /\ \A k \in Node : \A u \in Thread : k # n \/ u # t => thread'[k][u] = thread[k][u]
      /\ \A k \in Node : tab'[k] # tab[k] => k = n /\ todo = {}
  BY ResumeFacts
<1> QED BY <1>1

\* What there is to know of a member of a sync is decided by what is there.
LEMMA DecisionFacts ==
    ASSUME NothingAsked, NEW n \in Node, NEW c
    PROVE  /\ Decision(n, c) = "present" => contacts[n] # {}
           /\ Decision(n, c) = "add" => contacts[n] = {}
           /\ Decision(n, c) = "ask" => contacts[n] # {}
           /\ Decision(n, c) \in {"present", "add", "ask"}
BY DEF Decision, NothingAsked

LEMMA NextContactKnown ==
    ASSUME Typed, Known, NEW n \in Node, NEW t \in Thread, NextContact(n, t)
    PROVE  Known'
<1> DEFINE f == thread[n][t]
<1>1. /\ FrameOf(n, f) /\ f.todo \in SUBSET Knows[n] /\ f.who \in Node \cup {None}
      /\ f.pc = "next"
  BY FrameAt DEF NextContact, At
<1>2. UNCHANGED <<live, contacts, asked, requests, net, used>>
  BY DEF NextContact
<1>3. t \in {"gui", "service"} BY DEF Thread
<1>4. ASSUME NEW todo \in SUBSET f.todo, Resume(n, t, f.who, todo),
             todo = {} => t = "gui" \/ contacts[n] # {}
      PROVE  Known'
  <2>1. todo \in SUBSET Knows[n] BY <1>1
  <2>2. /\ \A k \in Node : \A u \in Thread : k # n \/ u # t => thread'[k][u] = thread[k][u]
        /\ \A k \in Node : tab'[k] # tab[k] => k = n
        /\ todo # {} => \A k \in Node : tab'[k] = tab[k]
    BY <1>1, <1>4, <2>1, ResumeOthers
  <2>3. FrameTrue(t, thread'[n][t], contacts[n])
    BY <1>1, <1>4, <2>1, ResumeTrue
  <2>4. f.pc # "idle" BY <1>1
  <2>5. \A k \in Node : tab'[k] # tab[k] => k = n /\ (t = "gui" \/ contacts[n] # {})
    BY <1>4, <2>2
  <2> QED BY <1>2, <2>2, <2>3, <2>4, <2>5, QuietStep
<1>5. ASSUME NEW c \in f.todo, NEW d \in {"add", "ask"}, d = Decision(n, c),
             Run(n, t, [f EXCEPT !.pc = d, !.about = c]), UNCHANGED tab
      PROVE  Known'
  <2> DEFINE g == [f EXCEPT !.pc = d, !.about = c]
  <2>1. c \in Knows[n] /\ c \in Node BY <1>1, KnowsNodes
  <2>2. FrameOf(n, g) /\ g.pc = d BY <1>1, <1>5, <2>1 DEF FrameOf, Frames, PC
  <2>3. /\ d = "add" => contacts[n] = {}
        /\ d = "ask" => contacts[n] # {}
    BY <1>5, DecisionFacts DEF Known
  <2>4. Run(n, t, g) BY <1>5
  <2> HIDE DEF g
  <2>5. FrameTrue(t, g, contacts[n]) BY <1>5, <2>2, <2>3 DEF FrameTrue
  <2>6. /\ thread'[n][t] = g
        /\ \A k \in Node : \A u \in Thread : k # n \/ u # t => thread'[k][u] = thread[k][u]
    BY <2>2, <2>4, RunFacts DEF Typed
  <2>7. f.pc # "idle" BY <1>1
  <2>8. FrameTrue(t, thread'[n][t], contacts[n]) BY <2>5, <2>6
  <2>9. \A k \in Node : tab'[k] # tab[k] => k = n /\ (t = "gui" \/ contacts[n] # {})
    BY <1>5
  <2> QED BY <1>2, <2>6, <2>7, <2>8, <2>9, QuietStep
<1>6. CASE f.todo = {}
  <2>1. t = "gui"
    <3>1. FrameTrue(t, f, contacts[n]) BY DEF Known, FramesTrue
    <3> QED BY <1>1, <1>3, <1>6, <3>1 DEF FrameTrue
  <2>2. Resume(n, t, f.who, {}) BY <1>6 DEF NextContact
  <2> QED BY <1>4, <2>1, <2>2
<1>7. CASE f.todo # {}
  <2>1. PICK c \in f.todo :
           IF Decision(n, c) = "present"
           THEN Resume(n, t, f.who, f.todo \ {c})
           ELSE /\ Run(n, t, [f EXCEPT !.pc = Decision(n, c), !.about = c])
                /\ UNCHANGED <<mutex, tab>>
    BY <1>7 DEF NextContact
  <2>2. CASE Decision(n, c) = "present"
    <3>1. contacts[n] # {} BY <2>2, DecisionFacts DEF Known
    <3>2. f.todo \ {c} \in SUBSET f.todo OBVIOUS
    <3> QED BY <1>4, <2>1, <2>2, <3>1, <3>2
  <2>3. CASE Decision(n, c) # "present"
    <3>1. Decision(n, c) \in {"add", "ask"} BY <2>3 DEF Decision
    <3> QED BY <1>5, <2>1, <2>3, <3>1
  <2> QED BY <2>2, <2>3
<1> QED BY <1>6, <1>7

LEMMA AddNowKnown ==
    ASSUME Typed, Known, NEW n \in Node, NEW t \in Thread, AddNow(n, t)
    PROVE  Known'
<1> DEFINE f == thread[n][t]
           S == contacts[n] \cup {f.about}
<1>1. /\ FrameOf(n, f) /\ f.todo \in SUBSET Knows[n] /\ f.who \in Node \cup {None}
      /\ f.pc = "add"
  BY FrameAt DEF AddNow, At
<1>2. f.about \in Node BY <1>1, KnowsNodes DEF FrameOf
<1>3. /\ UNCHANGED <<live, asked, requests, invited, used>>
      /\ Resume(n, t, f.who, f.todo \ {f.about})
      /\ \/ f.about \in contacts[n] /\ UNCHANGED <<contacts, net>>
         \/ /\ contacts' = [contacts EXCEPT ![n] = S]
            /\ net' = net \cup SyncTo(n, S)
  BY DEF AddNow
<1>4. f.todo \ {f.about} \in SUBSET Knows[n] BY <1>1
<1>5. /\ \A k \in Node : \A u \in Thread : k # n \/ u # t => thread'[k][u] = thread[k][u]
      /\ \A k \in Node : tab'[k] # tab[k] => k = n
  BY <1>1, <1>3, <1>4, ResumeOthers
<1>6. \A R : FrameTrue(t, thread'[n][t], R)
  BY <1>1, <1>3, <1>4, ResumeTrue
<1>7. f.pc # "idle" BY <1>1
<1>8. CASE f.about \in contacts[n] /\ UNCHANGED <<contacts, net>>
  <2>1. \A k \in Node : tab'[k] # tab[k] => k = n /\ (t = "gui" \/ contacts[n] # {})
    BY <1>5, <1>8
  <2> QED BY <1>3, <1>5, <1>6, <1>7, <1>8, <2>1, QuietStep
<1>9. CASE /\ contacts' = [contacts EXCEPT ![n] = S]
           /\ net' = net \cup SyncTo(n, S)
  <2>1. live[n] /\ used.created BY <1>7, BusyIsAwake, Awake
  <2>2. S \in SUBSET Node /\ f.about \in S /\ contacts[n] \subseteq S
    BY <1>2 DEF Typed, DataTyped
  <2>3. \A q \in contacts[n] : f.about \in Knows[q]
    <3>1. FrameTrue(t, f, contacts[n]) BY DEF Known, FramesTrue
    <3> QED BY <1>1, <3>1 DEF FrameTrue
  <2>4. ASSUME NEW p \in S, NEW q \in S, p # q
        PROVE  p \in Knows[q] \/ q \in Knows[p]
    <3>1. CASE p = f.about BY <2>3, <2>4, <3>1
    <3>2. CASE q = f.about BY <2>3, <2>4, <3>2
    <3>3. CASE p \in contacts[n] /\ q \in contacts[n]
      BY <2>4, <3>3 DEF Known, AllAcquainted, Acquainted
    <3> QED BY <3>1, <3>2, <3>3
  <2>5. t \in {"gui", "service"} /\ "gui" \in Thread /\ "service" \in Thread BY DEF Thread
  \* The other thread of n is not about to add somebody, too.
  <2>6. ASSUME NEW u \in Thread, u # t
        PROVE  thread[n][u].pc # "add"
    <3>1. ASSUME thread[n]["gui"].pc = "add"
          PROVE  thread[n]["service"].pc = "idle"
      <4>1. FrameTrue("gui", thread[n]["gui"], contacts[n]) BY <2>5 DEF Known, FramesTrue
      <4>2. Started(n) BY <3>1, <4>1 DEF FrameTrue, Started, Idle
      <4>3. Alone(n) BY <4>2 DEF Known, FoundersAlone
      <4> QED BY <4>3 DEF Alone, Idle
    <3>2. CASE t = "gui" /\ u = "service" BY <1>1, <3>1, <3>2
    <3>3. CASE t = "service" /\ u = "gui" BY <1>1, <3>1, <3>3
    <3>4. u \in {"gui", "service"} BY DEF Thread
    <3> QED BY <2>5, <2>6, <3>2, <3>3, <3>4
  <2>7. \A s \in SyncTo(n, S) : MessageTrue(s)
    BY <2>2, SyncFacts DEF MessageTrue
  <2> HIDE DEF S
  <2>8. contacts'[n] = S /\ \A k \in Node \ {n} : contacts'[k] = contacts[k]
    BY <1>9 DEF Typed, DataTyped
  <2>9. Sleep' /\ Creation'
    BY <1>3, <1>5, <2>1, <2>8, AliveStep
  <2>10. NetTrue'
    <3>1. net' \subseteq net \cup SyncTo(n, S) BY <1>9
    <3> QED BY <2>7, <3>1, NetTrueStep DEF Known
  <2> HIDE DEF f
  <2>11. FramesTrue'
    <3> SUFFICES ASSUME NEW k \in Node, NEW u \in Thread
                 PROVE  FrameTrue(u, thread'[k][u], contacts'[k])
      BY DEF FramesTrue
    <3>1. FrameTrue(u, thread[k][u], contacts[k]) BY DEF Known, FramesTrue
    <3>2. CASE k # n BY <1>5, <2>8, <3>1, <3>2
    <3>3. CASE k = n /\ u = t BY <1>6, <3>3
    <3>4. CASE k = n /\ u # t
      <4>1. thread'[k][u] = thread[k][u] BY <1>5, <3>4
      <4>2. thread[k][u].pc # "add" BY <2>6, <3>4
      <4>3. contacts'[k] # {} BY <2>2, <2>8, <3>4
      <4> QED BY <3>1, <4>1, <4>2, <4>3 DEF FrameTrue
    <3> QED BY <3>2, <3>3, <3>4
  <2>12. AllAcquainted'
    <3> SUFFICES ASSUME NEW k \in Node, NEW p \in contacts'[k], NEW q \in contacts'[k], p # q
                 PROVE  p \in Knows[q] \/ q \in Knows[p]
      BY DEF AllAcquainted, Acquainted
    <3>1. CASE k = n BY <2>4, <2>8, <3>1
    <3>2. CASE k # n BY <2>8, <3>2 DEF Known, AllAcquainted, Acquainted
    <3> QED BY <3>1, <3>2
  <2>13. AnswersTrue' /\ MembersAsked' /\ NothingAsked'
    <3>1. \A k \in Node : contacts[k] \subseteq contacts'[k]
      BY <2>2, <2>8
    <3>2. AnswersTrue' BY <1>3 DEF Known, AnswersTrue
    <3>3. MembersAsked' BY <1>3, <3>1 DEF Known, MembersAsked
    <3>4. NothingAsked' BY <1>3, <3>1 DEF Known, NothingAsked
    <3> QED BY <3>2, <3>3, <3>4
  <2>14. FoundersAlone'
    <3> SUFFICES ASSUME NEW k \in Node, Started(k)'
                 PROVE  Alone(k)'
      BY DEF FoundersAlone
    <3>1. k # n BY <2>2, <2>8 DEF Started
    <3>2. Started(k) BY <1>5, <2>5, <2>8, <3>1 DEF Started
    <3>3. Alone(k) BY <3>2 DEF Known, FoundersAlone
    <3>4. Asleep(n) BY <3>1, <3>3 DEF Alone
    <3> QED BY <2>1, <3>4 DEF Asleep
  <2> QED BY <2>9, <2>10, <2>11, <2>12, <2>13, <2>14 DEF Known
<1> QED BY <1>3, <1>8, <1>9

LEMMA AskAboutKnown ==
    ASSUME Typed, Known, NEW n \in Node, NEW t \in Thread, AskAbout(n, t)
    PROVE  Known'
<1> DEFINE f == thread[n][t]
           r == [c \in Node |-> IF c \in contacts[n] THEN "SENT" ELSE "NONE"]
           p == Post(n, "ask_req", contacts[n], f.about, {})
<1>1. /\ FrameOf(n, f) /\ f.todo \in SUBSET Knows[n] /\ f.who \in Node \cup {None}
      /\ f.pc = "ask"
  BY FrameAt DEF AskAbout, At
<1>2. f.about \in Node BY <1>1, KnowsNodes DEF FrameOf
<1>3. /\ UNCHANGED <<live, contacts, invited, used>>
      /\ Resume(n, t, f.who, f.todo \ {f.about})
      /\ asked' = [asked EXCEPT ![n] = @ \cup {f.about}]
      /\ requests' = [requests EXCEPT ![n][f.about] = r]
      /\ net' = net \cup p
  BY DEF AskAbout
<1>4. f.todo \ {f.about} \in SUBSET Knows[n] BY <1>1
<1>5. /\ \A k \in Node : \A u \in Thread : k # n \/ u # t => thread'[k][u] = thread[k][u]
      /\ \A k \in Node : tab'[k] # tab[k] => k = n
  BY <1>1, <1>3, <1>4, ResumeOthers
<1>6. FrameTrue(t, thread'[n][t], contacts[n])
  BY <1>1, <1>3, <1>4, ResumeTrue
<1>7. live[n] /\ used.created BY <1>1, BusyIsAwake, Awake
<1>8. contacts[n] # {}
  <2>1. FrameTrue(t, f, contacts[n]) BY DEF Known, FramesTrue
  <2> QED BY <1>1, <2>1 DEF FrameTrue
<1>9. \A m \in p : MessageTrue(m)
  <2>1. \A m \in p : m.type = "ask_req" BY <1>2, PostFacts DEF MessageType
  <2> QED BY <2>1 DEF MessageTrue
<1> HIDE DEF p
<1>10. \A c \in Node : r[c] # "KNOW" /\ (r[c] # "NONE" => c \in contacts[n]) OBVIOUS
<1> HIDE DEF r, f
<1>11. \A k, id \in Node : requests'[k][id] = requests[k][id] \/ (k = n /\ requests'[k][id] = r)
  BY <1>2, <1>3 DEF Typed, DataTyped
<1>12. AnswersTrue' BY <1>10, <1>11 DEF Known, AnswersTrue
<1>13. MembersAsked' BY <1>3, <1>10, <1>11 DEF Known, MembersAsked
<1>14. \A k \in Node \ {n} : asked'[k] = asked[k] BY <1>3 DEF Typed, DataTyped
<1>15. Sleep' /\ Creation' BY <1>3, <1>5, <1>7, <1>14, AliveStep
<1>16. FramesTrue' BY <1>3, <1>5, <1>6, FramesStep DEF Known
<1>17. NetTrue' BY <1>3, <1>9, NetTrueStep DEF Known
<1>18. NothingAsked' BY <1>3, <1>8, <1>14 DEF Known, NothingAsked
<1>19. AllAcquainted' BY <1>3 DEF Known, AllAcquainted, Acquainted
<1>20. FoundersAlone'
  <2>1. \A k \in Node : ~ Started(k) BY <1>8, NobodyAlone
  <2>2. "gui" \in Thread BY DEF Thread
  <2>3. \A k \in Node : \/ tab'[k] = tab[k] /\ thread'[k]["gui"] = thread[k]["gui"]
                        \/ contacts'[k] # {}
    BY <1>3, <1>5, <1>8, <2>2
  <2> QED BY <1>3, <2>1, <2>3, NobodyStarts
<1> QED BY <1>12, <1>13, <1>15, <1>16, <1>17, <1>18, <1>19, <1>20 DEF Known

\* The conversation begins: nothing was there, and its founder is alone.
LEMMA CreateKnown ==
    ASSUME Typed, Known, NEW n \in Node, NEW s, Create(n, s)
    PROVE  Known'
<1>1. /\ s \in SUBSET Knows[n] /\ Begin(n, "gui", n, s) /\ "gui" \in Thread
      /\ "service" \in Thread /\ ~ used.created
      /\ used' = [used EXCEPT !.created = TRUE]
      /\ UNCHANGED <<net, tab>>
  BY DEF Create, Thread
<1>2. net = {} /\ \A k \in Node : Asleep(k) BY <1>1 DEF Known, Creation
<1>3. used'.created BY <1>1 DEF Typed, DataTyped, Usage
<1>4. /\ thread'[n]["gui"] = Syncing(n, s)
      /\ \A k \in Node : \A u \in Thread :
            k # n \/ u # "gui" => thread'[k][u] = thread[k][u]
  BY <1>1, BeginFacts
<1>5. /\ live'[n]
      /\ contacts'[n] = {} /\ asked'[n] = {}
      /\ requests'[n] = [id \in Node |-> NoRequests]
      /\ \A k \in Node : k # n =>
            /\ live'[k] = live[k] /\ contacts'[k] = contacts[k]
            /\ asked'[k] = asked[k] /\ requests'[k] = requests[k]
  BY <1>1, <1>2, BeginFacts DEF Asleep
<1>6. \A k \in Node : contacts'[k] = {} /\ contacts[k] = {} /\ asked'[k] = {}
  BY <1>2, <1>5 DEF Asleep
<1>7. Sleep' /\ Creation'
  BY <1>1, <1>3, <1>4, <1>5, AliveStep
<1>8. FoundersAlone'
  <2>1. ASSUME NEW k \in Node \ {n}
        PROVE  Asleep(k)'
    BY <1>1, <1>2, <1>4, <1>5 DEF Asleep
  <2>2. thread'[n]["service"] = Idle BY <1>1, <1>2, <1>4 DEF Asleep
  <2>3. Alone(n)' BY <1>1, <1>2, <1>5, <2>1, <2>2 DEF Alone
  <2> QED BY <2>3, StaysAlone
<1>9. FramesTrue'
  <2>1. FrameTrue("gui", Syncing(n, s), contacts[n]) BY SyncingTrue
  <2>2. FrameTrue("gui", thread'[n]["gui"], contacts[n]) BY <1>4, <2>1
  <2>3. \A k \in Node : contacts'[k] = contacts[k] BY <1>6
  <2> QED BY <1>1, <1>4, <2>2, <2>3, FramesStep DEF Known
<1>10. NetTrue' BY <1>1, <1>2 DEF NetTrue
<1>11. \A k, id, c \in Node : requests'[k][id][c] \in {"NONE", requests[k][id][c]}
  <2> TAKE k, id, c \in Node
  <2>1. CASE k = n BY <1>5, <2>1 DEF NoRequests
  <2>2. CASE k # n BY <1>5, <2>2
  <2> QED BY <2>1, <2>2
<1>12. AnswersTrue' BY <1>11 DEF Known, AnswersTrue
<1>13. MembersAsked' BY <1>6, <1>11 DEF Known, MembersAsked
<1>14. NothingAsked' /\ AllAcquainted' BY <1>6 DEF NothingAsked, AllAcquainted, Acquainted
<1> QED BY <1>7, <1>8, <1>9, <1>10, <1>12, <1>13, <1>14 DEF Known

LEMMA ShowKnown ==
    ASSUME Typed, Known, NEW n \in Node, Show(n)
    PROVE  Known'
<1>1. /\ tab[n] # "none"
      /\ net' = net \cup (IF tab[n] = "mine" THEN SyncTo(n, contacts[n]) ELSE {})
      /\ tab' = [tab EXCEPT ![n] = "open"]
      /\ UNCHANGED <<live, contacts, asked, requests, thread, used>>
  BY DEF Show
<1>2. tab'[n] = "open" /\ \A k \in Node \ {n} : tab'[k] = tab[k]
  BY <1>1 DEF Typed, DataTyped
<1>3. live[n] /\ used.created
  <2>1. ~ Asleep(n) BY <1>1 DEF Asleep
  <2> QED BY <2>1, Awake
<1>4. contacts[n] \in SUBSET Node BY DEF Typed, DataTyped
<1>5. Sleep' /\ Creation' BY <1>1, <1>2, <1>3, AliveStep
<1>6. FramesTrue' BY <1>1 DEF Known, FramesTrue
<1>7. NetTrue'
  <2>1. net' \subseteq net \cup SyncTo(n, contacts[n]) BY <1>1
  <2>2. \A m \in SyncTo(n, contacts[n]) : MessageTrue(m)
    BY <1>4, SyncFacts DEF MessageTrue
  <2> QED BY <2>1, <2>2, NetTrueStep DEF Known
<1>8. NothingAsked' /\ AnswersTrue' /\ MembersAsked' /\ AllAcquainted'
  BY <1>1, MembersStay
<1>9. FoundersAlone'
  <2>1. CASE contacts[n] = {}
    <3>1. Started(n) BY <1>1, <2>1 DEF Started
    <3>2. Alone(n) BY <3>1 DEF Known, FoundersAlone
    <3>3. \A m : m \notin SyncTo(n, contacts[n]) BY <1>4, <2>1, SyncFacts
    <3>4. net' = {} BY <1>1, <3>2, <3>3 DEF Alone
    <3>5. ASSUME NEW k \in Node \ {n}
          PROVE  Asleep(k)'
      BY <1>1, <1>2, <3>2 DEF Alone, Asleep
    <3>6. Alone(n)' BY <1>1, <3>2, <3>4, <3>5 DEF Alone
    <3> QED BY <3>6, StaysAlone
  <2>2. CASE contacts[n] # {}
    <3>1. \A k \in Node : ~ Started(k) BY <2>2, NobodyAlone
    <3>2. \A k \in Node : \/ tab'[k] = tab[k] /\ thread'[k]["gui"] = thread[k]["gui"]
                          \/ contacts'[k] # {}
      BY <1>1, <1>2, <2>2
    <3> QED BY <1>1, <3>1, <3>2, NobodyStarts
  <2> QED BY <2>1, <2>2
<1> QED BY <1>5, <1>6, <1>7, <1>8, <1>9 DEF Known

LEMMA AddContactKnown ==
    ASSUME Typed, Known, NEW n \in Node, NEW c \in Node, AddContact(n, c)
    PROVE  Known'
<1> DEFINE d == Decision(n, c)
           f == Frame(d, c, c, FALSE, {c})
<1>1. /\ Run(n, "gui", f) /\ "gui" \in Thread /\ "service" \in Thread
      /\ c \in Knows[n] /\ d # "present" /\ tab[n] = "open"
      /\ used' = [used EXCEPT !.adds = @ + 1]
      /\ UNCHANGED <<live, contacts, asked, requests, net, tab>>
  BY DEF AddContact, Thread
<1>2. /\ d \in {"add", "ask"}
      /\ d = "add" => contacts[n] = {}
      /\ d = "ask" => contacts[n] # {}
  BY <1>1, DecisionFacts DEF Known
<1> HIDE DEF d
<1>3. FrameOf(n, f) BY <1>1, <1>2, FramesMade DEF PC
<1>4. FrameTrue("gui", f, contacts[n]) BY <1>2 DEF FrameTrue, Frame
<1>5. live[n] /\ used.created
  <2>1. ~ Asleep(n) BY <1>1 DEF Asleep
  <2> QED BY <2>1, Awake
<1>6. used'.created BY <1>1, <1>5 DEF Typed, DataTyped, Usage
<1> HIDE DEF f
<1>7. /\ thread'[n]["gui"] = f
      /\ \A k \in Node : \A u \in Thread :
            k # n \/ u # "gui" => thread'[k][u] = thread[k][u]
  BY <1>1, <1>3, RunFacts DEF Typed
<1>8. Sleep' /\ Creation' BY <1>1, <1>5, <1>6, <1>7, AliveStep
<1>9. FramesTrue' BY <1>1, <1>4, <1>7, FramesStep DEF Known
<1>10. NetTrue' BY <1>1 DEF Known, NetTrue
<1>11. NothingAsked' /\ AnswersTrue' /\ MembersAsked' /\ AllAcquainted'
  BY <1>1, MembersStay
<1>12. FoundersAlone'
  <2>1. CASE contacts[n] = {}
    <3>1. Started(n) BY <1>1, <2>1 DEF Started
    <3>2. Alone(n) BY <3>1 DEF Known, FoundersAlone
    <3>3. ASSUME NEW k \in Node \ {n}
          PROVE  Asleep(k)'
      BY <1>1, <1>7, <3>2 DEF Alone, Asleep
    <3>4. thread'[n]["service"] = Idle BY <1>1, <1>7, <3>2 DEF Alone
    <3>5. Alone(n)' BY <1>1, <3>2, <3>3, <3>4 DEF Alone
    <3> QED BY <3>5, StaysAlone
  <2>2. CASE contacts[n] # {}
    <3>1. \A k \in Node : ~ Started(k) BY <2>2, NobodyAlone
    <3>2. \A k \in Node : \/ tab'[k] = tab[k] /\ thread'[k]["gui"] = thread[k]["gui"]
                          \/ contacts'[k] # {}
      BY <1>1, <1>7, <2>2
    <3> QED BY <1>1, <3>1, <3>2, NobodyStarts
  <2> QED BY <2>1, <2>2
<1> QED BY <1>8, <1>9, <1>10, <1>11, <1>12 DEF Known

\* The service's thread of n works on a message, and adds nobody.
LEMMA ServiceStep ==
    ASSUME Known, NEW n \in Node, net # {} \/ thread[n]["service"] # Idle,
           UNCHANGED tab, used'.created,
           \A k \in Node : contacts'[k] = contacts[k] /\ asked'[k] = asked[k],
           \A k \in Node : \A u \in Thread :
              k # n \/ u # "service" => thread'[k][u] = thread[k][u],
           FrameTrue("service", thread'[n]["service"], contacts[n]),
           Sleep', NetTrue', AnswersTrue', MembersAsked'
    PROVE  Known'
<1>1. \A k \in Node : ~ Started(k) BY NobodyAlone
<1>2. "gui" \in Thread /\ "service" \in Thread BY DEF Thread
<1>3. FoundersAlone'
  <2>1. \A k \in Node : \/ tab'[k] = tab[k] /\ thread'[k]["gui"] = thread[k]["gui"]
                        \/ contacts'[k] # {}
    BY <1>2
  <2>2. \A k \in Node : contacts'[k] = {} => contacts[k] = {} OBVIOUS
  <2> QED BY <1>1, <2>1, <2>2, NobodyStarts
<1>4. FramesTrue'
  <2>1. \A k \in Node : contacts'[k] = contacts[k] OBVIOUS
  <2> QED BY <1>2, <2>1, FramesStep DEF Known
<1>5. NothingAsked' BY DEF Known, NothingAsked
<1>6. AllAcquainted' BY DEF Known, AllAcquainted, Acquainted
<1>7. Creation' BY DEF Creation
<1> QED BY <1>3, <1>4, <1>5, <1>6, <1>7 DEF Known

LEMMA IgnoreKnown ==
    ASSUME Typed, Known, NEW n \in Node, NEW m \in net, Ignore(n, m)
    PROVE  Known'
<1>1. /\ Take(m, {})
      /\ UNCHANGED <<live, contacts, asked, requests, thread, mutex, tab, invited>>
  BY DEF Ignore
<1>2. net' \subseteq net \cup {} /\ used'.created = used.created
  BY <1>1, TakeFacts DEF Typed, DataTyped
<1>3. used.created BY DEF Known, Creation
<1>4. "service" \in Thread BY DEF Thread
<1>5. FrameTrue("service", thread'[n]["service"], contacts[n])
  BY <1>1, <1>4 DEF Known, FramesTrue
<1>6. NetTrue' BY <1>2 DEF Known, NetTrue
<1>7. Sleep' BY <1>1 DEF Known, Sleep, Asleep
<1>8. AnswersTrue' /\ MembersAsked' BY <1>1, MembersStay
<1> QED BY <1>1, <1>2, <1>3, <1>5, <1>6, <1>7, <1>8, ServiceStep

LEMMA ReceivedSyncKnown ==
    ASSUME Typed, Known, NEW n \in Node, NEW m \in net, ReceivedSync(n, m)
    PROVE  Known'
<1> DEFINE todo == {m.src} \cup (m.list \cap Knows[n])
<1>1. /\ ~ Ignored(n, m) /\ Begin(n, "service", m.src, todo) /\ "service" \in Thread
      /\ Take(m, {}) /\ UNCHANGED <<tab, invited>>
  BY DEF ReceivedSync, Thread
<1>2. m.src \in Node /\ todo \in SUBSET Knows[n] /\ todo # {} BY <1>1, Taken DEF Ignored
<1> HIDE DEF todo
<1>3. net' \subseteq net \cup {} /\ used'.created = used.created
  BY <1>1, TakeFacts DEF Typed, DataTyped
<1>4. used.created BY DEF Known, Creation
<1>5. /\ thread'[n]["service"] = Syncing(m.src, todo)
      /\ \A k \in Node : \A u \in Thread :
            k # n \/ u # "service" => thread'[k][u] = thread[k][u]
  BY <1>1, <1>2, BeginFacts
<1>6. /\ live'[n]
      /\ \A k \in Node : k # n \/ live[n] =>
            /\ live'[k] = live[k] /\ contacts'[k] = contacts[k]
            /\ asked'[k] = asked[k] /\ requests'[k] = requests[k]
      /\ ~ live[n] => /\ contacts'[n] = {} /\ asked'[n] = {}
                      /\ requests'[n] = [id \in Node |-> NoRequests]
  BY <1>1, <1>2, BeginFacts
<1>7. \A k \in Node : contacts'[k] = contacts[k] /\ asked'[k] = asked[k]
  <2> TAKE k \in Node
  <2>1. CASE k # n \/ live[n] BY <1>6, <2>1
  <2>2. CASE k = n /\ ~ live[n]
    <3>1. Asleep(n) BY <2>2 DEF Known, Sleep
    <3> QED BY <1>6, <2>2, <3>1 DEF Asleep
  <2> QED BY <2>1, <2>2
<1>8. \A k, id, c \in Node : requests'[k][id][c] \in {"NONE", requests[k][id][c]}
  <2> TAKE k, id, c \in Node
  <2>1. CASE k # n \/ live[n] BY <1>6, <2>1
  <2>2. CASE k = n /\ ~ live[n] BY <1>6, <2>2 DEF NoRequests
  <2> QED BY <2>1, <2>2
<1>9. AnswersTrue' BY <1>8 DEF Known, AnswersTrue
<1>10. MembersAsked' BY <1>7, <1>8 DEF Known, MembersAsked
<1>11. FrameTrue("service", thread'[n]["service"], contacts[n])
  BY <1>2, <1>5, SyncingTrue
<1>12. NetTrue' BY <1>3 DEF Known, NetTrue
<1>13. Sleep'
  <2>1. used'.created BY <1>3, <1>4
  <2> QED BY <1>1, <1>5, <1>6, <2>1, AliveStep
<1> QED BY <1>1, <1>3, <1>4, <1>5, <1>7, <1>9, <1>10, <1>11, <1>12, <1>13, ServiceStep

LEMMA ReceivedAskReqKnown ==
    ASSUME Typed, Known, NEW n \in Node, NEW m \in net, ReceivedAskReq(n, m)
    PROVE  Known'
<1> DEFINE k == m.id \in Knows[n]
           a == Msg("ask_res", n, m.src, m.id, {}, k)
<1>1. /\ Take(m, {a})
      /\ UNCHANGED <<live, contacts, asked, requests, thread, mutex, tab, invited>>
  BY DEF ReceivedAskReq
<1>2. MessageTrue(a) BY DEF MessageTrue, Msg
<1> HIDE DEF a
<1>3. net' \subseteq net \cup {a} /\ used'.created = used.created
  BY <1>1, TakeFacts DEF Typed, DataTyped
<1>4. used.created BY DEF Known, Creation
<1>5. FrameTrue("service", thread'[n]["service"], contacts[n])
  BY <1>1 DEF Known, FramesTrue, Thread
<1>6. NetTrue' BY <1>2, <1>3 DEF Known, NetTrue
<1>7. Sleep' BY <1>1 DEF Known, Sleep, Asleep
<1>8. AnswersTrue' /\ MembersAsked' BY <1>1, MembersStay
<1> QED BY <1>1, <1>3, <1>4, <1>5, <1>6, <1>7, <1>8, ServiceStep

LEMMA LookupKnown ==
    ASSUME Typed, Known, NEW n \in Node, NEW m \in net, Lookup(n, m)
    PROVE  Known'
<1> DEFINE f == Frame("answer", m.src, m.id, m.know, {})
<1>1. MessageTrue(m) BY DEF Known, NetTrue
<1>2. /\ ~ Ignored(n, m) /\ m.type = "ask_res" /\ Take(m, {})
      /\ Run(n, "service", f) /\ "service" \in Thread
      /\ UNCHANGED <<live, contacts, asked, requests, mutex, tab, invited>>
  BY <1>1 DEF Lookup, MessageTrue, Thread
<1>3. FrameTrue("service", f, contacts[n])
  BY <1>1, <1>2 DEF FrameTrue, Frame, MessageTrue
<1>4. thread' = [thread EXCEPT ![n]["service"] = f] BY <1>2 DEF Run
<1> HIDE DEF f
<1>5. /\ thread'[n]["service"] = f
      /\ \A k \in Node : \A u \in Thread :
            k # n \/ u # "service" => thread'[k][u] = thread[k][u]
  BY <1>2, <1>4 DEF Typed, ThreadsTyped
<1>6. net' \subseteq net \cup {} /\ used'.created = used.created
  BY <1>2, TakeFacts DEF Typed, DataTyped
<1>7. live[n] /\ used.created BY <1>2 DEF Ignored, Known, Creation
<1>8. NetTrue' BY <1>6 DEF Known, NetTrue
<1>9. Sleep' BY <1>2, <1>5, <1>6, <1>7, AliveStep
<1>10. AnswersTrue' /\ MembersAsked' BY <1>2, MembersStay
<1>11. FrameTrue("service", thread'[n]["service"], contacts[n]) BY <1>3, <1>5
<1> QED BY <1>2, <1>5, <1>6, <1>7, <1>8, <1>9, <1>10, <1>11, ServiceStep

\* When as many members as there are were asked, and only members were asked,
\* all of them were.
LEMMA PartOfClique ==
    ASSUME Typed, NEW n \in Node, NEW id, NEW r \in [Node -> RequestState],
           \A c \in Node : r[c] # "NONE" => c \in contacts[n],
           Clique(n, id, r) = "PART"
    PROVE  \A c \in contacts[n] : r[c] = "KNOW"
<1> DEFINE to == {c \in Node : r[c] # "NONE"}
<1>1. /\ Cardinality(to) = Cardinality(contacts[n])
      /\ \A c \in to : r[c] = "KNOW"
  BY DEF Clique
<1>2. to \subseteq contacts[n] OBVIOUS
<1>3. contacts[n] \subseteq Node BY DEF Typed, DataTyped
<1>4. IsFiniteSet(contacts[n]) BY <1>3, FS_Subset, ConversationAssumption
<1> HIDE DEF to
<1>5. to = contacts[n] BY <1>1, <1>2, <1>4, FS_Subset
<1> QED BY <1>1, <1>5

LEMMA ApplyAnswerKnown ==
    ASSUME Typed, Known, NEW n \in Node, ApplyAnswer(n)
    PROVE  Known'
<1> DEFINE f == thread[n]["service"]
           r == Marked(n)
           c == Clique(n, f.about, r) = "PART"
           g == IF c THEN Frame("add", f.who, f.about, FALSE, {f.about}) ELSE Idle
<1>1. /\ FrameOf(n, f) /\ f.pc = "answer" /\ "service" \in Thread
      /\ f.about \in Node /\ f.who \in Node
      /\ r \in [Node -> RequestState]
      /\ requests' = [requests EXCEPT ![n][f.about] = r]
      /\ Run(n, "service", g)
      /\ UNCHANGED <<live, contacts, asked, mutex, net, tab, invited, used>>
  BY AnswerFacts DEF Thread
<1>2. f.know => f.about \in Knows[f.who]
  <2>1. FrameTrue("service", f, contacts[n]) BY <1>1 DEF Known, FramesTrue
  <2> QED BY <1>1, <2>1 DEF FrameTrue
<1>3. \A k \in Node : /\ r[k] = "KNOW" => f.about \in Knows[k]
                      /\ r[k] # "NONE" => k \in contacts[n]
  <2> TAKE k \in Node
  <2> DEFINE q == requests[n][f.about]
  <2>1. /\ q[k] = "KNOW" => f.about \in Knows[k]
        /\ q[k] # "NONE" => k \in contacts[n]
    BY <1>1 DEF Known, AnswersTrue, MembersAsked
  <2>2. \/ r[k] = q[k]
        \/ k = f.who /\ q[k] # "NONE" /\ r[k] = IF f.know THEN "KNOW" ELSE "DONT_KNOW"
    <3>1. q \in [Node -> RequestState] BY <1>1 DEF Typed, DataTyped
    <3> QED BY <1>1, <3>1 DEF Marked
  <2> QED BY <1>2, <2>1, <2>2
<1>4. c => \A k \in contacts[n] : f.about \in Knows[k]
  <2>1. \A k \in contacts[n] : k \in Node BY DEF Typed, DataTyped
  <2>2. c => \A k \in contacts[n] : r[k] = "KNOW" BY <1>1, <1>3, PartOfClique
  <2> QED BY <1>3, <2>1, <2>2
<1> HIDE DEF c
<1>5. FrameTrue("service", g, contacts[n])
  <2>1. CASE c BY <1>4, <2>1 DEF FrameTrue, Frame
  <2>2. CASE ~ c BY <2>2, IdleTrue
  <2> QED BY <2>1, <2>2
<1>6. thread' = [thread EXCEPT ![n]["service"] = g] BY <1>1 DEF Run
<1> HIDE DEF g, r
<1>7. /\ thread'[n]["service"] = g
      /\ \A k \in Node : \A u \in Thread :
            k # n \/ u # "service" => thread'[k][u] = thread[k][u]
  BY <1>1, <1>6 DEF Typed, ThreadsTyped
<1>8. f # Idle /\ live[n] /\ used.created BY <1>1, BusyIsAwake, Awake DEF Idle
<1> HIDE DEF f
<1>9. \A k, id \in Node : \/ requests'[k][id] = requests[k][id]
                          \/ k = n /\ id = f.about /\ requests'[k][id] = r
  BY <1>1 DEF Typed, DataTyped
<1>10. AnswersTrue'
  <2> SUFFICES ASSUME NEW k \in Node, NEW id \in Node, NEW x \in Node,
                      requests'[k][id][x] = "KNOW"
               PROVE  id \in Knows[x]
    BY DEF AnswersTrue
  <2> QED BY <1>3, <1>9 DEF Known, AnswersTrue
<1>11. MembersAsked'
  <2> SUFFICES ASSUME NEW k \in Node, NEW id \in Node, NEW x \in Node,
                      requests'[k][id][x] # "NONE"
               PROVE  x \in contacts'[k]
    BY DEF MembersAsked
  <2> QED BY <1>1, <1>3, <1>9 DEF Known, MembersAsked
<1>12. Sleep' BY <1>1, <1>7, <1>8, AliveStep
<1>13. NetTrue' BY <1>1 DEF Known, NetTrue
<1>14. FrameTrue("service", thread'[n]["service"], contacts[n]) BY <1>5, <1>7
<1>15. thread[n]["service"] # Idle BY <1>8 DEF f
<1> QED BY <1>1, <1>7, <1>8, <1>10, <1>11, <1>12, <1>13, <1>14, <1>15, ServiceStep

LEMMA StepKnown ==
    ASSUME Typed, Known, [Next]_vars, Undisturbed'
    PROVE  Known'
<1>1. CASE UNCHANGED vars
  BY <1>1 DEF vars, Known, Sleep, Creation, FoundersAlone, NothingAsked, FramesTrue, NetTrue,
     AnswersTrue, MembersAsked, AllAcquainted, Acquainted, Started, Alone, Asleep
<1>2. ASSUME NEW n \in Node, NEW m \in net, Handle(n, m)
      PROVE  Known'
  BY <1>2, IgnoreKnown, ReceivedSyncKnown, ReceivedAskReqKnown, LookupKnown DEF Handle
<1>3. ASSUME NEW n \in Node, RemoveContact(n)
      PROVE  FALSE
  <2>1. thread[n]["service"].pc = "remove" /\ "service" \in Thread
    BY <1>3 DEF RemoveContact, At, Thread
  <2>2. FrameTrue("service", thread[n]["service"], contacts[n])
    BY <2>1 DEF Known, FramesTrue
  <2> QED BY <2>1, <2>2 DEF FrameTrue
<1>4. ASSUME NEW n \in Node, NEW c \in Node, Quit(n) \/ Disconnected(n, c)
      PROVE  FALSE
  BY <1>4, QuitTyped, DisconnectedTyped DEF Undisturbed
<1>5. ASSUME Next PROVE Known'
  BY <1>2, <1>3, <1>4, <1>5, CreateKnown, AddContactKnown, ShowKnown, NextContactKnown,
     AddNowKnown, AskAboutKnown, ApplyAnswerKnown
  DEF Next, Step
<1> QED BY <1>1, <1>5

\* Until a user quits or loses a contact, the members that a node has know each
\* other, in one direction at least, without exception.  Both threads add
\* members, several newcomers are asked about at once, and answers are late,
\* lost or doubled.
THEOREM MembersKnowEachOtherUntilDisturbed ==
    Spec => [](used.quits = 0 /\ used.cuts = 0 => \A n \in Node : Acquainted(n))
<1>1. Init => Cliques
  <2> SUFFICES ASSUME Init PROVE Known
    BY DEF Cliques
  <2>1. \A n \in Node : Asleep(n) BY DEF Init, Asleep
  <2>2. net = {} BY DEF Init
  <2>3. FramesTrue BY IdleTrue DEF Init, FramesTrue
  <2>4. FoundersAlone
    <3>1. \A n \in Node : ~ Started(n) BY <2>1 DEF Asleep, Started, Thread
    <3> QED BY <3>1 DEF FoundersAlone
  <2>5. AnswersTrue /\ MembersAsked BY DEF Init, NoRequests, AnswersTrue, MembersAsked
  <2>6. AllAcquainted /\ NothingAsked BY <2>1 DEF Asleep, AllAcquainted, Acquainted, NothingAsked
  <2> QED BY <2>1, <2>2, <2>3, <2>4, <2>5, <2>6 DEF Known, Sleep, Creation, NetTrue
<1>2. Typed /\ Cliques /\ [Next]_vars => Cliques'
  BY StepKnown, UsedStays DEF Cliques, Undisturbed
<1>3. Cliques => (used.quits = 0 /\ used.cuts = 0 => \A n \in Node : Acquainted(n))
  BY DEF Cliques, Undisturbed, Known, AllAcquainted
<1> QED BY <1>1, <1>2, <1>3, TypedAlways, PTL DEF Spec
(***************************************************************************)
(* Whatever happens                                                        *)
(***************************************************************************)
\* c knows, or is known by, the members that n has.
Fits(n, c) == \A q \in contacts[n] : q # c => c \in Knows[q] \/ q \in Knows[c]

\* What is open about a user who is no member was asked of members.
Open(n) ==
    \A id, c \in Node : requests[n][id][c] # "NONE" =>
        /\ id \in asked[n]
        /\ c \in contacts[n] \/ id \in contacts[n]

\* A node that was spared the mishaps: its threads do not both add somebody,
\* whom one of them adds fits, and losing a member leaves no question that
\* the member was asked.
Whole(n) ==
    /\ ~ (At(n, "gui", "add") /\ At(n, "service", "add"))
    /\ \A t \in Thread : At(n, t, "add") => Fits(n, thread[n][t].about)
    /\ Open(n)
    /\ Acquainted(n)

\* What answers say is true, wherever they are.
AnswerTrue(f) == f.pc = "answer" /\ f.know => f.about \in Knows[f.who]
ResponseTrue(m) == m.type = "ask_res" /\ m.know => m.id \in Knows[m.src]

Honest ==
    /\ \A m \in net : ResponseTrue(m)
    /\ \A n \in Node : \A t \in Thread : AnswerTrue(thread[n][t])
    /\ AnswersTrue

Proper == Honest /\ \A n \in Node : n \notin torn => Whole(n)

\* Nothing changes at the other nodes.
OthersRest(n) ==
    \A k \in Node \ {n} : /\ contacts'[k] = contacts[k] /\ asked'[k] = asked[k]
                          /\ requests'[k] = requests[k]
                          /\ \A t \in Thread : thread'[k][t] = thread[k][t]

LEMMA RestsWhole ==
    ASSUME NEW n, Whole(n), contacts'[n] = contacts[n], asked'[n] = asked[n],
           requests'[n] = requests[n], \A t \in Thread : thread'[n][t] = thread[n][t]
    PROVE  Whole(n)'
<1>1. "gui" \in Thread /\ "service" \in Thread BY DEF Thread
<1>2. \A t \in Thread : At(n, t, "add")' <=> At(n, t, "add") BY DEF At
<1>3. \A t \in Thread : At(n, t, "add")' => Fits(n, thread[n][t].about)'
  BY <1>2 DEF Whole, Fits
<1>4. Open(n)' BY DEF Whole, Open
<1>5. Acquainted(n)' BY DEF Whole, Acquainted
<1> QED BY <1>1, <1>2, <1>3, <1>4, <1>5 DEF Whole

LEMMA OneNode ==
    ASSUME Proper, NEW n \in Node, torn \subseteq torn', OthersRest(n), Honest',
           n \notin torn' => Whole(n)'
    PROVE  Proper'
<1>1. ASSUME NEW k \in Node \ {n}, k \notin torn'
      PROVE  Whole(k)'
  <2>1. Whole(k) BY <1>1 DEF Proper
  <2> QED BY <1>1, <2>1, RestsWhole DEF OthersRest
<1> QED BY <1>1 DEF Proper

\* A thread that is at work goes on to frame g.
LEMMA ThreadWhole ==
    ASSUME NEW n \in Node, Whole(n), NEW t \in Thread, NEW g, thread'[n][t] = g,
           \A u \in Thread : u # t => thread'[n][u] = thread[n][u],
           contacts'[n] = contacts[n], asked'[n] = asked[n], requests'[n] = requests[n],
           g.pc = "add" => /\ Fits(n, g.about)
                           /\ \A u \in Thread : u # t => ~ At(n, u, "add")
    PROVE  Whole(n)'
<1>1. t \in {"gui", "service"} /\ "gui" \in Thread /\ "service" \in Thread BY DEF Thread
<1>2. \A u \in Thread : u # t => (At(n, u, "add")' <=> At(n, u, "add")) BY DEF At
<1>3. At(n, t, "add")' <=> g.pc = "add" BY DEF At
<1>4. ~ (At(n, "gui", "add") /\ At(n, "service", "add"))'
  BY <1>1, <1>2, <1>3 DEF Whole
<1>5. ASSUME NEW u \in Thread, At(n, u, "add")'
      PROVE  \A q \in contacts'[n] : q # thread'[n][u].about =>
                thread'[n][u].about \in Knows[q] \/ q \in Knows[thread'[n][u].about]
  <2>1. CASE u = t
    <3>1. Fits(n, g.about) BY <1>3, <1>5, <2>1
    <3> QED BY <2>1, <3>1 DEF Fits
  <2>2. CASE u # t
    <3>1. Fits(n, thread[n][u].about) BY <1>2, <1>5, <2>2 DEF Whole
    <3> QED BY <2>2, <3>1 DEF Fits
  <2> QED BY <2>1, <2>2
<1>6. \A u \in Thread : (At(n, u, "add") => Fits(n, thread[n][u].about))'
  BY <1>5 DEF Fits
<1>7. Open(n)' BY DEF Whole, Open
<1>8. Acquainted(n)' BY DEF Whole, Acquainted
<1> QED BY <1>4, <1>6, <1>7, <1>8 DEF Whole

\* The threads keep telling the truth.
LEMMA HonestStep ==
    ASSUME Honest, NEW n \in Node, NEW t \in Thread,
           \A k \in Node : \A u \in Thread : k # n \/ u # t => thread'[k][u] = thread[k][u],
           AnswerTrue(thread'[n][t]),
           \A m \in net' : m \in net \/ ResponseTrue(m),
           AnswersTrue'
    PROVE  Honest'
<1>1. \A m \in net' : ResponseTrue(m) BY DEF Honest
<1>2. \A k \in Node : \A u \in Thread : AnswerTrue(thread'[k][u])
  BY DEF Honest
<1> QED BY <1>1, <1>2 DEF Honest, AnswerTrue, ResponseTrue

LEMMA SameAnswers ==
    ASSUME Honest, UNCHANGED requests
    PROVE  AnswersTrue'
BY DEF Honest, AnswersTrue

LEMMA IdleAnswers == AnswerTrue(Idle)
BY DEF AnswerTrue, Idle

LEMMA ResumeAnswers ==
    ASSUME Typed, NEW n \in Node, NEW t \in Thread, NEW who \in Node \cup {None},
           NEW todo \in SUBSET Knows[n], Resume(n, t, who, todo)
    PROVE  /\ AnswerTrue(thread'[n][t])
           /\ thread'[n][t].pc # "add"
           /\ \A k \in Node : \A u \in Thread : k # n \/ u # t => thread'[k][u] = thread[k][u]
<1>1. /\ thread'[n][t] \in {Syncing(who, todo), Idle}
      /\ \A k \in Node : \A u \in Thread : k # n \/ u # t => thread'[k][u] = thread[k][u]
  BY ResumeFacts
<1> QED BY <1>1 DEF AnswerTrue, Syncing, Frame, Idle

\* A decision is to add only where there are no members.
LEMMA DecidedAdd ==
    ASSUME NEW n, NEW c, Decision(n, c) = "add"
    PROVE  contacts[n] = {}
BY DEF Decision

\* A thread of n decides what to do with c.
LEMMA DecidedProper ==
    ASSUME Typed, Proper, NEW n \in Node, NEW t \in Thread, NEW c, NEW g, g.about = c,
           g.pc = Decision(n, c), thread'[n][t] = g, ~ At(n, t, "add"),
           \A k \in Node : \A u \in Thread : k # n \/ u # t => thread'[k][u] = thread[k][u],
           UNCHANGED <<contacts, asked, requests, net>>,
           Tear(n, BothAdd(n, Decision(n, c) = "add"))
    PROVE  Proper'
<1>1. torn \subseteq torn' BY DEF Tear
<1>2. Decision(n, c) # "answer" BY DEF Decision
<1>3. AnswerTrue(g) BY <1>2 DEF AnswerTrue
<1>4. Honest' BY <1>3, SameAnswers, HonestStep DEF Proper
<1>5. OthersRest(n) BY DEF OthersRest
<1>6. ASSUME n \notin torn' PROVE Whole(n)'
  <2>1. Whole(n) BY <1>1, <1>6 DEF Proper
  <2>2. ~ BothAdd(n, Decision(n, c) = "add") BY <1>6 DEF Tear
  <2>3. ASSUME g.pc = "add"
        PROVE  /\ Fits(n, g.about)
               /\ \A u \in Thread : u # t => ~ At(n, u, "add")
    <3>1. contacts[n] = {} BY <2>3, DecidedAdd
    <3> QED BY <2>2, <2>3, <3>1 DEF Fits, BothAdd
  <2> QED BY <2>1, <2>3, ThreadWhole
<1> QED BY <1>1, <1>4, <1>5, <1>6, OneNode
LEMMA NextContactProper ==
    ASSUME Typed, Proper, NEW n \in Node, NEW t \in Thread, NextContact(n, t)
    PROVE  Proper'
<1> DEFINE f == thread[n][t]
<1>1. /\ FrameOf(n, f) /\ f.todo \in SUBSET Knows[n] /\ f.who \in Node \cup {None}
      /\ f.pc = "next" /\ ~ At(n, t, "add")
  BY FrameAt DEF NextContact, At
<1>2. UNCHANGED <<contacts, asked, requests, net>> BY DEF NextContact
<1>3. ASSUME NEW todo \in SUBSET f.todo, Resume(n, t, f.who, todo), torn \subseteq torn'
      PROVE  Proper'
  <2>1. todo \in SUBSET Knows[n] BY <1>1
  <2>2. /\ AnswerTrue(thread'[n][t]) /\ thread'[n][t].pc # "add"
        /\ \A k \in Node : \A u \in Thread : k # n \/ u # t => thread'[k][u] = thread[k][u]
    BY <1>1, <1>3, <2>1, ResumeAnswers
  <2>3. Honest' BY <1>2, <2>2, SameAnswers, HonestStep DEF Proper
  <2>4. OthersRest(n) BY <1>2, <2>2 DEF OthersRest
  <2>5. n \notin torn' => Whole(n)'
    BY <1>2, <1>3, <2>2, ThreadWhole DEF Proper
  <2> QED BY <1>3, <2>3, <2>4, <2>5, OneNode
<1>4. CASE f.todo = {}
  <2>1. Resume(n, t, f.who, {}) /\ torn \subseteq torn' BY <1>4 DEF NextContact
  <2> QED BY <1>3, <2>1
<1>5. CASE f.todo # {}
  <2>1. PICK c \in f.todo :
           /\ Tear(n, BothAdd(n, Decision(n, c) = "add"))
           /\ IF Decision(n, c) = "present"
              THEN Resume(n, t, f.who, f.todo \ {c})
              ELSE Run(n, t, [f EXCEPT !.pc = Decision(n, c), !.about = c])
    BY <1>5 DEF NextContact
  <2>2. CASE Decision(n, c) = "present"
    <3>1. Resume(n, t, f.who, f.todo \ {c}) /\ torn \subseteq torn'
      BY <2>1, <2>2 DEF Tear
    <3> QED BY <1>3, <3>1
  <2>3. CASE Decision(n, c) # "present"
    <3> DEFINE d == Decision(n, c)
               g == [f EXCEPT !.pc = d, !.about = c]
    <3>1. d \in {"add", "ask"} BY <2>3 DEF Decision
    <3>2. c \in Knows[n] /\ c \in Node BY <1>1, KnowsNodes
    <3>3. Run(n, t, g) /\ Tear(n, BothAdd(n, d = "add")) BY <2>1, <2>3
    <3> HIDE DEF d
    <3>4. FrameOf(n, g) /\ g.pc = d /\ g.about = c
      BY <1>1, <3>1, <3>2 DEF FrameOf, Frames, PC
    <3> HIDE DEF g
    <3>5. /\ thread'[n][t] = g
          /\ \A k \in Node : \A u \in Thread : k # n \/ u # t => thread'[k][u] = thread[k][u]
      BY <3>3, <3>4, RunFacts DEF Typed
    <3> QED BY <1>1, <1>2, <3>3, <3>4, <3>5, DecidedProper DEF d
  <2> QED BY <2>2, <2>3
<1> QED BY <1>4, <1>5

LEMMA AddContactProper ==
    ASSUME Typed, Proper, NEW n \in Node, NEW c \in Node, AddContact(n, c)
    PROVE  Proper'
<1> DEFINE d == Decision(n, c)
           g == Frame(d, c, c, FALSE, {c})
<1>1. /\ Run(n, "gui", g) /\ "gui" \in Thread /\ c \in Knows[n] /\ d # "present"
      /\ IsIdle(n, "gui") /\ Tear(n, BothAdd(n, d = "add"))
      /\ UNCHANGED <<contacts, asked, requests, net>>
  BY DEF AddContact, Thread
<1>2. d \in {"add", "ask"} BY <1>1 DEF Decision
<1> HIDE DEF d
<1>3. FrameOf(n, g) BY <1>1, <1>2, FramesMade DEF PC
<1>4. g.pc = d /\ g.about = c BY DEF Frame
<1> HIDE DEF g
<1>5. /\ thread'[n]["gui"] = g
      /\ \A k \in Node : \A u \in Thread :
            k # n \/ u # "gui" => thread'[k][u] = thread[k][u]
  BY <1>1, <1>3, RunFacts DEF Typed
<1>6. ~ At(n, "gui", "add") BY <1>1 DEF IsIdle, At, Idle
<1> QED BY <1>1, <1>4, <1>5, <1>6, DecidedProper DEF d

\* A member is added: the other thread adds nobody, and the newcomer fits.
LEMMA AddNowProper ==
    ASSUME Typed, Proper, NEW n \in Node, NEW t \in Thread, AddNow(n, t)
    PROVE  Proper'
<1> DEFINE f == thread[n][t]
           S == contacts[n] \cup {f.about}
<1>1. /\ FrameOf(n, f) /\ f.todo \in SUBSET Knows[n] /\ f.who \in Node \cup {None}
      /\ f.pc = "add" /\ At(n, t, "add")
  BY FrameAt DEF AddNow, At
<1>2. /\ UNCHANGED <<asked, requests, torn>>
      /\ Resume(n, t, f.who, f.todo \ {f.about})
      /\ \/ UNCHANGED <<contacts, net>> /\ f.about \in contacts[n]
         \/ /\ contacts' = [contacts EXCEPT ![n] = S]
            /\ net' = net \cup SyncTo(n, S)
  BY DEF AddNow
<1>3. f.about \in Node BY <1>1, KnowsNodes DEF FrameOf
<1>4. S \in SUBSET Node BY <1>3 DEF Typed, DataTyped
<1>5. f.todo \ {f.about} \in SUBSET Knows[n] BY <1>1
<1>6. /\ AnswerTrue(thread'[n][t]) /\ thread'[n][t].pc # "add"
      /\ \A k \in Node : \A u \in Thread : k # n \/ u # t => thread'[k][u] = thread[k][u]
  BY <1>1, <1>2, <1>5, ResumeAnswers
<1>7. \A m \in net' : m \in net \/ ResponseTrue(m)
  <2>1. \A m \in SyncTo(n, S) : ResponseTrue(m) BY <1>4, SyncFacts DEF ResponseTrue
  <2> QED BY <1>2, <2>1
<1>8. Honest' BY <1>2, <1>6, <1>7, SameAnswers, HonestStep DEF Proper
<1>9. contacts'[n] = S /\ \A k \in Node \ {n} : contacts'[k] = contacts[k]
  BY <1>2 DEF Typed, DataTyped
<1>10. OthersRest(n) BY <1>2, <1>6, <1>9 DEF OthersRest
<1>11. ASSUME n \notin torn' PROVE Whole(n)'
  <2>1. Whole(n) BY <1>2, <1>11 DEF Proper
  <2>2. t \in {"gui", "service"} /\ "gui" \in Thread /\ "service" \in Thread BY DEF Thread
  <2>3. \A u \in Thread : ~ At(n, u, "add")'
    <3> SUFFICES ASSUME NEW u \in Thread, u # t PROVE ~ At(n, u, "add")'
      BY <1>6 DEF At
    <3>1. ~ At(n, u, "add") BY <1>1, <2>1, <2>2 DEF Whole, Thread
    <3> QED BY <1>6, <3>1 DEF At
  <2>4. Open(n)' BY <1>2, <1>9, <2>1 DEF Whole, Open
  <2>5. Acquainted(n)'
    <3>1. Fits(n, f.about) BY <1>1, <2>1 DEF Whole
    <3> HIDE DEF f
    <3>2. ASSUME NEW p \in S, NEW q \in S, p # q
          PROVE  p \in Knows[q] \/ q \in Knows[p]
      BY <2>1, <3>1, <3>2 DEF Whole, Acquainted, Fits
    <3> QED BY <1>9, <3>2 DEF Acquainted
  <2> QED BY <2>2, <2>3, <2>4, <2>5 DEF Whole
<1>12. torn \subseteq torn' BY <1>2
<1> QED BY <1>8, <1>10, <1>11, <1>12, OneNode

\* Only members are asked.
LEMMA AskAboutProper ==
    ASSUME Typed, Proper, NEW n \in Node, NEW t \in Thread, AskAbout(n, t)
    PROVE  Proper'
<1> DEFINE f == thread[n][t]
           r == [c \in Node |-> IF c \in contacts[n] THEN "SENT" ELSE "NONE"]
           p == Post(n, "ask_req", contacts[n], f.about, {})
<1>1. /\ FrameOf(n, f) /\ f.todo \in SUBSET Knows[n] /\ f.who \in Node \cup {None}
      /\ f.pc = "ask"
  BY FrameAt DEF AskAbout, At
<1>2. f.about \in Node BY <1>1, KnowsNodes DEF FrameOf
<1>3. /\ UNCHANGED <<contacts, torn>>
      /\ Resume(n, t, f.who, f.todo \ {f.about})
      /\ asked' = [asked EXCEPT ![n] = @ \cup {f.about}]
      /\ requests' = [requests EXCEPT ![n][f.about] = r]
      /\ net' = net \cup p
  BY DEF AskAbout
<1>4. f.todo \ {f.about} \in SUBSET Knows[n] BY <1>1
<1>5. /\ AnswerTrue(thread'[n][t]) /\ thread'[n][t].pc # "add"
      /\ \A k \in Node : \A u \in Thread : k # n \/ u # t => thread'[k][u] = thread[k][u]
  BY <1>1, <1>3, <1>4, ResumeAnswers
<1>6. \A m \in p : ResponseTrue(m) BY <1>2, PostFacts DEF ResponseTrue, MessageType
<1>7. r \in [Node -> RequestState] /\ \A c \in Node : r[c] # "KNOW" /\ (r[c] # "NONE" => c \in contacts[n])
  BY DEF RequestState
<1> HIDE DEF p, r, f
<1>8. /\ \A k \in Node \ {n} : requests'[k] = requests[k] /\ asked'[k] = asked[k]
      /\ \A id \in Node : requests'[n][id] = IF id = f.about THEN r ELSE requests[n][id]
      /\ asked'[n] = asked[n] \cup {f.about}
  BY <1>2, <1>3 DEF Typed, DataTyped
<1>9. AnswersTrue'
  <2> SUFFICES ASSUME NEW k \in Node, NEW id \in Node, NEW c \in Node,
                      requests'[k][id][c] = "KNOW"
               PROVE  id \in Knows[c]
    BY DEF AnswersTrue
  <2>1. requests[k][id][c] = "KNOW" BY <1>7, <1>8
  <2> QED BY <2>1 DEF Proper, Honest, AnswersTrue
<1>10. Honest'
  <2>1. \A m \in net' : m \in net \/ ResponseTrue(m) BY <1>3, <1>6
  <2>2. AnswerTrue(thread'[n][t]) BY <1>5
  <2> QED BY <1>5, <1>9, <2>1, <2>2, HonestStep DEF Proper
<1>11. OthersRest(n) BY <1>3, <1>5, <1>8 DEF OthersRest
<1>12. ASSUME n \notin torn' PROVE Whole(n)'
  <2>1. Whole(n) BY <1>3, <1>12 DEF Proper
  <2>2. "gui" \in Thread /\ "service" \in Thread BY DEF Thread
  <2>3. \A u \in Thread : At(n, u, "add")' => thread'[n][u] = thread[n][u] /\ At(n, u, "add")
    BY <1>5 DEF At
  <2>4. ~ (At(n, "gui", "add") /\ At(n, "service", "add"))' BY <2>1, <2>2, <2>3 DEF Whole
  <2>5. \A u \in Thread : (At(n, u, "add") => Fits(n, thread[n][u].about))'
    BY <1>3, <2>1, <2>3 DEF Whole, Fits
  <2>6. Open(n)' BY <1>3, <1>7, <1>8, <2>1 DEF Whole, Open
  <2>7. Acquainted(n)' BY <1>3, <2>1 DEF Whole, Acquainted
  <2> QED BY <2>4, <2>5, <2>6, <2>7 DEF Whole
<1>13. torn \subseteq torn' BY <1>3
<1> QED BY <1>10, <1>11, <1>12, <1>13, OneNode
\* A sync begins: what was there stays, or nothing was.
LEMMA BeginProper ==
    ASSUME Typed, Proper, NEW n \in Node, NEW t \in Thread, NEW who \in Node,
           NEW todo \in SUBSET Knows[n], Begin(n, t, who, todo), UNCHANGED torn,
           \A m \in net' : m \in net
    PROVE  Proper'
<1>1. /\ thread'[n][t] = Syncing(who, todo)
      /\ \A k \in Node : \A u \in Thread : k # n \/ u # t => thread'[k][u] = thread[k][u]
      /\ \A k \in Node : k # n \/ live[n] =>
            /\ contacts'[k] = contacts[k]
            /\ asked'[k] = asked[k] /\ requests'[k] = requests[k]
      /\ ~ live[n] => /\ contacts'[n] = {} /\ asked'[n] = {}
                      /\ requests'[n] = [id \in Node |-> NoRequests]
  BY BeginFacts
<1>2. Syncing(who, todo).pc = "next" BY DEF Syncing, Frame
<1>3. AnswersTrue'
  <2> SUFFICES ASSUME NEW k \in Node, NEW id \in Node, NEW c \in Node,
                      requests'[k][id][c] = "KNOW"
               PROVE  id \in Knows[c]
    BY DEF AnswersTrue
  <2>1. k # n \/ live[n] BY <1>1 DEF NoRequests
  <2>2. requests[k][id][c] = "KNOW" BY <1>1, <2>1
  <2> QED BY <2>2 DEF Proper, Honest, AnswersTrue
<1>4. AnswerTrue(thread'[n][t]) BY <1>1, <1>2 DEF AnswerTrue
<1>5. Honest' BY <1>1, <1>3, <1>4, HonestStep DEF Proper
<1>6. OthersRest(n) BY <1>1 DEF OthersRest
<1>7. ASSUME n \notin torn' PROVE Whole(n)'
  <2>1. Whole(n) BY <1>7 DEF Proper
  <2>2. CASE live[n] BY <1>1, <1>2, <2>1, <2>2, ThreadWhole
  <2>3. CASE ~ live[n]
    <3>1. "gui" \in Thread /\ "service" \in Thread /\ t \in {"gui", "service"} BY DEF Thread
    <3>2. ~ At(n, t, "add")' BY <1>1, <1>2 DEF At
    <3>3. \A u \in Thread : (At(n, u, "add") => Fits(n, thread[n][u].about))'
      BY <1>1, <2>3 DEF Fits
    <3>4. Open(n)' BY <1>1, <2>3 DEF Open, NoRequests
    <3>5. Acquainted(n)' BY <1>1, <2>3 DEF Acquainted
    <3> QED BY <3>1, <3>2, <3>3, <3>4, <3>5 DEF Whole
  <2> QED BY <2>2, <2>3
<1> QED BY <1>5, <1>6, <1>7, OneNode

LEMMA CreateProper ==
    ASSUME Typed, Proper, NEW n \in Node, NEW s, Create(n, s)
    PROVE  Proper'
<1>1. /\ s \in SUBSET Knows[n] /\ Begin(n, "gui", n, s) /\ "gui" \in Thread
      /\ UNCHANGED <<net, torn>>
  BY DEF Create, Thread
<1> QED BY <1>1, BeginProper

LEMMA ReceivedSyncProper ==
    ASSUME Typed, Proper, NEW n \in Node, NEW m \in net, ReceivedSync(n, m)
    PROVE  Proper'
<1> DEFINE todo == {m.src} \cup (m.list \cap Knows[n])
<1>1. /\ ~ Ignored(n, m) /\ Begin(n, "service", m.src, todo) /\ "service" \in Thread
      /\ Take(m, {}) /\ UNCHANGED torn
  BY DEF ReceivedSync, Thread
<1>2. m.src \in Node /\ todo \in SUBSET Knows[n] BY <1>1, Taken DEF Ignored
<1> HIDE DEF todo
<1>3. net' \subseteq net \cup {} BY <1>1, TakeFacts DEF Typed, DataTyped
<1> QED BY <1>1, <1>2, <1>3, BeginProper

\* A member is lost: unless it leaves a question about somebody else, nothing
\* depends on it.
LEMMA ForgetWhole ==
    ASSUME Typed, NEW n \in Node, Whole(n), NEW c \in Node, Forget(n, c), n \notin torn',
           \A t \in Thread : At(n, t, "add")' => thread'[n][t] = thread[n][t]
    PROVE  Whole(n)'
<1>1. /\ contacts' = [contacts EXCEPT ![n] = @ \ {c}]
      /\ asked' = [asked EXCEPT ![n] = @ \ {c}]
      /\ requests' = [requests EXCEPT ![n][c] = NoRequests]
      /\ ~ LostWhileAsking(n, c)
  BY DEF Forget, Tear
<1>2. /\ contacts'[n] = contacts[n] \ {c} /\ asked'[n] = asked[n] \ {c}
      /\ \A id \in Node : requests'[n][id] = IF id = c THEN NoRequests ELSE requests[n][id]
  BY <1>1 DEF Typed, DataTyped
<1>3. "gui" \in Thread /\ "service" \in Thread BY DEF Thread
<1>4. \A t \in Thread : At(n, t, "add")' => At(n, t, "add") BY DEF At
<1>5. ~ (At(n, "gui", "add") /\ At(n, "service", "add"))' BY <1>3, <1>4 DEF Whole
<1>6. \A t \in Thread : (At(n, t, "add") => Fits(n, thread[n][t].about))'
  BY <1>2, <1>4 DEF Whole, Fits
<1>7. Acquainted(n)' BY <1>2 DEF Whole, Acquainted
<1>8. Open(n)'
  <2> SUFFICES ASSUME NEW id \in Node, NEW x \in Node, requests'[n][id][x] # "NONE"
               PROVE  /\ id \in asked'[n]
                      /\ x \in contacts'[n] \/ id \in contacts'[n]
    BY DEF Open
  <2>1. id # c /\ requests[n][id][x] # "NONE" BY <1>2 DEF NoRequests
  <2>2. id \in asked[n] /\ (x \in contacts[n] \/ id \in contacts[n])
    BY <2>1 DEF Whole, Open
  <2>3. CASE id \in contacts[n] BY <1>2, <2>1, <2>2, <2>3
  <2>4. CASE id \notin contacts[n]
    <3>1. c \notin contacts[n] BY <1>1, <2>2, <2>4 DEF LostWhileAsking
    <3> QED BY <1>2, <2>1, <2>2, <2>4, <3>1
  <2> QED BY <2>3, <2>4
<1> QED BY <1>5, <1>6, <1>7, <1>8 DEF Whole

LEMMA ForgetProper ==
    ASSUME Typed, Proper, NEW n \in Node, NEW c \in Node, Forget(n, c), UNCHANGED net,
           \A k \in Node : \A u \in Thread :
              thread'[k][u] = thread[k][u] \/ (k = n /\ thread'[k][u] = Idle)
    PROVE  Proper'
<1>1. /\ contacts' = [contacts EXCEPT ![n] = @ \ {c}]
      /\ asked' = [asked EXCEPT ![n] = @ \ {c}]
      /\ requests' = [requests EXCEPT ![n][c] = NoRequests]
      /\ torn \subseteq torn'
  BY DEF Forget, Tear
<1>2. OthersRest(n) BY <1>1 DEF OthersRest, Typed, DataTyped
<1>3. \A k, id, x \in Node : requests'[k][id][x] \in {"NONE", requests[k][id][x]}
  BY <1>1 DEF Typed, DataTyped, NoRequests
<1>4. AnswersTrue' BY <1>3 DEF Proper, Honest, AnswersTrue
<1>5. Honest' BY <1>4, IdleAnswers DEF Proper, Honest, AnswerTrue, ResponseTrue
<1>6. ASSUME n \notin torn' PROVE Whole(n)'
  <2>1. Whole(n) BY <1>1, <1>6 DEF Proper
  <2>2. \A t \in Thread : At(n, t, "add")' => thread'[n][t] = thread[n][t]
    BY DEF At, Idle
  <2> QED BY <1>6, <2>1, <2>2, ForgetWhole
<1> QED BY <1>1, <1>2, <1>5, <1>6, OneNode

LEMMA DisconnectedProper ==
    ASSUME Typed, Proper, NEW n \in Node, NEW c \in Node, Disconnected(n, c)
    PROVE  Proper'
BY ForgetProper DEF Disconnected

LEMMA RemoveContactProper ==
    ASSUME Typed, Proper, NEW n \in Node, RemoveContact(n)
    PROVE  Proper'
<1> DEFINE c == thread[n]["service"].who
<1>1. /\ At(n, "service", "remove") /\ "service" \in Thread
      /\ Forget(n, c) /\ Run(n, "service", Idle) /\ UNCHANGED net
  BY DEF RemoveContact, Thread
<1>2. c \in Node BY <1>1, FrameAt DEF FrameOf, At
<1> HIDE DEF c
<1>3. /\ thread'[n]["service"] = Idle
      /\ \A k \in Node : \A u \in Thread :
            k # n \/ u # "service" => thread'[k][u] = thread[k][u]
  BY <1>1, IdleFrame, RunFacts DEF Typed
<1> QED BY <1>1, <1>2, <1>3, ForgetProper

LEMMA LookupProper ==
    ASSUME Typed, Proper, NEW n \in Node, NEW m \in net, Lookup(n, m)
    PROVE  Proper'
<1> DEFINE pc == IF m.type = "quit" THEN "remove" ELSE "answer"
           f == Frame(pc, m.src, m.id, m.know, {})
<1>1. /\ m.type \in {"ask_res", "quit"} /\ Take(m, {})
      /\ Run(n, "service", f) /\ "service" \in Thread
      /\ UNCHANGED <<contacts, asked, requests, torn>>
  BY DEF Lookup, Thread
<1>2. AnswerTrue(f) /\ f.pc # "add"
  BY <1>1 DEF Proper, Honest, ResponseTrue, AnswerTrue, Frame
<1>3. thread' = [thread EXCEPT ![n]["service"] = f] BY <1>1 DEF Run
<1> HIDE DEF f
<1>4. /\ thread'[n]["service"] = f
      /\ \A k \in Node : \A u \in Thread :
            k # n \/ u # "service" => thread'[k][u] = thread[k][u]
  BY <1>1, <1>3 DEF Typed, ThreadsTyped
<1>5. net' \subseteq net \cup {} BY <1>1, TakeFacts DEF Typed, DataTyped
<1>6. Honest' BY <1>1, <1>2, <1>4, <1>5, SameAnswers, HonestStep DEF Proper
<1>7. OthersRest(n) BY <1>1, <1>4 DEF OthersRest
<1>8. n \notin torn' => Whole(n)' BY <1>1, <1>2, <1>4, ThreadWhole DEF Proper
<1> QED BY <1>1, <1>6, <1>7, <1>8, OneNode

\* Whom all answers let in fits: it is a member already, or all members were
\* asked and know it.
LEMMA ApplyAnswerProper ==
    ASSUME Typed, Proper, NEW n \in Node, ApplyAnswer(n)
    PROVE  Proper'
<1> DEFINE f == thread[n]["service"]
           r == Marked(n)
           c == Clique(n, f.about, r) = "PART"
           g == IF c THEN Frame("add", f.who, f.about, FALSE, {f.about}) ELSE Idle
           q == requests[n][f.about]
<1>1. /\ f.pc = "answer" /\ "service" \in Thread
      /\ f.about \in Node /\ f.who \in Node
      /\ r \in [Node -> RequestState]
      /\ requests' = [requests EXCEPT ![n][f.about] = r]
      /\ Run(n, "service", g)
      /\ UNCHANGED <<contacts, asked, net>>
  BY AnswerFacts DEF Thread
<1>2. Tear(n, BothAdd(n, c)) BY DEF ApplyAnswer, Marked
<1>3. f.know => f.about \in Knows[f.who]
  BY <1>1 DEF Proper, Honest, AnswerTrue
<1>4. \A k \in Node : \/ r[k] = q[k]
                      \/ k = f.who /\ q[k] # "NONE" /\ r[k] = IF f.know THEN "KNOW" ELSE "DONT_KNOW"
  <2>1. q \in [Node -> RequestState] BY <1>1 DEF Typed, DataTyped
  <2> QED BY <1>1, <2>1 DEF Marked
<1>5. \A k \in Node : /\ r[k] = "KNOW" => f.about \in Knows[k]
                      /\ r[k] # "NONE" => q[k] # "NONE"
  <2> TAKE k \in Node
  <2>1. q[k] = "KNOW" => f.about \in Knows[k] BY <1>1 DEF Proper, Honest, AnswersTrue
  <2> QED BY <1>3, <1>4, <2>1
<1>6. ASSUME Whole(n), c PROVE Fits(n, f.about)
  <2>1. CASE f.about \in contacts[n] BY <1>6, <2>1 DEF Whole, Acquainted, Fits
  <2>2. CASE f.about \notin contacts[n]
    <3>1. \A k \in Node : r[k] # "NONE" => k \in contacts[n]
      BY <1>1, <1>5, <1>6, <2>2 DEF Whole, Open
    <3>2. \A k \in contacts[n] : r[k] = "KNOW" BY <1>1, <1>6, <3>1, PartOfClique
    <3>3. \A k \in contacts[n] : k \in Node BY DEF Typed, DataTyped
    <3> QED BY <1>5, <3>2, <3>3 DEF Fits
  <2> QED BY <2>1, <2>2
<1> HIDE DEF c
<1>7. AnswerTrue(g) /\ (g.pc = "add" => c /\ g.about = f.about)
  BY DEF AnswerTrue, Frame, Idle
<1>8. thread' = [thread EXCEPT ![n]["service"] = g] BY <1>1 DEF Run
<1> HIDE DEF g, r
<1>9. /\ thread'[n]["service"] = g
      /\ \A k \in Node : \A u \in Thread :
            k # n \/ u # "service" => thread'[k][u] = thread[k][u]
  BY <1>1, <1>8 DEF Typed, ThreadsTyped
<1> HIDE DEF f
<1>10. /\ \A k \in Node \ {n} : requests'[k] = requests[k]
       /\ \A id \in Node : requests'[n][id] = IF id = f.about THEN r ELSE requests[n][id]
  BY <1>1 DEF Typed, DataTyped
<1>11. AnswersTrue'
  <2> SUFFICES ASSUME NEW k \in Node, NEW id \in Node, NEW x \in Node,
                      requests'[k][id][x] = "KNOW"
               PROVE  id \in Knows[x]
    BY DEF AnswersTrue
  <2> QED BY <1>5, <1>10 DEF Proper, Honest, AnswersTrue
<1>12. Honest'
  <2>1. \A m \in net' : m \in net \/ ResponseTrue(m) BY <1>1
  <2> QED BY <1>1, <1>7, <1>9, <1>11, <2>1, HonestStep DEF Proper
<1>13. OthersRest(n) BY <1>1, <1>9, <1>10 DEF OthersRest
<1>14. torn \subseteq torn' BY <1>2 DEF Tear
<1>15. ASSUME n \notin torn' PROVE Whole(n)'
  <2>1. Whole(n) BY <1>14, <1>15 DEF Proper
  <2>2. "gui" \in Thread /\ "service" \in Thread BY DEF Thread
  <2>3. c => ~ At(n, "gui", "add") BY <1>2, <1>15, <2>2 DEF Tear, BothAdd
  <2>4. At(n, "service", "add")' => c /\ g.about = f.about BY <1>7, <1>9 DEF At
  <2>5. thread'[n]["gui"] = thread[n]["gui"] /\ (At(n, "gui", "add")' <=> At(n, "gui", "add"))
    BY <1>9, <2>2 DEF At
  <2>6. ~ (At(n, "gui", "add") /\ At(n, "service", "add"))' BY <2>3, <2>4, <2>5
  <2>7. (At(n, "gui", "add") => Fits(n, thread[n]["gui"].about))'
    BY <1>1, <2>1, <2>2, <2>5 DEF Whole, Fits
  <2>8. (At(n, "service", "add") => Fits(n, thread[n]["service"].about))'
    <3>1. c => Fits(n, f.about) BY <1>6, <2>1
    <3> QED BY <1>1, <1>9, <2>4, <3>1 DEF Fits
  <2>9. \A t \in Thread : (At(n, t, "add") => Fits(n, thread[n][t].about))'
    BY <2>7, <2>8 DEF Thread
  <2>10. Open(n)' BY <1>1, <1>5, <1>10, <2>1 DEF Whole, Open
  <2>11. Acquainted(n)' BY <1>1, <2>1 DEF Whole, Acquainted
  <2> QED BY <2>6, <2>9, <2>10, <2>11 DEF Whole
<1> QED BY <1>12, <1>13, <1>14, <1>15, OneNode
\* Neither members nor threads change.
LEMMA QuietProper ==
    ASSUME Proper, UNCHANGED <<contacts, asked, requests, thread, torn>>,
           \A m \in net' : m \in net \/ ResponseTrue(m)
    PROVE  Proper'
<1>1. Honest' BY SameAnswers DEF Proper, Honest, AnswerTrue, ResponseTrue
<1>2. \A n \in Node : n \notin torn' => Whole(n)' BY RestsWhole DEF Proper
<1> QED BY <1>1, <1>2 DEF Proper

LEMMA IgnoreProper ==
    ASSUME Typed, Proper, NEW n \in Node, NEW m \in net, Ignore(n, m)
    PROVE  Proper'
<1>1. Take(m, {}) /\ UNCHANGED <<contacts, asked, requests, thread, torn>> BY DEF Ignore
<1>2. net' \subseteq net \cup {} BY <1>1, TakeFacts DEF Typed, DataTyped
<1> QED BY <1>1, <1>2, QuietProper

LEMMA ReceivedAskReqProper ==
    ASSUME Typed, Proper, NEW n \in Node, NEW m \in net, ReceivedAskReq(n, m)
    PROVE  Proper'
<1> DEFINE a == Msg("ask_res", n, m.src, m.id, {}, m.id \in Knows[n])
<1>1. Take(m, {a}) /\ UNCHANGED <<contacts, asked, requests, thread, torn>>
  BY DEF ReceivedAskReq
<1>2. ResponseTrue(a) BY DEF ResponseTrue, Msg
<1> HIDE DEF a
<1>3. net' \subseteq net \cup {a} BY <1>1, TakeFacts DEF Typed, DataTyped
<1> QED BY <1>1, <1>2, <1>3, QuietProper

LEMMA ShowProper ==
    ASSUME Typed, Proper, NEW n \in Node, Show(n)
    PROVE  Proper'
<1>1. /\ net' = net \cup (IF tab[n] = "mine" THEN SyncTo(n, contacts[n]) ELSE {})
      /\ UNCHANGED <<contacts, asked, requests, thread, torn>>
  BY DEF Show
<1>2. \A m \in SyncTo(n, contacts[n]) : ResponseTrue(m)
  BY SyncFacts DEF Typed, DataTyped, ResponseTrue
<1> QED BY <1>1, <1>2, QuietProper

LEMMA QuitProper ==
    ASSUME Typed, Proper, NEW n \in Node, Quit(n)
    PROVE  Proper'
<1>1. /\ net' = net \cup Post(n, "quit", contacts[n], n, {})
      /\ UNCHANGED <<contacts, asked, requests, thread, torn>>
  BY DEF Quit
<1>2. \A m \in Post(n, "quit", contacts[n], n, {}) : ResponseTrue(m)
  BY PostFacts DEF MessageType, ResponseTrue
<1> QED BY <1>1, <1>2, QuietProper

LEMMA StepProper ==
    ASSUME Typed, Proper, [Next]_vars
    PROVE  Proper'
<1>1. CASE UNCHANGED vars
  BY <1>1, QuietProper DEF vars
<1>2. ASSUME NEW n \in Node, NEW m \in net, Handle(n, m)
      PROVE  Proper'
  BY <1>2, IgnoreProper, ReceivedSyncProper, ReceivedAskReqProper, LookupProper DEF Handle
<1>3. ASSUME NEW n \in Node, NEW t \in Thread, Step(n, t)
      PROVE  Proper'
  BY <1>3, NextContactProper, AddNowProper, AskAboutProper DEF Step
<1>4. ASSUME Next PROVE Proper'
  BY <1>2, <1>3, <1>4, CreateProper, AddContactProper, DisconnectedProper, ShowProper,
     QuitProper, RemoveContactProper, ApplyAnswerProper
  DEF Next
<1> QED BY <1>1, <1>4

\* The members that a node has know each other, in one direction at least,
\* through every way in which members leave, are lost and come back, and
\* answers are late, lost or doubled, until one of the two mishaps befalls the
\* node: a member is lost while a question about somebody else is open, or both
\* threads add somebody to a conversation that has lost its last member.
THEOREM MembersKnowEachOtherAlways == Spec => []MembersKnowEachOther
<1>1. Init => Proper
  <2> SUFFICES ASSUME Init PROVE Proper
    OBVIOUS
  <2>1. AnswersTrue BY DEF Init, NoRequests, AnswersTrue
  <2>2. Honest BY <2>1, IdleAnswers DEF Init, Honest
  <2>3. ASSUME NEW n \in Node PROVE Whole(n)
    <3>1. \A t \in Thread : ~ At(n, t, "add") BY DEF Init, At, Idle
    <3>2. Open(n) BY DEF Init, Open, NoRequests
    <3>3. Acquainted(n) BY DEF Init, Acquainted
    <3> QED BY <3>1, <3>2, <3>3 DEF Whole, Thread
  <2> QED BY <2>2, <2>3 DEF Proper
<1>2. Typed /\ Proper /\ [Next]_vars => Proper' BY StepProper
<1>3. Proper => MembersKnowEachOther
  BY DEF Proper, Whole, MembersKnowEachOther
<1> QED BY <1>1, <1>2, <1>3, TypedAlways, PTL DEF Spec
=============================================================================
