------------------------------ MODULE Greeter -------------------------------
(***************************************************************************)
(* How contacts find each other: the locator (firelocator) with which the  *)
(* user services of several users register (user/user_service), over one   *)
(* TCP connection and by UDP datagrams, and which tells two of them where  *)
(* the other is when one of them asks.                                     *)
(*                                                                         *)
(* Every user is a contact of every other.  A user is at a place, behind a *)
(* NAT (external): from outside it has one UDP endpoint per place and a    *)
(* TCP endpoint per connection, and a datagram is let in only from where   *)
(* the user has sent one to.  UserService looks at what one process does   *)
(* with one contact; here a contact is busy (CONNECTING or CONNECTED) or   *)
(* offline, and the pings that keep it busy are not messages.              *)
(***************************************************************************)
EXTENDS Naturals, Sequences, FiniteSets, SequencesExt

CONSTANTS
    User, Place,
    Starts,         \* where the users may be at first
    Travellers,     \* the users that may change their place
    MAX_ADDRESSES,  \* addresses remembered of a contact
    MaxQueue,       \* bound: messages to the locator in a TCP connection
    MaxAnswers,     \* bound: messages from the locator in one
    Faults          \* bounds: how often what may happen in one behaviour

\* Users change their place, datagrams are lost, the locator restarts, users
\* add or remove a locator.
Fault == {"moves", "lost", "restarts", "edits"}

ASSUME GreeterAssumption ==
    /\ IsFiniteSet(User)
    /\ Travellers \subseteq User
    /\ Starts \subseteq [User -> Place]
    /\ {MAX_ADDRESSES, MaxQueue, MaxAnswers} \subseteq Nat \ {0}
    /\ Faults \subseteq [Fault -> Nat]

VARIABLES
    at,         \* at[u]: where u is
    listed,     \* listed[u]: the locator is in _user->greeters()
    mail,       \* mail[u]: a register_with_greeter is in the service's mailbox
    tcp,        \* tcp[u]: the connection of u to the locator
    udp,        \* registrations on their way by UDP
    requests,   \* ping requests on their way
    busy,       \* busy[u]: the contacts that u is connecting or connected to
    known,      \* known[u][v]: c->addresses() of the contact v
    hole,       \* hole[u]: the endpoints that u has sent to since it is here
    users,      \* the locator's map of users
    channels,   \* ... its channels, by connection
    incoming,   \* ... its connections that it takes for connected
    left        \* how often what may still happen

userVars == <<listed, mail, busy, known>>
locatorVars == <<users, channels, incoming>>
vars == <<at, userVars, tcp, udp, requests, hole, locatorVars, left>>

(***************************************************************************)
(* Endpoints and messages                                                  *)
(***************************************************************************)
End(kind, of, nr) == [kind |-> kind, of |-> of, nr |-> nr]
Lan(u) == End("lan", u, at[u])
Wan(u) == End("udp", u, at[u])
Connection(u) == End("tcp", u, tcp[u].nr)
NoEnd == End("none", 0, 0)

\* A datagram from u to the endpoint e: where it comes from, and whether it
\* gets to where e is.  A NAT does not turn a datagram around.
Seen(u, e) == IF e.kind = "lan" THEN Lan(u) ELSE Wan(u)
Reaches(u, e) ==
    \/ e = Lan(e.of) /\ at[u] = at[e.of]
    \/ e = Wan(e.of) /\ at[u] # at[e.of]

Others(u) == User \ {u}

\* What u sends to the endpoints in ends lets answers in.
Open(u, ends) == hole' = [hole EXCEPT ![u] = @ \cup {e \in ends : e.kind = "udp"}]

(***************************************************************************)
(* The connection of a user to the locator.  What is sent on one that is   *)
(* broken is lost.                                                         *)
(***************************************************************************)
Closed(nr) == [nr |-> nr, state |-> "none", out |-> <<>>, in |-> <<>>]
Broken(t) == [t EXCEPT !.state = IF @ = "none" THEN "none" ELSE "broken",
                       !.out = <<>>, !.in = <<>>]

\* t after u has sent the messages in s; the pool connects when it has to
Sent(t, s) ==
    CASE t.state = "broken" -> t
      [] t.state = "open" -> [t EXCEPT !.out = @ \o s]
      [] t.state = "none" -> [nr |-> t.nr + 1, state |-> "open", out |-> s, in |-> <<>>]

Spend(what) ==
    /\ left[what] > 0
    /\ left' = [left EXCEPT ![what] = @ - 1]
-----------------------------------------------------------------------------
(***************************************************************************)
(* The user service                                                        *)
(***************************************************************************)
\* send_ping_request: a request is dropped where nobody listens.
Ping(u, ends, back) ==
    {[from |-> Seen(u, e), to |-> e, back |-> back] : e \in {x \in ends : Reaches(u, x)}}

\* ... to the addresses that are known of the contacts in cs
PingKnown(u, cs) ==
    /\ requests' = requests \cup UNION {Ping(u, ToSet(known[u][v]), TRUE) : v \in cs}
    /\ Open(u, UNION {ToSet(known[u][v]) : v \in cs})

\* reconnect, by the thread of that name: the locators are registered with, by
\* way of the mailbox, and the contacts are tried where they were last.
\* Bound: what the round before has sent to the locator has arrived.
reconnect(u) ==
    /\ ~mail[u] /\ tcp[u].out = <<>>
    /\ \A d \in udp : d.from # Wan(u)
    /\ mail' = [mail EXCEPT ![u] = listed[u]]
    /\ PingKnown(u, Others(u) \ busy[u])
    /\ UNCHANGED <<at, listed, busy, known, tcp, udp, locatorVars, left>>

\* do_regiser_with_greeter: twice the same registration, and a question for
\* every contact that is offline
Registration(u) == [type |-> "register", local |-> Lan(u)]
Questions(u) == SetToSeq({[type |-> "find", who |-> v] : v \in Others(u) \ busy[u]})

received_register_with_greeter(u) ==
    /\ mail[u]
    /\ mail' = [mail EXCEPT ![u] = FALSE]
    /\ Len(tcp[u].out) + Cardinality(Others(u) \ busy[u]) < MaxQueue
    /\ tcp' = [tcp EXCEPT ![u] = Sent(@, <<Registration(u)>> \o Questions(u))]
    /\ udp' = udp \cup {[from |-> Wan(u), local |-> Lan(u)]}
    /\ UNCHANGED <<at, listed, busy, known, requests, hole, locatorVars, left>>

\* The user adds a locator: it is asked for its key ...
add_greeter(u) ==
    /\ ~listed[u]
    /\ Spend("edits")
    /\ Len(tcp[u].out) < MaxQueue
    /\ tcp' = [tcp EXCEPT ![u] = Sent(@, <<[type |-> "key"]>>)]
    /\ UNCHANGED <<at, userVars, udp, requests, hole, locatorVars>>

\* ... or removes it.
remove_greeter(u) ==
    /\ listed[u]
    /\ Spend("edits")
    /\ listed' = [listed EXCEPT ![u] = FALSE]
    /\ UNCHANGED <<at, mail, busy, known, tcp, udp, requests, hole, locatorVars>>

Answered(u, type) == tcp[u].in # <<>> /\ Head(tcp[u].in).type = type
Handled(u) == tcp' = [tcp EXCEPT ![u].in = Tail(@)]

received_greet_key_response(u) ==
    /\ Answered(u, "key")
    /\ Handled(u)
    /\ listed' = [listed EXCEPT ![u] = TRUE]
    /\ mail' = [mail EXCEPT ![u] = @ \/ ~listed[u]]   \* add_greeter registers
    /\ UNCHANGED <<at, busy, known, udp, requests, hole, locatorVars, left>>

\* The contact is tried at its local and at its external endpoint.
received_greet_find_response(u) ==
    /\ Answered(u, "found")
    /\ Handled(u)
    /\ LET m == Head(tcp[u].in)
           ends == {m.local, m.ext}
       IN IF m.asymmetric /\ m.who \notin busy[u]
          THEN /\ requests' = requests \cup Ping(u, ends, TRUE)
               /\ Open(u, ends)
          ELSE UNCHANGED <<requests, hole>>
    /\ UNCHANGED <<at, userVars, udp, locatorVars, left>>

\* add_known_address
Remember(s, e) ==
    LET t == <<e>> \o SelectSeq(s, LAMBDA x : x # e)
    IN SubSeq(t, 1, IF Len(t) < MAX_ADDRESSES THEN Len(t) ELSE MAX_ADDRESSES)

\* A NAT lets in what comes from where the user has sent to.
LetIn(r) == Reaches(r.from.of, r.to) /\ (r.to.kind = "udp" => r.from \in hole[r.to.of])

\* received_connect_request: the contact is answered, and is connecting.
received_connect_request(r) ==
    LET v == r.to.of
        u == r.from.of
        heard == Remember(known[v][u], r.from)
    IN /\ LetIn(r)
       /\ IF u \in busy[v]
          THEN requests' = requests \ {r} /\ UNCHANGED <<busy, known, hole>>
          ELSE /\ busy' = [busy EXCEPT ![v] = @ \cup {u}]
               /\ known' = [known EXCEPT ![v][u] = heard]
               /\ LET ends == IF r.back THEN ToSet(heard) ELSE {} IN
                  /\ requests' = (requests \ {r}) \cup Ping(v, ends, FALSE)
                  /\ Open(v, ends \cup {r.from})
       /\ UNCHANGED <<at, listed, mail, tcp, udp, locatorVars, left>>

\* u and v hear each other's pings: each sends them where the other is.
Hears(u, v) ==
    /\ v \in busy[u] /\ u \in busy[v]
    /\ Reaches(u, Head(known[u][v])) /\ Reaches(v, Head(known[v][u]))

Met == \A u \in User : \A v \in Others(u) : Hears(u, v)

\* ping_thread: no pings for too long.  Timing: a request that is on its way
\* is answered or lost before that.
fire_contact_disconnected_event(u, v) ==
    /\ v \in busy[u]
    /\ ~Hears(u, v)
    /\ \A r \in requests : {r.from.of, r.to.of} # {u, v}
    /\ busy' = [busy EXCEPT ![u] = @ \ {v}]
    /\ UNCHANGED <<at, listed, mail, known, tcp, udp, requests, hole, locatorVars, left>>
-----------------------------------------------------------------------------
(***************************************************************************)
(* The locator: one loop, one message at a time                            *)
(***************************************************************************)
NoUser == [local |-> NoEnd, ext |-> NoEnd, tcp |-> NoEnd, udp |-> NoEnd]

\* Mutant: the endpoint of the last registration is given away, whatever
\* protocol it came by.
UpdateAnyExt(i, local, ep) ==
    [local |-> local, ext |-> ep,
     tcp |-> IF ep.kind = "tcp" THEN ep ELSE i.tcp,
     udp |-> IF ep.kind = "udp" THEN ep ELSE i.udp]

\* update_address: TCP gives the external endpoint only as long as there is
\* none from UDP.  A user that is new starts without either.
update_address(i, local, ep) ==
    [local |-> local,
     ext |-> IF ep.kind = "udp" \/ i.udp = NoEnd THEN ep ELSE i.ext,
     tcp |-> IF ep.kind = "tcp" THEN ep ELSE i.tcp,
     udp |-> IF ep.kind = "udp" THEN ep ELSE i.udp]

register_user(u, local, ep) ==
    /\ users' = [users EXCEPT ![u] = update_address(@, local, ep)]
    /\ channels' = channels \cup {ep}

Take(u, type) ==
    /\ tcp[u].out # <<>> /\ Head(tcp[u].out).type = type
    /\ incoming' = incoming \cup {Connection(u)}

Rest(u) == [tcp EXCEPT ![u].out = Tail(@)]

RegisterByTcp(u) ==
    /\ Take(u, "register")
    /\ register_user(u, Head(tcp[u].out).local, Connection(u))
    /\ tcp' = Rest(u)
    /\ UNCHANGED <<at, userVars, udp, requests, hole, left>>

RegisterByUdp(d) ==
    /\ udp' = udp \ {d}
    /\ register_user(d.from.of, d.local, d.from)
    /\ UNCHANGED <<at, userVars, tcp, requests, hole, incoming, left>>

\* What is told about v
Found(u, v) == [type |-> "found", who |-> v, local |-> users[v].local, ext |-> users[v].ext,
                asymmetric |-> users[u].tcp \in channels]

\* find_user: u asks for v; both are told, if both are there.
find_user(u) ==
    /\ Take(u, "find")
    /\ LET v == Head(tcp[u].out).who
           gone == IF NoEnd \in {users[u].tcp, users[v].tcp} THEN <<>>
                   ELSE SelectSeq(<<users[u].tcp, users[v].tcp>>, LAMBDA c : c \notin incoming')
           m == [w \in {u, v} |-> Found(w, IF w = u THEN v ELSE u)]
           told == {w \in {u, v} : /\ NoEnd \notin {users[u].tcp, users[v].tcp}
                                   /\ gone = <<>>
                                   /\ tcp[w].state = "open"
                                   /\ users[w].tcp = Connection(w)}
       IN /\ \A w \in told : Len(tcp[w].in) < MaxAnswers
          /\ tcp' = [w \in User |->
                       LET t == Rest(u)[w]
                       IN IF w \in told THEN [t EXCEPT !.in = Append(@, m[w])] ELSE t]
          /\ channels' = IF gone = <<>> THEN channels ELSE channels \ {Head(gone)}
    /\ UNCHANGED <<at, userVars, udp, requests, hole, users, left>>

send_pub_key(u) ==
    /\ Take(u, "key")
    /\ Len(tcp[u].in) < MaxAnswers
    /\ tcp' = [Rest(u) EXCEPT ![u].in = Append(@, [type |-> "key"])]
    /\ UNCHANGED <<at, userVars, udp, requests, hole, users, channels, left>>
-----------------------------------------------------------------------------
(***************************************************************************)
(* The network                                                             *)
(***************************************************************************)
\* A user goes to another place: its connection breaks.  Bound: it stays
\* until it has met the others and nothing is on its way.
Move(u, p) ==
    /\ u \in Travellers
    /\ p # at[u]
    /\ Met
    /\ udp = {} /\ requests = {}
    /\ \A v \in User : ~mail[v] /\ tcp[v].out = <<>> /\ tcp[v].in = <<>>
    /\ Spend("moves")
    /\ at' = [at EXCEPT ![u] = p]
    /\ tcp' = [tcp EXCEPT ![u] = Broken(@)]
    /\ hole' = [hole EXCEPT ![u] = {}]
    /\ UNCHANGED <<userVars, udp, requests, locatorVars>>

\* The user's end of a broken connection notices ...
Notice(u) ==
    /\ tcp[u].state = "broken"
    /\ tcp' = [tcp EXCEPT ![u] = Closed(@.nr)]
    /\ UNCHANGED <<at, userVars, udp, requests, hole, locatorVars, left>>

\* ... and the locator's, on its own.
NoticeIncoming(c) ==
    /\ c # Connection(c.of) \/ tcp[c.of].state # "open"
    /\ incoming' = incoming \ {c}
    /\ UNCHANGED <<at, userVars, tcp, udp, requests, hole, users, channels, left>>

LoseRegistration(d) ==
    /\ Spend("lost")
    /\ udp' = udp \ {d}
    /\ UNCHANGED <<at, userVars, tcp, requests, hole, locatorVars>>

LoseRequest(r) ==
    /\ Spend("lost")
    /\ requests' = requests \ {r}
    /\ UNCHANGED <<at, userVars, tcp, udp, hole, locatorVars>>

\* A request that nobody hears, or that a NAT keeps out
Drop(r) ==
    /\ ~LetIn(r)
    /\ requests' = requests \ {r}
    /\ UNCHANGED <<at, userVars, tcp, udp, hole, locatorVars, left>>

\* The locator keeps its key in a file and all the rest in memory.
Restart ==
    /\ Spend("restarts")
    /\ users' = [u \in User |-> NoUser]
    /\ channels' = {} /\ incoming' = {}
    /\ tcp' = [u \in User |-> Broken(tcp[u])]
    /\ UNCHANGED <<at, userVars, udp, requests, hole>>
-----------------------------------------------------------------------------
Init ==
    /\ at \in Starts
    /\ left \in Faults
    /\ listed \in {l \in [User -> BOOLEAN] : left.edits = 0 => \A u \in User : l[u]}
    /\ mail = [u \in User |-> FALSE]
    /\ tcp = [u \in User |-> Closed(0)]
    /\ udp = {} /\ requests = {}
    /\ busy = [u \in User |-> {}]
    /\ known = [u \in User |-> [v \in User |-> <<>>]]
    /\ hole = [u \in User |-> {}]
    /\ users = [u \in User |-> NoUser]
    /\ channels = {} /\ incoming = {}

Registers(u) == received_register_with_greeter(u)
IsAnswered(u) == received_greet_key_response(u) \/ received_greet_find_response(u)
IsAsked(u, back) ==
    \E r \in requests : r.to.of = u /\ r.back = back /\ received_connect_request(r)

ServiceThread(u) ==
    Registers(u) \/ IsAnswered(u) \/ \E back \in BOOLEAN : IsAsked(u, back)

Locator(u) ==
    \/ RegisterByTcp(u) \/ find_user(u) \/ send_pub_key(u)

Network ==
    \/ \E u \in User : Notice(u) \/ \E p \in Place : Move(u, p)
    \/ \E c \in incoming : NoticeIncoming(c)
    \/ \E d \in udp : LoseRegistration(d)
    \/ \E r \in requests : LoseRequest(r) \/ Drop(r)
    \/ Restart

Next ==
    \/ \E u \in User : \/ reconnect(u) \/ ServiceThread(u) \/ Locator(u)
                       \/ add_greeter(u) \/ remove_greeter(u)
                       \/ \E v \in Others(u) : fire_contact_disconnected_event(u, v)
    \/ \E d \in udp : RegisterByUdp(d)
    \/ Network

Spec == Init /\ [][Next]_vars

\* Threads go on running and TCP delivers; a datagram is delivered unless it
\* is lost.  Strong fairness makes up for bounds: of the locator, which waits
\* for room in the answers to two users (MaxAnswers), and of the end of
\* a contact, which waits until no request is on its way.
FairSpec ==
    /\ Spec
    /\ \A u \in User :
         /\ WF_vars(reconnect(u))
         /\ WF_vars(Registers(u))
         /\ WF_vars(IsAnswered(u))
         /\ \A back \in BOOLEAN : WF_vars(IsAsked(u, back))
         /\ SF_vars(Locator(u))
         /\ WF_vars(\E d \in udp : d.from.of = u /\ RegisterByUdp(d))
         /\ WF_vars(\E r \in requests : r.to.of = u /\ Drop(r))
         /\ \A v \in Others(u) : SF_vars(fire_contact_disconnected_event(u, v))
    /\ WF_vars((\E u \in User : Notice(u)) \/ \E c \in incoming : NoticeIncoming(c))
-----------------------------------------------------------------------------
(***************************************************************************)
(* Users that register with the locator meet in the end and stay in touch, *)
(* from whatever places, as registrations by TCP and UDP arrive in either  *)
(* order or not at all, as users go somewhere else and the locator         *)
(* restarts with nothing in memory: reconnect comes around again, its      *)
(* registration replaces what the locator has of the user, and its         *)
(* questions make both sides send to each other, which is what opens their *)
(* NATs (update_address, find_user, received_greet_find_response,          *)
(* received_connect_request).                                              *)
(***************************************************************************)
TheyMeet == <>[](\A u \in User : listed[u]) => <>[]Met
=============================================================================
