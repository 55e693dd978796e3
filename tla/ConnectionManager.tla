------------------------- MODULE ConnectionManager --------------------------
(***************************************************************************)
(* The connection manager (network/connection_manager): a pool of outgoing *)
(* TCP queues, filled on demand by the send thread, the listening queue    *)
(* with the connections that came in, when the program listens (the        *)
(* locator does, a client does not), and receive(), which takes data from  *)
(* the UDP queue and from the TCP queues in turn.                          *)
(*                                                                         *)
(* The send thread, the receiving thread and the run threads of the TCP    *)
(* queues interleave; a section under _mutex is one step.  A TCP queue is  *)
(* its state and the data it has received: TcpQueue looks inside.          *)
(***************************************************************************)
EXTENDS Naturals, Sequences, FiniteSets

CONSTANTS Addr,        \* TCP addresses
          Size,        \* the size of the pool
          MaxSends,    \* bound: messages sent
          MaxData,     \* bound: messages received over TCP
          MaxAccepts   \* bound: connections that come in

ASSUME PoolAssumption ==
    /\ Size \in Nat \ {0}
    /\ {MaxSends, MaxData, MaxAccepts} \subseteq Nat

Slot == 1..Size
None == [to |-> {}, state |-> "none", out |-> {}, data |-> 0]

\* A tcp_queue made for a delayed connect
NewQueue == [to |-> {}, state |-> "disconnected", out |-> {}, data |-> 0]

\* A connection that came in: from whom, and to which listening queue
Incoming == [from : Addr, at : Nat, nr : 1..MaxAccepts]

VARIABLES listen,   \* _tcp_listen
          pool,     \* _pool: None where the pointer is null
          out,      \* _out: out[a] is the set of the slot of address a
          in,       \* _in: [nr, queue, last]: the data and the sockets pushed
          live,     \* connections that came in and are connected
          map,      \* _in_connections: map[a] is the set of the socket of a
          sendq,    \* _tcp_send_queue: addresses of the messages
          sender,   \* the send thread: [pc, to, slot]
          pushing,  \* sockets of data pushed by the run thread of _in, while
                    \* the socket is not
          rstate,   \* _rstate
          failed,   \* a contract failed
          used      \* how much of each bound has been used

vars == <<listen, pool, out, in, live, map, sendq, sender, pushing, rstate, failed, used>>

\* The receive states; the eight for UDP are 1 to 8
IN_TCP == 9
OUT_TCP == 10
DONE == 11

Disconnected(q) == q.state = "disconnected"

Init ==
    /\ listen \in BOOLEAN
    /\ pool = [i \in Slot |-> IF listen THEN NewQueue ELSE None]
    /\ out = [a \in Addr |-> {}]
    /\ in = [nr |-> 1, queue |-> <<>>, last |-> <<>>]
    /\ live = {} /\ pushing = {}
    /\ map = [a \in Addr |-> {}]
    /\ sendq = <<>>
    /\ sender = [pc |-> "pop", to |-> {}, slot |-> 0]
    /\ rstate = 1
    /\ failed = FALSE
    /\ used = [sends |-> 0, data |-> 0, accepts |-> 0]

-----------------------------------------------------------------------------
\* The send thread.

\* send: a message for a TCP address is left to the send thread
Send(a) ==
    /\ used.sends < MaxSends
    /\ used' = [used EXCEPT !.sends = @ + 1]
    /\ sendq' = Append(sendq, a)
    /\ UNCHANGED <<listen, pool, out, in, live, map, sender, pushing, rstate, failed>>

\* tcp_send_thread: a connection that came in from the address is used first
SenderPops ==
    /\ sender.pc = "pop" /\ sendq # <<>>
    /\ sendq' = Tail(sendq)
    /\ LET a == Head(sendq)
       IN  sender' = IF map[a] \cap live # {} THEN sender
                     ELSE [sender EXCEPT !.pc = "connect", !.to = {a}]
    /\ UNCHANGED <<listen, pool, out, in, live, map, pushing, rstate, failed, used>>

To == CHOOSE a \in Addr : a \in sender.to

\* find_next_available over the pool p: the first slot without a queue
Available(p) == {i \in Slot : p[i] = None /\ \A j \in 1..(i - 1) : p[j] # None}

Fill(p) == [i \in Slot |-> IF i \in Available(p) THEN NewQueue ELSE p[i]]

\* The first section of connect: get_connected_queue and find_next_available
Connect ==
    /\ sender.pc = "connect"
    /\ \E i \in Slot \cup {0} :
          /\ out[To] = (IF i = 0 THEN {} ELSE {i})
          /\ failed' = (i # 0 /\ pool[i] = None)
          /\ IF i # 0 /\ ~Disconnected(pool[i])
             THEN /\ sender' = [sender EXCEPT !.pc = "send", !.slot = i]
                  /\ pool' = pool
             ELSE /\ pool' = Fill(pool)
                  /\ sender' = IF Available(pool) = {} THEN [sender EXCEPT !.pc = "repool"]
                               ELSE [sender EXCEPT !.pc = "assign",
                                        !.slot = CHOOSE k \in Available(pool) : TRUE]
    /\ UNCHANGED <<listen, out, in, live, map, sendq, pushing, rstate, used>>

\* Mutant: cleanup_pool leaves the queues that are disconnected in their slots
CleanedNothing == pool

\* cleanup_pool: queues that are disconnected are dropped ...
Cleaned == [i \in Slot |-> IF Disconnected(pool[i]) THEN None ELSE pool[i]]

\* Mutant: ... while the addresses keep their slots
StaleOut(p) == out

\* ... and the addresses without a queue are forgotten
CleanedOut(p) == [a \in Addr |-> {i \in out[a] : p[i] # None}]

\* Mutant: the sockets that came in stay in the map
KeepMap == map

\* teardown_and_repool_tcp_connections: the listening queue goes, and with it
\* the connections that came in
TornMap == [a \in Addr |-> {}]

\* teardown_and_repool_tcp_connections, then find_next_available once more;
\* without a slot the message is dropped
Repool ==
    /\ sender.pc = "repool"
    /\ LET p == IF listen THEN [i \in Slot |-> NewQueue] ELSE Cleaned
       IN  /\ out' = CleanedOut(Cleaned)
           /\ pool' = Fill(p)
           /\ sender' = IF Available(p) = {} THEN [sender EXCEPT !.pc = "pop"]
                        ELSE [sender EXCEPT !.pc = "assign",
                                 !.slot = CHOOSE k \in Available(p) : TRUE]
    /\ in' = IF listen THEN [nr |-> in.nr + 1, queue |-> <<>>, last |-> <<>>] ELSE in
    /\ live' = {} /\ pushing' = {}
    /\ map' = TornMap
    /\ UNCHANGED <<listen, sendq, rstate, failed, used>>

\* The end of connect: the address is given the slot, and the queue connects
Assign ==
    /\ sender.pc = "assign"
    /\ failed' = ~Disconnected(pool[sender.slot])
    /\ out' = [out EXCEPT ![To] = {sender.slot}]
    /\ pool' = [pool EXCEPT ![sender.slot].to = sender.to, ![sender.slot].state = "connecting"]
    /\ sender' = [sender EXCEPT !.pc = "send"]
    /\ UNCHANGED <<listen, in, live, map, sendq, pushing, rstate, used>>

\* o->send: the message is queued, on a connection that is made again if it
\* was lost meanwhile
SenderSends ==
    /\ sender.pc = "send"
    /\ pool' = [pool EXCEPT ![sender.slot].out = @ \cup sender.to,
                            ![sender.slot].state = IF @ = "disconnected" THEN "connecting" ELSE @]
    /\ sender' = [sender EXCEPT !.pc = "pop"]
    /\ UNCHANGED <<listen, out, in, live, map, sendq, pushing, rstate, failed, used>>

-----------------------------------------------------------------------------
\* The TCP queues: connections stand, break and deliver data.

QueueConnects(i) ==
    /\ pool[i].state = "connecting"
    /\ pool' = [pool EXCEPT ![i].state = "connected"]
    /\ UNCHANGED <<listen, out, in, live, map, sendq, sender, pushing, rstate, failed, used>>

QueueBreaks(i) ==
    /\ pool[i].state \in {"connecting", "connected"}
    /\ pool' = [pool EXCEPT ![i].state = "disconnected"]
    /\ UNCHANGED <<listen, out, in, live, map, sendq, sender, pushing, rstate, failed, used>>

\* handle_body of a connection of the pool
QueueGets(i) ==
    /\ pool[i].state = "connected"
    /\ used.data < MaxData
    /\ used' = [used EXCEPT !.data = @ + 1]
    /\ pool' = [pool EXCEPT ![i].data = @ + 1]
    /\ UNCHANGED <<listen, out, in, live, map, sendq, sender, pushing, rstate, failed>>

\* tcp_queue::handle_accept
Accept(a) ==
    /\ listen
    /\ used.accepts < MaxAccepts
    /\ used' = [used EXCEPT !.accepts = @ + 1]
    /\ live' = live \cup {[from |-> a, at |-> in.nr, nr |-> used.accepts + 1]}
    /\ UNCHANGED <<listen, pool, out, in, map, sendq, sender, pushing, rstate, failed>>

IncomingBreaks(c) ==
    /\ live' = live \ {c}
    /\ UNCHANGED <<listen, pool, out, in, map, sendq, sender, pushing, rstate, failed, used>>

\* handle_body of a connection that came in: _in_queue.emplace_push ...
PushData(c) ==
    /\ pushing = {} /\ used.data < MaxData
    /\ used' = [used EXCEPT !.data = @ + 1]
    /\ in' = [in EXCEPT !.queue = Append(@, c)]
    /\ pushing' = {c}
    /\ UNCHANGED <<listen, pool, out, live, map, sendq, sender, rstate, failed>>

\* ... and _last_in_socket.push
PushSocket(c) ==
    /\ c \in pushing
    /\ in' = [in EXCEPT !.last = Append(@, c)]
    /\ pushing' = {}
    /\ UNCHANGED <<listen, pool, out, live, map, sendq, sender, rstate, failed, used>>

-----------------------------------------------------------------------------
\* receive, one state of its loop a step; a call that returns data leaves
\* _rstate where it is.

\* Mutant: every call starts with UDP again
AfterDataFromStart(r) == 1

\* The state in which a call that returned data leaves the next one
AfterData(r) == r

\* transition_udp_state, and the UDP queue has something or not
ReceiveUdp(some) ==
    /\ rstate \in 1..8
    /\ LET r == IF rstate < 8 THEN rstate + 1 ELSE IF listen THEN IN_TCP ELSE OUT_TCP
       IN  rstate' = IF some THEN AfterData(r) ELSE r
    /\ UNCHANGED <<listen, pool, out, in, live, map, sendq, sender, pushing, failed, used>>

\* The listening queue: the data, and then its socket, which must be there
ReceiveIn ==
    /\ rstate = IN_TCP
    /\ rstate' = OUT_TCP
    /\ IF in.queue = <<>> THEN UNCHANGED <<in, map, failed>>
       ELSE IF in.last = <<>>
       THEN failed' = TRUE /\ UNCHANGED <<in, map>>
       ELSE /\ in' = [in EXCEPT !.queue = Tail(@), !.last = Tail(@)]
            /\ map' = [map EXCEPT ![Head(in.last).from] = {Head(in.last)}]
            /\ failed' = failed
    /\ UNCHANGED <<listen, pool, out, live, sendq, sender, pushing, used>>

Readable == {i \in UNION {out[a] : a \in Addr} : pool[i].data > 0}

\* The queues in _out, in an order of the map's; none of them may be null
ReceiveOut ==
    /\ rstate = OUT_TCP
    /\ rstate' = DONE
    /\ failed' = \E a \in Addr : \E i \in out[a] : pool[i] = None
    /\ \/ Readable = {} /\ pool' = pool
       \/ \E i \in Readable : pool' = [pool EXCEPT ![i].data = @ - 1]
    /\ UNCHANGED <<listen, out, in, live, map, sendq, sender, pushing, used>>

\* The next call starts again
ReceiveAgain ==
    /\ rstate = DONE
    /\ rstate' = 1
    /\ UNCHANGED <<listen, pool, out, in, live, map, sendq, sender, pushing, failed, used>>

-----------------------------------------------------------------------------
SendThread == SenderPops \/ Connect \/ Repool \/ Assign \/ SenderSends

Receive == \/ \E some \in BOOLEAN : ReceiveUdp(some)
           \/ ReceiveIn \/ ReceiveOut \/ ReceiveAgain

RunThread == \E c \in pushing : PushSocket(c)

Network == \/ \E i \in Slot : QueueConnects(i) \/ QueueBreaks(i) \/ QueueGets(i)
           \/ \E a \in Addr : Accept(a)
           \/ \E c \in live : IncomingBreaks(c) \/ PushData(c)

Next == ~failed /\ \/ \E a \in Addr : Send(a)
                   \/ SendThread \/ Receive \/ RunThread \/ Network

Spec == Init /\ [][Next]_vars

\* The send thread, the receiving thread and the run thread of _in run
FairSpec == /\ Spec
            /\ WF_vars(~failed /\ SendThread)
            /\ WF_vars(~failed /\ Receive)
            /\ WF_vars(~failed /\ RunThread)

-----------------------------------------------------------------------------
TypeOK ==
    /\ listen \in BOOLEAN
    /\ pool \in [Slot -> [to : SUBSET Addr, out : SUBSET Addr, data : 0..MaxData,
                  state : {"none", "disconnected", "connecting", "connected"}]]
    /\ out \in [Addr -> SUBSET Slot]
    /\ live \subseteq Incoming /\ pushing \subseteq Incoming
    /\ map \in [Addr -> SUBSET Incoming]
    /\ sendq \in Seq(Addr)
    /\ sender \in [pc : {"pop", "connect", "repool", "assign", "send"},
                   to : SUBSET Addr, slot : 0..Size]
    /\ rstate \in 1..DONE /\ failed \in BOOLEAN
    /\ used \in [sends : 0..MaxSends, data : 0..MaxData, accepts : 0..MaxAccepts]

(***************************************************************************)
(* A message goes only to the address it was sent to: slots are given to   *)
(* one address after the other while _out still names them, and sockets    *)
(* that came in are found by the address they came from.                   *)
(***************************************************************************)
RightAddress ==
    /\ \A i \in Slot : pool[i].out \subseteq pool[i].to
    /\ \A a \in Addr : \A i \in out[a] : pool[i] # None /\ pool[i].to = {a}

(***************************************************************************)
(* No socket the manager holds outlives the listening queue that owns it:  *)
(* _in_connections keeps raw pointers.                                     *)
(***************************************************************************)
NoDanglingSocket == \A a \in Addr : \A c \in map[a] : c.at = in.nr /\ c.from = a

(***************************************************************************)
(* A client gives a message up only when every slot holds a connection     *)
(* that stands or is being made; a slot whose connection broke is used     *)
(* again, whatever broke while the pool was being searched.                *)
(***************************************************************************)
GivesUpOnlyWhenBusy ==
    [][~listen /\ sender.pc = "repool" /\ sender'.pc = "pop"
          => \A i \in Slot : pool[i].state \in {"connecting", "connected"}]_vars

(***************************************************************************)
(* Data that came over TCP is received however much comes over UDP: the    *)
(* rotation goes on from call to call.  (What a queue of the pool has      *)
(* received is lost when its address is given another slot first.)         *)
(***************************************************************************)
TcpIsReceived ==
    /\ (in.queue # <<>>) ~> (in.queue = <<>> \/ failed)
    /\ \A i \in Slot : (i \in Readable) ~> (i \notin Readable \/ failed)

(***************************************************************************)
(* CHECK(s) of receive: the socket of data from the listening queue is     *)
(* there with it.                                                          *)
(***************************************************************************)
SocketComesWithData == ~failed

=============================================================================
