------------------------------ MODULE UdpQueue ------------------------------
(***************************************************************************)
(* The UDP transport of network/udp_queue.cpp: udp_connections that cut    *)
(* messages into chunks, send them round robin through a window of         *)
(* MAX_FLIGHT unacknowledged chunks per message, retransmit on a timer,    *)
(* purge what stays silent, and reassemble what arrives.                   *)
(*                                                                         *)
(* One io thread (udp_run_thread) runs a connection's handlers one at a    *)
(* time, so a handler is one action.  The timer thread (resend_thread) and *)
(* the application threads only post handlers to it.  The network loses,   *)
(* reorders and duplicates datagrams.                                      *)
(*                                                                         *)
(* A payload is abstracted to its size and to `id', the message it is the  *)
(* bytes of; ids, `acked', `delivered' and `numbered' are history that no  *)
(* handler reads.  A failed contract (CHECK, REQUIRE, ENSURE) calls exit(1): it    *)
(* puts the contract's function into `failed' and the node stops.          *)
(***************************************************************************)
EXTENDS Integers, FiniteSets, Sequences

CONSTANTS
    Nodes,                  \* endpoints, each with one udp_connection
    Traffic,                \* what applications may send: [src, dst, size, robust]
    MAX_FLIGHT,             \* unacknowledged chunks per message
    RESEND_TICK_THRESHOLD,  \* silent ticks before chunks are sent again
    RESEND_THRESHOLD,       \* silent ticks before a message is purged
    UDP_CHuNK_SIZE,         \* payload bytes per datagram
    MAX_CHUNKS,             \* 2^16 in the code: chunk_total_type is uint16_t
    MaxSequence,            \* bound: messages a node sends
    MaxDup,                 \* bound: datagrams the network duplicates
    MaxRestarts             \* bound: restarts of a node (RestartSpec only)

MAX_MESSAGE_SIZE == MAX_CHUNKS * UDP_CHuNK_SIZE

ASSUME UdpAssumption ==
    /\ MAX_FLIGHT \in Nat \ {0}
    /\ RESEND_TICK_THRESHOLD \in Nat
    /\ RESEND_THRESHOLD \in Nat \ {0}
    /\ UDP_CHuNK_SIZE \in Nat \ {0}
    /\ MAX_CHUNKS \in Nat \ {0}
    /\ MaxSequence \in Nat /\ MaxDup \in Nat /\ MaxRestarts \in Nat
    \* send() refuses an empty message and one above MAX_MESSAGE_SIZE.
    /\ Traffic \subseteq [src : Nodes, dst : Nodes,
                          size : 1..MAX_MESSAGE_SIZE, robust : BOOLEAN]

VARIABLES
    con,    \* con[n]: the udp_connection of node n
    net,    \* datagrams in transit; equal ones are one, the other being lost
    dups,   \* datagrams duplicated so far
    numbered    \* the messages that took a sequence number (history)

vars == <<con, net, dups, numbered>>

-----------------------------------------------------------------------------
(* Maps keyed by sequence number.                                          *)

Put(f, k, v) == [x \in DOMAIN f \cup {k} |-> IF x = k THEN v ELSE f[x]]
Without(f, S) == [x \in DOMAIN f \ S |-> f[x]]
EmptyMap == [x \in {} |-> x]

-----------------------------------------------------------------------------
(* Sending side.                                                           *)

\* A new connection.  `epoch' counts the incarnations of the node (history).
NewConnection(epoch) ==
    [sequence |-> 0, ring |-> {}, next_message |-> 0, working |-> EmptyMap,
     out_queue |-> <<>>, posted |-> FALSE,
     in_working |-> EmptyMap, in_queue |-> <<>>,
     failed |-> {}, epoch |-> epoch, acked |-> {}, delivered |-> {}]

\* chunk_total_type is 16 bits wide, so the count wraps at MAX_CHUNKS.
TotalChunks(size) ==
    (size \div UDP_CHuNK_SIZE + (IF size % UDP_CHuNK_SIZE = 0 THEN 0 ELSE 1))
        % MAX_CHUNKS

Chunks(w) == 0..(w.total - 1)

AllSent(w) == w.sent = Chunks(w)

\* working_message with its ring item's resend queue.  The queue is kept as
\* the number of times each chunk is in it: its order is not observable.
WorkingMessage(id, m) ==
    LET total == TotalChunks(m.size) IN
    [id |-> id, dst |-> m.dst, robust |-> m.robust, size |-> m.size,
     total |-> total, set |-> {}, sent |-> {}, ticks |-> 0,
     in_flight |-> 0, queued |-> 0, next_send |-> 0,
     resends |-> [k \in 0..(total - 1) |-> 0]]

\* The message m is from now on.
NewId(c, m) ==
    [src |-> m.src, dst |-> m.dst, size |-> m.size,
     epoch |-> c.epoch, sequence |-> c.sequence + 1]

\* Mutant: the sequence number is not taken.
AddToWorkingSetReuse(c, m) ==
    LET s  == c.sequence + 1
        id == NewId(c, m)
    IN [c EXCEPT !.working = Put(@, s, WorkingMessage(id, m)),
                 !.ring = @ \cup {s},
                 !.posted = TRUE]

\* add_to_working_set, create_prototype and init_working; send() posts do_send
\* right behind it on the io queue, so `posted' holds once it has run.
AddToWorkingSet(c, m) ==
    LET s  == c.sequence + 1
        id == NewId(c, m)
    IN IF TotalChunks(m.size) = 0
       THEN [c EXCEPT !.failed = @ \cup {"total_chunks"}]
       ELSE [c EXCEPT !.sequence = s,
                      !.working = Put(@, s, WorkingMessage(id, m)),
                      !.ring = @ \cup {s},
                      !.posted = TRUE]

\* Mutant: the ring keeps its pointer.
CleanupMessageRing(c, s) == [c EXCEPT !.working = Without(@, {s})]

CleanupMessage(c, s) ==
    IF s \in c.ring
    THEN [c EXCEPT !.ring = @ \ {s}, !.working = Without(@, {s})]
    ELSE [c EXCEPT !.failed = @ \cup {"cleanup_message"}]

\* get_next_chunk: is there a chunk to send for the first time?
CanSendNext(w) ==
    /\ (IF w.robust THEN w.in_flight ELSE 0) + w.queued < MAX_FLIGHT
    /\ w.next_send < w.total

HasResend(w) == \E k \in Chunks(w) : w.resends[k] > 0

HasWork(w) == CanSendNext(w) \/ HasResend(w)

\* nth_chunk and encode_udp_wire: only the last chunk may be shorter.
Chunk(n, s, w, k) ==
    [type |-> IF w.robust THEN "msg" ELSE "qmsg",
     src |-> n, dst |-> w.dst, sequence |-> s, total |-> w.total, chunk |-> k,
     size |-> IF (k + 1) * UDP_CHuNK_SIZE <= w.size
              THEN UDP_CHuNK_SIZE ELSE w.size - k * UDP_CHuNK_SIZE,
     id |-> w.id]

TakeNextChunk(w) == [w EXCEPT !.next_send = @ + 1, !.queued = @ + 1]

\* Mutant: a chunk sent again counts as one more in flight.
PopResendCounted(w, k) ==
    [w EXCEPT !.resends = [j \in DOMAIN @ |-> IF j = k THEN @[j] - 1 ELSE @[j]],
              !.in_flight = @ + 1]

PopResend(w, k) ==
    [w EXCEPT !.resends = [j \in DOMAIN @ |-> IF j = k THEN @[j] - 1 ELSE @[j]]]

\* sent_chunk of chunk k of message s, whose record is now w: a quick message
\* is done as soon as its last chunk is out.
MarkSent(w, k) ==
    [w EXCEPT !.sent = @ \cup {k},
              !.queued = IF @ > 0 THEN @ - 1 ELSE 0,
              !.in_flight = IF w.robust THEN @ + 1 ELSE @]

SentChunk(c, s, w, k) ==
    LET v == MarkSent(w, k)
        d == [c EXCEPT !.working = Put(@, s, v)]
    IN IF ~v.robust /\ AllSent(v) THEN CleanupMessage(d, s) ELSE d

MarkAcked(w, k) ==
    [w EXCEPT !.set = @ \cup {k},
              !.ticks = 0,
              !.in_flight = IF @ > 0 THEN @ - 1 ELSE 0]

\* Mutant: an acknowledgement counts as often as it comes.
ValidateChunkTwice(c, p) ==
    LET s == p.sequence IN
    IF s \notin DOMAIN c.working \/ p.total # c.working[s].total
    THEN c
    ELSE LET w == MarkAcked(c.working[s], p.chunk)
             d == [c EXCEPT !.working = Put(@, s, w)]
         IN IF w.set # Chunks(w) THEN d
            ELSE IF ~AllSent(w) \/ w.in_flight # 0 \/ w.queued # 0
            THEN [d EXCEPT !.failed = @ \cup {"validate_chunk"}]
            ELSE [CleanupMessage(d, s) EXCEPT !.acked = @ \cup {w.id}]

\* validate_chunk: an acknowledgement of chunk p.chunk of message p.sequence.
ValidateChunk(c, p) ==
    LET s == p.sequence IN
    IF \/ s \notin DOMAIN c.working
       \/ p.chunk >= c.working[s].total
       \/ p.total # c.working[s].total
       \/ p.chunk \in c.working[s].set
    THEN c
    ELSE LET w == MarkAcked(c.working[s], p.chunk)
             d == [c EXCEPT !.working = Put(@, s, w)]
         IN IF w.set # Chunks(w) THEN d
            ELSE IF ~AllSent(w) \/ w.in_flight # 0 \/ w.queued # 0
            THEN [d EXCEPT !.failed = @ \cup {"validate_chunk"}]
            ELSE [CleanupMessage(d, s) EXCEPT !.acked = @ \cup {w.id}]

-----------------------------------------------------------------------------
(* The retransmission timer.                                               *)

\* Mutant: whatever is not acknowledged.
ResendSetUnsent(w) == Chunks(w) \ w.set

\* Mutant: one chunk less than the window.
ResendSetShort(w) ==
    LET unacked == w.sent \ w.set
    IN {k \in unacked : Cardinality({j \in unacked : j < k}) < MAX_FLIGHT - 1}

\* resend(item): the chunks sent but not acknowledged, at most MAX_FLIGHT.
ResendSet(w) ==
    LET unacked == {k \in Chunks(w) :
                      k < w.next_send /\ k \in w.sent /\ k \notin w.set}
    IN {k \in unacked : Cardinality({j \in unacked : j < k}) < MAX_FLIGHT}

\* Ticks are only compared with the two thresholds, so they saturate.
TickMessage(w) ==
    LET ticks  == IF w.ticks < RESEND_THRESHOLD + RESEND_TICK_THRESHOLD
                  THEN w.ticks + 1 ELSE w.ticks
        resend == IF w.robust /\ ticks > RESEND_TICK_THRESHOLD
                  THEN ResendSet(w) ELSE {}
    IN [w EXCEPT !.ticks = ticks,
                 !.resends = [k \in DOMAIN @ |->
                                IF k \in resend THEN @[k] + 1 ELSE @[k]]]

\* Mutant: a robust message waits for its acknowledgements for ever.
ExhaustedNever(w) == ~w.robust /\ AllSent(w)

\* A robust message is purged when it stays silent, a quick one once sent.
Exhausted(w) == IF w.robust THEN w.ticks >= RESEND_THRESHOLD ELSE AllSent(w)

\* udp_connection::resend, every ring item and then the clean-up.
Resend(c) ==
    LET ticked == [s \in DOMAIN c.working |-> TickMessage(c.working[s])]
        em     == {s \in c.ring : Exhausted(ticked[s])}
        resent == \E s \in c.ring :
                    ticked[s].resends # c.working[s].resends
    IN [c EXCEPT !.working = Without(ticked, em),
                 !.ring = @ \ em,
                 !.posted = @ \/ resent]

-----------------------------------------------------------------------------
(* Receiving side.                                                         *)

\* The acknowledgement of chunk p, sent before p is looked at.
Ack(n, p) ==
    [type |-> "ack", src |-> n, dst |-> p.src, sequence |-> p.sequence,
     total |-> p.total, chunk |-> p.chunk, size |-> 0, id |-> p.id]

\* The reassembly entry p belongs to: keyed by the sequence number alone.
Partial(c, p) ==
    IF p.sequence \in DOMAIN c.in_working
    THEN c.in_working[p.sequence]
    ELSE [total |-> p.total, size |-> p.total * UDP_CHuNK_SIZE,
          parts |-> EmptyMap]

\* Mutant: a short last chunk is dropped like any other short chunk.
InsertChunkWhole(c, p) ==
    LET old == Partial(c, p)
        new == [old EXCEPT !.parts = Put(@, p.chunk, p.id)]
    IN IF \/ p.chunk >= old.total
          \/ p.total # old.total
          \/ p.chunk \in DOMAIN old.parts
          \/ p.size # UDP_CHuNK_SIZE
       THEN [c EXCEPT !.in_working = Put(@, p.sequence, old)]
       ELSE IF DOMAIN new.parts # 0..(new.total - 1)
       THEN [c EXCEPT !.in_working = Put(@, p.sequence, new)]
       ELSE [c EXCEPT
               !.in_working = Without(@, {p.sequence}),
               !.in_queue = Append(@, [ep |-> p.src, size |-> new.size,
                                       parts |-> new.parts]),
               !.delivered = @ \cup {new.parts[k] : k \in DOMAIN new.parts}]

\* Mutant: the buffer is not cut to the last chunk's size.
InsertChunkPadded(c, p) ==
    LET old == Partial(c, p)
        new == [old EXCEPT !.parts = Put(@, p.chunk, p.id)]
    IN IF DOMAIN new.parts # 0..(new.total - 1)
       THEN [c EXCEPT !.in_working = Put(@, p.sequence, new)]
       ELSE [c EXCEPT
               !.in_working = Without(@, {p.sequence}),
               !.in_queue = Append(@, [ep |-> p.src, size |-> new.size,
                                       parts |-> new.parts]),
               !.delivered = @ \cup {new.parts[k] : k \in DOMAIN new.parts}]

\* insert_chunk; parts[k] is the message chunk k was taken from.
InsertChunk(c, p) ==
    LET old == Partial(c, p)
        new == [old EXCEPT
                  !.size = IF p.chunk = old.total - 1
                           THEN @ - (UDP_CHuNK_SIZE - p.size) ELSE @,
                  !.parts = Put(@, p.chunk, p.id)]
    IN IF \/ p.chunk >= old.total
          \/ p.total # old.total
          \/ p.chunk \in DOMAIN old.parts
          \/ p.chunk # old.total - 1 /\ p.size # UDP_CHuNK_SIZE
       THEN [c EXCEPT !.in_working = Put(@, p.sequence, old)]
       ELSE IF DOMAIN new.parts # 0..(new.total - 1)
       THEN [c EXCEPT !.in_working = Put(@, p.sequence, new)]
       ELSE [c EXCEPT
               !.in_working = Without(@, {p.sequence}),
               !.in_queue = Append(@, [ep |-> p.src, size |-> new.size,
                                       parts |-> new.parts]),
               !.delivered = @ \cup {new.parts[k] : k \in DOMAIN new.parts}]

\* Mutant: an acknowledgement does not post do_send.
HandleReadQuiet(n, c, p) ==
    CASE p.type = "ack"  -> ValidateChunk(c, p)
      [] p.type = "msg"  -> InsertChunk(
                              [c EXCEPT !.out_queue = Append(@, Ack(n, p)),
                                        !.posted = TRUE], p)
      [] p.type = "qmsg" -> InsertChunk(c, p)

\* handle_read of a valid datagram p.
HandleRead(n, c, p) ==
    CASE p.type = "ack"  -> [ValidateChunk(c, p) EXCEPT !.posted = TRUE]
      [] p.type = "msg"  -> InsertChunk(
                              [c EXCEPT !.out_queue = Append(@, Ack(n, p)),
                                        !.posted = TRUE], p)
      [] p.type = "qmsg" -> InsertChunk(c, p)

-----------------------------------------------------------------------------
(* The actions.                                                            *)

Init ==
    /\ con = [n \in Nodes |-> NewConnection(0)]
    /\ net = {}
    /\ dups = 0
    /\ numbered = {}

Alive(n) == con[n].failed = {}

\* An application thread calls udp_queue::send and its handler runs.
Send(m) ==
    /\ Alive(m.src)
    /\ con[m.src].sequence < MaxSequence
    /\ con' = [con EXCEPT ![m.src] = AddToWorkingSet(@, m)]
    /\ numbered' = IF TotalChunks(m.size) = 0
                   THEN numbered ELSE numbered \cup {NewId(con[m.src], m)}
    /\ UNCHANGED <<net, dups>>

\* An application thread takes a message with udp_queue::receive.
Receive(n) ==
    /\ Alive(n)
    /\ con[n].in_queue # <<>>
    /\ con' = [con EXCEPT ![n].in_queue = Tail(@)]
    /\ UNCHANGED <<net, dups, numbered>>

\* do_send with something on the out queue, which holds acknowledgements only.
\* The write's completion runs do_send again: `posted' stays.
SendQueued(n) ==
    /\ Alive(n) /\ con[n].posted
    /\ con[n].out_queue # <<>>
    /\ net' = net \cup {Head(con[n].out_queue)}
    /\ con' = [con EXCEPT ![n].out_queue = Tail(@)]
    /\ UNCHANGED <<dups, numbered>>

\* The index of message s in the ring, which is in order of sequence number,
\* and how many steps after incr_next_message the search of
\* queue_next_chunk comes to it.
RingIndex(c, s) == Cardinality({t \in c.ring : t < s})
RingSteps(c, s) ==
    (RingIndex(c, s) - (c.next_message + 1)) % Cardinality(c.ring)

\* queue_next_chunk stops at the first message of the ring with work.
NextInRing(c, s) ==
    /\ s \in c.ring
    /\ HasWork(c.working[s])
    /\ \A t \in c.ring : HasWork(c.working[t]) => RingSteps(c, s) <= RingSteps(c, t)

\* do_send of the next chunk of message s.
SendNext(n, s) ==
    LET c == con[n]
        w == c.working[s]
    IN  /\ Alive(n) /\ c.posted
        /\ c.out_queue = <<>>
        /\ NextInRing(c, s)
        /\ CanSendNext(w)
        /\ net' = net \cup {Chunk(n, s, w, w.next_send)}
        /\ con' = [con EXCEPT ![n] =
                     SentChunk([c EXCEPT !.next_message = RingIndex(c, s)],
                               s, TakeNextChunk(w), w.next_send)]
        /\ UNCHANGED <<dups, numbered>>

\* do_send of chunk k of message s once more; sent_chunk is not called.
SendAgain(n, s, k) ==
    LET c == con[n]
        w == c.working[s]
    IN  /\ Alive(n) /\ c.posted
        /\ c.out_queue = <<>>
        /\ NextInRing(c, s)
        /\ ~CanSendNext(w)
        /\ w.resends[k] > 0
        /\ net' = net \cup {Chunk(n, s, w, k)}
        /\ con' = [con EXCEPT ![n] =
                     [c EXCEPT !.next_message = RingIndex(c, s),
                               !.working = Put(@, s, PopResend(w, k))]]
        /\ UNCHANGED <<dups, numbered>>

\* do_send finds nothing: this chain of writes ends.  How many other do_send
\* handlers are pending is not counted, so `posted' may or may not stay.
SendNothing(n) ==
    LET c == con[n] IN
    /\ Alive(n) /\ c.posted
    /\ c.out_queue = <<>>
    /\ \A s \in c.ring : ~HasWork(c.working[s])
    /\ \E more \in BOOLEAN :
         con' = [con EXCEPT
                   ![n].next_message = IF c.ring = {} THEN 0
                                       ELSE (@ + 1) % Cardinality(c.ring),
                   ![n].posted = more]
    /\ UNCHANGED <<net, dups, numbered>>

DoSend(n) ==
    \/ SendQueued(n)
    \/ \E s \in con[n].ring :
         \/ SendNext(n, s)
         \/ \E k \in Chunks(con[n].working[s]) : SendAgain(n, s, k)
    \/ SendNothing(n)

\* The handler resend_thread posts once a second.
ResendTick(n) ==
    /\ Alive(n)
    /\ con[n].ring # {}
    /\ con' = [con EXCEPT ![n] = Resend(@)]
    /\ UNCHANGED <<net, dups, numbered>>

\* A datagram arrives, and is gone from the network.
Deliver(p) ==
    /\ Alive(p.dst)
    /\ con' = [con EXCEPT ![p.dst] = HandleRead(p.dst, @, p)]
    /\ net' = net \ {p}
    /\ UNCHANGED <<dups, numbered>>

\* A datagram arrives, and a copy of it stays in the network.
Duplicate(p) ==
    /\ Alive(p.dst)
    /\ dups < MaxDup
    /\ con' = [con EXCEPT ![p.dst] = HandleRead(p.dst, @, p)]
    /\ dups' = dups + 1
    /\ UNCHANGED <<net, numbered>>

Lose(p) ==
    /\ net' = net \ {p}
    /\ UNCHANGED <<con, dups, numbered>>

\* The process of node n ends and a new one binds the same port.
Restart(n) ==
    /\ con[n].epoch < MaxRestarts
    /\ con' = [con EXCEPT ![n] = NewConnection(@.epoch + 1)]
    /\ UNCHANGED <<net, dups, numbered>>

Next ==
    \/ \E m \in Traffic : Send(m)
    \/ \E n \in Nodes : Receive(n) \/ DoSend(n) \/ ResendTick(n)
    \/ \E p \in net : Deliver(p) \/ Duplicate(p) \/ Lose(p)

Spec == Init /\ [][Next]_vars

\* resend_thread posts a tick every second for as long as the queue lives, and
\* udp_run_thread runs whatever is posted.  Nothing is assumed of the network.
Fairness == \A n \in Nodes : WF_vars(DoSend(n)) /\ WF_vars(ResendTick(n))

FairSpec == Spec /\ Fairness

RestartSpec == Init /\ [][Next \/ \E n \in Nodes : Restart(n)]_vars

-----------------------------------------------------------------------------
(* Types.                                                                  *)

Ids == [src : Nodes, dst : Nodes, size : 1..MAX_MESSAGE_SIZE,
        epoch : Nat, sequence : Nat]

Packets == [type : {"msg", "qmsg", "ack"}, src : Nodes, dst : Nodes,
            sequence : Nat, total : Nat, chunk : Nat, size : Int, id : Ids]

IsMap(f) == f = [x \in DOMAIN f |-> f[x]]

IsWorkingMessage(w) ==
    w \in [id : Ids, dst : Nodes, robust : BOOLEAN,
           size : 1..MAX_MESSAGE_SIZE, total : 1..MAX_CHUNKS,
           set : SUBSET Chunks(w), sent : SUBSET Chunks(w), ticks : Nat,
           in_flight : Nat, queued : Nat, next_send : 0..w.total,
           resends : [Chunks(w) -> Nat]]

IsPartial(e) ==
    /\ e = [total |-> e.total, size |-> e.size, parts |-> e.parts]
    /\ e.total \in Nat /\ e.size \in Int
    /\ IsMap(e.parts)
    /\ \A k \in DOMAIN e.parts : k \in Nat /\ e.parts[k] \in Ids

IsConnection(c) ==
    /\ c = [sequence |-> c.sequence, ring |-> c.ring,
            next_message |-> c.next_message, working |-> c.working,
            out_queue |-> c.out_queue, posted |-> c.posted,
            in_working |-> c.in_working, in_queue |-> c.in_queue,
            failed |-> c.failed, epoch |-> c.epoch,
            acked |-> c.acked, delivered |-> c.delivered]
    /\ c.sequence \in Nat /\ c.next_message \in Nat /\ c.epoch \in Nat
    /\ c.posted \in BOOLEAN
    /\ c.ring \subseteq 1..c.sequence
    /\ IsMap(c.working) /\ DOMAIN c.working \subseteq 1..c.sequence
    /\ \A s \in DOMAIN c.working : IsWorkingMessage(c.working[s])
    /\ c.out_queue \in Seq(Packets)
    /\ IsMap(c.in_working) /\ DOMAIN c.in_working \subseteq Nat
    /\ \A s \in DOMAIN c.in_working : IsPartial(c.in_working[s])
    /\ c.acked \subseteq Ids /\ c.delivered \subseteq Ids

QueuesTyped ==
    /\ con = [n \in Nodes |-> con[n]]
    /\ \A n \in Nodes : IsConnection(con[n])
    /\ net \subseteq Packets
    /\ dups \in 0..MaxDup

\* Every part of a connection has the type its C++ declaration gives it, and
\* a message's bit sets are as long as its chunk count.
TypeOK == QueuesTyped /\ numbered \subseteq Ids

-----------------------------------------------------------------------------
(* Properties.                                                             *)

WindowOK(w) ==
    /\ w.sent = 0..(w.next_send - 1)
    /\ w.set \subseteq w.sent
    /\ w.queued = 0
    /\ w.in_flight = IF w.robust THEN Cardinality(w.sent \ w.set) ELSE 0
    /\ w.in_flight <= MAX_FLIGHT
    /\ \A k \in Chunks(w) : w.resends[k] > 0 => k \in w.sent

\* The window.  In every working message the chunks sent are the first
\* next_send ones and only sent chunks are acknowledged or queued again; for a
\* robust one in_flight counts exactly the chunks sent and not acknowledged, through
\* losses, retransmissions, duplicated and late acknowledgements, and never
\* exceeds MAX_FLIGHT (get_next_chunk, sent_chunk, validate_chunk).
WindowExact ==
    \A n \in Nodes : \A s \in DOMAIN con[n].working : WindowOK(con[n].working[s])

\* Packet p is a chunk, or the acknowledgement of a chunk, that connection c
\* of this incarnation has sent.
SentBefore(c, p) ==
    /\ p.sequence \in 1..c.sequence
    /\ p.sequence \in DOMAIN c.working =>
         p.chunk \in c.working[p.sequence].sent

Sender(p) == IF p.type = "ack" THEN p.dst ELSE p.src

\* Nothing is in transit, or queued to be acknowledged, that its sender has
\* not sent, and an out queue holds acknowledgements only between handlers:
\* no queued chunk can outlive the message its write_data points into.
OnlySentChunks ==
    /\ \A p \in net : SentBefore(con[Sender(p)], p)
    /\ \A n \in Nodes : \A i \in DOMAIN con[n].out_queue :
         LET p == con[n].out_queue[i] IN
         p.type = "ack" /\ SentBefore(con[p.dst], p)

\* No contract of the transport ever fails, and so no node exits: not the
\* CHECKs of validate_chunk when the last acknowledgement comes, nor
\* cleanup_message's CHECK that the message is in the ring, nor
\* total_chunks' ENSURE that there is a chunk.
NoContractFails == \A n \in Nodes : con[n].failed = {}

\* The ring and the working map hold the same messages, whatever order
\* acknowledgements, purges and last chunks remove them in
\* (message_ring_item::wm points into the map).
RingIsWorking == \A n \in Nodes : con[n].ring = DOMAIN con[n].working

\* No lost wake-up: while an acknowledgement, a next chunk or a retransmission
\* could go out, a do_send handler is pending.  A chain of do_send handlers
\* ends when the window closes, so whatever opens it again must post one.
NeverStalls ==
    \A n \in Nodes :
        /\ Alive(n)
        /\ \/ con[n].out_queue # <<>>
           \/ \E s \in con[n].ring : HasWork(con[n].working[s])
        => con[n].posted

\* Of the messages ids, two senders have given the same number s to one for n.
\* Every connection numbers from one, for all its peers, so this happens.
Crossed(ids, n, s) ==
    \E i, j \in ids : /\ i.dst = n /\ i.sequence = s
                     /\ j.dst = n /\ j.sequence = s
                     /\ i.src # j.src

\* What insert_chunk hands to the application.  All its chunks were sent to
\* this node under one number, and no sender contributes to it with two
\* messages.  Unless two senders have sent this node a message of that number,
\* it is one message, whole, of the size and from the peer it was sent with.
\* With two, it may be a mixture of both, under the address of whose chunk
\* came last: _in_working is keyed by the number alone.
DeliveredIntact ==
    \A n \in Nodes : \A i \in DOMAIN con[n].in_queue :
        LET d == con[n].in_queue[i]
            s == d.parts[0].sequence
        IN
        /\ \A k \in DOMAIN d.parts : d.parts[k].dst = n /\ d.parts[k].sequence = s
        /\ \A j, k \in DOMAIN d.parts :
             d.parts[j].src = d.parts[k].src => d.parts[j] = d.parts[k]
        /\ \/ Crossed(numbered, n, s)
           \/ /\ \A k \in DOMAIN d.parts : d.parts[k] = d.parts[0]
              /\ DOMAIN d.parts = 0..(TotalChunks(d.size) - 1)
              /\ d.size = d.parts[0].size
              /\ d.ep = d.parts[0].src

\* handle_read acknowledges a chunk before insert_chunk has looked at it.
\* Nevertheless, when a robust message leaves the working set because every
\* chunk was acknowledged, its destination has delivered it, unless another
\* sender's message to that node has the same number: then chunks are
\* acknowledged that insert_chunk refuses, and the message is lost.
AckedMeansDelivered ==
    \A n \in Nodes : \A id \in con[n].acked :
        \/ id \in con[id.dst].delivered
        \/ Crossed(numbered, id.dst, id.sequence)

\* A tick past the threshold queues every unacknowledged chunk again: the
\* limit of MAX_FLIGHT in resend(item) never leaves one out.
ResendCoversUnacked ==
    [][\A n \in Nodes : ResendTick(n) =>
         \A s \in con'[n].ring :
            LET w == con[n].working[s]
                v == con'[n].working[s]
            IN v.robust /\ v.ticks > RESEND_TICK_THRESHOLD =>
               \A k \in w.sent \ w.set : v.resends[k] = w.resends[k] + 1]_vars

\* Every message leaves the working set, acknowledged, sent or purged: the
\* round robin starves none and the timer catches what the network dropped.
EveryMessageLeaves ==
    \A n \in Nodes : \A s \in 1..MaxSequence :
        s \in con[n].ring ~> s \notin con[n].ring
=============================================================================
