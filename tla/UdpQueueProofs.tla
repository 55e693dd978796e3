--------------------------- MODULE UdpQueueProofs ---------------------------
(***************************************************************************)
(* The sender's bookkeeping and its wake-ups are right for every set of    *)
(* nodes, every traffic and every value of the window and the timers, and  *)
(* so is delivery wherever a node hears from one sender.                   *)
(***************************************************************************)
EXTENDS UdpQueue, TLAPS, FiniteSetTheorems

(* A connection's own invariant.                                           *)
ConnectionOK(c) ==
    /\ IsConnection(c)
    /\ c.ring = DOMAIN c.working
    /\ \A s \in DOMAIN c.working : WindowOK(c.working[s])

(* What no handler takes back: sequence numbers grow, a message that is
   still in the working map has kept the chunks it had sent, and a new one
   has a new number.                                                       *)
Evolves(c, d) ==
    /\ c.sequence <= d.sequence
    /\ \A s \in DOMAIN d.working :
         \/ s > c.sequence
         \/ s \in DOMAIN c.working /\ c.working[s].sent \subseteq d.working[s].sent

(* One handler run: the invariant is kept and nothing is taken back.       *)
Sound(c, d) == ConnectionOK(d) /\ Evolves(c, d)

-----------------------------------------------------------------------------

LEMMA TotalType ==
    ASSUME NEW size \in 1..MAX_MESSAGE_SIZE
    PROVE  TotalChunks(size) \in 0..(MAX_CHUNKS - 1)
  <1>1. MAX_MESSAGE_SIZE \in Nat
    BY UdpAssumption DEF MAX_MESSAGE_SIZE
  <1>2. size \div UDP_CHuNK_SIZE \in Int
    BY <1>1, UdpAssumption
  <1>3. QED
    BY <1>2, UdpAssumption DEF TotalChunks

LEMMA EvolvesKeepsSent ==
    ASSUME NEW c, NEW d, NEW p,
           c.sequence \in Nat, d.sequence \in Nat,
           Evolves(c, d), SentBefore(c, p)
    PROVE  SentBefore(d, p)
  BY DEF Evolves, SentBefore

(* An acknowledged or sent chunk moves the count by one.                   *)
LEMMA ChunksFinite ==
    ASSUME NEW w, IsWorkingMessage(w), NEW S \in SUBSET w.sent
    PROVE  IsFiniteSet(S) /\ Cardinality(S) \in Nat
  <1>1. w.total \in Nat
    BY UdpAssumption DEF IsWorkingMessage
  <1>2. IsFiniteSet(Chunks(w))
    BY <1>1, FS_Interval DEF Chunks
  <1>3. w.sent \subseteq Chunks(w)
    BY DEF IsWorkingMessage
  <1>4. IsFiniteSet(S)
    BY <1>2, <1>3, FS_Subset
  <1>5. QED
    BY <1>4, FS_CardinalityType

-----------------------------------------------------------------------------

(* Replacing the working map and the ring with it, and fields that no
   invariant reads: what a handler must show of the new map.               *)
GoodMap(c, W) ==
    /\ IsMap(W) /\ DOMAIN W \subseteq DOMAIN c.working
    /\ \A s \in DOMAIN W : /\ IsWorkingMessage(W[s]) /\ WindowOK(W[s])
                           /\ c.working[s].sent \subseteq W[s].sent

WithMap(c, W, i, b, A) ==
    [sequence |-> c.sequence, ring |-> DOMAIN W, next_message |-> i,
     working |-> W, out_queue |-> c.out_queue, posted |-> b,
     in_working |-> c.in_working, in_queue |-> c.in_queue,
     failed |-> c.failed, epoch |-> c.epoch, acked |-> A,
     delivered |-> c.delivered]

LEMMA NewWorkingMap ==
    ASSUME NEW c, ConnectionOK(c), NEW W, GoodMap(c, W),
           NEW i \in Nat, NEW b \in BOOLEAN, NEW A \in SUBSET Ids
    PROVE  /\ Sound(c, WithMap(c, W, i, b, A))
           /\ WithMap(c, W, i, b, A).failed = c.failed
           /\ WithMap(c, W, i, b, A).out_queue = c.out_queue
  <1> DEFINE d == WithMap(c, W, i, b, A)
  <1>1. /\ d.sequence = c.sequence /\ d.ring = DOMAIN W /\ d.working = W
        /\ d.failed = c.failed /\ d.out_queue = c.out_queue
    BY DEF WithMap
  <1>2. IsConnection(d)
    BY DEF WithMap, ConnectionOK, IsConnection, GoodMap
  <1> HIDE DEF d
  <1>3. ConnectionOK(d)
    BY <1>1, <1>2 DEF ConnectionOK, GoodMap
  <1>4. Evolves(c, d)
    BY <1>1 DEF Evolves, ConnectionOK, IsConnection, GoodMap
  <1>5. QED
    BY <1>1, <1>3, <1>4 DEF Sound, d

LEMMA SetMap ==
    ASSUME NEW c, IsConnection(c), NEW W, DOMAIN W = c.ring, NEW i
    PROVE  [c EXCEPT !.next_message = i, !.working = W] =
             WithMap(c, W, i, c.posted, c.acked)
  <1> DEFINE d == [c EXCEPT !.next_message = i, !.working = W]
  <1>1. d = [c EXCEPT !.next_message = i, !.working = W]
    OBVIOUS
  <1> HIDE DEF d
  <1>2. d = WithMap(c, W, i, c.posted, c.acked)
    BY <1>1 DEF WithMap, IsConnection
  <1>3. QED
    BY <1>2 DEF d

(* cleanup_message: the message is in the ring, so its CHECK holds.        *)
LEMMA CleanupMessageOK ==
    ASSUME NEW c, IsConnection(c), c.ring = DOMAIN c.working,
           NEW s \in DOMAIN c.working
    PROVE  CleanupMessage(c, s) =
             WithMap(c, Without(c.working, {s}), c.next_message, c.posted, c.acked)
  <1>1. s \in c.ring /\ c.ring \ {s} = DOMAIN Without(c.working, {s})
    BY DEF Without
  <1>2. QED
    BY <1>1 DEF CleanupMessage, IsConnection, WithMap

LEMMA WithoutGood ==
    ASSUME NEW c, NEW W, GoodMap(c, W), NEW s
    PROVE  GoodMap(c, Without(W, {s}))
  <1> DEFINE X == Without(W, {s})
  <1>1. /\ IsMap(X) /\ DOMAIN X = DOMAIN W \ {s}
        /\ \A x \in DOMAIN X : X[x] = W[x]
    BY DEF Without, IsMap
  <1> HIDE DEF X
  <1>2. QED
    BY <1>1 DEF GoodMap, X

-----------------------------------------------------------------------------
(* send()                                                                  *)

(* A new message has nothing in flight and nothing to send again.          *)
LEMMA NewMessageOK ==
    ASSUME NEW m \in Traffic, TotalChunks(m.size) # 0, NEW id \in Ids
    PROVE  LET v == WorkingMessage(id, m) IN IsWorkingMessage(v) /\ WindowOK(v)
  <1> DEFINE v == WorkingMessage(id, m)
  <1>m. m \in [src : Nodes, dst : Nodes, size : 1..MAX_MESSAGE_SIZE, robust : BOOLEAN]
    BY UdpAssumption
  <1>t. TotalChunks(m.size) \in 1..MAX_CHUNKS
    BY <1>m, TotalType, UdpAssumption
  <1>1. IsWorkingMessage(v)
    BY <1>t, <1>m DEF IsWorkingMessage, WorkingMessage, Chunks
  <1>2. WindowOK(v)
    <2>1. v.sent = {} /\ v.set = {} /\ v.queued = 0 /\ v.next_send = 0 /\ v.in_flight = 0
      BY DEF WorkingMessage
    <2>2. Cardinality({}) = 0
      BY FS_EmptySet
    <2>3. {} = 0..(0 - 1)
      OBVIOUS
    <2>4. /\ v.sent \ v.set = {}
          /\ \A k \in Chunks(v) : v.resends[k] = 0
      BY <2>1 DEF WorkingMessage, Chunks
    <2> HIDE DEF v
    <2>5. QED
      BY <2>1, <2>2, <2>3, <2>4, UdpAssumption DEF WindowOK
  <1>3. QED
    BY <1>1, <1>2

LEMMA NewIdType ==
    ASSUME NEW c, IsConnection(c), NEW m \in Traffic
    PROVE  NewId(c, m) \in Ids
  BY UdpAssumption DEF NewId, Ids, IsConnection

(* Either total_chunks' ENSURE fails, or one new message joins the ring.   *)
LEMMA AddType ==
    ASSUME NEW c, IsConnection(c), NEW m \in Traffic,
           NEW d, d = AddToWorkingSet(c, m)
    PROVE  /\ IsConnection(d) /\ d.out_queue = c.out_queue
           /\ TotalChunks(m.size) = 0 =>
                /\ d.failed = c.failed \cup {"total_chunks"}
                /\ d.sequence = c.sequence /\ d.ring = c.ring
                /\ d.working = c.working
           /\ TotalChunks(m.size) # 0 =>
                /\ d.failed = c.failed /\ d.posted
                /\ d.sequence = c.sequence + 1
                /\ d.ring = c.ring \cup {c.sequence + 1}
                /\ \E v : /\ IsWorkingMessage(v) /\ WindowOK(v)
                          /\ d.working = Put(c.working, c.sequence + 1, v)
  <1> DEFINE s  == c.sequence + 1
             id == NewId(c, m)
             v  == WorkingMessage(id, m)
             W  == Put(c.working, s, v)
  <1>i. id \in Ids
    BY NewIdType
  <1>1. CASE TotalChunks(m.size) = 0
    <2>1. d = [sequence |-> c.sequence, ring |-> c.ring,
            next_message |-> c.next_message, working |-> c.working,
            out_queue |-> c.out_queue, posted |-> c.posted,
            in_working |-> c.in_working, in_queue |-> c.in_queue,
            failed |-> c.failed \cup {"total_chunks"}, epoch |-> c.epoch,
            acked |-> c.acked, delivered |-> c.delivered]
      BY <1>1 DEF AddToWorkingSet, IsConnection
    <2>2. QED
      BY <1>1, <2>1 DEF IsConnection
  <1>2. CASE TotalChunks(m.size) # 0
    <2>1. IsWorkingMessage(v) /\ WindowOK(v)
      BY <1>2, <1>i, NewMessageOK
    <2>3. d = [c EXCEPT !.sequence = s, !.working = W,
                        !.ring = c.ring \cup {s}, !.posted = TRUE]
      BY <1>2 DEF AddToWorkingSet
    <2>w. W = Put(c.working, s, v)
      OBVIOUS
    <2>4. /\ IsMap(W) /\ DOMAIN W = DOMAIN c.working \cup {s}
          /\ W[s] = v /\ \A x \in DOMAIN c.working : x # s => W[x] = c.working[x]
      BY DEF Put, IsMap
    <2>5. s \in Nat /\ s > c.sequence /\ s = c.sequence + 1
      BY DEF IsConnection
    <2> HIDE DEF W, v, id, s
    <2>6. d = [sequence |-> s, ring |-> c.ring \cup {s},
            next_message |-> c.next_message, working |-> W,
            out_queue |-> c.out_queue, posted |-> TRUE,
            in_working |-> c.in_working, in_queue |-> c.in_queue,
            failed |-> c.failed, epoch |-> c.epoch,
            acked |-> c.acked, delivered |-> c.delivered]
      BY <2>3 DEF IsConnection
    <2>7. IsConnection(d)
      BY <2>1, <2>4, <2>5, <2>6 DEF IsConnection
    <2>8. /\ d.out_queue = c.out_queue /\ d.failed = c.failed /\ d.posted
          /\ d.sequence = s /\ d.ring = c.ring \cup {s} /\ d.working = W
      BY <2>6
    <2>9. QED
      BY <1>2, <2>1, <2>w, <2>5, <2>7, <2>8
  <1>3. QED
    BY <1>1, <1>2

LEMMA AddToWorkingSetOK ==
    ASSUME NEW c, ConnectionOK(c), NEW m \in Traffic
    PROVE  LET d == AddToWorkingSet(c, m) IN
           /\ Sound(c, d) /\ d.out_queue = c.out_queue
           /\ TotalChunks(m.size) # 0 => d.failed = c.failed
  <1> DEFINE d == AddToWorkingSet(c, m)
             s == c.sequence + 1
  <1>c. IsConnection(c)
    BY DEF ConnectionOK
  <1>t. /\ IsConnection(d) /\ d.out_queue = c.out_queue
        /\ TotalChunks(m.size) = 0 =>
             /\ d.failed = c.failed \cup {"total_chunks"}
             /\ d.sequence = c.sequence /\ d.ring = c.ring
             /\ d.working = c.working
        /\ TotalChunks(m.size) # 0 =>
             /\ d.failed = c.failed /\ d.posted
             /\ d.sequence = s /\ d.ring = c.ring \cup {s}
             /\ \E v : /\ IsWorkingMessage(v) /\ WindowOK(v)
                       /\ d.working = Put(c.working, s, v)
    BY <1>c, AddType
  <1> HIDE DEF d
  <1>1. CASE TotalChunks(m.size) = 0
    <2>1. ConnectionOK(d)
      BY <1>1, <1>t DEF ConnectionOK
    <2>2. Evolves(c, d)
      BY <1>1, <1>t, <1>c DEF Evolves, IsConnection
    <2>3. QED
      BY <1>1, <1>t, <2>1, <2>2 DEF Sound, d
  <1>2. CASE TotalChunks(m.size) # 0
    <2>1. PICK v : IsWorkingMessage(v) /\ WindowOK(v) /\ d.working = Put(c.working, s, v)
      BY <1>2, <1>t
    <2>2. /\ DOMAIN d.working = DOMAIN c.working \cup {s} /\ d.working[s] = v
          /\ \A x \in DOMAIN c.working : x # s => d.working[x] = c.working[x]
      BY <2>1 DEF Put
    <2>3. s \in Nat /\ s > c.sequence /\ s \notin DOMAIN c.working
      BY <1>c DEF IsConnection
    <2> HIDE DEF s
    <2>4. d.sequence = s /\ d.ring = c.ring \cup {s} /\ d.failed = c.failed
      BY <1>2, <1>t
    <2>5. ConnectionOK(d)
      BY <1>t, <2>1, <2>2, <2>4 DEF ConnectionOK
    <2>6. Evolves(c, d)
      BY <1>c, <2>2, <2>3, <2>4 DEF Evolves, IsConnection
    <2>7. QED
      BY <1>t, <2>4, <2>5, <2>6 DEF Sound, d
  <1>3. QED
    BY <1>1, <1>2

-----------------------------------------------------------------------------
(* do_send                                                                 *)

(* Sending the next chunk adds it to the sent ones and to the window.      *)
LEMMA SendNextWindow ==
    ASSUME NEW w, IsWorkingMessage(w), WindowOK(w), CanSendNext(w),
           NEW u, u = TakeNextChunk(w), NEW v, v = MarkSent(u, w.next_send)
    PROVE  /\ IsWorkingMessage(v) /\ WindowOK(v)
           /\ w.sent \subseteq v.sent /\ w.next_send \in v.sent
  <1>t. /\ w.total \in Nat /\ w.next_send \in Nat /\ w.next_send < w.total
        /\ w.in_flight \in Nat /\ w.robust \in BOOLEAN /\ w.queued = 0
        /\ w.sent = 0..(w.next_send - 1) /\ w.set \subseteq w.sent
    BY UdpAssumption DEF IsWorkingMessage, WindowOK, CanSendNext
  <1>u. /\ u.total = w.total /\ u.next_send = w.next_send + 1
        /\ u.sent = w.sent /\ u.set = w.set /\ u.queued = 1
        /\ u.robust = w.robust /\ u.in_flight = w.in_flight
        /\ u.id = w.id /\ u.dst = w.dst /\ u.size = w.size
        /\ u.ticks = w.ticks /\ u.resends = w.resends
    BY <1>t DEF TakeNextChunk, IsWorkingMessage
  <1>r. u = [id |-> u.id, dst |-> u.dst, robust |-> u.robust, size |-> u.size,
             total |-> u.total, set |-> u.set, sent |-> u.sent,
             ticks |-> u.ticks, in_flight |-> u.in_flight, queued |-> u.queued,
             next_send |-> u.next_send, resends |-> u.resends]
    BY DEF TakeNextChunk, IsWorkingMessage
  <1>f. /\ v.total = w.total /\ v.next_send = w.next_send + 1
        /\ v.sent = w.sent \cup {w.next_send} /\ v.set = w.set /\ v.queued = 0
        /\ v.robust = w.robust
        /\ v.in_flight = IF w.robust THEN w.in_flight + 1 ELSE w.in_flight
        /\ v.id = w.id /\ v.dst = w.dst /\ v.size = w.size
        /\ v.ticks = w.ticks /\ v.resends = w.resends
    BY <1>u, <1>r DEF MarkSent
  <1>s. v = [id |-> v.id, dst |-> v.dst, robust |-> v.robust, size |-> v.size,
             total |-> v.total, set |-> v.set, sent |-> v.sent,
             ticks |-> v.ticks, in_flight |-> v.in_flight, queued |-> v.queued,
             next_send |-> v.next_send, resends |-> v.resends]
    BY <1>r DEF MarkSent
  <1>1. IsWorkingMessage(v)
    <2>1. Chunks(v) = Chunks(w) /\ v.sent \subseteq Chunks(w)
      BY <1>t, <1>f DEF Chunks, IsWorkingMessage
    <2>2. v.in_flight \in Nat /\ v.next_send \in 0..v.total /\ v.queued \in Nat
      BY <1>t, <1>f
    <2>4. QED
      BY <2>1, <2>2, <1>f, <1>s DEF IsWorkingMessage
  <1>2. v.sent = 0..(v.next_send - 1) /\ v.set \subseteq v.sent
    BY <1>t, <1>f
  <1>3. /\ v.in_flight = IF v.robust THEN Cardinality(v.sent \ v.set) ELSE 0
        /\ v.in_flight <= MAX_FLIGHT
    <2>1. v.sent \ v.set = (w.sent \ w.set) \cup {w.next_send}
          /\ w.next_send \notin w.sent \ w.set
      BY <1>t, <1>f
    <2>2. IsFiniteSet(w.sent \ w.set)
      BY ChunksFinite
    <2>3. Cardinality(v.sent \ v.set) = Cardinality(w.sent \ w.set) + 1
      BY <2>1, <2>2, FS_AddElement
    <2>4. w.in_flight = IF w.robust THEN Cardinality(w.sent \ w.set) ELSE 0
      BY DEF WindowOK
    <2>5. w.robust => w.in_flight < MAX_FLIGHT
      BY <1>t DEF CanSendNext
    <2>6. QED
      BY <1>f, <1>t, <2>3, <2>4, <2>5, UdpAssumption
  <1>4. \A k \in Chunks(v) : v.resends[k] > 0 => k \in v.sent
    BY <1>f DEF WindowOK, Chunks
  <1>5. QED
    BY <1>f, <1>1, <1>2, <1>3, <1>4 DEF WindowOK

LEMMA RingFinite ==
    ASSUME NEW c, IsConnection(c), NEW S \in SUBSET c.ring
    PROVE  IsFiniteSet(S) /\ Cardinality(S) \in Nat
  <1>1. c.sequence \in Nat /\ c.ring \subseteq 1..c.sequence
    BY DEF IsConnection
  <1>2. IsFiniteSet(1..c.sequence)
    BY <1>1, FS_Interval
  <1>3. IsFiniteSet(S)
    BY <1>1, <1>2, FS_Subset
  <1>4. QED
    BY <1>3, FS_CardinalityType

LEMMA RingIndexType ==
    ASSUME NEW c, IsConnection(c), NEW s
    PROVE  RingIndex(c, s) \in Nat
  <1>1. {t \in c.ring : t < s} \in SUBSET c.ring
    OBVIOUS
  <1>2. QED
    BY <1>1, RingFinite DEF RingIndex

(* One entry of the working map gets a new value.                          *)
LEMMA ReplaceGood ==
    ASSUME NEW c, ConnectionOK(c), NEW s \in DOMAIN c.working,
           NEW v, IsWorkingMessage(v), WindowOK(v),
           c.working[s].sent \subseteq v.sent
    PROVE  /\ GoodMap(c, Put(c.working, s, v))
           /\ DOMAIN Put(c.working, s, v) = DOMAIN c.working
           /\ Put(c.working, s, v)[s] = v
  <1> DEFINE W == Put(c.working, s, v)
  <1>1. /\ IsMap(W) /\ DOMAIN W = DOMAIN c.working
        /\ W[s] = v /\ \A x \in DOMAIN W : x # s => W[x] = c.working[x]
    BY DEF Put, IsMap
  <1> HIDE DEF W
  <1>2. GoodMap(c, W)
    BY <1>1 DEF ConnectionOK, IsConnection, GoodMap
  <1>3. QED
    BY <1>1, <1>2 DEF W

LEMMA SendNextOK ==
    ASSUME NEW c, ConnectionOK(c), NEW s \in c.ring, CanSendNext(c.working[s]),
           NEW n \in Nodes
    PROVE  LET w == c.working[s]
               d == SentChunk([c EXCEPT !.next_message = RingIndex(c, s)],
                              s, TakeNextChunk(w), w.next_send)
           IN /\ Sound(c, d) /\ d.failed = c.failed /\ d.out_queue = c.out_queue
              /\ Chunk(n, s, w, w.next_send) \in Packets
              /\ SentBefore(d, Chunk(n, s, w, w.next_send))
  <1> DEFINE w == c.working[s]
             i == RingIndex(c, s)
             u == TakeNextChunk(w)
             e == [c EXCEPT !.next_message = i]
             d == SentChunk(e, s, u, w.next_send)
             v == MarkSent(u, w.next_send)
             W == Put(c.working, s, v)
             f == WithMap(c, W, i, c.posted, c.acked)
             p == Chunk(n, s, w, w.next_send)
  <1>t. /\ s \in DOMAIN c.working /\ c.ring = DOMAIN c.working
        /\ IsWorkingMessage(w) /\ WindowOK(w) /\ CanSendNext(w)
        /\ c.posted \in BOOLEAN /\ c.acked \in SUBSET Ids /\ i \in Nat
        /\ s \in Nat /\ c.sequence \in Nat /\ s \in 1..c.sequence
    BY RingIndexType DEF ConnectionOK, IsConnection
  <1>g. w = c.working[s]
    OBVIOUS
  <1> HIDE DEF w, i
  <1>v. /\ IsWorkingMessage(v) /\ WindowOK(v)
        /\ w.sent \subseteq v.sent /\ w.next_send \in v.sent
    BY <1>t, SendNextWindow
  <1>h. d = LET dd == [e EXCEPT !.working = Put(@, s, v)]
            IN IF ~v.robust /\ AllSent(v) THEN CleanupMessage(dd, s) ELSE dd
    BY DEF SentChunk
  <1> HIDE DEF u, v
  <1>5. GoodMap(c, W) /\ DOMAIN W = DOMAIN c.working /\ W[s] = v
    BY <1>v, <1>g, <1>t, ReplaceGood
  <1>e. Put(e.working, s, v) = W
    BY DEF ConnectionOK, IsConnection
  <1>2. [e EXCEPT !.working = Put(@, s, v)] = f
    <2> HIDE DEF W
    <2>1. [e EXCEPT !.working = W] = [c EXCEPT !.next_message = i, !.working = W]
      BY DEF ConnectionOK, IsConnection
    <2>2. QED
      BY <1>e, <1>t, <1>5, <2>1, SetMap DEF ConnectionOK
  <1> HIDE DEF W, e, f, p
  <1>d. d = IF ~v.robust /\ AllSent(v) THEN CleanupMessage(f, s) ELSE f
    BY <1>2, <1>h
  <1> HIDE DEF d
  <1>6. Sound(c, f) /\ f.failed = c.failed /\ f.out_queue = c.out_queue
    BY <1>5, <1>t, NewWorkingMap DEF f
  <1>f. f.working = W /\ f.ring = DOMAIN W /\ f.sequence = c.sequence
    BY DEF f, WithMap
  <1>7. p \in Packets
    BY <1>t, UdpAssumption DEF p, Packets, Chunk, IsWorkingMessage, MAX_MESSAGE_SIZE
  <1>8. p.sequence = s /\ p.chunk = w.next_send
    BY DEF p, Chunk
  <1>9. CASE ~(~v.robust /\ AllSent(v))
    <2>1. d = f
      BY <1>9, <1>d
    <2>2. SentBefore(f, p)
      BY <1>f, <1>5, <1>v, <1>8, <1>t DEF SentBefore
    <2>3. QED
      BY <2>1, <2>2, <1>6, <1>7 DEF d, w, e, i, p, u
  <1>10. CASE ~v.robust /\ AllSent(v)
    <2> DEFINE X == Without(W, {s})
    <2>1. d = WithMap(f, X, f.next_message, f.posted, f.acked)
      BY <1>d, <1>10, <1>6, <1>f, <1>5, <1>t, CleanupMessageOK DEF Sound, ConnectionOK
    <2>2. d = WithMap(c, X, i, c.posted, c.acked)
      BY <2>1 DEF f, WithMap
    <2>3. GoodMap(c, X)
      BY <1>5, WithoutGood
    <2>4. Sound(c, d) /\ d.failed = c.failed /\ d.out_queue = c.out_queue
      BY <2>2, <2>3, <1>t, NewWorkingMap
    <2>5. d.sequence = c.sequence /\ s \notin DOMAIN d.working
      BY <2>2 DEF WithMap, Without
    <2>6. SentBefore(d, p)
      BY <2>5, <1>8, <1>t DEF SentBefore
    <2>7. QED
      BY <2>4, <2>6, <1>7 DEF d, w, e, i, p, u
  <1>11. QED
    BY <1>9, <1>10

(* Only the resend queue and the tick count change.                        *)
NewResends(w, t, R) == [w EXCEPT !.ticks = t, !.resends = R]

LEMMA NewResendsOK ==
    ASSUME NEW w, IsWorkingMessage(w), WindowOK(w), NEW t \in Nat,
           NEW R \in [Chunks(w) -> Nat], \A k \in Chunks(w) : R[k] > 0 => k \in w.sent
    PROVE  LET v == NewResends(w, t, R) IN
           IsWorkingMessage(v) /\ WindowOK(v) /\ v.sent = w.sent
  <1> DEFINE v == NewResends(w, t, R)
  <1>1. /\ v.total = w.total /\ v.next_send = w.next_send
        /\ v.sent = w.sent /\ v.set = w.set /\ v.queued = w.queued
        /\ v.robust = w.robust /\ v.in_flight = w.in_flight /\ v.resends = R
    BY DEF NewResends, IsWorkingMessage
  <1>2. Chunks(v) = Chunks(w)
    BY <1>1 DEF Chunks
  <1>3. IsWorkingMessage(v)
    BY <1>1, <1>2 DEF NewResends, IsWorkingMessage
  <1>4. QED
    BY <1>1, <1>2, <1>3 DEF WindowOK

LEMMA PopResendOK ==
    ASSUME NEW w, IsWorkingMessage(w), WindowOK(w),
           NEW k \in Chunks(w), w.resends[k] > 0
    PROVE  LET v == PopResend(w, k) IN
           IsWorkingMessage(v) /\ WindowOK(v) /\ v.sent = w.sent
  <1> DEFINE R == [j \in DOMAIN w.resends |->
                     IF j = k THEN w.resends[j] - 1 ELSE w.resends[j]]
  <1>1. /\ R \in [Chunks(w) -> Nat]
        /\ \A j \in Chunks(w) : R[j] > 0 => w.resends[j] > 0
    BY DEF IsWorkingMessage
  <1>2. PopResend(w, k) = [w EXCEPT !.resends = R]
    BY DEF PopResend
  <1> HIDE DEF R
  <1>3. PopResend(w, k) = NewResends(w, w.ticks, R)
    BY <1>2 DEF NewResends, IsWorkingMessage
  <1>4. w.ticks \in Nat
    BY DEF IsWorkingMessage
  <1>5. \A j \in Chunks(w) : R[j] > 0 => j \in w.sent
    BY <1>1 DEF WindowOK
  <1>6. QED
    BY <1>1, <1>3, <1>4, <1>5, NewResendsOK

(* A chunk that is sent again is one that was sent.                        *)
LEMMA SendAgainOK ==
    ASSUME NEW c, ConnectionOK(c), NEW s \in c.ring, NEW n \in Nodes,
           NEW k \in Chunks(c.working[s]), c.working[s].resends[k] > 0
    PROVE  LET w == c.working[s]
               d == [c EXCEPT !.next_message = RingIndex(c, s),
                              !.working = Put(@, s, PopResend(w, k))]
           IN /\ Sound(c, d) /\ d.failed = c.failed /\ d.out_queue = c.out_queue
              /\ Chunk(n, s, w, k) \in Packets
              /\ SentBefore(d, Chunk(n, s, w, k))
  <1> DEFINE w == c.working[s]
             i == RingIndex(c, s)
             v == PopResend(w, k)
             W == Put(c.working, s, v)
             d == [c EXCEPT !.next_message = i, !.working = W]
             p == Chunk(n, s, w, k)
  <1>t. /\ s \in DOMAIN c.working /\ c.ring = DOMAIN c.working
        /\ IsWorkingMessage(w) /\ WindowOK(w) /\ k \in Chunks(w) /\ w.resends[k] > 0
        /\ c.posted \in BOOLEAN /\ c.acked \in SUBSET Ids /\ i \in Nat
        /\ s \in Nat /\ c.sequence \in Nat /\ s \in 1..c.sequence
    BY RingIndexType DEF ConnectionOK, IsConnection
  <1>g. w = c.working[s]
    OBVIOUS
  <1> HIDE DEF w, i
  <1>1. IsWorkingMessage(v) /\ WindowOK(v) /\ v.sent = w.sent
    BY <1>t, PopResendOK
  <1> HIDE DEF v
  <1>2. GoodMap(c, W) /\ DOMAIN W = DOMAIN c.working /\ W[s] = v
    BY <1>1, <1>g, <1>t, ReplaceGood
  <1> HIDE DEF W
  <1>x. c.ring = DOMAIN W
    BY <1>t, <1>2
  <1>3. d = WithMap(c, W, i, c.posted, c.acked)
    BY <1>x, SetMap DEF ConnectionOK
  <1>4. d.working = W /\ d.sequence = c.sequence
    BY <1>3 DEF WithMap
  <1> HIDE DEF d
  <1>5. Sound(c, d) /\ d.failed = c.failed /\ d.out_queue = c.out_queue
    BY <1>2, <1>3, <1>t, NewWorkingMap
  <1>6. k \in w.sent /\ k \in Nat
    BY <1>t, UdpAssumption DEF WindowOK, IsWorkingMessage, Chunks
  <1>7. p \in Packets
    BY <1>t, <1>6, UdpAssumption DEF Packets, Chunk, IsWorkingMessage, MAX_MESSAGE_SIZE
  <1>8. p.sequence = s /\ p.chunk = k
    BY DEF Chunk
  <1> HIDE DEF p
  <1>9. SentBefore(d, p)
    BY <1>t, <1>1, <1>2, <1>4, <1>6, <1>8 DEF SentBefore
  <1>10. QED
    BY <1>5, <1>7, <1>9 DEF d, W, v, w, i, p

-----------------------------------------------------------------------------
(* validate_chunk                                                          *)

LEMMA MarkAckedOK ==
    ASSUME NEW w, IsWorkingMessage(w), WindowOK(w),
           NEW k \in w.sent, k \notin w.set, NEW v, v = MarkAcked(w, k)
    PROVE  /\ IsWorkingMessage(v) /\ WindowOK(v) /\ v.sent = w.sent
           /\ v.set = Chunks(v) => AllSent(v) /\ v.in_flight = 0 /\ v.queued = 0
  <1>t. /\ w.in_flight \in Nat /\ w.robust \in BOOLEAN
        /\ w.set \subseteq w.sent /\ w.sent \subseteq Chunks(w)
        /\ w.in_flight = IF w.robust THEN Cardinality(w.sent \ w.set) ELSE 0
        /\ w.in_flight <= MAX_FLIGHT /\ w.queued = 0
    BY DEF IsWorkingMessage, WindowOK
  <1>f. /\ v.total = w.total /\ v.next_send = w.next_send
        /\ v.sent = w.sent /\ v.set = w.set \cup {k} /\ v.queued = w.queued
        /\ v.robust = w.robust /\ v.resends = w.resends
        /\ v.in_flight = IF w.in_flight > 0 THEN w.in_flight - 1 ELSE 0
        /\ v.id = w.id /\ v.dst = w.dst /\ v.size = w.size /\ v.ticks = 0
    BY DEF MarkAcked, IsWorkingMessage
  <1>s. v = [id |-> v.id, dst |-> v.dst, robust |-> v.robust, size |-> v.size,
             total |-> v.total, set |-> v.set, sent |-> v.sent,
             ticks |-> v.ticks, in_flight |-> v.in_flight, queued |-> v.queued,
             next_send |-> v.next_send, resends |-> v.resends]
    BY DEF MarkAcked, IsWorkingMessage
  <1>c. Chunks(v) = Chunks(w)
    BY <1>f DEF Chunks
  <1>1. IsWorkingMessage(v)
    <2>1. v.set \subseteq Chunks(w) /\ v.in_flight \in Nat
      BY <1>f, <1>t
    <2>3. QED
      BY <1>f, <1>c, <1>s, <2>1 DEF IsWorkingMessage
  <1>2. v.in_flight = IF v.robust THEN Cardinality(v.sent \ v.set) ELSE 0
    <2>1. w.sent \ w.set = (v.sent \ v.set) \cup {k} /\ k \notin v.sent \ v.set
      BY <1>f
    <2>2. IsFiniteSet(v.sent \ v.set) /\ Cardinality(v.sent \ v.set) \in Nat
      <3>1. v.sent \ v.set \in SUBSET w.sent
        BY <1>f
      <3>2. QED
        BY <3>1, ChunksFinite
    <2>3. Cardinality(w.sent \ w.set) = Cardinality(v.sent \ v.set) + 1
      <3> DEFINE S == v.sent \ v.set
      <3>1. IsFiniteSet(S) /\ k \notin S /\ w.sent \ w.set = S \cup {k}
        BY <2>1, <2>2
      <3> HIDE DEF S
      <3>2. Cardinality(S \cup {k}) = Cardinality(S) + 1
        BY <3>1, FS_AddElement
      <3>3. QED
        BY <3>1, <3>2 DEF S
    <2>5. Cardinality(w.sent \ w.set) \in Nat
      BY ChunksFinite
    <2>6. QED
      BY <2>2, <2>3, <2>5, <1>f, <1>t
  <1>3. WindowOK(v)
    BY <1>2, <1>f, <1>t, <1>c, UdpAssumption DEF WindowOK
  <1>4. ASSUME v.set = Chunks(v)
        PROVE  AllSent(v) /\ v.in_flight = 0 /\ v.queued = 0
    <2>1. v.sent = Chunks(v) /\ v.sent \ v.set = {}
      BY <1>4, <1>f, <1>t, <1>c
    <2>2. Cardinality({}) = 0
      BY FS_EmptySet
    <2>3. QED
      BY <2>1, <2>2, <1>2, <1>f, <1>t DEF AllSent
  <1>5. QED
    BY <1>1, <1>3, <1>4, <1>f

LEMMA ValidateChunkOK ==
    ASSUME NEW c, ConnectionOK(c), NEW p \in Packets, SentBefore(c, p)
    PROVE  LET d == ValidateChunk(c, p) IN
           Sound(c, d) /\ d.failed = c.failed /\ d.out_queue = c.out_queue
  <1> DEFINE d == ValidateChunk(c, p)
             s == p.sequence
             w == c.working[s]
             v == MarkAcked(w, p.chunk)
             W == Put(c.working, s, v)
             e == [c EXCEPT !.working = W]
  <1>r. Sound(c, c)
    BY DEF Sound, Evolves, ConnectionOK, IsConnection
  <1>1. CASE \/ s \notin DOMAIN c.working
             \/ p.chunk >= w.total \/ p.total # w.total \/ p.chunk \in w.set
    BY <1>1, <1>r DEF ValidateChunk
  <1>2. CASE ~ ( \/ s \notin DOMAIN c.working
                 \/ p.chunk >= w.total \/ p.total # w.total \/ p.chunk \in w.set )
    <2>d. d = IF v.set # Chunks(v) THEN e
              ELSE IF ~AllSent(v) \/ v.in_flight # 0 \/ v.queued # 0
              THEN [e EXCEPT !.failed = @ \cup {"validate_chunk"}]
              ELSE [CleanupMessage(e, s) EXCEPT !.acked = @ \cup {v.id}]
      BY <1>2 DEF ValidateChunk
    <2>t. /\ s \in DOMAIN c.working /\ c.ring = DOMAIN c.working
          /\ IsWorkingMessage(w) /\ WindowOK(w)
          /\ p.chunk \in w.sent /\ p.chunk \notin w.set
          /\ c.posted \in BOOLEAN /\ c.acked \in SUBSET Ids /\ c.next_message \in Nat
      BY <1>2 DEF ConnectionOK, IsConnection, SentBefore
    <2>g. w = c.working[s]
      OBVIOUS
    <2> HIDE DEF w, s, d
    <2>v. v = MarkAcked(w, p.chunk)
      OBVIOUS
    <2> HIDE DEF v
    <2>1. /\ IsWorkingMessage(v) /\ WindowOK(v) /\ v.sent = w.sent
          /\ v.set = Chunks(v) => AllSent(v) /\ v.in_flight = 0 /\ v.queued = 0
      BY <2>t, <2>v, MarkAckedOK
    <2>2. GoodMap(c, W) /\ DOMAIN W = DOMAIN c.working /\ W[s] = v
      BY <2>1, <2>g, <2>t, ReplaceGood
    <2> HIDE DEF W
    <2>3. e = WithMap(c, W, c.next_message, c.posted, c.acked)
      <3>1. e = [c EXCEPT !.next_message = c.next_message, !.working = W]
        BY DEF ConnectionOK, IsConnection
      <3>2. QED
        BY <3>1, <2>t, <2>2, SetMap DEF ConnectionOK
    <2> HIDE DEF e
    <2>4. Sound(c, e) /\ e.failed = c.failed /\ e.out_queue = c.out_queue
      BY <2>2, <2>3, <2>t, NewWorkingMap
    <2>5. CASE v.set # Chunks(v)
      BY <2>5, <2>d, <2>4 DEF d
    <2>6. CASE v.set = Chunks(v)
      <3> DEFINE X == Without(W, {s})
                 A == c.acked \cup {v.id}
      <3>1. d = [CleanupMessage(e, s) EXCEPT !.acked = @ \cup {v.id}]
        BY <2>6, <2>d, <2>1
      <3>2. e.working = W /\ e.next_message = c.next_message /\ e.posted = c.posted
            /\ e.acked = c.acked
        BY <2>3 DEF WithMap
      <3>3. CleanupMessage(e, s) = WithMap(e, X, c.next_message, c.posted, c.acked)
        BY <3>2, <2>2, <2>4, <2>t, CleanupMessageOK DEF Sound, ConnectionOK
      <3>4. CleanupMessage(e, s) = WithMap(c, X, c.next_message, c.posted, c.acked)
        BY <3>3, <2>3 DEF WithMap
      <3>5. d = WithMap(c, X, c.next_message, c.posted, A)
        BY <3>1, <3>4 DEF WithMap
      <3>6. GoodMap(c, X)
        BY <2>2, WithoutGood
      <3>7. A \in SUBSET Ids
        BY <2>1, <2>t DEF IsWorkingMessage
      <3> HIDE DEF X, A
      <3>8. QED
        BY <3>5, <3>6, <3>7, <2>t, NewWorkingMap DEF d
    <2>7. QED
      BY <2>5, <2>6
  <1>3. QED
    BY <1>1, <1>2

-----------------------------------------------------------------------------
(* resend()                                                                *)

(* Only chunks that were sent are queued again.                            *)
LEMMA TickMessageOK ==
    ASSUME NEW w, IsWorkingMessage(w), WindowOK(w)
    PROVE  LET v == TickMessage(w) IN
           IsWorkingMessage(v) /\ WindowOK(v) /\ v.sent = w.sent
  <1> DEFINE t == IF w.ticks < RESEND_THRESHOLD + RESEND_TICK_THRESHOLD
                  THEN w.ticks + 1 ELSE w.ticks
             S == IF w.robust /\ t > RESEND_TICK_THRESHOLD
                  THEN ResendSet(w) ELSE {}
             R == [k \in DOMAIN w.resends |->
                     IF k \in S THEN w.resends[k] + 1 ELSE w.resends[k]]
  <1>1. TickMessage(w) = NewResends(w, t, R)
    BY DEF TickMessage, NewResends
  <1>2. t \in Nat
    BY UdpAssumption DEF IsWorkingMessage
  <1>3. S \subseteq w.sent
    BY DEF ResendSet
  <1> HIDE DEF t, S
  <1>4. R \in [Chunks(w) -> Nat]
    BY DEF IsWorkingMessage
  <1>5. \A k \in Chunks(w) : R[k] > 0 => k \in w.sent
    BY <1>3 DEF IsWorkingMessage, WindowOK
  <1> HIDE DEF R
  <1>6. QED
    BY <1>1, <1>2, <1>4, <1>5, NewResendsOK

LEMMA ResendOK ==
    ASSUME NEW c, ConnectionOK(c)
    PROVE  LET d == Resend(c) IN
           Sound(c, d) /\ d.failed = c.failed /\ d.out_queue = c.out_queue
  <1> DEFINE T == [s \in DOMAIN c.working |-> TickMessage(c.working[s])]
             em == {s \in c.ring : Exhausted(T[s])}
             b == c.posted \/ \E s \in c.ring : T[s].resends # c.working[s].resends
             W == Without(T, em)
             d == [c EXCEPT !.working = W, !.ring = @ \ em, !.posted = b]
  <1>1. Resend(c) = d
    BY DEF Resend
  <1>2. DOMAIN T = DOMAIN c.working
        /\ \A s \in DOMAIN T : T[s] = TickMessage(c.working[s])
    OBVIOUS
  <1>3. b \in BOOLEAN /\ c.acked \in SUBSET Ids /\ c.next_message \in Nat
    BY DEF ConnectionOK, IsConnection
  <1> HIDE DEF T, em, b
  <1>4. \A s \in DOMAIN T : /\ IsWorkingMessage(T[s]) /\ WindowOK(T[s])
                            /\ T[s].sent = c.working[s].sent
    BY <1>2, TickMessageOK DEF ConnectionOK, IsConnection
  <1>5. /\ IsMap(W) /\ DOMAIN W = DOMAIN T \ em
        /\ \A s \in DOMAIN W : W[s] = T[s]
    BY DEF Without, IsMap
  <1>6. c.ring \ em = DOMAIN W
    BY <1>2, <1>5 DEF ConnectionOK
  <1> HIDE DEF W
  <1>7. GoodMap(c, W)
    BY <1>2, <1>4, <1>5 DEF GoodMap
  <1>8. d = WithMap(c, W, c.next_message, b, c.acked)
    <2>1. d = [c EXCEPT !.working = W, !.ring = @ \ em, !.posted = b]
      OBVIOUS
    <2> HIDE DEF d
    <2>2. QED
      BY <2>1, <1>6 DEF WithMap, ConnectionOK, IsConnection
  <1> HIDE DEF d
  <1>9. QED
    BY <1>1, <1>3, <1>7, <1>8, NewWorkingMap

-----------------------------------------------------------------------------
(* The receiving side leaves the sender's state alone.                     *)

WithInput(c, i, q, b, I, Q, D) ==
    [sequence |-> c.sequence, ring |-> c.ring, next_message |-> i,
     working |-> c.working, out_queue |-> q, posted |-> b,
     in_working |-> I, in_queue |-> Q,
     failed |-> c.failed, epoch |-> c.epoch, acked |-> c.acked,
     delivered |-> D]

GoodInput(I) ==
    /\ IsMap(I) /\ DOMAIN I \subseteq Nat
    /\ \A s \in DOMAIN I : IsPartial(I[s])

LEMMA NewInput ==
    ASSUME NEW c, ConnectionOK(c), NEW i \in Nat, NEW q \in Seq(Packets),
           NEW b \in BOOLEAN, NEW I, GoodInput(I), NEW Q, NEW D \in SUBSET Ids
    PROVE  /\ Sound(c, WithInput(c, i, q, b, I, Q, D))
           /\ WithInput(c, i, q, b, I, Q, D).failed = c.failed
           /\ WithInput(c, i, q, b, I, Q, D).out_queue = q
  <1> DEFINE d == WithInput(c, i, q, b, I, Q, D)
  <1>1. /\ d.sequence = c.sequence /\ d.ring = c.ring /\ d.working = c.working
        /\ d.failed = c.failed /\ d.out_queue = q
    BY DEF WithInput
  <1>2. IsConnection(d)
    BY DEF WithInput, ConnectionOK, IsConnection, GoodInput
  <1> HIDE DEF d
  <1>3. ConnectionOK(d)
    BY <1>1, <1>2 DEF ConnectionOK
  <1>4. Evolves(c, d)
    BY <1>1 DEF Evolves, ConnectionOK, IsConnection
  <1>5. QED
    BY <1>1, <1>3, <1>4 DEF Sound, d

LEMMA PutPartial ==
    ASSUME NEW I, GoodInput(I), NEW s \in Nat, NEW e, IsPartial(e)
    PROVE  GoodInput(Put(I, s, e))
  <1> DEFINE J == Put(I, s, e)
  <1>1. /\ IsMap(J) /\ DOMAIN J = DOMAIN I \cup {s}
        /\ J[s] = e /\ \A x \in DOMAIN I : x # s => J[x] = I[x]
    BY DEF Put, IsMap
  <1> HIDE DEF J
  <1>2. GoodInput(J)
    BY <1>1 DEF GoodInput
  <1>3. QED
    BY <1>2 DEF J

LEMMA WithoutPartial ==
    ASSUME NEW I, GoodInput(I), NEW s
    PROVE  GoodInput(Without(I, {s}))
  <1> DEFINE J == Without(I, {s})
  <1>1. /\ IsMap(J) /\ DOMAIN J = DOMAIN I \ {s}
        /\ \A x \in DOMAIN J : J[x] = I[x]
    BY DEF Without, IsMap
  <1> HIDE DEF J
  <1>2. GoodInput(J)
    BY <1>1 DEF GoodInput
  <1>3. QED
    BY <1>2 DEF J

LEMMA PartialOK ==
    ASSUME NEW c, GoodInput(c.in_working), NEW p \in Packets
    PROVE  IsPartial(Partial(c, p))
  <1>1. CASE p.sequence \in DOMAIN c.in_working
    BY <1>1 DEF Partial, GoodInput
  <1>2. CASE p.sequence \notin DOMAIN c.in_working
    <2> DEFINE e == [total |-> p.total, size |-> p.total * UDP_CHuNK_SIZE,
                     parts |-> EmptyMap]
    <2>1. Partial(c, p) = e
      BY <1>2 DEF Partial
    <2>2. e.total \in Nat /\ e.size \in Int
      BY UdpAssumption DEF Packets
    <2>3. e.parts = EmptyMap /\ IsMap(EmptyMap) /\ DOMAIN EmptyMap = {}
      BY DEF EmptyMap, IsMap
    <2>4. e = [total |-> e.total, size |-> e.size, parts |-> e.parts]
      OBVIOUS
    <2> HIDE DEF e
    <2>5. QED
      BY <2>1, <2>2, <2>3, <2>4 DEF IsPartial
  <1>3. QED
    BY <1>1, <1>2

(* The chunk is added: size and parts change.                              *)
LEMMA NewPartialOK ==
    ASSUME NEW old, IsPartial(old), NEW z \in Int, NEW k \in Nat, NEW id \in Ids,
           NEW new, new = [old EXCEPT !.size = z, !.parts = Put(@, k, id)]
    PROVE  IsPartial(new) /\ \A j \in DOMAIN new.parts : new.parts[j] \in Ids
  <1>1. /\ new.total = old.total /\ new.size = z
        /\ new.parts = Put(old.parts, k, id)
        /\ new = [total |-> new.total, size |-> new.size, parts |-> new.parts]
    BY DEF IsPartial
  <1>2. /\ IsMap(new.parts) /\ DOMAIN new.parts = DOMAIN old.parts \cup {k}
        /\ new.parts[k] = id
        /\ \A x \in DOMAIN old.parts : x # k => new.parts[x] = old.parts[x]
    BY <1>1 DEF Put, IsMap
  <1>3. QED
    BY <1>1, <1>2 DEF IsPartial

LEMMA InsertIsInput ==
    ASSUME NEW c, IsConnection(c), NEW p \in Packets
    PROVE  \E I, Q, D : /\ GoodInput(I) /\ D \in SUBSET Ids
                        /\ InsertChunk(c, p) =
                             WithInput(c, c.next_message, c.out_queue, c.posted,
                                       I, Q, D)
  <1> DEFINE old == Partial(c, p)
             z == IF p.chunk = old.total - 1
                  THEN old.size - (UDP_CHuNK_SIZE - p.size) ELSE old.size
             new == [old EXCEPT !.size = z, !.parts = Put(@, p.chunk, p.id)]
             J == Without(c.in_working, {p.sequence})
             Q == Append(c.in_queue, [ep |-> p.src, size |-> new.size,
                                      parts |-> new.parts])
             D == c.delivered \cup {new.parts[k] : k \in DOMAIN new.parts}
             same == \/ p.chunk >= old.total \/ p.total # old.total
                     \/ p.chunk \in DOMAIN old.parts
                     \/ p.chunk # old.total - 1 /\ p.size # UDP_CHuNK_SIZE
             done == DOMAIN new.parts = 0..(new.total - 1)
  <1>t. /\ p.sequence \in Nat /\ p.chunk \in Nat /\ p.id \in Ids /\ p.size \in Int
        /\ GoodInput(c.in_working) /\ c.next_message \in Nat
        /\ c.out_queue \in Seq(Packets) /\ c.posted \in BOOLEAN
        /\ c.delivered \in SUBSET Ids
    BY DEF Packets, IsConnection, GoodInput
  <1>d. InsertChunk(c, p) =
          IF same THEN [c EXCEPT !.in_working = Put(@, p.sequence, old)]
          ELSE IF ~done THEN [c EXCEPT !.in_working = Put(@, p.sequence, new)]
          ELSE [c EXCEPT !.in_working = J, !.in_queue = Q, !.delivered = D]
    BY DEF InsertChunk
  <1>1. IsPartial(old)
    BY <1>t, PartialOK
  <1>n. new = [old EXCEPT !.size = z, !.parts = Put(@, p.chunk, p.id)]
    OBVIOUS
  <1> HIDE DEF old, same, new
  <1>2. z \in Int
    BY <1>1, <1>t, UdpAssumption DEF IsPartial
  <1> HIDE DEF z
  <1>3. IsPartial(new) /\ \A j \in DOMAIN new.parts : new.parts[j] \in Ids
    BY <1>1, <1>2, <1>t, <1>n, NewPartialOK
  <1>4. GoodInput(J)
    BY <1>t, WithoutPartial
  <1>5. D \in SUBSET Ids
    BY <1>3, <1>t
  <1> HIDE DEF J, Q, D, done
  <1>p. ASSUME NEW e, IsPartial(e), NEW d,
               d = [c EXCEPT !.in_working = Put(@, p.sequence, e)]
        PROVE  \E I, K, X : /\ GoodInput(I) /\ X \in SUBSET Ids
                            /\ d = WithInput(c, c.next_message, c.out_queue,
                                             c.posted, I, K, X)
    <2> DEFINE I == Put(c.in_working, p.sequence, e)
    <2>1. GoodInput(I)
      BY <1>p, <1>t, PutPartial
    <2>2. d = [c EXCEPT !.in_working = I]
      BY <1>p
    <2> HIDE DEF I
    <2>3. d = WithInput(c, c.next_message, c.out_queue, c.posted, I,
                        c.in_queue, c.delivered)
      BY <2>2 DEF WithInput, IsConnection
    <2>4. QED
      BY <2>1, <2>3, <1>t
  <1>6. CASE same
    BY <1>6, <1>d, <1>1, <1>p
  <1>7. CASE ~same /\ ~done
    BY <1>7, <1>d, <1>3, <1>p
  <1>8. CASE ~same /\ done
    <2> DEFINE d == InsertChunk(c, p)
    <2>1. d = [c EXCEPT !.in_working = J, !.in_queue = Q, !.delivered = D]
      BY <1>8, <1>d
    <2> HIDE DEF d
    <2>2. d = WithInput(c, c.next_message, c.out_queue, c.posted, J, Q, D)
      BY <2>1 DEF WithInput, IsConnection
    <2>3. QED
      BY <2>2, <1>4, <1>5 DEF d
  <1>9. QED
    BY <1>6, <1>7, <1>8

LEMMA InsertChunkOK ==
    ASSUME NEW c, ConnectionOK(c), NEW p \in Packets
    PROVE  LET d == InsertChunk(c, p) IN
           Sound(c, d) /\ d.failed = c.failed /\ d.out_queue = c.out_queue
  <1>1. /\ IsConnection(c) /\ c.next_message \in Nat /\ c.posted \in BOOLEAN
        /\ c.out_queue \in Seq(Packets)
    BY DEF ConnectionOK, IsConnection
  <1>2. PICK I, Q, D : /\ GoodInput(I) /\ D \in SUBSET Ids
                       /\ InsertChunk(c, p) =
                            WithInput(c, c.next_message, c.out_queue, c.posted,
                                      I, Q, D)
    BY <1>1, InsertIsInput
  <1>3. QED
    BY <1>1, <1>2, NewInput

LEMMA EvolvesTrans ==
    ASSUME NEW c, NEW e, NEW d, c.sequence \in Nat, e.sequence \in Nat,
           d.sequence \in Nat, \A s \in DOMAIN d.working : s \in Nat,
           Evolves(c, e), Evolves(e, d)
    PROVE  Evolves(c, d)
  BY DEF Evolves

LEMMA SoundTrans ==
    ASSUME NEW c, NEW e, NEW d, ConnectionOK(c), Sound(c, e), Sound(e, d)
    PROVE  Sound(c, d)
  <1>1. /\ c.sequence \in Nat /\ e.sequence \in Nat /\ d.sequence \in Nat
        /\ \A s \in DOMAIN d.working : s \in Nat
    BY DEF Sound, ConnectionOK, IsConnection
  <1>2. QED
    BY <1>1, EvolvesTrans DEF Sound

(* Only the out queue and `posted' change.                                 *)
WithQueue(c, q, b) ==
    WithInput(c, c.next_message, q, b, c.in_working, c.in_queue, c.delivered)

LEMMA QueueOK ==
    ASSUME NEW c, ConnectionOK(c), NEW q \in Seq(Packets), NEW b \in BOOLEAN,
           NEW d, d = WithQueue(c, q, b)
    PROVE  Sound(c, d) /\ d.failed = c.failed /\ d.out_queue = q
  <1>1. d = WithInput(c, c.next_message, q, b, c.in_working,
                      c.in_queue, c.delivered)
    BY DEF WithQueue
  <1>2. /\ GoodInput(c.in_working) /\ c.next_message \in Nat
        /\ c.delivered \in SUBSET Ids
    BY DEF ConnectionOK, IsConnection, GoodInput
  <1>3. QED
    BY <1>1, <1>2, NewInput

LEMMA HandleReadOK ==
    ASSUME NEW n \in Nodes, NEW c, ConnectionOK(c), NEW p \in Packets,
           p.type = "ack" => SentBefore(c, p)
    PROVE  LET d == HandleRead(n, c, p) IN
           /\ Sound(c, d) /\ d.failed = c.failed
           /\ \/ d.out_queue = c.out_queue
              \/ p.type = "msg" /\ d.out_queue = Append(c.out_queue, Ack(n, p))
  <1> DEFINE d == HandleRead(n, c, p)
  <1>t. p.type \in {"msg", "qmsg", "ack"} /\ c.out_queue \in Seq(Packets)
    BY DEF Packets, ConnectionOK, IsConnection
  <1>1. CASE p.type = "ack"
    <2> DEFINE e == ValidateChunk(c, p)
               b == TRUE
    <2>1. Sound(c, e) /\ e.failed = c.failed /\ e.out_queue = c.out_queue
      BY <1>1, ValidateChunkOK
    <2>2. d = [e EXCEPT !.posted = b] /\ b \in BOOLEAN
      BY <1>1 DEF HandleRead
    <2> HIDE DEF e, d, b
    <2>c. ConnectionOK(e) /\ e.out_queue \in Seq(Packets)
      BY <2>1, <1>t DEF Sound
    <2>3. d = WithQueue(e, e.out_queue, b)
      BY <2>c, <2>2 DEF WithQueue, WithInput, ConnectionOK, IsConnection
    <2>4. Sound(e, d) /\ d.failed = e.failed /\ d.out_queue = e.out_queue
      BY <2>c, <2>2, <2>3, QueueOK
    <2>5. QED
      BY <2>1, <2>4, SoundTrans DEF d
  <1>2. CASE p.type = "msg"
    <2> DEFINE q == Append(c.out_queue, Ack(n, p))
               b == TRUE
               e == [c EXCEPT !.out_queue = q, !.posted = b]
    <2>1. Ack(n, p) \in Packets
      BY DEF Ack, Packets
    <2>2. q \in Seq(Packets)
      BY <2>1, <1>t
    <2>3. d = InsertChunk(e, p)
      BY <1>2 DEF HandleRead
    <2>e. e = [c EXCEPT !.out_queue = q, !.posted = b] /\ b \in BOOLEAN
      OBVIOUS
    <2> HIDE DEF d, e, q, b
    <2>f. e = WithQueue(c, q, b)
      BY <2>e DEF WithQueue, WithInput, ConnectionOK, IsConnection
    <2>4. Sound(c, e) /\ e.failed = c.failed /\ e.out_queue = q
      BY <2>2, <2>e, <2>f, QueueOK
    <2>5. Sound(e, d) /\ d.failed = e.failed /\ d.out_queue = e.out_queue
      BY <2>3, <2>4, InsertChunkOK DEF Sound
    <2>6. QED
      BY <1>2, <2>4, <2>5, SoundTrans DEF d, q
  <1>3. CASE p.type = "qmsg"
    <2>1. d = InsertChunk(c, p)
      BY <1>3 DEF HandleRead
    <2>2. QED
      BY <2>1, InsertChunkOK
  <1>4. QED
    BY <1>1, <1>2, <1>3, <1>t

-----------------------------------------------------------------------------
(* The inductive invariant.  WindowExact alone is not inductive: that an
   acknowledged chunk was sent needs OnlySentChunks, for the acknowledgement
   comes from the network; OnlySentChunks needs that retransmissions are of
   sent chunks and that a working message never takes back a sent chunk.   *)
IInv == QueuesTyped /\ WindowExact /\ RingIsWorking /\ OnlySentChunks

LEMMA ConnectionsOK ==
    ASSUME IInv
    PROVE  \A n \in Nodes : ConnectionOK(con[n])
  BY DEF IInv, QueuesTyped, WindowExact, RingIsWorking, ConnectionOK

(* Packet p may be in transit when node n's connection has become d.       *)
MaySend(n, d, p) ==
    /\ p \in Packets
    /\ \/ SentBefore(con[Sender(p)], p)
       \/ Sender(p) = n /\ SentBefore(d, p)

(* p may be on an out queue.                                               *)
MayAck(p) == p \in Packets /\ p.type = "ack" /\ SentBefore(con[p.dst], p)

LEMMA StepKeeps ==
    ASSUME IInv, NEW n \in Nodes, NEW d, Sound(con[n], d),
           con' = [con EXCEPT ![n] = d], dups' \in 0..MaxDup,
           \A p \in net' : MaySend(n, d, p),
           \A i \in DOMAIN d.out_queue : MayAck(d.out_queue[i])
    PROVE  IInv'
  <1>1. /\ con'[n] = d /\ \A m \in Nodes : m # n => con'[m] = con[m]
        /\ con' = [m \in Nodes |-> con'[m]]
    BY DEF IInv, QueuesTyped
  <1>2. \A m \in Nodes : ConnectionOK(con'[m])
    BY <1>1, ConnectionsOK DEF Sound
  <1>3. \A m \in Nodes : con[m].sequence \in Nat /\ con'[m].sequence \in Nat
    BY <1>2, ConnectionsOK DEF ConnectionOK, IsConnection
  <1>4. \A m \in Nodes : m # n => Evolves(con[m], con'[m])
    BY <1>1, <1>3, ConnectionsOK DEF Evolves, ConnectionOK, IsConnection
  <1>5. \A m \in Nodes : Evolves(con[m], con'[m])
    BY <1>1, <1>4 DEF Sound
  <1>6. \A m \in Nodes : \A p : SentBefore(con[m], p) => SentBefore(con'[m], p)
    BY <1>3, <1>5, EvolvesKeepsSent
  <1>7. \A p \in Packets : Sender(p) \in Nodes /\ p.dst \in Nodes
    BY DEF Packets, Sender
  <1>8. QueuesTyped'
    BY <1>1, <1>2 DEF QueuesTyped, ConnectionOK, MaySend
  <1>9. WindowExact' /\ RingIsWorking'
    BY <1>2 DEF WindowExact, RingIsWorking, ConnectionOK
  <1>10. \A p \in net' : SentBefore(con'[Sender(p)], p)
    BY <1>1, <1>6, <1>7 DEF MaySend
  <1>11. ASSUME NEW m \in Nodes, NEW i \in DOMAIN con'[m].out_queue
         PROVE  LET p == con'[m].out_queue[i]
                IN  p.type = "ack" /\ SentBefore(con'[p.dst], p)
    <2>1. MayAck(con'[m].out_queue[i])
      <3>1. CASE m = n
        BY <3>1, <1>1, <1>11
      <3>2. CASE m # n
        <4>1. con'[m] = con[m] /\ con[m].out_queue \in Seq(Packets)
          BY <3>2, <1>1, ConnectionsOK DEF ConnectionOK, IsConnection
        <4>2. i \in DOMAIN con[m].out_queue /\ con[m].out_queue[i] \in Packets
          BY <4>1
        <4>3. QED
          BY <4>1, <4>2 DEF MayAck, IInv, OnlySentChunks
      <3>3. QED
        BY <3>1, <3>2
    <2>2. QED
      BY <2>1, <1>6, <1>7 DEF MayAck
  <1>12. OnlySentChunks'
    BY <1>10, <1>11 DEF OnlySentChunks, Sender
  <1>13. QED
    BY <1>8, <1>9, <1>12 DEF IInv

LEMMA FailedKeeps ==
    ASSUME QueuesTyped, NEW n \in Nodes, NEW d, d.failed = con[n].failed,
           con' = [con EXCEPT ![n] = d], NoContractFails
    PROVE  NoContractFails'
  <1>1. con'[n] = d /\ \A m \in Nodes : m # n => con'[m] = con[m]
    BY DEF QueuesTyped
  <1>2. QED
    BY <1>1 DEF NoContractFails

LEMMA InTransit ==
    ASSUME IInv, NEW p \in net, NEW n, NEW d
    PROVE  MaySend(n, d, p)
  BY DEF IInv, QueuesTyped, OnlySentChunks, MaySend

LEMMA OnQueue ==
    ASSUME IInv, NEW n \in Nodes
    PROVE  /\ con[n].out_queue \in Seq(Packets)
           /\ \A i \in DOMAIN con[n].out_queue : MayAck(con[n].out_queue[i])
  <1>1. con[n].out_queue \in Seq(Packets)
    BY ConnectionsOK DEF ConnectionOK, IsConnection
  <1>2. \A i \in DOMAIN con[n].out_queue : con[n].out_queue[i] \in Packets
    BY <1>1
  <1>3. QED
    BY <1>1, <1>2 DEF IInv, OnlySentChunks, MayAck

(* A handler that puts nothing on the network and the out queue.           *)
LEMMA QuietStep ==
    ASSUME IInv, NEW n \in Nodes, NEW d, Sound(con[n], d),
           con' = [con EXCEPT ![n] = d], net' \subseteq net, dups' = dups,
           d.out_queue = con[n].out_queue
    PROVE  IInv'
  <1>1. \A p \in net' : MaySend(n, d, p)
    BY InTransit
  <1>2. \A i \in DOMAIN d.out_queue : MayAck(d.out_queue[i])
    BY OnQueue
  <1>3. dups' \in 0..MaxDup
    BY DEF IInv, QueuesTyped
  <1>4. QED
    BY <1>1, <1>2, <1>3, StepKeeps

(* A chunk goes out.                                                       *)
LEMMA ChunkStep ==
    ASSUME IInv, NEW n \in Nodes, NEW d, Sound(con[n], d),
           con' = [con EXCEPT ![n] = d], dups' = dups,
           d.out_queue = con[n].out_queue,
           NEW p \in Packets, net' = net \cup {p},
           Sender(p) = n, SentBefore(d, p)
    PROVE  IInv'
  <1>1. \A q \in net' : MaySend(n, d, q)
    BY InTransit DEF MaySend
  <1>2. \A i \in DOMAIN d.out_queue : MayAck(d.out_queue[i])
    BY OnQueue
  <1>3. dups' \in 0..MaxDup
    BY DEF IInv, QueuesTyped
  <1>4. QED
    BY <1>1, <1>2, <1>3, StepKeeps

(* Both handlers that read a datagram from the network.                    *)
LEMMA ReadStep ==
    ASSUME IInv, NEW p \in net, dups' \in 0..MaxDup, net' \subseteq net,
           con' = [con EXCEPT ![p.dst] = HandleRead(p.dst, @, p)]
    PROVE  IInv' /\ (NoContractFails => NoContractFails')
  <1> DEFINE n == p.dst
             c == con[n]
             d == HandleRead(n, c, p)
             a == Ack(n, p)
  <1>1. /\ p \in Packets /\ n \in Nodes /\ p.src \in Nodes
        /\ SentBefore(con[Sender(p)], p)
    BY DEF IInv, QueuesTyped, OnlySentChunks, Packets
  <1>2. ConnectionOK(c)
    BY <1>1, ConnectionsOK
  <1>3. p.type = "ack" => SentBefore(c, p)
    BY <1>1 DEF Sender
  <1>4. con' = [con EXCEPT ![n] = d]
    OBVIOUS
  <1>5. /\ Sound(c, d) /\ d.failed = c.failed
        /\ \/ d.out_queue = c.out_queue
           \/ p.type = "msg" /\ d.out_queue = Append(c.out_queue, a)
    BY <1>1, <1>2, <1>3, HandleReadOK
  <1>6. c.out_queue \in Seq(Packets)
        /\ \A i \in DOMAIN c.out_queue : MayAck(c.out_queue[i])
    BY <1>1, OnQueue
  <1>7. a \in Packets
    BY <1>1 DEF Ack, Packets
  <1>8. p.type = "msg" => MayAck(a)
    <2>1. /\ a.type = "ack" /\ a.dst = p.src /\ a.sequence = p.sequence
          /\ a.chunk = p.chunk
      BY DEF Ack
    <2>2. p.type = "msg" => SentBefore(con[p.src], p)
      BY <1>1 DEF Sender
    <2> HIDE DEF a
    <2>3. QED
      BY <1>7, <2>1, <2>2 DEF MayAck, SentBefore
  <1> HIDE DEF c, d, a
  <1>9. \A i \in DOMAIN d.out_queue : MayAck(d.out_queue[i])
    <2>1. CASE d.out_queue = c.out_queue
      BY <2>1, <1>6
    <2>2. CASE p.type = "msg" /\ d.out_queue = Append(c.out_queue, a)
      <3>1. \A i \in DOMAIN d.out_queue :
              \/ i \in DOMAIN c.out_queue /\ d.out_queue[i] = c.out_queue[i]
              \/ d.out_queue[i] = a
        BY <2>2, <1>6, <1>7
      <3>2. QED
        BY <2>2, <3>1, <1>6, <1>8
    <2>3. QED
      BY <1>5, <2>1, <2>2
  <1>10. \A q \in net' : MaySend(n, d, q)
    BY InTransit
  <1>11. IInv'
    BY <1>1, <1>4, <1>5, <1>9, <1>10, StepKeeps DEF c
  <1>12. NoContractFails => NoContractFails'
    BY <1>1, <1>4, <1>5, FailedKeeps DEF IInv, c
  <1>13. QED
    BY <1>11, <1>12

LEMMA SendStep ==
    ASSUME IInv, NEW m \in Traffic, Send(m)
    PROVE  /\ IInv'
           /\ TotalChunks(m.size) # 0 /\ NoContractFails => NoContractFails'
  <1> DEFINE n == m.src
             c == con[n]
             d == AddToWorkingSet(c, m)
  <1>1. n \in Nodes
    BY UdpAssumption
  <1>2. ConnectionOK(c)
    BY <1>1, ConnectionsOK
  <1>3. /\ Sound(c, d) /\ d.out_queue = c.out_queue
        /\ TotalChunks(m.size) # 0 => d.failed = c.failed
    BY <1>2, AddToWorkingSetOK
  <1>4. con' = [con EXCEPT ![n] = d] /\ net' = net /\ dups' = dups
    BY DEF Send
  <1> HIDE DEF n, d
  <1>5. IInv'
    BY <1>1, <1>3, <1>4, QuietStep
  <1>6. TotalChunks(m.size) # 0 /\ NoContractFails => NoContractFails'
    BY <1>1, <1>3, <1>4, FailedKeeps DEF IInv
  <1>7. QED
    BY <1>5, <1>6

LEMMA ReceiveStep ==
    ASSUME IInv, NEW n \in Nodes, Receive(n)
    PROVE  IInv' /\ (NoContractFails => NoContractFails')
  <1> DEFINE c == con[n]
             Q == Tail(c.in_queue)
             d == WithInput(c, c.next_message, c.out_queue, c.posted,
                            c.in_working, Q, c.delivered)
  <1>1. ConnectionOK(c)
    BY ConnectionsOK
  <1>2. /\ GoodInput(c.in_working) /\ c.next_message \in Nat
        /\ c.posted \in BOOLEAN /\ c.delivered \in SUBSET Ids
        /\ c.out_queue \in Seq(Packets)
    BY <1>1 DEF ConnectionOK, IsConnection, GoodInput
  <1>3. Sound(c, d) /\ d.failed = c.failed /\ d.out_queue = c.out_queue
    BY <1>1, <1>2, NewInput
  <1>4. [c EXCEPT !.in_queue = Q] = d
    <2> DEFINE e == [c EXCEPT !.in_queue = Q]
    <2>1. e = [c EXCEPT !.in_queue = Q]
      OBVIOUS
    <2> HIDE DEF e
    <2>2. e = d
      BY <2>1, <1>1 DEF WithInput, ConnectionOK, IsConnection
    <2>3. QED
      BY <2>2 DEF e
  <1>5. con' = [con EXCEPT ![n] = d] /\ net' = net /\ dups' = dups
    <2>1. con' = [con EXCEPT ![n] = [c EXCEPT !.in_queue = Q]]
      BY DEF Receive, IInv, QueuesTyped
    <2>2. QED
      BY <2>1, <1>4 DEF Receive
  <1> HIDE DEF d
  <1>6. QED
    BY <1>3, <1>5, QuietStep, FailedKeeps DEF IInv

(* An acknowledgement goes from the out queue to the network.              *)
LEMMA SendQueuedStep ==
    ASSUME IInv, NEW n \in Nodes, SendQueued(n)
    PROVE  IInv' /\ (NoContractFails => NoContractFails')
  <1> DEFINE c == con[n]
             h == Head(c.out_queue)
             q == Tail(c.out_queue)
             d == WithQueue(c, q, c.posted)
  <1>1. ConnectionOK(c) /\ c.posted \in BOOLEAN
    BY ConnectionsOK DEF ConnectionOK, IsConnection
  <1>2. /\ c.out_queue \in Seq(Packets) /\ c.out_queue # <<>>
        /\ \A i \in DOMAIN c.out_queue : MayAck(c.out_queue[i])
    BY OnQueue DEF SendQueued
  <1>3. /\ q \in Seq(Packets) /\ MayAck(h)
        /\ \A i \in DOMAIN q : MayAck(q[i])
    <2>1. q \in Seq(Packets) /\ h = c.out_queue[1] /\ 1 \in DOMAIN c.out_queue
      BY <1>2
    <2>2. \A i \in DOMAIN q : i + 1 \in DOMAIN c.out_queue
                              /\ q[i] = c.out_queue[i + 1]
      BY <1>2
    <2>3. QED
      BY <1>2, <2>1, <2>2
  <1>d. d = WithQueue(c, q, c.posted)
    OBVIOUS
  <1>4. Sound(c, d) /\ d.failed = c.failed /\ d.out_queue = q
    <2> HIDE DEF d, q, c
    <2>1. QED
      BY <1>1, <1>3, <1>d, QueueOK
  <1>5. [c EXCEPT !.out_queue = q] = d
    <2> DEFINE e == [c EXCEPT !.out_queue = q]
    <2>1. e = [c EXCEPT !.out_queue = q]
      OBVIOUS
    <2> HIDE DEF e
    <2>2. e = d
      BY <2>1, <1>1 DEF WithQueue, WithInput, ConnectionOK, IsConnection
    <2>3. QED
      BY <2>2 DEF e
  <1>6. con' = [con EXCEPT ![n] = d] /\ net' = net \cup {h} /\ dups' = dups
    <2>1. con' = [con EXCEPT ![n] = [c EXCEPT !.out_queue = q]]
      BY DEF SendQueued, IInv, QueuesTyped
    <2>2. QED
      BY <2>1, <1>5 DEF SendQueued
  <1> HIDE DEF d, q, h
  <1>7. \A p \in net' : MaySend(n, d, p)
    BY <1>3, <1>6, InTransit DEF MaySend, MayAck, Sender
  <1>8. dups' \in 0..MaxDup
    BY <1>6 DEF IInv, QueuesTyped
  <1>9. IInv'
    BY <1>3, <1>4, <1>6, <1>7, <1>8, StepKeeps
  <1>10. QED
    BY <1>4, <1>6, <1>9, FailedKeeps DEF IInv

LEMMA SendNextStep ==
    ASSUME IInv, NEW n \in Nodes, NEW s \in con[n].ring, SendNext(n, s)
    PROVE  IInv' /\ (NoContractFails => NoContractFails')
  <1> DEFINE c == con[n]
             w == c.working[s]
             d == SentChunk([c EXCEPT !.next_message = RingIndex(c, s)],
                            s, TakeNextChunk(w), w.next_send)
             p == Chunk(n, s, w, w.next_send)
  <1>1. ConnectionOK(c) /\ CanSendNext(w)
    BY ConnectionsOK DEF SendNext
  <1>2. /\ Sound(c, d) /\ d.failed = c.failed /\ d.out_queue = c.out_queue
        /\ p \in Packets /\ SentBefore(d, p)
    BY <1>1, SendNextOK
  <1>3. con' = [con EXCEPT ![n] = d] /\ net' = net \cup {p} /\ dups' = dups
    BY DEF SendNext
  <1>4. Sender(p) = n
    BY DEF Sender, Chunk
  <1> HIDE DEF d, p
  <1>5. QED
    BY <1>2, <1>3, <1>4, ChunkStep, FailedKeeps DEF IInv

LEMMA SendAgainStep ==
    ASSUME IInv, NEW n \in Nodes, NEW s \in con[n].ring,
           NEW k \in Chunks(con[n].working[s]), SendAgain(n, s, k)
    PROVE  IInv' /\ (NoContractFails => NoContractFails')
  <1> DEFINE c == con[n]
             w == c.working[s]
             d == [c EXCEPT !.next_message = RingIndex(c, s),
                            !.working = Put(@, s, PopResend(w, k))]
             p == Chunk(n, s, w, k)
  <1>1. ConnectionOK(c) /\ w.resends[k] > 0
    BY ConnectionsOK DEF SendAgain
  <1>2. /\ Sound(c, d) /\ d.failed = c.failed /\ d.out_queue = c.out_queue
        /\ p \in Packets /\ SentBefore(d, p)
    BY <1>1, SendAgainOK
  <1>3. con' = [con EXCEPT ![n] = d] /\ net' = net \cup {p} /\ dups' = dups
    BY DEF SendAgain
  <1>4. Sender(p) = n
    BY DEF Sender, Chunk
  <1> HIDE DEF d, p
  <1>5. QED
    BY <1>2, <1>3, <1>4, ChunkStep, FailedKeeps DEF IInv

LEMMA SendNothingStep ==
    ASSUME IInv, NEW n \in Nodes, SendNothing(n)
    PROVE  IInv' /\ (NoContractFails => NoContractFails')
  <1> DEFINE c == con[n]
             i == IF c.ring = {} THEN 0
                  ELSE (c.next_message + 1) % Cardinality(c.ring)
  <1>1. PICK b \in BOOLEAN :
          con' = [con EXCEPT ![n].next_message = i, ![n].posted = b]
    BY DEF SendNothing
  <1> DEFINE d == WithInput(c, i, c.out_queue, b, c.in_working,
                            c.in_queue, c.delivered)
  <1>2. ConnectionOK(c)
    BY ConnectionsOK
  <1>3. /\ GoodInput(c.in_working) /\ c.next_message \in Nat
        /\ c.delivered \in SUBSET Ids /\ c.out_queue \in Seq(Packets)
    BY <1>2 DEF ConnectionOK, IsConnection, GoodInput
  <1>4. i \in Nat
    <2>1. IsFiniteSet(c.ring) /\ Cardinality(c.ring) \in Nat
      BY <1>2, RingFinite DEF ConnectionOK
    <2>2. c.ring # {} => Cardinality(c.ring) # 0
      BY <2>1, FS_EmptySet
    <2>3. QED
      BY <2>1, <2>2, <1>3
  <1> HIDE DEF i
  <1>5. Sound(c, d) /\ d.failed = c.failed /\ d.out_queue = c.out_queue
    BY <1>2, <1>3, <1>4, NewInput
  <1>6. [c EXCEPT !.next_message = i, !.posted = b] = d
    <2> DEFINE e == [c EXCEPT !.next_message = i, !.posted = b]
    <2>1. e = [c EXCEPT !.next_message = i, !.posted = b]
      OBVIOUS
    <2> HIDE DEF e
    <2>2. e = d
      BY <2>1, <1>2 DEF WithInput, ConnectionOK, IsConnection
    <2>3. QED
      BY <2>2 DEF e
  <1>7. con' = [con EXCEPT ![n] = d] /\ net' = net /\ dups' = dups
    <2>1. con' = [con EXCEPT ![n] = [c EXCEPT !.next_message = i, !.posted = b]]
      BY <1>1 DEF IInv, QueuesTyped
    <2>2. QED
      BY <2>1, <1>6 DEF SendNothing
  <1> HIDE DEF d
  <1>8. QED
    BY <1>5, <1>7, QuietStep, FailedKeeps DEF IInv

LEMMA ResendStep ==
    ASSUME IInv, NEW n \in Nodes, ResendTick(n)
    PROVE  IInv' /\ (NoContractFails => NoContractFails')
  <1> DEFINE c == con[n]
             d == Resend(c)
  <1>1. Sound(c, d) /\ d.failed = c.failed /\ d.out_queue = c.out_queue
    BY ConnectionsOK, ResendOK
  <1>2. con' = [con EXCEPT ![n] = d] /\ net' = net /\ dups' = dups
    BY DEF ResendTick
  <1> HIDE DEF d
  <1>3. QED
    BY <1>1, <1>2, QuietStep, FailedKeeps DEF IInv

-----------------------------------------------------------------------------
(* The theorems.                                                           *)

LEMMA InitIInv ==
    ASSUME Init
    PROVE  IInv /\ NoContractFails
  <1> DEFINE c == NewConnection(0)
  <1>1. \A n \in Nodes : con[n] = c
    BY DEF Init
  <1>2. /\ c.sequence = 0 /\ c.ring = {} /\ c.next_message = 0
        /\ c.working = EmptyMap /\ c.out_queue = <<>> /\ c.posted = FALSE
        /\ c.in_working = EmptyMap /\ c.failed = {} /\ c.epoch = 0
        /\ c.acked = {} /\ c.delivered = {} /\ c.in_queue = <<>>
    BY DEF NewConnection
  <1>s. c = [sequence |-> c.sequence, ring |-> c.ring,
            next_message |-> c.next_message, working |-> c.working,
            out_queue |-> c.out_queue, posted |-> c.posted,
            in_working |-> c.in_working, in_queue |-> c.in_queue,
            failed |-> c.failed, epoch |-> c.epoch,
            acked |-> c.acked, delivered |-> c.delivered]
    BY DEF NewConnection
  <1> HIDE DEF c
  <1>3. IsMap(EmptyMap) /\ DOMAIN EmptyMap = {}
    BY DEF EmptyMap, IsMap
  <1>b. c.posted \in BOOLEAN
    BY <1>2
  <1>q. c.out_queue \in Seq(Packets)
    BY <1>2
  <1>w. /\ IsMap(c.working) /\ DOMAIN c.working = {}
        /\ IsMap(c.in_working) /\ DOMAIN c.in_working = {}
    BY <1>2, <1>3
  <1>n. /\ c.sequence \in Nat /\ c.next_message \in Nat /\ c.epoch \in Nat
        /\ c.ring = {} /\ c.acked = {} /\ c.delivered = {}
    BY <1>2
  <1>4. IsConnection(c)
    BY <1>s, <1>b, <1>q, <1>w, <1>n DEF IsConnection
  <1>5. QueuesTyped
    BY <1>1, <1>4, UdpAssumption DEF Init, QueuesTyped
  <1>6. WindowExact /\ RingIsWorking /\ NoContractFails
    BY <1>1, <1>2, <1>3 DEF WindowExact, RingIsWorking, NoContractFails
  <1>7. OnlySentChunks
    BY <1>1, <1>2 DEF Init, OnlySentChunks
  <1>8. QED
    BY <1>5, <1>6, <1>7 DEF IInv

(* Every message of the traffic is at least a chunk shorter than the size
   send() lets through.                                                    *)
NoOverflow == \A m \in Traffic : m.size <= (MAX_CHUNKS - 1) * UDP_CHuNK_SIZE

(* The chunk count wraps to zero only above that size.                     *)
LEMMA NoWrap ==
    ASSUME NEW size \in Nat \ {0}, size <= (MAX_CHUNKS - 1) * UDP_CHuNK_SIZE
    PROVE  TotalChunks(size) # 0
  <1> DEFINE U == UDP_CHuNK_SIZE
             M == MAX_CHUNKS
             q == size \div U
             r == size % U
             t == q + (IF r = 0 THEN 0 ELSE 1)
  <1>t. U \in Nat /\ U > 0 /\ M \in Nat /\ M > 0 /\ size > 0
        /\ size <= (M - 1) * U
    BY UdpAssumption
  <1> HIDE DEF U, M
  <1>1. q \in Int /\ r \in 0..(U - 1) /\ size = U * q + r
    BY <1>t
  <1> HIDE DEF q, r
  <1>2. q >= 0
    BY <1>1, <1>t
  <1>3. q <= M - 1
    BY <1>1, <1>2, <1>t
  <1>4. r # 0 => q <= M - 2
    BY <1>1, <1>2, <1>t
  <1>5. r = 0 => q >= 1
    BY <1>1, <1>2, <1>t
  <1>6. t \in 1..(M - 1)
    BY <1>1, <1>2, <1>3, <1>4, <1>5, <1>t
  <1>7. TotalChunks(size) = t % M
    BY DEF TotalChunks, t, q, r, U, M
  <1> HIDE DEF t
  <1>8. QED
    BY <1>6, <1>7, <1>t

LEMMA NextIInv ==
    ASSUME IInv, [Next]_vars
    PROVE  IInv' /\ (NoOverflow /\ NoContractFails => NoContractFails')
  <1>1. ASSUME NEW m \in Traffic, Send(m)
        PROVE  IInv' /\ (NoOverflow /\ NoContractFails => NoContractFails')
    <2>1. m.size \in Nat \ {0}
      BY <1>1, UdpAssumption DEF MAX_MESSAGE_SIZE
    <2>2. NoOverflow => TotalChunks(m.size) # 0
      BY <2>1, NoWrap DEF NoOverflow
    <2>3. QED
      BY <1>1, <2>2, SendStep
  <1>2. ASSUME NEW n \in Nodes, Receive(n)
        PROVE  IInv' /\ (NoContractFails => NoContractFails')
    BY <1>2, ReceiveStep
  <1>3. ASSUME NEW n \in Nodes, SendQueued(n)
        PROVE  IInv' /\ (NoContractFails => NoContractFails')
    BY <1>3, SendQueuedStep
  <1>4. ASSUME NEW n \in Nodes, NEW s \in con[n].ring, SendNext(n, s)
        PROVE  IInv' /\ (NoContractFails => NoContractFails')
    BY <1>4, SendNextStep
  <1>5. ASSUME NEW n \in Nodes, NEW s \in con[n].ring,
               NEW k \in Chunks(con[n].working[s]), SendAgain(n, s, k)
        PROVE  IInv' /\ (NoContractFails => NoContractFails')
    BY <1>5, SendAgainStep
  <1>6. ASSUME NEW n \in Nodes, SendNothing(n)
        PROVE  IInv' /\ (NoContractFails => NoContractFails')
    BY <1>6, SendNothingStep
  <1>7. ASSUME NEW n \in Nodes, ResendTick(n)
        PROVE  IInv' /\ (NoContractFails => NoContractFails')
    BY <1>7, ResendStep
  <1>8. ASSUME NEW p \in net, Deliver(p)
        PROVE  IInv' /\ (NoContractFails => NoContractFails')
    <2>1. /\ con' = [con EXCEPT ![p.dst] = HandleRead(p.dst, @, p)]
          /\ net' \subseteq net /\ dups' \in 0..MaxDup
      BY <1>8 DEF Deliver, IInv, QueuesTyped
    <2>2. QED
      BY <2>1, ReadStep
  <1>9. ASSUME NEW p \in net, Duplicate(p)
        PROVE  IInv' /\ (NoContractFails => NoContractFails')
    <2>1. /\ con' = [con EXCEPT ![p.dst] = HandleRead(p.dst, @, p)]
          /\ net' \subseteq net /\ dups' \in 0..MaxDup
      BY <1>9, UdpAssumption DEF Duplicate, IInv, QueuesTyped
    <2>2. QED
      BY <2>1, ReadStep
  <1>10. ASSUME NEW p \in net, Lose(p)
         PROVE  IInv' /\ (NoContractFails => NoContractFails')
    BY <1>10 DEF Lose, IInv, QueuesTyped, WindowExact, RingIsWorking, OnlySentChunks,
                 NoContractFails
  <1>11. CASE UNCHANGED vars
    BY <1>11 DEF vars, IInv, QueuesTyped, WindowExact, RingIsWorking, OnlySentChunks,
                 NoContractFails
  <1>12. QED
    BY <1>1, <1>2, <1>3, <1>4, <1>5, <1>6, <1>7, <1>8, <1>9, <1>10, <1>11
       DEF Next, DoSend

LEMMA Invariance == Spec => []IInv
  <1>1. Init => IInv
    BY InitIInv
  <1>2. IInv /\ [Next]_vars => IInv'
    BY NextIInv
  <1>3. QED
    BY <1>1, <1>2, PTL DEF Spec

(* Every field of every connection, through every handler and every fault of
   the network, keeps the type of its C++ declaration.                     *)
THEOREM TypeCorrect == Spec => []TypeOK
  <1> DEFINE Typed == numbered \subseteq Ids
  <1>1. Init => Typed
    BY DEF Init
  <1>2. IInv /\ Typed /\ [Next]_vars => Typed'
    <2>1. ASSUME IInv, NEW m \in Traffic, Send(m), Typed
          PROVE  Typed'
      <3>1. m.src \in Nodes /\ IsConnection(con[m.src])
        BY <2>1, UdpAssumption DEF IInv, QueuesTyped
      <3>2. NewId(con[m.src], m) \in Ids
        BY <3>1, NewIdType
      <3>3. QED
        BY <2>1, <3>2 DEF Send
    <2>2. [Next]_vars => numbered' = numbered \/ \E m \in Traffic : Send(m)
      BY DEF Next, Receive, DoSend, SendQueued, SendNext, SendAgain, SendNothing,
         ResendTick, Deliver, Duplicate, Lose, vars
    <2>3. QED
      BY <2>1, <2>2
  <1>3. IInv /\ Typed => TypeOK
    BY DEF IInv, TypeOK
  <1> HIDE DEF Typed
  <1>4. QED
    BY <1>1, <1>2, <1>3, Invariance, PTL DEF Spec

(* The send window is exact: in_flight counts the sent chunks that are not
   acknowledged and never exceeds MAX_FLIGHT.                              *)
THEOREM WindowIsExact == Spec => []WindowExact
  <1>1. IInv => WindowExact
    BY DEF IInv
  <1>2. QED
    BY <1>1, Invariance, PTL

(* The message ring always points at the messages of the working map, and at
   no other.                                                               *)
THEOREM RingPointsIntoWorking == Spec => []RingIsWorking
  <1>1. IInv => RingIsWorking
    BY DEF IInv
  <1>2. QED
    BY <1>1, Invariance, PTL

(* Every datagram in transit is a chunk its sender sent, or acknowledges
   one.                                                                    *)
THEOREM NothingForged == Spec => []OnlySentChunks
  <1>1. IInv => OnlySentChunks
    BY DEF IInv
  <1>2. QED
    BY <1>1, Invariance, PTL

(* As long as no message overflows the chunk count, no CHECK of
   validate_chunk and cleanup_message and no ENSURE of total_chunks fails. *)
THEOREM ContractsHold == NoOverflow /\ Spec => []NoContractFails
  <1>1. Init => IInv /\ NoContractFails
    BY InitIInv
  <1>2. NoOverflow /\ IInv /\ NoContractFails /\ [Next]_vars =>
          (IInv /\ NoContractFails)'
    BY NextIInv
  <1>3. NoOverflow => []NoOverflow
    <2>1. NoOverflow => NoOverflow'
      BY DEF NoOverflow
    <2>2. QED
      BY <2>1, PTL
  <1>4. QED
    BY <1>1, <1>2, <1>3, PTL DEF Spec

(* The chunks sent and not acknowledged fit into the window, so resend(item)
   stops before none of them.                                              *)
LEMMA ResendSetIsUnacked ==
    ASSUME NEW w, IsWorkingMessage(w), WindowOK(w), w.robust
    PROVE  w.sent \ w.set \subseteq ResendSet(w)
  <1> DEFINE U == {k \in Chunks(w) : k < w.next_send /\ k \in w.sent /\ k \notin w.set}
  <1>1. U = w.sent \ w.set
    BY DEF IsWorkingMessage, WindowOK, Chunks
  <1>2. ResendSet(w) = {k \in U : Cardinality({j \in U : j < k}) < MAX_FLIGHT}
    BY DEF ResendSet
  <1> HIDE DEF U
  <1>3. /\ U \in SUBSET w.sent /\ \A k \in U : k \in Int
        /\ Cardinality(U) <= MAX_FLIGHT
    <2>1. Cardinality(U) <= MAX_FLIGHT
      BY <1>1 DEF WindowOK
    <2>2. \A k \in w.sent : k \in Int
      BY DEF IsWorkingMessage, Chunks
    <2>3. QED
      BY <1>1, <2>1, <2>2
  <1>4. ASSUME NEW k \in U
        PROVE  Cardinality({j \in U : j < k}) < MAX_FLIGHT
    <2> DEFINE V == {j \in U : j < k}
    <2>1. V \in SUBSET w.sent /\ V \cup {k} \in SUBSET w.sent /\ k \notin V
          /\ V \cup {k} \subseteq U
      BY <1>3
    <2>2. IsFiniteSet(V) /\ Cardinality(V) \in Nat /\ IsFiniteSet(U)
          /\ Cardinality(U) \in Nat
      BY <2>1, <1>3, ChunksFinite
    <2> HIDE DEF V
    <2>3. Cardinality(V \cup {k}) = Cardinality(V) + 1
      BY <2>1, <2>2, FS_AddElement
    <2>4. Cardinality(V \cup {k}) <= Cardinality(U)
      BY <2>1, <2>2, FS_Subset
    <2>5. Cardinality(V) < MAX_FLIGHT
      BY <2>2, <2>3, <2>4, <1>3, UdpAssumption
    <2>6. QED
      BY <2>5 DEF V
  <1>5. QED
    BY <1>1, <1>2, <1>4

(* A tick past the threshold queues every unacknowledged chunk of a robust
   message again.                                                          *)
THEOREM ResendCovers == Spec => ResendCoversUnacked
  <1>1. ASSUME IInv, NEW n \in Nodes, ResendTick(n), NEW s \in con'[n].ring,
               con'[n].working[s].robust,
               con'[n].working[s].ticks > RESEND_TICK_THRESHOLD,
               NEW k \in con[n].working[s].sent \ con[n].working[s].set
        PROVE  con'[n].working[s].resends[k] = con[n].working[s].resends[k] + 1
    <2> DEFINE c == con[n]
               T == [x \in DOMAIN c.working |-> TickMessage(c.working[x])]
               em == {x \in c.ring : Exhausted(T[x])}
               w == c.working[s]
               v == con'[n].working[s]
    <2>1. ConnectionOK(c) /\ con'[n] = Resend(c)
      BY <1>1, ConnectionsOK DEF ResendTick, IInv, QueuesTyped
    <2>2. /\ Resend(c).working = Without(T, em) /\ Resend(c).ring = c.ring \ em
      BY <2>1 DEF Resend, ConnectionOK, IsConnection
    <2>3. s \in DOMAIN c.working /\ s \notin em
      BY <1>1, <2>1, <2>2 DEF ConnectionOK
    <2>4. v = TickMessage(w)
      BY <2>1, <2>2, <2>3 DEF Without
    <2>5. IsWorkingMessage(w) /\ WindowOK(w)
      BY <2>1, <2>3 DEF ConnectionOK, IsConnection
    <2>6. v.robust /\ v.ticks > RESEND_TICK_THRESHOLD /\ k \in w.sent \ w.set
      BY <1>1
    <2> HIDE DEF v, w
    <2>7. /\ v.robust = w.robust
          /\ k \in ResendSet(w) => v.resends[k] = w.resends[k] + 1
      BY <2>4, <2>5, <2>6 DEF TickMessage, IsWorkingMessage
    <2>8. k \in ResendSet(w)
      BY <2>5, <2>6, <2>7, ResendSetIsUnacked
    <2>9. QED
      BY <2>7, <2>8 DEF v, w
  <1>2. IInv => \A n \in Nodes : ResendTick(n) =>
          \A s \in con'[n].ring :
            LET w == con[n].working[s]
                v == con'[n].working[s]
            IN v.robust /\ v.ticks > RESEND_TICK_THRESHOLD =>
               \A k \in w.sent \ w.set : v.resends[k] = w.resends[k] + 1
    BY <1>1
  <1>3. QED
    BY <1>2, Invariance, PTL DEF ResendCoversUnacked

-----------------------------------------------------------------------------
(* What the sending handlers leave alone, for the two sections below.      *)

Untouched(c, d) ==
    /\ d.sequence = c.sequence /\ d.out_queue = c.out_queue
    /\ d.in_working = c.in_working /\ d.in_queue = c.in_queue
    /\ d.delivered = c.delivered /\ d.acked = c.acked

(* Messages may leave, and those that stay are the same to the receiver.   *)
Alike(w, v) ==
    /\ v.id = w.id /\ v.dst = w.dst /\ v.size = w.size /\ v.total = w.total
    /\ v.set = w.set

NoNewMessages(c, d) ==
    \A s \in DOMAIN d.working :
        s \in DOMAIN c.working /\ Alike(c.working[s], d.working[s])

LEMMA CleanupFrame ==
    ASSUME NEW c, IsConnection(c), NEW s \in c.ring,
           NEW d, d = CleanupMessage(c, s)
    PROVE  /\ Untouched(c, d) /\ d.posted = c.posted
           /\ DOMAIN d.working = DOMAIN c.working \ {s}
           /\ \A x \in DOMAIN d.working : d.working[x] = c.working[x]
  <1> DEFINE W == Without(c.working, {s})
  <1>1. d = [c EXCEPT !.ring = @ \ {s}, !.working = W]
    BY DEF CleanupMessage
  <1>2. DOMAIN W = DOMAIN c.working \ {s} /\ \A x \in DOMAIN W : W[x] = c.working[x]
    BY DEF Without
  <1> HIDE DEF W
  <1>3. d.working = W /\ Untouched(c, d) /\ d.posted = c.posted
    BY <1>1 DEF IsConnection, Untouched
  <1>4. QED
    BY <1>2, <1>3

LEMMA SentAlike ==
    ASSUME NEW w, IsWorkingMessage(w), NEW u, u = TakeNextChunk(w), NEW k,
           NEW v, v = MarkSent(u, k)
    PROVE  Alike(w, v)
  <1>1. Alike(w, u)
    BY DEF TakeNextChunk, IsWorkingMessage, Alike
  <1>2. u = [id |-> u.id, dst |-> u.dst, robust |-> u.robust, size |-> u.size,
             total |-> u.total, set |-> u.set, sent |-> u.sent,
             ticks |-> u.ticks, in_flight |-> u.in_flight, queued |-> u.queued,
             next_send |-> u.next_send, resends |-> u.resends]
    BY DEF TakeNextChunk, IsWorkingMessage
  <1>3. QED
    BY <1>1, <1>2 DEF MarkSent, Alike

LEMMA SentChunkFrame ==
    ASSUME NEW c, IsConnection(c), c.ring = DOMAIN c.working,
           NEW s \in c.ring, CanSendNext(c.working[s]),
           NEW d, d = SentChunk([c EXCEPT !.next_message = RingIndex(c, s)],
                        s, TakeNextChunk(c.working[s]), c.working[s].next_send)
    PROVE  Untouched(c, d) /\ d.posted = c.posted /\ NoNewMessages(c, d)
  <1> DEFINE w == c.working[s]
             u == TakeNextChunk(w)
             v == MarkSent(u, w.next_send)
             i == RingIndex(c, s)
             W == Put(c.working, s, v)
             e == [c EXCEPT !.next_message = i, !.working = W]
  <1>1. s \in DOMAIN c.working /\ IsWorkingMessage(w) /\ i \in Nat
    BY RingIndexType DEF IsConnection
  <1>3. Alike(w, v)
    BY <1>1, SentAlike
  <1>4. d = IF ~v.robust /\ AllSent(v) THEN CleanupMessage(e, s) ELSE e
    <2> HIDE DEF v
    <2>1. [[c EXCEPT !.next_message = i] EXCEPT !.working = Put(@, s, v)] = e
      BY <1>1 DEF IsConnection
    <2>2. QED
      BY <2>1 DEF SentChunk, v
  <1>5. /\ DOMAIN W = DOMAIN c.working
        /\ W[s] = v /\ \A x \in DOMAIN W : x # s => W[x] = c.working[x]
    BY <1>1 DEF Put
  <1>w. w = c.working[s]
    OBVIOUS
  <1> HIDE DEF v, W, w
  <1>6. Untouched(c, e) /\ e.posted = c.posted /\ e.working = W /\ e.ring = c.ring
    BY <1>1 DEF IsConnection, Untouched
  <1> HIDE DEF e
  <1>7. NoNewMessages(c, e)
    BY <1>3, <1>5, <1>6, <1>w DEF NoNewMessages, Alike
  <1>8. CASE d = e
    BY <1>6, <1>7, <1>8
  <1>9. CASE d = CleanupMessage(e, s)
    <2>1. d.working = Without(W, {s}) /\ Untouched(c, d) /\ d.posted = c.posted
      BY <1>1, <1>6, <1>9 DEF CleanupMessage, e, IsConnection, Untouched
    <2>2. \A x \in DOMAIN d.working : x \in DOMAIN W /\ d.working[x] = W[x]
      BY <2>1 DEF Without
    <2>3. QED
      BY <2>1, <2>2, <1>6, <1>7 DEF NoNewMessages
  <1>10. QED
    BY <1>4, <1>8, <1>9

LEMMA SendAgainFrame ==
    ASSUME NEW c, IsConnection(c), c.ring = DOMAIN c.working,
           NEW s \in c.ring, NEW k,
           NEW d, d = [c EXCEPT !.next_message = RingIndex(c, s),
                                !.working = Put(@, s, PopResend(c.working[s], k))]
    PROVE  Untouched(c, d) /\ d.posted = c.posted /\ NoNewMessages(c, d)
  <1> DEFINE w == c.working[s]
             v == PopResend(w, k)
             W == Put(c.working, s, v)
             i == RingIndex(c, s)
  <1>1. s \in DOMAIN c.working /\ IsWorkingMessage(w)
    BY DEF IsConnection
  <1>2. Alike(w, v)
    BY <1>1 DEF PopResend, IsWorkingMessage, Alike
  <1>3. /\ DOMAIN W = DOMAIN c.working
        /\ W[s] = v /\ \A x \in DOMAIN W : x # s => W[x] = c.working[x]
    BY <1>1 DEF Put
  <1>w. w = c.working[s]
    OBVIOUS
  <1>4. d = [c EXCEPT !.next_message = i, !.working = W]
    OBVIOUS
  <1> HIDE DEF v, W, w, i
  <1>5. Untouched(c, d) /\ d.posted = c.posted /\ d.working = W
    BY <1>1, <1>4 DEF IsConnection, Untouched
  <1>6. QED
    BY <1>2, <1>3, <1>5, <1>w DEF NoNewMessages, Alike

LEMMA TickAlike ==
    ASSUME NEW w, IsWorkingMessage(w), NEW v, v = TickMessage(w)
    PROVE  /\ Alike(w, v) /\ v.next_send = w.next_send /\ v.robust = w.robust
           /\ v.in_flight = w.in_flight /\ v.queued = w.queued
BY DEF TickMessage, IsWorkingMessage, Alike

(* A tick that queues nothing again leaves no message with work it had not. *)
LEMMA ResendFrame ==
    ASSUME NEW c, IsConnection(c), c.ring = DOMAIN c.working, NEW d, d = Resend(c)
    PROVE  /\ Untouched(c, d) /\ NoNewMessages(c, d)
           /\ c.posted => d.posted
           /\ d.posted \/ \A s \in d.ring : s \in c.ring /\
                            (HasWork(d.working[s]) => HasWork(c.working[s]))
  <1> DEFINE T == [s \in DOMAIN c.working |-> TickMessage(c.working[s])]
             em == {s \in c.ring : Exhausted(T[s])}
             b == c.posted \/ \E s \in c.ring : T[s].resends # c.working[s].resends
             W == Without(T, em)
  <1>1. d = [c EXCEPT !.working = W, !.ring = @ \ em, !.posted = b]
    BY DEF Resend
  <1>2. DOMAIN T = DOMAIN c.working
        /\ \A s \in DOMAIN T : T[s] = TickMessage(c.working[s])
    OBVIOUS
  <1>3. b <=> c.posted \/ \E s \in c.ring : T[s].resends # c.working[s].resends
    OBVIOUS
  <1> HIDE DEF T, em, b
  <1>4. DOMAIN W = DOMAIN T \ em /\ \A s \in DOMAIN W : W[s] = T[s]
    BY DEF Without
  <1> HIDE DEF W
  <1>5. /\ Untouched(c, d) /\ d.posted = b /\ d.working = W /\ d.ring = c.ring \ em
    BY <1>1 DEF IsConnection, Untouched
  <1>6. \A s \in DOMAIN c.working :
          /\ Alike(c.working[s], T[s]) /\ T[s].next_send = c.working[s].next_send
          /\ T[s].robust = c.working[s].robust
          /\ T[s].in_flight = c.working[s].in_flight
          /\ T[s].queued = c.working[s].queued
    BY <1>2, TickAlike DEF IsConnection
  <1>7. NoNewMessages(c, d)
    BY <1>2, <1>4, <1>5, <1>6 DEF NoNewMessages
  <1>8. ASSUME ~b, NEW s \in d.ring, HasWork(d.working[s])
        PROVE  s \in c.ring /\ HasWork(c.working[s])
    <2>1. s \in c.ring /\ s \in DOMAIN c.working /\ s \notin em
      BY <1>5, <1>8
    <2>2. d.working[s] = T[s] /\ T[s].resends = c.working[s].resends
      BY <2>1, <1>2, <1>3, <1>4, <1>5, <1>8
    <2>3. QED
      BY <2>1, <2>2, <1>6, <1>8 DEF HasWork, CanSendNext, HasResend, Chunks, Alike
  <1>9. \A s \in d.ring : s \in c.ring
    BY <1>5
  <1>10. QED
    BY <1>3, <1>5, <1>7, <1>8, <1>9

LEMMA AddFrame ==
    ASSUME NEW c, IsConnection(c), NEW m \in Traffic, TotalChunks(m.size) # 0,
           NEW d, d = AddToWorkingSet(c, m)
    PROVE  LET s  == c.sequence + 1
           IN /\ d.sequence = s /\ d.posted
              /\ d.out_queue = c.out_queue /\ d.in_working = c.in_working
              /\ d.in_queue = c.in_queue /\ d.delivered = c.delivered
              /\ d.acked = c.acked
              /\ d.working = Put(c.working, s, WorkingMessage(NewId(c, m), m))
  BY DEF AddToWorkingSet, IsConnection

-----------------------------------------------------------------------------
(* Wake-ups.                                                               *)

Awake(c) ==
    /\ c.failed = {}
    /\ c.out_queue # <<>> \/ \E s \in c.ring : HasWork(c.working[s])
    => c.posted

LEMMA InsertKeepsPosted ==
    ASSUME NEW c, IsConnection(c), NEW p, NEW d, d = InsertChunk(c, p)
    PROVE  /\ d.posted = c.posted /\ d.out_queue = c.out_queue /\ d.failed = c.failed
           /\ d.ring = c.ring /\ d.working = c.working
  <1>1. PICK I, Q, D : \/ d = [c EXCEPT !.in_working = I]
                       \/ d = [c EXCEPT !.in_working = I, !.in_queue = Q,
                                        !.delivered = D]
    BY DEF InsertChunk
  <1>2. CASE d = [c EXCEPT !.in_working = I]
    BY <1>2 DEF IsConnection
  <1>3. CASE d = [c EXCEPT !.in_working = I, !.in_queue = Q, !.delivered = D]
    BY <1>3 DEF IsConnection
  <1>4. QED
    BY <1>1, <1>2, <1>3

LEMMA ReadAwake ==
    ASSUME NEW n \in Nodes, NEW c, ConnectionOK(c), Awake(c), NEW p \in Packets,
           p.type = "ack" => SentBefore(c, p), NEW d, d = HandleRead(n, c, p)
    PROVE  Awake(d)
  <1>1. CASE p.type = "ack"
    <2> DEFINE e == ValidateChunk(c, p)
    <2>1. ConnectionOK(e)
      BY <1>1, ValidateChunkOK DEF Sound
    <2>2. d = [e EXCEPT !.posted = TRUE]
      BY <1>1 DEF HandleRead
    <2> HIDE DEF e
    <2>3. d.posted
      BY <2>1, <2>2 DEF ConnectionOK, IsConnection
    <2>4. QED
      BY <2>3 DEF Awake
  <1>2. CASE p.type = "msg"
    <2> DEFINE q == Append(c.out_queue, Ack(n, p))
               b == TRUE
               e == [c EXCEPT !.out_queue = q, !.posted = b]
    <2>1. d = InsertChunk(e, p)
      BY <1>2 DEF HandleRead
    <2>2. q \in Seq(Packets)
      BY DEF Ack, Packets, ConnectionOK, IsConnection
    <2>3. e = [c EXCEPT !.out_queue = q, !.posted = b] /\ b = TRUE
      OBVIOUS
    <2> HIDE DEF e, q, b
    <2>4. e = WithQueue(c, q, b) /\ e.posted
      BY <2>3 DEF WithQueue, WithInput, ConnectionOK, IsConnection
    <2>5. IsConnection(e)
      BY <2>2, <2>3, <2>4, QueueOK DEF Sound, ConnectionOK
    <2>6. d.posted
      BY <2>1, <2>4, <2>5, InsertKeepsPosted
    <2>7. QED
      BY <2>6 DEF Awake
  <1>3. CASE p.type = "qmsg"
    <2>1. d = InsertChunk(c, p)
      BY <1>3 DEF HandleRead
    <2>2. QED
      BY <2>1, InsertKeepsPosted DEF Awake, ConnectionOK
  <1>4. QED
    BY <1>1, <1>2, <1>3 DEF Packets

LEMMA AwakeStep ==
    ASSUME IInv, NeverStalls, NEW n \in Nodes, NEW d, Awake(d),
           con' = [con EXCEPT ![n] = d]
    PROVE  NeverStalls'
  <1>1. con'[n] = d /\ \A m \in Nodes : m # n => con'[m] = con[m]
    BY DEF IInv, QueuesTyped
  <1>2. \A m \in Nodes : Awake(con'[m])
    BY <1>1 DEF NeverStalls, Awake, Alive
  <1>3. QED
    BY <1>2 DEF NeverStalls, Awake, Alive

LEMMA NextAwake ==
    ASSUME IInv, NeverStalls, [Next]_vars
    PROVE  NeverStalls'
  <1>c. \A n \in Nodes : /\ ConnectionOK(con[n]) /\ IsConnection(con[n])
                         /\ con[n].ring = DOMAIN con[n].working /\ Awake(con[n])
    BY ConnectionsOK DEF ConnectionOK, NeverStalls, Awake, Alive
  <1>1. ASSUME NEW m \in Traffic, Send(m)
        PROVE  NeverStalls'
    <2> DEFINE d == AddToWorkingSet(con[m.src], m)
    <2>1. m.src \in Nodes
      BY UdpAssumption
    <2>2. Awake(d)
      <3>1. CASE TotalChunks(m.size) = 0
        BY <2>1, <3>1, <1>c DEF AddToWorkingSet, Awake, IsConnection
      <3>2. CASE TotalChunks(m.size) # 0
        BY <2>1, <3>2, <1>c, AddFrame DEF Awake
      <3>3. QED
        BY <3>1, <3>2
    <2>3. con' = [con EXCEPT ![m.src] = d]
      BY <1>1 DEF Send
    <2> HIDE DEF d
    <2>4. QED
      BY <2>1, <2>2, <2>3, AwakeStep
  <1>2. ASSUME NEW n \in Nodes, Receive(n)
        PROVE  NeverStalls'
    <2> DEFINE c == con[n]
               d == [c EXCEPT !.in_queue = Tail(@)]
    <2>1. /\ d.failed = c.failed /\ d.out_queue = c.out_queue /\ d.ring = c.ring
          /\ d.working = c.working /\ d.posted = c.posted
      BY <1>c DEF IsConnection
    <2>2. con' = [con EXCEPT ![n] = d]
      BY <1>2 DEF Receive, IInv, QueuesTyped
    <2> HIDE DEF d
    <2>3. Awake(d)
      BY <1>c, <2>1 DEF Awake
    <2>4. QED
      BY <2>2, <2>3, AwakeStep
  <1>3. ASSUME NEW n \in Nodes, SendQueued(n)
        PROVE  NeverStalls'
    <2> DEFINE c == con[n]
               d == [c EXCEPT !.out_queue = Tail(@)]
    <2>1. d.posted
      BY <1>3, <1>c DEF SendQueued, IsConnection
    <2>2. con' = [con EXCEPT ![n] = d]
      BY <1>3 DEF SendQueued, IInv, QueuesTyped
    <2> HIDE DEF d
    <2>3. Awake(d)
      BY <2>1 DEF Awake
    <2>4. QED
      BY <2>2, <2>3, AwakeStep
  <1>4. ASSUME NEW n \in Nodes, NEW s \in con[n].ring, SendNext(n, s)
        PROVE  NeverStalls'
    <2> DEFINE c == con[n]
               d == SentChunk([c EXCEPT !.next_message = RingIndex(c, s)],
                              s, TakeNextChunk(c.working[s]), c.working[s].next_send)
    <2>0. /\ IsConnection(c) /\ c.ring = DOMAIN c.working /\ s \in c.ring
          /\ CanSendNext(c.working[s]) /\ c.posted
      BY <1>4, <1>c DEF SendNext
    <2>1. d.posted
      BY <2>0, SentChunkFrame
    <2>2. con' = [con EXCEPT ![n] = d]
      BY <1>4 DEF SendNext
    <2> HIDE DEF d
    <2>3. Awake(d)
      BY <2>1 DEF Awake
    <2>4. QED
      BY <2>2, <2>3, AwakeStep
  <1>5. ASSUME NEW n \in Nodes, NEW s \in con[n].ring,
               NEW k \in Chunks(con[n].working[s]), SendAgain(n, s, k)
        PROVE  NeverStalls'
    <2> DEFINE c == con[n]
               d == [c EXCEPT !.next_message = RingIndex(c, s),
                              !.working = Put(@, s, PopResend(c.working[s], k))]
    <2>1. d.posted
      BY <1>5, <1>c, SendAgainFrame DEF SendAgain
    <2>2. con' = [con EXCEPT ![n] = d]
      BY <1>5 DEF SendAgain
    <2> HIDE DEF d
    <2>3. Awake(d)
      BY <2>1 DEF Awake
    <2>4. QED
      BY <2>2, <2>3, AwakeStep
  <1>6. ASSUME NEW n \in Nodes, SendNothing(n)
        PROVE  NeverStalls'
    <2> DEFINE c == con[n]
               i == IF c.ring = {} THEN 0
                    ELSE (c.next_message + 1) % Cardinality(c.ring)
               Is(b) == [c EXCEPT !.next_message = i, !.posted = b]
    <2>1. PICK b \in BOOLEAN : con' = [con EXCEPT ![n].next_message = i, ![n].posted = b]
      BY <1>6 DEF SendNothing
    <2>2. con' = [con EXCEPT ![n] = Is(b)]
      BY <2>1 DEF IInv, QueuesTyped
    <2>3. c.out_queue = <<>> /\ \A s \in c.ring : ~HasWork(c.working[s])
      BY <1>6 DEF SendNothing
    <2> HIDE DEF i
    <2>4. Awake(Is(b))
      BY <1>c, <2>3 DEF Awake, IsConnection
    <2> HIDE DEF Is
    <2>5. QED
      BY <2>2, <2>4, AwakeStep
  <1>7. ASSUME NEW n \in Nodes, ResendTick(n)
        PROVE  NeverStalls'
    <2> DEFINE c == con[n]
               d == Resend(c)
    <2>1. /\ Untouched(c, d)
          /\ c.posted => d.posted
          /\ d.posted \/ \A s \in d.ring : s \in c.ring /\
                            (HasWork(d.working[s]) => HasWork(c.working[s]))
      BY <1>c, ResendFrame
    <2>2. con' = [con EXCEPT ![n] = d] /\ c.failed = {}
      BY <1>7 DEF ResendTick, Alive
    <2> HIDE DEF d
    <2>3. Awake(d)
      BY <1>c, <2>1, <2>2 DEF Awake, Untouched
    <2>4. QED
      BY <2>2, <2>3, AwakeStep
  <1>8. ASSUME NEW p \in net, Deliver(p) \/ Duplicate(p)
        PROVE  NeverStalls'
    <2> DEFINE c == con[p.dst]
               d == HandleRead(p.dst, c, p)
    <2>1. p \in Packets /\ p.dst \in Nodes /\ (p.type = "ack" => SentBefore(c, p))
      BY DEF IInv, QueuesTyped, OnlySentChunks, Packets, Sender
    <2>2. Awake(d)
      BY <1>c, <2>1, ReadAwake
    <2>3. con' = [con EXCEPT ![p.dst] = d]
      BY <1>8 DEF Deliver, Duplicate
    <2> HIDE DEF d
    <2>4. QED
      BY <2>1, <2>2, <2>3, AwakeStep
  <1>9. CASE UNCHANGED con
    BY <1>9 DEF NeverStalls, Alive
  <1>10. QED
    BY <1>1, <1>2, <1>3, <1>4, <1>5, <1>6, <1>7, <1>8, <1>9
       DEF Next, DoSend, Lose, vars

(* No lost wake-up: while there is an acknowledgement, a next chunk or a
   retransmission to send, a do_send is pending, whatever order handlers,
   ticks and datagrams come in (handle_read, resend, add_to_working_set).  *)
THEOREM SendersWake == Spec => []NeverStalls
  <1>1. Init => NeverStalls
    <2>1. ASSUME Init, NEW n \in Nodes
          PROVE  con[n].out_queue = <<>> /\ con[n].ring = {}
      BY <2>1 DEF Init, NewConnection
    <2>2. QED
      BY <2>1 DEF NeverStalls
  <1>2. IInv /\ NeverStalls /\ [Next]_vars => NeverStalls'
    BY NextAwake
  <1>3. QED
    BY <1>1, <1>2, Invariance, PTL DEF Spec

-----------------------------------------------------------------------------
(* After a restart the network and the peers hold acknowledgements of the
   old incarnation's messages, under sequence numbers that the new one uses
   again: a chunk may be acknowledged that was never sent, and in_flight is
   no longer a count.  What is left of the window is a bound.              *)
Bounded(w) ==
    /\ w.sent = 0..(w.next_send - 1)
    /\ w.queued = 0
    /\ w.in_flight <= MAX_FLIGHT
    /\ \A k \in Chunks(w) : w.resends[k] > 0 => k \in w.sent

Consistent(c) ==
    /\ IsConnection(c)
    /\ c.ring = DOMAIN c.working
    /\ \A s \in DOMAIN c.working : Bounded(c.working[s])

(* The contracts an old acknowledgement or an oversized message breaks.    *)
MayFail == IF NoOverflow THEN {"validate_chunk"}
           ELSE {"validate_chunk", "total_chunks"}

(* One handler run of a node that may be restarted.                        *)
Steady(c) == Consistent(c) /\ Awake(c) /\ c.failed \subseteq MayFail

LEMMA WindowIsBounded ==
    ASSUME NEW w, WindowOK(w)
    PROVE  Bounded(w)
  BY DEF WindowOK, Bounded

LEMMA NewBoundedMap ==
    ASSUME NEW c, IsConnection(c), NEW W, IsMap(W), DOMAIN W \subseteq DOMAIN c.working,
           \A s \in DOMAIN W : IsWorkingMessage(W[s]) /\ Bounded(W[s]),
           NEW i \in Nat, NEW b \in BOOLEAN, NEW A \in SUBSET Ids
    PROVE  LET d == WithMap(c, W, i, b, A) IN
           /\ Consistent(d) /\ d.failed = c.failed /\ d.out_queue = c.out_queue
           /\ d.working = W /\ d.ring = DOMAIN W /\ d.posted = b
  <1> DEFINE d == WithMap(c, W, i, b, A)
  <1>1. /\ d.ring = DOMAIN W /\ d.working = W /\ d.posted = b
        /\ d.failed = c.failed /\ d.out_queue = c.out_queue
    BY DEF WithMap
  <1>2. IsConnection(d)
    BY DEF WithMap, IsConnection
  <1> HIDE DEF d
  <1>3. QED
    BY <1>1, <1>2 DEF Consistent, d

(* One entry of the working map gets a new value.                          *)
LEMMA ReplaceBounded ==
    ASSUME NEW c, Consistent(c), NEW s \in c.ring,
           NEW v, IsWorkingMessage(v), Bounded(v)
    PROVE  LET W == Put(c.working, s, v) IN
           /\ IsMap(W) /\ DOMAIN W = DOMAIN c.working /\ DOMAIN W = c.ring
           /\ \A x \in DOMAIN W : IsWorkingMessage(W[x]) /\ Bounded(W[x])
           /\ s \in DOMAIN W
  <1> DEFINE W == Put(c.working, s, v)
  <1>1. /\ IsMap(W) /\ DOMAIN W = DOMAIN c.working
        /\ W[s] = v /\ \A x \in DOMAIN W : x # s => W[x] = c.working[x]
    BY DEF Put, IsMap, Consistent
  <1> HIDE DEF W
  <1>2. QED
    BY <1>1 DEF Consistent, IsConnection, W

LEMMA ReplacedConsistent ==
    ASSUME NEW c, Consistent(c), NEW s \in c.ring,
           NEW v, IsWorkingMessage(v), Bounded(v), NEW i \in Nat
    PROVE  LET W == Put(c.working, s, v)
               d == WithMap(c, W, i, c.posted, c.acked)
           IN /\ Consistent(d) /\ d.failed = c.failed /\ d.posted = c.posted
              /\ d.ring = c.ring /\ DOMAIN W = c.ring
  <1> DEFINE W == Put(c.working, s, v)
             b == c.posted
  <1>1. /\ IsMap(W) /\ DOMAIN W \subseteq DOMAIN c.working /\ DOMAIN W = c.ring
        /\ \A x \in DOMAIN W : IsWorkingMessage(W[x]) /\ Bounded(W[x])
    BY ReplaceBounded
  <1>2. IsConnection(c) /\ b \in BOOLEAN /\ c.acked \in SUBSET Ids
    BY DEF Consistent, IsConnection
  <1> HIDE DEF W, b
  <1>3. LET d == WithMap(c, W, i, b, c.acked) IN
        Consistent(d) /\ d.failed = c.failed /\ d.posted = b /\ d.ring = DOMAIN W
    BY <1>1, <1>2, NewBoundedMap
  <1>4. QED
    BY <1>1, <1>3 DEF W, b

LEMMA CleanupBounded ==
    ASSUME NEW c, Consistent(c), NEW s \in c.ring, NEW d, d = CleanupMessage(c, s)
    PROVE  /\ Consistent(d) /\ d.failed = c.failed /\ d.out_queue = c.out_queue
           /\ d.posted = c.posted
  <1> DEFINE X == Without(c.working, {s})
  <1>1. d = WithMap(c, X, c.next_message, c.posted, c.acked)
    BY CleanupMessageOK DEF Consistent
  <1>2. /\ IsMap(X) /\ DOMAIN X = DOMAIN c.working \ {s}
        /\ \A x \in DOMAIN X : X[x] = c.working[x]
    BY DEF Without, IsMap
  <1> HIDE DEF X
  <1>3. \A x \in DOMAIN X : IsWorkingMessage(X[x]) /\ Bounded(X[x])
    BY <1>2 DEF Consistent, IsConnection
  <1>4. /\ IsConnection(c) /\ c.next_message \in Nat /\ c.posted \in BOOLEAN
        /\ c.acked \in SUBSET Ids
    BY DEF Consistent, IsConnection
  <1>5. QED
    BY <1>1, <1>2, <1>3, <1>4, NewBoundedMap

LEMMA AddSteady ==
    ASSUME NEW c, Steady(c), NEW m \in Traffic, NEW d, d = AddToWorkingSet(c, m)
    PROVE  Steady(d)
  <1>t. IsConnection(c) /\ c.ring = DOMAIN c.working
    BY DEF Steady, Consistent
  <1>1. CASE TotalChunks(m.size) = 0
    <2>1. /\ IsConnection(d) /\ d.failed = c.failed \cup {"total_chunks"}
          /\ d.ring = c.ring /\ d.working = c.working
      BY <1>1, <1>t, AddType
    <2>2. m.size \in Nat \ {0}
      BY UdpAssumption DEF MAX_MESSAGE_SIZE
    <2>3. ~NoOverflow
      BY <1>1, <2>2, NoWrap DEF NoOverflow
    <2>4. QED
      BY <2>1, <2>3 DEF Steady, Consistent, Awake, MayFail
  <1>2. CASE TotalChunks(m.size) # 0
    <2> DEFINE s == c.sequence + 1
    <2>1. /\ IsConnection(d) /\ d.failed = c.failed /\ d.posted
          /\ d.ring = c.ring \cup {s}
      BY <1>2, <1>t, AddType
    <2>2. PICK v : IsWorkingMessage(v) /\ WindowOK(v) /\ d.working = Put(c.working, s, v)
      BY <1>2, <1>t, AddType
    <2>3. Bounded(v)
      BY <2>2, WindowIsBounded
    <2>4. /\ DOMAIN d.working = DOMAIN c.working \cup {s} /\ d.working[s] = v
          /\ \A x \in DOMAIN c.working : x # s => d.working[x] = c.working[x]
      BY <2>2 DEF Put
    <2> HIDE DEF s
    <2>5. Consistent(d)
      BY <1>t, <2>1, <2>3, <2>4 DEF Consistent, Steady
    <2>6. QED
      BY <2>1, <2>5 DEF Steady, Awake
  <1>3. QED
    BY <1>1, <1>2

(* Sending the next chunk.                                                 *)
LEMMA SendNextBounded ==
    ASSUME NEW w, IsWorkingMessage(w), Bounded(w), CanSendNext(w),
           NEW u, u = TakeNextChunk(w), NEW v, v = MarkSent(u, w.next_send)
    PROVE  IsWorkingMessage(v) /\ Bounded(v)
  <1>t. /\ w.total \in Nat /\ w.next_send \in Nat /\ w.next_send < w.total
        /\ w.in_flight \in Nat /\ w.robust \in BOOLEAN /\ w.queued = 0
        /\ w.sent = 0..(w.next_send - 1)
    BY UdpAssumption DEF IsWorkingMessage, Bounded, CanSendNext
  <1>u. /\ u.total = w.total /\ u.next_send = w.next_send + 1
        /\ u.sent = w.sent /\ u.set = w.set /\ u.queued = 1
        /\ u.robust = w.robust /\ u.in_flight = w.in_flight
        /\ u.id = w.id /\ u.dst = w.dst /\ u.size = w.size
        /\ u.ticks = w.ticks /\ u.resends = w.resends
    BY <1>t DEF TakeNextChunk, IsWorkingMessage
  <1>r. u = [id |-> u.id, dst |-> u.dst, robust |-> u.robust, size |-> u.size,
             total |-> u.total, set |-> u.set, sent |-> u.sent,
             ticks |-> u.ticks, in_flight |-> u.in_flight, queued |-> u.queued,
             next_send |-> u.next_send, resends |-> u.resends]
    BY DEF TakeNextChunk, IsWorkingMessage
  <1>f. /\ v.total = w.total /\ v.next_send = w.next_send + 1
        /\ v.sent = w.sent \cup {w.next_send} /\ v.set = w.set /\ v.queued = 0
        /\ v.robust = w.robust
        /\ v.in_flight = IF w.robust THEN w.in_flight + 1 ELSE w.in_flight
        /\ v.id = w.id /\ v.dst = w.dst /\ v.size = w.size
        /\ v.ticks = w.ticks /\ v.resends = w.resends
    BY <1>u, <1>r DEF MarkSent
  <1>s. v = [id |-> v.id, dst |-> v.dst, robust |-> v.robust, size |-> v.size,
             total |-> v.total, set |-> v.set, sent |-> v.sent,
             ticks |-> v.ticks, in_flight |-> v.in_flight, queued |-> v.queued,
             next_send |-> v.next_send, resends |-> v.resends]
    BY <1>r DEF MarkSent
  <1>1. IsWorkingMessage(v)
    <2>1. Chunks(v) = Chunks(w) /\ v.sent \subseteq Chunks(w)
      BY <1>t, <1>f DEF Chunks, IsWorkingMessage
    <2>2. v.in_flight \in Nat /\ v.next_send \in 0..v.total /\ v.queued \in Nat
      BY <1>t, <1>f
    <2>3. QED
      BY <2>1, <2>2, <1>f, <1>s DEF IsWorkingMessage
  <1>2. v.sent = 0..(v.next_send - 1)
    BY <1>t, <1>f
  <1>3. v.in_flight <= MAX_FLIGHT
    <2>1. w.in_flight <= MAX_FLIGHT
      BY DEF Bounded
    <2>2. w.robust => w.in_flight < MAX_FLIGHT
      BY <1>t DEF CanSendNext
    <2>3. QED
      BY <1>f, <1>t, <2>1, <2>2, UdpAssumption
  <1>4. \A k \in Chunks(v) : v.resends[k] > 0 => k \in v.sent
    BY <1>f DEF Bounded, Chunks
  <1>5. QED
    BY <1>f, <1>1, <1>2, <1>3, <1>4 DEF Bounded

LEMMA SendNextConsistent ==
    ASSUME NEW c, Consistent(c), NEW s \in c.ring, CanSendNext(c.working[s]),
           NEW d, d = SentChunk([c EXCEPT !.next_message = RingIndex(c, s)],
                        s, TakeNextChunk(c.working[s]), c.working[s].next_send)
    PROVE  Consistent(d) /\ d.failed = c.failed /\ d.posted = c.posted
  <1> DEFINE w == c.working[s]
             i == RingIndex(c, s)
             u == TakeNextChunk(w)
             v == MarkSent(u, w.next_send)
             e == [c EXCEPT !.next_message = i]
             W == Put(c.working, s, v)
             f == WithMap(c, W, i, c.posted, c.acked)
  <1>t. /\ IsConnection(c) /\ s \in DOMAIN c.working
        /\ IsWorkingMessage(w) /\ Bounded(w) /\ CanSendNext(w) /\ i \in Nat
    BY RingIndexType DEF Consistent, IsConnection
  <1>v. IsWorkingMessage(v) /\ Bounded(v)
    BY <1>t, SendNextBounded
  <1>h. d = LET dd == [e EXCEPT !.working = Put(@, s, v)]
            IN IF ~v.robust /\ AllSent(v) THEN CleanupMessage(dd, s) ELSE dd
    BY DEF SentChunk
  <1> HIDE DEF u, v, w, i
  <1>1. /\ Consistent(f) /\ f.failed = c.failed /\ f.posted = c.posted
        /\ f.ring = c.ring /\ DOMAIN W = c.ring
    BY <1>t, <1>v, ReplacedConsistent
  <1>e. Put(e.working, s, v) = W
    BY <1>t DEF IsConnection
  <1>2. [e EXCEPT !.working = Put(@, s, v)] = f
    <2> HIDE DEF W
    <2>1. [e EXCEPT !.working = W] = [c EXCEPT !.next_message = i, !.working = W]
      BY <1>t DEF IsConnection
    <2>2. [c EXCEPT !.next_message = i, !.working = W] = f
      BY <1>t, <1>1, SetMap
    <2>3. QED
      BY <1>e, <2>1, <2>2
  <1> HIDE DEF W, e, f
  <1>3. d = IF ~v.robust /\ AllSent(v) THEN CleanupMessage(f, s) ELSE f
    BY <1>2, <1>h
  <1>4. QED
    BY <1>1, <1>3, CleanupBounded

(* Only the resend queue and the tick count change.                        *)
LEMMA NewResendsBounded ==
    ASSUME NEW w, IsWorkingMessage(w), Bounded(w), NEW t \in Nat,
           NEW R \in [Chunks(w) -> Nat], \A k \in Chunks(w) : R[k] > 0 => k \in w.sent
    PROVE  LET v == NewResends(w, t, R) IN IsWorkingMessage(v) /\ Bounded(v)
  <1> DEFINE v == NewResends(w, t, R)
  <1>1. /\ v.total = w.total /\ v.next_send = w.next_send
        /\ v.sent = w.sent /\ v.set = w.set /\ v.queued = w.queued
        /\ v.robust = w.robust /\ v.in_flight = w.in_flight /\ v.resends = R
    BY DEF NewResends, IsWorkingMessage
  <1>2. Chunks(v) = Chunks(w)
    BY <1>1 DEF Chunks
  <1>3. IsWorkingMessage(v)
    BY <1>1, <1>2 DEF NewResends, IsWorkingMessage
  <1>4. QED
    BY <1>1, <1>2, <1>3 DEF Bounded

LEMMA PopResendBounded ==
    ASSUME NEW w, IsWorkingMessage(w), Bounded(w),
           NEW k \in Chunks(w), w.resends[k] > 0
    PROVE  IsWorkingMessage(PopResend(w, k)) /\ Bounded(PopResend(w, k))
  <1> DEFINE R == [j \in DOMAIN w.resends |->
                     IF j = k THEN w.resends[j] - 1 ELSE w.resends[j]]
  <1>1. /\ R \in [Chunks(w) -> Nat]
        /\ \A j \in Chunks(w) : R[j] > 0 => w.resends[j] > 0
    BY DEF IsWorkingMessage
  <1>2. PopResend(w, k) = [w EXCEPT !.resends = R]
    BY DEF PopResend
  <1> HIDE DEF R
  <1>3. PopResend(w, k) = NewResends(w, w.ticks, R)
    BY <1>2 DEF NewResends, IsWorkingMessage
  <1>4. w.ticks \in Nat
    BY DEF IsWorkingMessage
  <1>5. \A j \in Chunks(w) : R[j] > 0 => j \in w.sent
    BY <1>1 DEF Bounded
  <1>6. QED
    BY <1>1, <1>3, <1>4, <1>5, NewResendsBounded

LEMMA SendAgainConsistent ==
    ASSUME NEW c, Consistent(c), NEW s \in c.ring,
           NEW k \in Chunks(c.working[s]), c.working[s].resends[k] > 0,
           NEW d, d = [c EXCEPT !.next_message = RingIndex(c, s),
                                !.working = Put(@, s, PopResend(c.working[s], k))]
    PROVE  Consistent(d) /\ d.failed = c.failed /\ d.posted = c.posted
  <1> DEFINE v == PopResend(c.working[s], k)
             i == RingIndex(c, s)
             W == Put(c.working, s, v)
             f == WithMap(c, W, i, c.posted, c.acked)
  <1>t. /\ IsConnection(c) /\ i \in Nat
        /\ IsWorkingMessage(c.working[s]) /\ Bounded(c.working[s])
    BY RingIndexType DEF Consistent, IsConnection
  <1>1. IsWorkingMessage(v) /\ Bounded(v)
    BY <1>t, PopResendBounded
  <1>2. d = [c EXCEPT !.next_message = i, !.working = W]
    OBVIOUS
  <1> HIDE DEF v, i
  <1>3. /\ Consistent(f) /\ f.failed = c.failed /\ f.posted = c.posted
        /\ DOMAIN W = c.ring
    BY <1>t, <1>1, ReplacedConsistent
  <1> HIDE DEF W
  <1>4. d = f
    BY <1>2, <1>3, <1>t, SetMap
  <1>5. QED
    BY <1>3, <1>4

LEMMA TickBounded ==
    ASSUME NEW w, IsWorkingMessage(w), Bounded(w)
    PROVE  IsWorkingMessage(TickMessage(w)) /\ Bounded(TickMessage(w))
  <1> DEFINE t == IF w.ticks < RESEND_THRESHOLD + RESEND_TICK_THRESHOLD
                  THEN w.ticks + 1 ELSE w.ticks
             S == IF w.robust /\ t > RESEND_TICK_THRESHOLD
                  THEN ResendSet(w) ELSE {}
             R == [k \in DOMAIN w.resends |->
                     IF k \in S THEN w.resends[k] + 1 ELSE w.resends[k]]
  <1>1. TickMessage(w) = NewResends(w, t, R)
    BY DEF TickMessage, NewResends
  <1>2. t \in Nat
    BY UdpAssumption DEF IsWorkingMessage
  <1>3. S \subseteq w.sent
    BY DEF ResendSet
  <1> HIDE DEF t, S
  <1>4. R \in [Chunks(w) -> Nat]
    BY DEF IsWorkingMessage
  <1>5. \A k \in Chunks(w) : R[k] > 0 => k \in w.sent
    BY <1>3 DEF IsWorkingMessage, Bounded
  <1> HIDE DEF R
  <1>6. QED
    BY <1>1, <1>2, <1>4, <1>5, NewResendsBounded

LEMMA ResendSteady ==
    ASSUME NEW c, Steady(c), c.failed = {}, NEW d, d = Resend(c)
    PROVE  Steady(d)
  <1> DEFINE T == [s \in DOMAIN c.working |-> TickMessage(c.working[s])]
             em == {s \in c.ring : Exhausted(T[s])}
             b == c.posted \/ \E s \in c.ring : T[s].resends # c.working[s].resends
             W == Without(T, em)
  <1>c. IsConnection(c) /\ c.ring = DOMAIN c.working
    BY DEF Steady, Consistent
  <1>1. d = [c EXCEPT !.working = W, !.ring = @ \ em, !.posted = b]
    BY DEF Resend
  <1>2. DOMAIN T = DOMAIN c.working
        /\ \A s \in DOMAIN T : T[s] = TickMessage(c.working[s])
    OBVIOUS
  <1>3. b \in BOOLEAN /\ c.acked \in SUBSET Ids /\ c.next_message \in Nat
    BY <1>c DEF IsConnection
  <1> HIDE DEF T, em, b
  <1>4. \A s \in DOMAIN T : IsWorkingMessage(T[s]) /\ Bounded(T[s])
    BY <1>2, TickBounded DEF Steady, Consistent, IsConnection
  <1>5. /\ IsMap(W) /\ DOMAIN W = DOMAIN T \ em
        /\ \A s \in DOMAIN W : W[s] = T[s]
    BY DEF Without, IsMap
  <1>6. c.ring \ em = DOMAIN W
    BY <1>2, <1>5, <1>c
  <1> HIDE DEF W
  <1>7. d = WithMap(c, W, c.next_message, b, c.acked)
    BY <1>1, <1>6, <1>c DEF WithMap, IsConnection
  <1>8. \A s \in DOMAIN W : IsWorkingMessage(W[s]) /\ Bounded(W[s])
    BY <1>4, <1>5
  <1>9. DOMAIN W \subseteq DOMAIN c.working /\ IsMap(W)
    BY <1>2, <1>5
  <1>10. Consistent(d) /\ d.failed = c.failed /\ d.out_queue = c.out_queue
    BY <1>3, <1>7, <1>8, <1>9, <1>c, NewBoundedMap
  <1>11. /\ c.posted => d.posted
         /\ d.posted \/ \A s \in d.ring : s \in c.ring /\
                            (HasWork(d.working[s]) => HasWork(c.working[s]))
    BY <1>c, ResendFrame
  <1>12. Awake(d)
    BY <1>10, <1>11 DEF Awake, Steady
  <1>13. QED
    BY <1>10, <1>12 DEF Steady

(* An acknowledgement, of this incarnation's chunk or of an old one.       *)
LEMMA MarkAckedBounded ==
    ASSUME NEW w, IsWorkingMessage(w), Bounded(w), NEW k \in Chunks(w),
           NEW v, v = MarkAcked(w, k)
    PROVE  IsWorkingMessage(v) /\ Bounded(v) /\ v.id \in Ids
  <1>t. /\ w.in_flight \in Nat /\ w.set \subseteq Chunks(w)
        /\ w.in_flight <= MAX_FLIGHT /\ w.queued = 0 /\ w.id \in Ids
    BY DEF IsWorkingMessage, Bounded
  <1>f. /\ v.total = w.total /\ v.next_send = w.next_send
        /\ v.sent = w.sent /\ v.set = w.set \cup {k} /\ v.queued = w.queued
        /\ v.robust = w.robust /\ v.resends = w.resends
        /\ v.in_flight = IF w.in_flight > 0 THEN w.in_flight - 1 ELSE 0
        /\ v.id = w.id /\ v.dst = w.dst /\ v.size = w.size /\ v.ticks = 0
    BY DEF MarkAcked, IsWorkingMessage
  <1>s. v = [id |-> v.id, dst |-> v.dst, robust |-> v.robust, size |-> v.size,
             total |-> v.total, set |-> v.set, sent |-> v.sent,
             ticks |-> v.ticks, in_flight |-> v.in_flight, queued |-> v.queued,
             next_send |-> v.next_send, resends |-> v.resends]
    BY DEF MarkAcked, IsWorkingMessage
  <1>c. Chunks(v) = Chunks(w)
    BY <1>f DEF Chunks
  <1>1. /\ v.set \subseteq Chunks(w) /\ v.in_flight \in Nat
        /\ v.in_flight <= MAX_FLIGHT
    BY <1>f, <1>t, UdpAssumption
  <1>2. IsWorkingMessage(v)
    BY <1>f, <1>c, <1>s, <1>1 DEF IsWorkingMessage
  <1>3. Bounded(v)
    BY <1>f, <1>c, <1>1 DEF Bounded
  <1>4. QED
    BY <1>2, <1>3, <1>f, <1>t

LEMMA WithFailure ==
    ASSUME NEW c, Consistent(c), NEW F, NEW d, d = [c EXCEPT !.failed = F]
    PROVE  Consistent(d) /\ d.failed = F
  <1>1. d = [sequence |-> c.sequence, ring |-> c.ring,
            next_message |-> c.next_message, working |-> c.working,
            out_queue |-> c.out_queue, posted |-> c.posted,
            in_working |-> c.in_working, in_queue |-> c.in_queue,
            failed |-> F, epoch |-> c.epoch,
            acked |-> c.acked, delivered |-> c.delivered]
    BY DEF Consistent, IsConnection
  <1>2. QED
    BY <1>1 DEF Consistent, IsConnection

LEMMA WithAcked ==
    ASSUME NEW c, Consistent(c), NEW A \in SUBSET Ids, NEW d, d = [c EXCEPT !.acked = A]
    PROVE  Consistent(d) /\ d.failed = c.failed
  <1>1. d = [sequence |-> c.sequence, ring |-> c.ring,
            next_message |-> c.next_message, working |-> c.working,
            out_queue |-> c.out_queue, posted |-> c.posted,
            in_working |-> c.in_working, in_queue |-> c.in_queue,
            failed |-> c.failed, epoch |-> c.epoch,
            acked |-> A, delivered |-> c.delivered]
    BY DEF Consistent, IsConnection
  <1>2. QED
    BY <1>1 DEF Consistent, IsConnection

LEMMA ValidateConsistent ==
    ASSUME NEW c, Consistent(c), NEW p \in Packets
    PROVE  LET d == ValidateChunk(c, p) IN
           Consistent(d) /\ d.failed \subseteq c.failed \cup {"validate_chunk"}
  <1> DEFINE d == ValidateChunk(c, p)
             s == p.sequence
             w == c.working[s]
             v == MarkAcked(w, p.chunk)
             W == Put(c.working, s, v)
             e == [c EXCEPT !.working = W]
             f == WithMap(c, W, c.next_message, c.posted, c.acked)
  <1>1. CASE \/ s \notin DOMAIN c.working
             \/ p.chunk >= w.total \/ p.total # w.total \/ p.chunk \in w.set
    BY <1>1 DEF ValidateChunk
  <1>2. CASE ~ ( \/ s \notin DOMAIN c.working
                 \/ p.chunk >= w.total \/ p.total # w.total \/ p.chunk \in w.set )
    <2>d. d = IF v.set # Chunks(v) THEN e
              ELSE IF ~AllSent(v) \/ v.in_flight # 0 \/ v.queued # 0
              THEN [e EXCEPT !.failed = @ \cup {"validate_chunk"}]
              ELSE [CleanupMessage(e, s) EXCEPT !.acked = @ \cup {v.id}]
      BY <1>2 DEF ValidateChunk
    <2>c. IsConnection(c) /\ s \in c.ring /\ c.next_message \in Nat
      BY <1>2 DEF Consistent, IsConnection
    <2>t. IsWorkingMessage(w) /\ Bounded(w)
      BY <1>2 DEF Consistent, IsConnection
    <2>k. p.chunk \in Chunks(w)
      <3>1. p.chunk \in Nat /\ p.chunk < w.total /\ w.total \in Nat
        BY <1>2, <2>t, UdpAssumption DEF Packets, IsWorkingMessage
      <3>2. QED
        BY <3>1 DEF Chunks
    <2>v. IsWorkingMessage(v) /\ Bounded(v) /\ v.id \in Ids
      BY <2>t, <2>k, MarkAckedBounded
    <2> HIDE DEF v, w, s, d
    <2>1. /\ Consistent(f) /\ f.failed = c.failed /\ f.ring = c.ring /\ DOMAIN W = c.ring
      BY <2>c, <2>v, ReplacedConsistent
    <2> HIDE DEF W
    <2>2. e = f
      <3>1. e = [c EXCEPT !.next_message = c.next_message, !.working = W]
        BY <2>c DEF IsConnection
      <3>2. QED
        BY <3>1, <2>1, <2>c, SetMap
    <2> HIDE DEF e, f
    <2>3. CASE d = f
      BY <2>3, <2>1 DEF d
    <2>4. CASE d = [f EXCEPT !.failed = f.failed \cup {"validate_chunk"}]
      <3>1. Consistent(d) /\ d.failed = f.failed \cup {"validate_chunk"}
        BY <2>1, <2>4, WithFailure
      <3>2. QED
        BY <3>1, <2>1 DEF d
    <2>5. CASE d = [CleanupMessage(f, s) EXCEPT !.acked = @ \cup {v.id}]
      <3> DEFINE g == CleanupMessage(f, s)
                 A == g.acked \cup {v.id}
      <3>1. Consistent(g) /\ g.failed = c.failed
        BY <2>1, <2>c, CleanupBounded
      <3>2. d = [g EXCEPT !.acked = A]
        BY <2>5
      <3>3. A \in SUBSET Ids
        BY <3>1, <2>v DEF Consistent, IsConnection
      <3> HIDE DEF g, A
      <3>4. Consistent(d) /\ d.failed = g.failed
        BY <3>1, <3>2, <3>3, WithAcked
      <3>5. QED
        BY <3>1, <3>4 DEF d
    <2>6. QED
      BY <2>d, <2>2, <2>3, <2>4, <2>5
  <1>3. QED
    BY <1>1, <1>2

(* The receiving side leaves the working messages alone.                   *)
LEMMA InputConsistent ==
    ASSUME NEW c, Consistent(c), NEW i \in Nat, NEW q \in Seq(Packets),
           NEW b \in BOOLEAN, NEW I, GoodInput(I), NEW Q, NEW D \in SUBSET Ids
    PROVE  LET d == WithInput(c, i, q, b, I, Q, D) IN
           /\ Consistent(d) /\ d.failed = c.failed /\ d.out_queue = q
           /\ d.posted = b /\ d.ring = c.ring /\ d.working = c.working
  <1> DEFINE d == WithInput(c, i, q, b, I, Q, D)
  <1>1. /\ d.ring = c.ring /\ d.working = c.working /\ d.posted = b
        /\ d.failed = c.failed /\ d.out_queue = q
    BY DEF WithInput
  <1>2. IsConnection(d)
    BY DEF WithInput, Consistent, IsConnection, GoodInput
  <1> HIDE DEF d
  <1>3. QED
    BY <1>1, <1>2 DEF Consistent, d

LEMMA InsertConsistent ==
    ASSUME NEW c, Consistent(c), NEW p \in Packets
    PROVE  LET d == InsertChunk(c, p) IN
           /\ Consistent(d) /\ d.failed = c.failed /\ d.out_queue = c.out_queue
           /\ d.posted = c.posted /\ d.ring = c.ring /\ d.working = c.working
  <1>1. /\ IsConnection(c) /\ c.next_message \in Nat /\ c.posted \in BOOLEAN
        /\ c.out_queue \in Seq(Packets)
    BY DEF Consistent, IsConnection
  <1>2. PICK I, Q, D : /\ GoodInput(I) /\ D \in SUBSET Ids
                       /\ InsertChunk(c, p) =
                            WithInput(c, c.next_message, c.out_queue, c.posted,
                                      I, Q, D)
    BY <1>1, InsertIsInput
  <1>3. QED
    BY <1>1, <1>2, InputConsistent

(* Only the out queue and `posted' change.                                 *)
LEMMA QueueConsistent ==
    ASSUME NEW c, Consistent(c), NEW q \in Seq(Packets), NEW b \in BOOLEAN,
           NEW d, d = WithQueue(c, q, b)
    PROVE  /\ Consistent(d) /\ d.failed = c.failed /\ d.out_queue = q
           /\ d.posted = b /\ d.ring = c.ring /\ d.working = c.working
  <1>1. /\ GoodInput(c.in_working) /\ c.next_message \in Nat
        /\ c.delivered \in SUBSET Ids
    BY DEF Consistent, IsConnection, GoodInput
  <1>2. QED
    BY <1>1, InputConsistent DEF WithQueue

LEMMA ReadSteady ==
    ASSUME NEW n \in Nodes, NEW c, Steady(c), NEW p \in Packets,
           NEW d, d = HandleRead(n, c, p)
    PROVE  Steady(d)
  <1>c. Consistent(c) /\ c.failed \subseteq MayFail /\ c.out_queue \in Seq(Packets)
    BY DEF Steady, Consistent, IsConnection
  <1>b. TRUE \in BOOLEAN /\ "validate_chunk" \in MayFail
    BY DEF MayFail
  <1>1. CASE p.type = "ack"
    <2> DEFINE e == ValidateChunk(c, p)
               b == TRUE
    <2>1. Consistent(e) /\ e.failed \subseteq c.failed \cup {"validate_chunk"}
      BY <1>c, ValidateConsistent
    <2>2. d = [e EXCEPT !.posted = b] /\ b = TRUE
      BY <1>1 DEF HandleRead
    <2>b. b \in BOOLEAN
      OBVIOUS
    <2> HIDE DEF e, b
    <2>3. e.out_queue \in Seq(Packets)
      BY <2>1 DEF Consistent, IsConnection
    <2>4. d = WithQueue(e, e.out_queue, b)
      BY <2>1, <2>2 DEF WithQueue, WithInput, Consistent, IsConnection
    <2>5. Consistent(d) /\ d.failed = e.failed /\ d.posted = b
      BY <2>1, <2>b, <2>3, <2>4, QueueConsistent
    <2>6. QED
      BY <2>1, <2>2, <2>5, <1>b, <1>c DEF Steady, Awake
  <1>2. CASE p.type = "msg"
    <2> DEFINE q == Append(c.out_queue, Ack(n, p))
               b == TRUE
               e == [c EXCEPT !.out_queue = q, !.posted = b]
    <2>1. Ack(n, p) \in Packets
      BY DEF Ack, Packets
    <2>2. q \in Seq(Packets)
      BY <2>1, <1>c
    <2>3. d = InsertChunk(e, p)
      BY <1>2 DEF HandleRead
    <2>4. e = [c EXCEPT !.out_queue = q, !.posted = b] /\ b = TRUE
      OBVIOUS
    <2>b. b \in BOOLEAN
      OBVIOUS
    <2> HIDE DEF e, q, b
    <2>5. e = WithQueue(c, q, b)
      BY <1>c, <2>4 DEF WithQueue, WithInput, Consistent, IsConnection
    <2>6. Consistent(e) /\ e.failed = c.failed /\ e.posted = b
      BY <1>c, <2>2, <2>b, <2>5, QueueConsistent
    <2>7. Consistent(d) /\ d.failed = e.failed /\ d.posted = e.posted
      BY <2>3, <2>6, InsertConsistent
    <2>8. QED
      BY <1>c, <2>4, <2>6, <2>7 DEF Steady, Awake
  <1>3. CASE p.type = "qmsg"
    <2>1. d = InsertChunk(c, p)
      BY <1>3 DEF HandleRead
    <2>2. QED
      BY <1>c, <2>1, InsertConsistent DEF Steady, Awake
  <1>4. QED
    BY <1>1, <1>2, <1>3 DEF Packets

LEMMA NewSteady ==
    ASSUME NEW k \in Nat
    PROVE  Steady(NewConnection(k))
  <1> DEFINE c == NewConnection(k)
  <1>1. /\ c.sequence = 0 /\ c.ring = {} /\ c.next_message = 0
        /\ c.working = EmptyMap /\ c.out_queue = <<>> /\ c.posted = FALSE
        /\ c.in_working = EmptyMap /\ c.failed = {} /\ c.epoch = k
        /\ c.acked = {} /\ c.delivered = {} /\ c.in_queue = <<>>
    BY DEF NewConnection
  <1>s. c = [sequence |-> c.sequence, ring |-> c.ring,
            next_message |-> c.next_message, working |-> c.working,
            out_queue |-> c.out_queue, posted |-> c.posted,
            in_working |-> c.in_working, in_queue |-> c.in_queue,
            failed |-> c.failed, epoch |-> c.epoch,
            acked |-> c.acked, delivered |-> c.delivered]
    BY DEF NewConnection
  <1> HIDE DEF c
  <1>e. IsMap(EmptyMap) /\ DOMAIN EmptyMap = {}
    BY DEF EmptyMap, IsMap
  <1>b. c.posted \in BOOLEAN
    BY <1>1
  <1>q. c.out_queue \in Seq(Packets)
    BY <1>1
  <1>w. /\ IsMap(c.working) /\ DOMAIN c.working = {}
        /\ IsMap(c.in_working) /\ DOMAIN c.in_working = {}
    BY <1>1, <1>e
  <1>n. /\ c.sequence \in Nat /\ c.next_message \in Nat /\ c.epoch \in Nat
        /\ c.ring = {} /\ c.acked = {} /\ c.delivered = {}
    BY <1>1
  <1>2. IsConnection(c)
    BY <1>s, <1>b, <1>q, <1>w, <1>n DEF IsConnection
  <1>3. QED
    BY <1>1, <1>2, <1>w DEF Steady, Consistent, Awake, c

(* The invariant of the specification with restarts.                       *)
RInv == QueuesTyped /\ \A n \in Nodes : Steady(con[n])

LEMMA SteadyStep ==
    ASSUME RInv, NEW n \in Nodes, NEW d, Steady(d), con' = [con EXCEPT ![n] = d],
           net' \subseteq Packets, dups' \in 0..MaxDup
    PROVE  RInv'
  <1>1. /\ con'[n] = d /\ \A m \in Nodes : m # n => con'[m] = con[m]
        /\ con' = [m \in Nodes |-> con'[m]]
    BY DEF RInv, QueuesTyped
  <1>2. \A m \in Nodes : Steady(con'[m])
    BY <1>1 DEF RInv
  <1>3. \A m \in Nodes : IsConnection(con'[m])
    BY <1>2 DEF Steady, Consistent
  <1>4. QED
    BY <1>1, <1>2, <1>3 DEF RInv, QueuesTyped

LEMMA DoSendSteady ==
    ASSUME RInv, NEW n \in Nodes, DoSend(n)
    PROVE  RInv'
  <1> DEFINE c == con[n]
  <1>c. Steady(c) /\ Consistent(c) /\ IsConnection(c)
    BY DEF RInv, Steady, Consistent
  <1>t. /\ c.out_queue \in Seq(Packets) /\ c.posted \in BOOLEAN /\ c.next_message \in Nat
        /\ GoodInput(c.in_working) /\ c.delivered \in SUBSET Ids
        /\ c.failed \subseteq MayFail
    BY <1>c DEF IsConnection, GoodInput, Steady
  <1>n. net \subseteq Packets /\ dups \in 0..MaxDup
    BY DEF RInv, QueuesTyped
  <1>p. ASSUME NEW s \in c.ring, NEW k \in Chunks(c.working[s])
        PROVE  Chunk(n, s, c.working[s], k) \in Packets
    <2>1. IsWorkingMessage(c.working[s]) /\ s \in Nat
      BY <1>c DEF Consistent, IsConnection
    <2>2. k \in Nat
      BY <2>1, UdpAssumption DEF IsWorkingMessage, Chunks
    <2>3. QED
      BY <2>1, <2>2, UdpAssumption DEF Packets, Chunk, IsWorkingMessage, MAX_MESSAGE_SIZE
  <1>1. CASE SendQueued(n)
    <2> DEFINE q == Tail(c.out_queue)
               b == c.posted
               d == WithQueue(c, q, b)
    <2>1. /\ con' = [con EXCEPT ![n] = [c EXCEPT !.out_queue = q]]
          /\ net' = net \cup {Head(c.out_queue)} /\ dups' = dups
          /\ c.out_queue # <<>> /\ b = TRUE
      BY <1>1, <1>t DEF SendQueued, RInv, QueuesTyped
    <2>2. q \in Seq(Packets) /\ Head(c.out_queue) \in Packets /\ b \in BOOLEAN
      BY <1>t, <2>1
    <2>3. [c EXCEPT !.out_queue = q] = d
      <3> DEFINE e == [c EXCEPT !.out_queue = q]
      <3>1. e = [c EXCEPT !.out_queue = q]
        OBVIOUS
      <3> HIDE DEF e
      <3>2. e = d
        BY <3>1, <1>c DEF WithQueue, WithInput, IsConnection
      <3>3. QED
        BY <3>2 DEF e
    <2>d. d = WithQueue(c, q, b)
      OBVIOUS
    <2> HIDE DEF q, b, d
    <2>4. Consistent(d) /\ d.failed = c.failed /\ d.posted = b
      BY <1>c, <2>2, <2>d, QueueConsistent
    <2>5. Steady(d)
      BY <1>t, <2>1, <2>4 DEF Steady, Awake
    <2>6. net' \subseteq Packets /\ dups' \in 0..MaxDup /\ con' = [con EXCEPT ![n] = d]
      BY <1>n, <2>1, <2>2, <2>3
    <2>7. QED
      BY <2>5, <2>6, SteadyStep
  <1>2. ASSUME NEW s \in c.ring, SendNext(n, s)
        PROVE  RInv'
    <2> DEFINE d == SentChunk([c EXCEPT !.next_message = RingIndex(c, s)],
                              s, TakeNextChunk(c.working[s]), c.working[s].next_send)
    <2>1. /\ CanSendNext(c.working[s]) /\ c.posted
          /\ con' = [con EXCEPT ![n] = d] /\ dups' = dups
          /\ net' = net \cup {Chunk(n, s, c.working[s], c.working[s].next_send)}
      BY <1>2 DEF SendNext
    <2>2. c.working[s].next_send \in Chunks(c.working[s])
      <3> DEFINE w == c.working[s]
      <3>1. IsWorkingMessage(w) /\ CanSendNext(w)
        BY <1>c, <2>1 DEF Consistent, IsConnection
      <3> HIDE DEF w
      <3>2. w.next_send \in Nat /\ w.next_send < w.total /\ w.total \in Nat
        BY <3>1, UdpAssumption DEF IsWorkingMessage, CanSendNext
      <3>3. QED
        BY <3>2 DEF Chunks, w
    <2>3. Consistent(d) /\ d.failed = c.failed /\ d.posted = c.posted
      BY <1>c, <2>1, SendNextConsistent
    <2> HIDE DEF d
    <2>4. Steady(d)
      BY <1>t, <2>1, <2>3 DEF Steady, Awake
    <2>5. net' \subseteq Packets /\ dups' \in 0..MaxDup
      BY <1>n, <1>p, <2>1, <2>2
    <2>6. QED
      BY <2>1, <2>4, <2>5, SteadyStep
  <1>3. ASSUME NEW s \in c.ring, NEW k \in Chunks(c.working[s]), SendAgain(n, s, k)
        PROVE  RInv'
    <2> DEFINE d == [c EXCEPT !.next_message = RingIndex(c, s),
                              !.working = Put(@, s, PopResend(c.working[s], k))]
    <2>1. /\ c.working[s].resends[k] > 0 /\ c.posted
          /\ con' = [con EXCEPT ![n] = d] /\ dups' = dups
          /\ net' = net \cup {Chunk(n, s, c.working[s], k)}
      BY <1>3 DEF SendAgain
    <2>2. Consistent(d) /\ d.failed = c.failed /\ d.posted = c.posted
      BY <1>c, <2>1, SendAgainConsistent
    <2> HIDE DEF d
    <2>3. Steady(d)
      BY <1>t, <2>1, <2>2 DEF Steady, Awake
    <2>4. net' \subseteq Packets /\ dups' \in 0..MaxDup
      BY <1>n, <1>p, <2>1
    <2>5. QED
      BY <2>1, <2>3, <2>4, SteadyStep
  <1>4. CASE SendNothing(n)
    <2> DEFINE i == IF c.ring = {} THEN 0
                    ELSE (c.next_message + 1) % Cardinality(c.ring)
    <2>1. PICK b \in BOOLEAN : con' = [con EXCEPT ![n].next_message = i, ![n].posted = b]
      BY <1>4 DEF SendNothing
    <2> DEFINE d == WithInput(c, i, c.out_queue, b, c.in_working,
                              c.in_queue, c.delivered)
    <2>2. i \in Nat
      <3>1. IsFiniteSet(c.ring) /\ Cardinality(c.ring) \in Nat
        BY <1>c, RingFinite
      <3>2. c.ring # {} => Cardinality(c.ring) # 0
        BY <3>1, FS_EmptySet
      <3>3. QED
        BY <3>1, <3>2, <1>t
    <2>3. c.out_queue = <<>> /\ \A s \in c.ring : ~HasWork(c.working[s])
      BY <1>4 DEF SendNothing
    <2>4. con' = [con EXCEPT ![n] = [c EXCEPT !.next_message = i, !.posted = b]]
          /\ net' = net /\ dups' = dups
      BY <1>4, <2>1 DEF RInv, QueuesTyped, SendNothing
    <2> HIDE DEF i
    <2>5. [c EXCEPT !.next_message = i, !.posted = b] = d
      <3> DEFINE e == [c EXCEPT !.next_message = i, !.posted = b]
      <3>1. e = [c EXCEPT !.next_message = i, !.posted = b]
        OBVIOUS
      <3> HIDE DEF e
      <3>2. e = d
        BY <3>1, <1>c DEF WithInput, IsConnection
      <3>3. QED
        BY <3>2 DEF e
    <2>6. /\ Consistent(d) /\ d.failed = c.failed /\ d.out_queue = c.out_queue
          /\ d.ring = c.ring /\ d.working = c.working
      BY <1>c, <1>t, <2>2, InputConsistent
    <2> HIDE DEF d
    <2>7. Steady(d)
      BY <1>t, <2>3, <2>6 DEF Steady, Awake
    <2>8. con' = [con EXCEPT ![n] = d] /\ net' \subseteq Packets /\ dups' \in 0..MaxDup
      BY <1>n, <2>4, <2>5
    <2>9. QED
      BY <2>7, <2>8, SteadyStep
  <1>5. QED
    BY <1>1, <1>2, <1>3, <1>4 DEF DoSend

RestartNext == Next \/ \E n \in Nodes : Restart(n)

LEMMA NextSteady ==
    ASSUME RInv, [RestartNext]_vars
    PROVE  RInv'
  <1>t. net \subseteq Packets /\ dups \in 0..MaxDup
    BY DEF RInv, QueuesTyped
  <1>s. \A n \in Nodes : Steady(con[n]) /\ Consistent(con[n]) /\ IsConnection(con[n])
    BY DEF RInv, Steady, Consistent
  <1>1. ASSUME NEW m \in Traffic, Send(m)
        PROVE  RInv'
    <2> DEFINE d == AddToWorkingSet(con[m.src], m)
    <2>1. m.src \in Nodes
      BY UdpAssumption
    <2>2. con' = [con EXCEPT ![m.src] = d] /\ net' = net /\ dups' = dups
      BY <1>1 DEF Send
    <2>3. Steady(d)
      BY <1>s, <2>1, AddSteady
    <2> HIDE DEF d
    <2>4. QED
      BY <1>t, <2>1, <2>2, <2>3, SteadyStep
  <1>2. ASSUME NEW n \in Nodes, Receive(n)
        PROVE  RInv'
    <2> DEFINE c == con[n]
               Q == Tail(c.in_queue)
               d == WithInput(c, c.next_message, c.out_queue, c.posted,
                              c.in_working, Q, c.delivered)
    <2>1. Steady(c) /\ Consistent(c) /\ IsConnection(c)
      BY <1>s
    <2>2. /\ GoodInput(c.in_working) /\ c.next_message \in Nat
          /\ c.posted \in BOOLEAN /\ c.delivered \in SUBSET Ids
          /\ c.out_queue \in Seq(Packets)
      BY <2>1 DEF IsConnection, GoodInput
    <2>3. /\ Consistent(d) /\ d.failed = c.failed /\ d.out_queue = c.out_queue
          /\ d.posted = c.posted /\ d.ring = c.ring /\ d.working = c.working
      BY <2>1, <2>2, InputConsistent
    <2>4. [c EXCEPT !.in_queue = Q] = d
      <3> DEFINE e == [c EXCEPT !.in_queue = Q]
      <3>1. e = [c EXCEPT !.in_queue = Q]
        OBVIOUS
      <3> HIDE DEF e
      <3>2. e = d
        BY <3>1, <2>1 DEF WithInput, IsConnection
      <3>3. QED
        BY <3>2 DEF e
    <2>5. con' = [con EXCEPT ![n] = [c EXCEPT !.in_queue = Q]]
          /\ net' = net /\ dups' = dups
      BY <1>2 DEF Receive, RInv, QueuesTyped
    <2>6. con' = [con EXCEPT ![n] = d]
      BY <2>4, <2>5
    <2> HIDE DEF d
    <2>7. Steady(d)
      BY <2>1, <2>3 DEF Steady, Awake
    <2>8. QED
      BY <1>t, <2>5, <2>6, <2>7, SteadyStep
  <1>3. ASSUME NEW n \in Nodes, DoSend(n)
        PROVE  RInv'
    BY <1>3, DoSendSteady
  <1>4. ASSUME NEW n \in Nodes, ResendTick(n)
        PROVE  RInv'
    <2> DEFINE d == Resend(con[n])
    <2>1. con' = [con EXCEPT ![n] = d] /\ net' = net /\ dups' = dups
          /\ con[n].failed = {}
      BY <1>4 DEF ResendTick, Alive
    <2>2. Steady(d)
      BY <1>s, <2>1, ResendSteady
    <2> HIDE DEF d
    <2>3. QED
      BY <1>t, <2>1, <2>2, SteadyStep
  <1>5. ASSUME NEW p \in net, Deliver(p) \/ Duplicate(p)
        PROVE  RInv'
    <2> DEFINE d == HandleRead(p.dst, con[p.dst], p)
    <2>1. p \in Packets /\ p.dst \in Nodes
      BY <1>t DEF Packets
    <2>2. con' = [con EXCEPT ![p.dst] = d]
      BY <1>5 DEF Deliver, Duplicate
    <2>3. net' \subseteq Packets /\ dups' \in 0..MaxDup
      BY <1>5, <1>t, UdpAssumption DEF Deliver, Duplicate
    <2>4. Steady(d)
      BY <1>s, <2>1, ReadSteady
    <2> HIDE DEF d
    <2>5. QED
      BY <2>1, <2>2, <2>3, <2>4, SteadyStep
  <1>6. ASSUME NEW n \in Nodes, Restart(n)
        PROVE  RInv'
    <2> DEFINE d == NewConnection(con[n].epoch + 1)
    <2>1. con' = [con EXCEPT ![n] = d] /\ net' = net /\ dups' = dups
      BY <1>6 DEF Restart
    <2>2. con[n].epoch + 1 \in Nat
      <3>1. con[n].epoch \in Nat
        BY <1>s DEF IsConnection
      <3>2. QED
        BY <3>1
    <2>3. Steady(d)
      BY <2>2, NewSteady
    <2> HIDE DEF d
    <2>4. QED
      BY <1>t, <2>1, <2>3, SteadyStep
  <1>7. ASSUME NEW p \in net, Lose(p)
        PROVE  RInv'
    BY <1>7 DEF Lose, RInv, QueuesTyped
  <1>8. CASE UNCHANGED vars
    BY <1>8 DEF vars, RInv, QueuesTyped
  <1>9. QED
    BY <1>1, <1>2, <1>3, <1>4, <1>5, <1>6, <1>7, <1>8 DEF RestartNext, Next

LEMMA RestartInvariance == RestartSpec => []RInv
  <1>1. Init => RInv
    <2>1. ASSUME Init PROVE QueuesTyped
      BY <2>1, InitIInv DEF IInv
    <2>2. ASSUME Init, NEW n \in Nodes PROVE Steady(con[n])
      BY <2>2, NewSteady DEF Init
    <2>3. QED
      BY <2>1, <2>2 DEF RInv
  <1>2. RInv /\ [RestartNext]_vars => RInv'
    BY NextSteady
  <1>3. RestartSpec => Init /\ [][RestartNext]_vars
    BY DEF RestartSpec, RestartNext
  <1>4. QED
    BY <1>1, <1>2, <1>3, PTL

(* A restart of any node at any moment leaves the types of every connection
   right, whatever of the old incarnation is still on its way.             *)
THEOREM RestartKeepsTypes == RestartSpec => []QueuesTyped
  <1>1. RInv => QueuesTyped
    BY DEF RInv
  <1>2. QED
    BY <1>1, RestartInvariance, PTL

(* Old acknowledgements never part the message ring from the working map, so
   cleanup_message's CHECK holds through restarts too.                     *)
THEOREM RestartKeepsRing == RestartSpec => []RingIsWorking
  <1>1. RInv => RingIsWorking
    BY DEF RInv, Steady, Consistent, RingIsWorking
  <1>2. QED
    BY <1>1, RestartInvariance, PTL

(* No wake-up is lost through restarts: old chunks and acknowledgements
   post a do_send like new ones (handle_read).                             *)
THEOREM RestartWakes == RestartSpec => []NeverStalls
  <1>1. RInv => NeverStalls
    BY DEF RInv, Steady, Awake, NeverStalls, Alive
  <1>2. QED
    BY <1>1, RestartInvariance, PTL

(* What restarts leave of the window: at most MAX_FLIGHT chunks in flight, and
   only chunks that this incarnation sent are sent again.                  *)
THEOREM RestartKeepsBound ==
    RestartSpec => [](\A n \in Nodes : \A s \in DOMAIN con[n].working :
                         Bounded(con[n].working[s]))
  <1>1. RInv => \A n \in Nodes : \A s \in DOMAIN con[n].working :
                   Bounded(con[n].working[s])
    BY DEF RInv, Steady, Consistent
  <1>2. QED
    BY <1>1, RestartInvariance, PTL

(* Without oversized messages the one contract that a restart can make fail
   is validate_chunk's: the last acknowledgement of a message of which a
   chunk was acknowledged to the old incarnation and is yet to be sent.    *)
THEOREM RestartFailures ==
    NoOverflow /\ RestartSpec => [](\A n \in Nodes : con[n].failed \subseteq {"validate_chunk"})
  <1>1. NoOverflow /\ RInv => \A n \in Nodes : con[n].failed \subseteq {"validate_chunk"}
    BY DEF RInv, Steady, MayFail
  <1>2. NoOverflow => []NoOverflow
    <2>1. NoOverflow => NoOverflow'
      BY DEF NoOverflow
    <2>2. QED
      BY <2>1, PTL
  <1>3. QED
    BY <1>1, <1>2, RestartInvariance, PTL

-----------------------------------------------------------------------------
(* The receiving side.  Reassembly is keyed by the sequence number alone, so
   most of what follows is said of a number up to `Crossed': unless two
   senders have used it for this receiver.                                 *)
ChunkSize(size, k) ==
    IF (k + 1) * UDP_CHuNK_SIZE <= size
    THEN UDP_CHuNK_SIZE ELSE size - k * UDP_CHuNK_SIZE

(* The messages sent so far: none has the number of another of the same
   sender.                                                                 *)
History(T, F) ==
    /\ T \subseteq Ids
    /\ \A i \in T : i.sequence <= F[i.src].sequence
    /\ \A i, j \in T : i.sequence = j.sequence /\ i.src = j.src => i = j

(* Chunk k of a message is delivered, or waits for the others.             *)
Got(c, id, k) ==
    \/ id \in c.delivered
    \/ /\ id.sequence \in DOMAIN c.in_working
       /\ k \in DOMAIN c.in_working[id.sequence].parts
       /\ c.in_working[id.sequence].parts[k] = id

(* A datagram is a chunk of the message p.id, or the acknowledgement of one,
   which p.src has got or refused for another sender's.                    *)
PacketOf(T, p) ==
    /\ p.id \in T
    /\ p.sequence = p.id.sequence
    /\ p.total = TotalChunks(p.id.size)
    /\ p.chunk \in 0..(p.total - 1)

ChunkOf(T, p) ==
    /\ PacketOf(T, p)
    /\ p.src = p.id.src /\ p.dst = p.id.dst
    /\ p.size = ChunkSize(p.id.size, p.chunk)

AckOf(T, F, p) ==
    /\ PacketOf(T, p)
    /\ p.src = p.id.dst /\ p.dst = p.id.src
    /\ Crossed(T, p.src, p.sequence) \/ Got(F[p.src], p.id, p.chunk)

TruePacket(T, F, p) == IF p.type = "ack" THEN AckOf(T, F, p) ELSE ChunkOf(T, p)

(* Node n's message s is the message w.id, and what is acknowledged of it
   has arrived.                                                            *)
TrueMessage(T, F, n, s, w) ==
    /\ w.id \in T
    /\ w.id.src = n /\ w.id.sequence = s
    /\ w.id.dst = w.dst /\ w.id.size = w.size
    /\ w.total = TotalChunks(w.size)
    /\ Crossed(T, w.dst, s) \/ \A k \in w.set : Got(F[w.dst], w.id, k)

(* Some chunks of one message, not all, and the size that is left when a
   short last chunk has come.                                              *)
SomeOf(id, e) ==
    /\ e.total = TotalChunks(id.size)
    /\ DOMAIN e.parts \subseteq 0..(e.total - 1)
    /\ DOMAIN e.parts # 0..(e.total - 1)
    /\ \A k \in DOMAIN e.parts : e.parts[k] = id
    /\ e.size = IF e.total - 1 \in DOMAIN e.parts
                THEN id.size ELSE e.total * UDP_CHuNK_SIZE

(* The parts are chunks of messages to n under the number s.               *)
PartsOf(T, n, s, parts) ==
    \A k \in DOMAIN parts :
        parts[k] \in T /\ parts[k].dst = n /\ parts[k].sequence = s

(* What n reassembles under number s.                                      *)
TruePartial(T, n, s, e) ==
    /\ PartsOf(T, n, s, e.parts)
    /\ \/ Crossed(T, n, s)
       \/ \E id \in T : /\ id.dst = n /\ id.sequence = s
                        /\ SomeOf(id, e) /\ DOMAIN e.parts # {}

(* One whole message.                                                      *)
Whole(m) ==
    /\ \A k \in DOMAIN m.parts : m.parts[k] = m.parts[0]
    /\ DOMAIN m.parts = 0..(TotalChunks(m.size) - 1)
    /\ m.size = m.parts[0].size
    /\ m.ep = m.parts[0].src

(* A message on the in queue.                                              *)
Intact(T, n, m) ==
    LET s == m.parts[0].sequence IN
    /\ PartsOf(T, n, s, m.parts)
    /\ Crossed(T, n, s) \/ Whole(m)

IsQueue(q) == \E S : q \in Seq(S)

(* Connection c of node n, in a world F of connections.                    *)
TrueConnection(T, F, n, c) ==
    /\ \A s \in DOMAIN c.working : TrueMessage(T, F, n, s, c.working[s])
    /\ \A i \in DOMAIN c.out_queue : TruePacket(T, F, c.out_queue[i])
    /\ \A s \in DOMAIN c.in_working : TruePartial(T, n, s, c.in_working[s])
    /\ IsQueue(c.in_queue)
    /\ \A i \in DOMAIN c.in_queue : Intact(T, n, c.in_queue[i])
    /\ \A id \in c.acked :
         id \in F[id.dst].delivered \/ Crossed(T, id.dst, id.sequence)

Delivery(T, F, N) ==
    /\ History(T, F)
    /\ \A n \in Nodes : TrueConnection(T, F, n, F[n])
    /\ \A p \in N : TruePacket(T, F, p)

(* What a receiver has got it keeps.                                       *)
Keeps(c, d) ==
    /\ c.delivered \subseteq d.delivered
    /\ \A id, k : Got(c, id, k) => Got(d, id, k)

(* The sizes of the chunks add up: all but the last are full, and the
   buffer is cut to what the last one leaves.                              *)
LEMMA ChunksAddUp ==
    ASSUME NEW size \in 1..MAX_MESSAGE_SIZE, NEW t, t = TotalChunks(size), t # 0
    PROVE  /\ t \in Nat \ {0}
           /\ \A k \in 0..(t - 1) : k # t - 1 => ChunkSize(size, k) = UDP_CHuNK_SIZE
           /\ t * UDP_CHuNK_SIZE - (UDP_CHuNK_SIZE - ChunkSize(size, t - 1)) = size
  <1> DEFINE U == UDP_CHuNK_SIZE
             M == MAX_CHUNKS
             q == size \div U
             r == size % U
             x == q + (IF r = 0 THEN 0 ELSE 1)
  <1>t. U \in Nat /\ U > 0 /\ M \in Nat /\ M > 0 /\ size \in Nat /\ size > 0
        /\ size <= M * U
    <2>1. M * U \in Nat
      BY UdpAssumption
    <2>2. QED
      BY <2>1, UdpAssumption DEF MAX_MESSAGE_SIZE
  <1>d. t = x % M
    BY DEF TotalChunks
  <1>c. \A k \in 0..(t - 1) :
          ChunkSize(size, k) = IF (k + 1) * U <= size THEN U ELSE size - k * U
    BY DEF ChunkSize
  <1>u. U = UDP_CHuNK_SIZE
    OBVIOUS
  <1> HIDE DEF U, M
  <1>1. q \in Int /\ r \in 0..(U - 1) /\ size = U * q + r
    BY <1>t
  <1> HIDE DEF q, r
  <1>2. q >= 0
    BY <1>1, <1>t
  <1>3. q <= M /\ (q = M => r = 0)
    <2>1. U * q <= M * U
      BY <1>1, <1>t
    <2>2. q <= M
      BY <2>1, <1>1, <1>t
    <2>3. QED
      BY <2>2, <1>1, <1>t
  <1>4. x \in 0..M
    BY <1>1, <1>2, <1>3, <1>t
  <1>5. t = x /\ t \in Nat \ {0}
    <2>1. x = M => x % M = 0
      BY <1>t
    <2>2. x < M => x % M = x
      BY <1>4, <1>t
    <2> HIDE DEF x
    <2>3. QED
      BY <1>4, <1>d, <2>1, <2>2, <1>t
  <1>6. ASSUME NEW k \in 0..(t - 1), k # t - 1
        PROVE  ChunkSize(size, k) = U
    <2>1. k + 1 <= q /\ k + 1 \in Nat
      BY <1>1, <1>2, <1>5, <1>6, <1>t
    <2>2. PICK d \in Nat : q = (k + 1) + d
      <3>1. q - (k + 1) \in Nat /\ q = (k + 1) + (q - (k + 1))
        BY <2>1, <1>1, <1>2
      <3>2. QED
        BY <3>1
    <2> DEFINE a == k + 1
    <2>5. U * q = a * U + d * U /\ d * U \in Nat /\ a * U \in Nat
      <3> HIDE DEF a
      <3>1. a \in Nat
        BY <2>1 DEF a
      <3>2. U * (a + d) = a * U + d * U
        BY <3>1, <2>2, <1>t
      <3>3. QED
        BY <3>1, <3>2, <2>2, <1>t DEF a
    <2>3. (k + 1) * U <= size
      <3> HIDE DEF a
      <3>1. a * U <= size
        BY <2>5, <1>1, <1>2, <1>t
      <3>2. QED
        BY <3>1 DEF a
    <2>4. QED
      BY <2>3, <1>c
  <1>7. t * U - (U - ChunkSize(size, t - 1)) = size
    <2>0. t - 1 \in 0..(t - 1)
      BY <1>5
    <2>1. CASE r = 0
      <3>1. t = q /\ size = t * U
        BY <2>1, <1>1, <1>5, <1>t
      <3>2. ChunkSize(size, t - 1) = U
        BY <3>1, <2>0, <1>c, <1>5, <1>t
      <3>3. QED
        BY <3>1, <3>2, <1>5, <1>t
    <2>2. CASE r # 0
      <3>0. t = q + 1 /\ t - 1 = q /\ r > 0 /\ r < U
        BY <2>2, <1>1, <1>2, <1>5, <1>t
      <3>m. U * q = q * U
        BY <1>1, <1>t
      <3>1. t = q + 1 /\ size = (t - 1) * U + r /\ r > 0 /\ r < U
        BY <3>0, <3>m, <1>1
      <3>2. t * U = (t - 1) * U + U /\ (t - 1) * U \in Nat
        BY <1>5, <1>t
      <3>3. ~(((t - 1) + 1) * U <= size)
        BY <3>1, <3>2, <1>1, <1>5, <1>t
      <3>4. ChunkSize(size, t - 1) = size - (t - 1) * U
        BY <3>3, <2>0, <1>c
      <3>5. QED
        BY <3>1, <3>2, <3>4, <1>1, <1>t
    <2>3. QED
      BY <2>1, <2>2
  <1>8. QED
    BY <1>5, <1>6, <1>7, <1>u

(* A number that two senders have used stays so; one that they have not
   belongs to one message.                                                 *)
LEMMA CrossedStays ==
    ASSUME NEW T, NEW S, T \subseteq S, NEW n, NEW s, Crossed(T, n, s)
    PROVE  Crossed(S, n, s)
  BY DEF Crossed

LEMMA Uncrossed ==
    ASSUME NEW T, NEW F, History(T, F), NEW n, NEW s, ~Crossed(T, n, s),
           NEW i \in T, NEW j \in T,
           i.dst = n, i.sequence = s, j.dst = n, j.sequence = s
    PROVE  i = j
  BY DEF Crossed, History

LEMMA KeepsPacket ==
    ASSUME NEW T, NEW S, T \subseteq S, NEW F, NEW G,
           \A n \in Nodes : Keeps(F[n], G[n]),
           NEW p, p.src \in Nodes, TruePacket(T, F, p)
    PROVE  TruePacket(S, G, p)
  BY CrossedStays DEF TruePacket, AckOf, ChunkOf, PacketOf, Keeps

LEMMA KeepsTrue ==
    ASSUME NEW T, NEW S, T \subseteq S, NEW F, NEW G,
           \A n \in Nodes : Keeps(F[n], G[n]),
           NEW n, NEW c, IsConnection(c), TrueConnection(T, F, n, c)
    PROVE  TrueConnection(S, G, n, c)
  <1>1. ASSUME NEW s \in DOMAIN c.working
        PROVE  TrueMessage(S, G, n, s, c.working[s])
    <2>1. c.working[s].dst \in Nodes
      BY DEF IsConnection, IsWorkingMessage
    <2>2. TrueMessage(T, F, n, s, c.working[s])
      BY DEF TrueConnection
    <2>3. QED
      BY <2>1, <2>2, CrossedStays DEF TrueMessage, Keeps
  <1>2. ASSUME NEW i \in DOMAIN c.out_queue
        PROVE  TruePacket(S, G, c.out_queue[i])
    <2>1. c.out_queue \in Seq(Packets) /\ c.out_queue[i] \in Packets
      BY DEF IsConnection
    <2>2. c.out_queue[i].src \in Nodes
      BY <2>1 DEF Packets
    <2>3. QED
      BY <2>2, KeepsPacket DEF TrueConnection
  <1>3. \A s \in DOMAIN c.in_working : TruePartial(S, n, s, c.in_working[s])
    BY CrossedStays DEF TrueConnection, TruePartial, PartsOf
  <1>4. ASSUME NEW id \in c.acked
        PROVE  id \in G[id.dst].delivered \/ Crossed(S, id.dst, id.sequence)
    BY CrossedStays DEF TrueConnection, IsConnection, Ids, Keeps
  <1>5. \A i \in DOMAIN c.in_queue : Intact(S, n, c.in_queue[i])
    BY CrossedStays DEF TrueConnection, Intact, PartsOf
  <1>6. QED
    BY <1>1, <1>2, <1>3, <1>4, <1>5 DEF TrueConnection

(* One connection runs a handler: what is left to show of it.              *)
LEMMA WorldStep ==
    ASSUME IInv, NEW T, NEW S, T \subseteq S, Delivery(T, con, net), History(S, con'),
           NEW n \in Nodes, \A m \in Nodes : m # n => con'[m] = con[m],
           Keeps(con[n], con'[n]), TrueConnection(S, con', n, con'[n]),
           \A p \in net' : p \in net \/ TruePacket(S, con', p)
    PROVE  Delivery(S, con', net')
  <1>1. \A m \in Nodes : Keeps(con[m], con'[m])
    BY DEF Keeps
  <1>2. \A m \in Nodes : TrueConnection(S, con', m, con'[m])
    <2>1. \A m \in Nodes : IsConnection(con[m])
      BY DEF IInv, QueuesTyped
    <2>2. QED
      BY <1>1, <2>1, KeepsTrue DEF Delivery
  <1>3. \A p \in net' : TruePacket(S, con', p)
    <2>1. net \subseteq Packets
      BY DEF IInv, QueuesTyped
    <2>2. QED
      BY <1>1, <2>1, KeepsPacket DEF Delivery, Packets
  <1>4. QED
    BY <1>2, <1>3 DEF Delivery

(* A handler that only sends or takes: messages and queued packets leave.  *)
Less(c, d) ==
    /\ d.sequence = c.sequence /\ d.delivered = c.delivered
    /\ d.in_working = c.in_working /\ d.acked = c.acked
    /\ NoNewMessages(c, d)
    /\ \A i \in DOMAIN d.out_queue :
         \E j \in DOMAIN c.out_queue : d.out_queue[i] = c.out_queue[j]
    /\ IsQueue(d.in_queue)
    /\ \A i \in DOMAIN d.in_queue :
         \E j \in DOMAIN c.in_queue : d.in_queue[i] = c.in_queue[j]

LEMMA LessKeeps ==
    ASSUME NEW c, NEW d, d.delivered = c.delivered, d.in_working = c.in_working
    PROVE  Keeps(c, d)
  BY DEF Keeps, Got

LEMMA LessTrue ==
    ASSUME NEW T, NEW F, NEW n, NEW c, NEW d, TrueConnection(T, F, n, c), Less(c, d)
    PROVE  TrueConnection(T, F, n, d)
  <1>1. ASSUME NEW s \in DOMAIN d.working
        PROVE  TrueMessage(T, F, n, s, d.working[s])
    <2>1. TrueMessage(T, F, n, s, c.working[s]) /\ Alike(c.working[s], d.working[s])
      BY DEF TrueConnection, Less, NoNewMessages
    <2>2. QED
      BY <2>1 DEF TrueMessage, Alike
  <1>2. \A i \in DOMAIN d.out_queue : TruePacket(T, F, d.out_queue[i])
    BY DEF TrueConnection, Less
  <1>3. \A i \in DOMAIN d.in_queue : Intact(T, n, d.in_queue[i])
    BY DEF TrueConnection, Less
  <1>4. QED
    BY <1>1, <1>2, <1>3 DEF TrueConnection, Less

LEMMA UntouchedLess ==
    ASSUME NEW c, NEW d, Untouched(c, d), NoNewMessages(c, d), IsQueue(c.in_queue)
    PROVE  Less(c, d)
  BY DEF Untouched, Less

(* A message of which every chunk has arrived is delivered: no reassembly
   entry is ever complete.                                                 *)
LEMMA AllGot ==
    ASSUME NEW T, NEW F, NEW n, NEW c, TrueConnection(T, F, n, c), NEW id \in Ids,
           \A k \in 0..(TotalChunks(id.size) - 1) : Got(c, id, k),
           TotalChunks(id.size) # 0, ~Crossed(T, n, id.sequence)
    PROVE  id \in c.delivered
  <1> DEFINE t == TotalChunks(id.size)
             e == c.in_working[id.sequence]
  <1>1. t \in Nat /\ t # 0 /\ 0 \in 0..(t - 1)
    BY TotalType, UdpAssumption DEF Ids
  <1> HIDE DEF t
  <1>2. ASSUME id \notin c.delivered
        PROVE  FALSE
    <2>1. \A k \in 0..(t - 1) : /\ id.sequence \in DOMAIN c.in_working
                               /\ k \in DOMAIN e.parts /\ e.parts[k] = id
      BY <1>2 DEF Got, t
    <2>2. PICK i \in T : SomeOf(i, e)
      BY <2>1, <1>1 DEF TrueConnection, TruePartial
    <2>3. i = id
      BY <2>1, <2>2, <1>1 DEF SomeOf
    <2>4. DOMAIN e.parts = 0..(t - 1)
      BY <2>1, <2>2, <2>3 DEF SomeOf, t
    <2>5. QED
      BY <2>2, <2>3, <2>4 DEF SomeOf, t
  <1>3. QED
    BY <1>2

OneMore(w, v, s, p) ==
    /\ v.id = w.id /\ v.dst = w.dst /\ v.size = w.size /\ v.total = w.total
    /\ v.set \subseteq w.set \cup (IF s = p.sequence THEN {p.chunk} ELSE {})

Acknowledged(c, p, d) ==
    /\ d.sequence = c.sequence /\ d.delivered = c.delivered
    /\ d.in_working = c.in_working /\ d.in_queue = c.in_queue
    /\ d.out_queue = c.out_queue
    /\ \A s \in DOMAIN d.working :
         s \in DOMAIN c.working /\ OneMore(c.working[s], d.working[s], s, p)
    /\ \/ d.acked = c.acked
       \/ LET w == c.working[p.sequence] IN
          /\ p.sequence \in DOMAIN c.working
          /\ d.acked = c.acked \cup {w.id}
          /\ w.set \cup {p.chunk} = Chunks(w)

(* validate_chunk: one chunk more is acknowledged, of the same messages, or
   one message is done.                                                    *)
LEMMA ValidateFrame ==
    ASSUME NEW c, ConnectionOK(c), NEW p, NEW d, d = ValidateChunk(c, p)
    PROVE  Acknowledged(c, p, d)
  <1> DEFINE s == p.sequence
             w == c.working[s]
             v == MarkAcked(w, p.chunk)
             W == Put(c.working, s, v)
             e == [c EXCEPT !.working = W]
             f == CleanupMessage(e, s)
             g == [f EXCEPT !.acked = @ \cup {v.id}]
             h == [e EXCEPT !.failed = @ \cup {"validate_chunk"}]
  <1>1. CASE d = c
    BY <1>1 DEF OneMore, Acknowledged
  <1>2. CASE s \in DOMAIN c.working /\ (d = e \/ d = h)
    <2>1. IsWorkingMessage(w) /\ IsConnection(c)
      BY <1>2 DEF ConnectionOK, IsConnection
    <2>2. /\ v.id = w.id /\ v.dst = w.dst /\ v.size = w.size
          /\ v.total = w.total /\ v.set = w.set \cup {p.chunk}
      BY <2>1 DEF MarkAcked, IsWorkingMessage
    <2>w. w = c.working[s]
      OBVIOUS
    <2> HIDE DEF v
    <2>3. DOMAIN W = DOMAIN c.working /\ W[s] = v
          /\ \A x \in DOMAIN W : x # s => W[x] = c.working[x]
      BY <1>2 DEF Put
    <2> HIDE DEF W, w
    <2>4. /\ d.sequence = c.sequence /\ d.delivered = c.delivered
          /\ d.in_working = c.in_working /\ d.in_queue = c.in_queue
          /\ d.out_queue = c.out_queue /\ d.acked = c.acked /\ d.working = W
      BY <1>2, <2>1 DEF IsConnection
    <2>5. QED
      BY <2>2, <2>3, <2>4, <2>w DEF OneMore, Acknowledged
  <1>3. CASE /\ s \in DOMAIN c.working /\ d = g
             /\ v.set = Chunks(v)
    <2>1. IsWorkingMessage(w) /\ IsConnection(c) /\ s \in c.ring
      BY <1>3 DEF ConnectionOK, IsConnection
    <2>2. /\ v.id = w.id /\ v.total = w.total /\ v.set = w.set \cup {p.chunk}
      BY <2>1 DEF MarkAcked, IsWorkingMessage
    <2>3. w.set \cup {p.chunk} = Chunks(w)
      BY <1>3, <2>2 DEF Chunks
    <2>w. w = c.working[s]
      OBVIOUS
    <2> HIDE DEF v
    <2>4. DOMAIN Without(W, {s}) = DOMAIN c.working \ {s}
          /\ \A x \in DOMAIN Without(W, {s}) : Without(W, {s})[x] = c.working[x]
      BY <1>3 DEF Put, Without
    <2> HIDE DEF W, w
    <2>a. e.ring = c.ring /\ e.working = W
      BY <2>1 DEF IsConnection
    <2>5. f = [e EXCEPT !.ring = e.ring \ {s}, !.working = Without(W, {s})]
      BY <2>1, <2>a DEF CleanupMessage
    <2>b. /\ f.sequence = c.sequence /\ f.delivered = c.delivered
          /\ f.in_working = c.in_working /\ f.in_queue = c.in_queue
          /\ f.out_queue = c.out_queue /\ f.acked = c.acked
          /\ f.working = Without(W, {s})
          /\ f = [sequence |-> f.sequence, ring |-> f.ring,
                  next_message |-> f.next_message, working |-> f.working,
                  out_queue |-> f.out_queue, posted |-> f.posted,
                  in_working |-> f.in_working, in_queue |-> f.in_queue,
                  failed |-> f.failed, epoch |-> f.epoch,
                  acked |-> f.acked, delivered |-> f.delivered]
      <3> HIDE DEF f
      <3>1. QED
        BY <2>1, <2>5 DEF IsConnection
    <2>c. d = g
      BY <1>3
    <2> HIDE DEF f
    <2>6. /\ d.sequence = c.sequence /\ d.delivered = c.delivered
          /\ d.in_working = c.in_working /\ d.in_queue = c.in_queue
          /\ d.out_queue = c.out_queue /\ d.acked = c.acked \cup {v.id}
          /\ d.working = Without(W, {s})
      BY <2>b, <2>c
    <2>7. \A x \in DOMAIN d.working : x \in DOMAIN c.working /\ d.working[x] = c.working[x]
      BY <2>4, <2>6
    <2>8. s \in DOMAIN c.working /\ d.acked = c.acked \cup {w.id}
      BY <1>3, <2>2, <2>6
    <2>9. QED
      BY <2>3, <2>6, <2>7, <2>8, <2>w DEF OneMore, Acknowledged
  <1>4. QED
    <2>1. \/ d = c
          \/ s \in DOMAIN c.working /\ (d = e \/ d = h)
          \/ s \in DOMAIN c.working /\ d = g /\ v.set = Chunks(v)
      <3> HIDE DEF v
      <3>1. d = IF \/ s \notin DOMAIN c.working
                   \/ p.chunk >= c.working[s].total
                   \/ p.total # c.working[s].total
                   \/ p.chunk \in c.working[s].set
                THEN c
                ELSE IF v.set # Chunks(v) THEN e
                ELSE IF ~AllSent(v) \/ v.in_flight # 0 \/ v.queued # 0
                THEN h ELSE g
        BY DEF ValidateChunk, v
      <3>2. QED
        BY <3>1
    <2>2. QED
      BY <2>1, <1>1, <1>2, <1>3

(* An acknowledgement counts for the message it is about, and the last one
   comes when all of it is delivered.                                      *)
LEMMA AckTrue ==
    ASSUME NEW T, NEW F, Delivery(T, F, {}), \A m \in Nodes : ConnectionOK(F[m]),
           NEW n \in Nodes, NEW p, AckOf(T, F, p), p.dst = n,
           NEW d, d = ValidateChunk(F[n], p)
    PROVE  TrueConnection(T, F, n, d) /\ Keeps(F[n], d)
  <1> DEFINE c == F[n]
             w == c.working[p.sequence]
  <1>c. ConnectionOK(c) /\ TrueConnection(T, F, n, c)
    BY DEF Delivery
  <1>d. c = F[n] /\ w = c.working[p.sequence] /\ d = ValidateChunk(c, p)
    OBVIOUS
  <1> HIDE DEF c, w
  <1>1. ASSUME p.sequence \in DOMAIN c.working
        PROVE  /\ p.id = w.id /\ p.src = w.dst /\ w.dst \in Nodes /\ w.id \in Ids
               /\ w.total = TotalChunks(w.id.size)
               /\ w.total # 0 /\ w.id.dst = w.dst /\ w.id.sequence = p.sequence
               /\ ~Crossed(T, w.dst, p.sequence) =>
                    /\ Got(F[w.dst], w.id, p.chunk)
                    /\ \A k \in w.set : Got(F[w.dst], w.id, k)
    <2>1. TrueMessage(T, F, n, p.sequence, w)
      BY <1>1, <1>c, <1>d DEF TrueConnection
    <2>2. p.id \in T /\ w.id \in T /\ p.id.src = n /\ p.id.sequence = p.sequence
      BY <2>1 DEF TrueMessage, AckOf, PacketOf
    <2>3. p.id = w.id
      BY <2>1, <2>2 DEF TrueMessage, Delivery, History
    <2>4. IsWorkingMessage(w)
      BY <1>1, <1>c, <1>d DEF ConnectionOK, IsConnection
    <2>5. w.dst \in Nodes /\ w.id \in Ids /\ w.total # 0
      BY <2>4, UdpAssumption DEF IsWorkingMessage
    <2>6. QED
      BY <2>1, <2>3, <2>5 DEF AckOf, PacketOf, TrueMessage
  <1>f. /\ d.sequence = c.sequence /\ d.delivered = c.delivered
        /\ d.in_working = c.in_working /\ d.in_queue = c.in_queue
        /\ d.out_queue = c.out_queue
        /\ \A s \in DOMAIN d.working :
             s \in DOMAIN c.working /\ OneMore(c.working[s], d.working[s], s, p)
        /\ \/ d.acked = c.acked
           \/ /\ p.sequence \in DOMAIN c.working
              /\ d.acked = c.acked \cup {w.id}
              /\ w.set \cup {p.chunk} = Chunks(w)
    <2>1. Acknowledged(c, p, d)
      BY <1>c, <1>d, ValidateFrame
    <2>2. QED
      BY <2>1, <1>d DEF Acknowledged
  <1>2. ASSUME NEW s \in DOMAIN d.working
        PROVE  TrueMessage(T, F, n, s, d.working[s])
    <2>1. TrueMessage(T, F, n, s, c.working[s])
      BY <1>c, <1>f DEF TrueConnection
    <2>2. ASSUME NEW k \in d.working[s].set, ~Crossed(T, c.working[s].dst, s)
          PROVE  Got(F[c.working[s].dst], c.working[s].id, k)
      <3>1. CASE k \in c.working[s].set
        BY <3>1, <2>1, <2>2 DEF TrueMessage
      <3>2. CASE s = p.sequence /\ k = p.chunk
        <4>1. p.sequence \in DOMAIN c.working /\ c.working[s] = w
          BY <3>2, <1>d, <1>f
        <4>2. ~Crossed(T, w.dst, p.sequence)
          BY <2>2, <3>2, <4>1
        <4>3. Got(F[w.dst], w.id, p.chunk)
          BY <1>1, <4>1, <4>2
        <4>4. QED
          BY <3>2, <4>1, <4>3
      <3>3. QED
        BY <3>1, <3>2, <2>2, <1>f DEF OneMore
    <2>3. QED
      BY <2>1, <2>2, <1>f DEF TrueMessage, OneMore
  <1>3. ASSUME NEW id \in d.acked
        PROVE  id \in F[id.dst].delivered \/ Crossed(T, id.dst, id.sequence)
    <2>1. CASE id \in c.acked
      BY <2>1, <1>c DEF TrueConnection
    <2>2. CASE id \notin c.acked /\ ~Crossed(T, id.dst, id.sequence)
      <3>1. /\ id = w.id /\ p.sequence \in DOMAIN c.working
            /\ w.set \cup {p.chunk} = Chunks(w)
        BY <2>2, <1>f
      <3>a. /\ w.total = TotalChunks(id.size) /\ w.total # 0 /\ id \in Ids
            /\ id.dst = w.dst /\ id.dst \in Nodes /\ id.sequence = p.sequence
        BY <3>1, <1>1
      <3>b. ~Crossed(T, w.dst, p.sequence)
        BY <2>2, <3>a
      <3>c. Got(F[w.dst], w.id, p.chunk) /\ \A k \in w.set : Got(F[w.dst], w.id, k)
        BY <3>1, <3>b, <1>1
      <3>2. \A k \in Chunks(w) : Got(F[id.dst], id, k)
        BY <3>1, <3>a, <3>c
      <3>3. \A k \in 0..(TotalChunks(id.size) - 1) : Got(F[id.dst], id, k)
        BY <3>2, <3>a DEF Chunks
      <3>4. id \in Ids /\ TotalChunks(id.size) # 0 /\ id.dst \in Nodes
        BY <3>a
      <3>5. TrueConnection(T, F, id.dst, F[id.dst])
        BY <3>4 DEF Delivery
      <3>6. QED
        BY <2>2, <3>3, <3>4, <3>5, AllGot
    <2>3. QED
      BY <2>1, <2>2
  <1>4. TrueConnection(T, F, n, d)
    BY <1>2, <1>3, <1>c, <1>f DEF TrueConnection
  <1>5. Keeps(c, d)
    BY <1>f, LessKeeps
  <1>6. QED
    BY <1>4, <1>5, <1>d

(* insert_chunk of a chunk that was sent: it adds to the entry of its own
   message, which is handed over when the last hole is filled.             *)
LEMMA OldPartial ==
    ASSUME NEW T, NEW F, Delivery(T, F, {}), NEW n \in Nodes,
           NEW p, ChunkOf(T, p), p.dst = n, ~Crossed(T, n, p.sequence),
           NEW e, e = Partial(F[n], p)
    PROVE  /\ SomeOf(p.id, e)
           /\ p.sequence \notin DOMAIN F[n].in_working => DOMAIN e.parts = {}
           /\ p.sequence \in DOMAIN F[n].in_working =>
                e = F[n].in_working[p.sequence]
           /\ DOMAIN e.parts = {} \/ p.sequence \in DOMAIN F[n].in_working
  <1>1. CASE p.sequence \in DOMAIN F[n].in_working
    <2>1. e = F[n].in_working[p.sequence]
      BY <1>1 DEF Partial
    <2>2. PICK id \in T : id.dst = n /\ id.sequence = p.sequence /\ SomeOf(id, e)
      BY <1>1, <2>1 DEF Delivery, TrueConnection, TruePartial
    <2>a. /\ History(T, F) /\ p.id \in T
          /\ p.id.dst = n /\ p.id.sequence = p.sequence
      BY DEF Delivery, ChunkOf, PacketOf
    <2>3. id = p.id
      BY <2>2, <2>a, Uncrossed
    <2>4. QED
      BY <1>1, <2>1, <2>2, <2>3
  <1>2. CASE p.sequence \notin DOMAIN F[n].in_working
    <2>1. e = [total |-> p.total, size |-> p.total * UDP_CHuNK_SIZE,
               parts |-> EmptyMap]
      BY <1>2 DEF Partial
    <2>2. e.total = p.total /\ e.size = p.total * UDP_CHuNK_SIZE /\ DOMAIN e.parts = {}
      BY <2>1 DEF EmptyMap
    <2>3. p.chunk \in 0..(p.total - 1) /\ p.total = TotalChunks(p.id.size)
      BY DEF ChunkOf, PacketOf
    <2>4. QED
      BY <1>2, <2>2, <2>3 DEF SomeOf
  <1>3. QED
    BY <1>1, <1>2

Filled(old, new, p) ==
    /\ new.total = p.total
    /\ DOMAIN new.parts = DOMAIN old.parts \cup {p.chunk}
    /\ DOMAIN new.parts \subseteq 0..(p.total - 1)
    /\ \A k \in DOMAIN new.parts : new.parts[k] = p.id
    /\ new.size = IF p.total - 1 \in DOMAIN new.parts
                  THEN p.id.size ELSE p.total * UDP_CHuNK_SIZE

NewPartial(old, p) ==
    [old EXCEPT !.size = IF p.chunk = old.total - 1
                         THEN @ - (UDP_CHuNK_SIZE - p.size) ELSE @,
                !.parts = Put(@, p.chunk, p.id)]

LEMMA FillTrue ==
    ASSUME NEW T, T \subseteq Ids, NEW p, ChunkOf(T, p), NEW old, IsPartial(old),
           SomeOf(p.id, old), p.chunk \notin DOMAIN old.parts,
           NEW new, new = NewPartial(old, p)
    PROVE  Filled(old, new, p)
  <1> DEFINE t == p.total
             id == p.id
             z == IF p.chunk = old.total - 1
                  THEN old.size - (UDP_CHuNK_SIZE - p.size) ELSE old.size
  <1>1. /\ id \in Ids /\ id.size \in 1..MAX_MESSAGE_SIZE
        /\ t = TotalChunks(id.size) /\ p.chunk \in 0..(t - 1)
        /\ p.size = ChunkSize(id.size, p.chunk)
    BY DEF ChunkOf, PacketOf, Ids
  <1>2. /\ new.total = old.total /\ new.size = z
        /\ new.parts = Put(old.parts, p.chunk, id)
    BY DEF IsPartial, NewPartial
  <1>3. /\ DOMAIN new.parts = DOMAIN old.parts \cup {p.chunk}
        /\ new.parts[p.chunk] = id
        /\ \A k \in DOMAIN old.parts : k # p.chunk => new.parts[k] = old.parts[k]
    BY <1>2 DEF Put
  <1>4. /\ old.total = t /\ DOMAIN old.parts \subseteq 0..(t - 1)
        /\ \A k \in DOMAIN old.parts : old.parts[k] = id
        /\ old.size = IF t - 1 \in DOMAIN old.parts
                      THEN id.size ELSE t * UDP_CHuNK_SIZE
    BY <1>1 DEF SomeOf
  <1>5. ASSUME p.chunk = t - 1
        PROVE  t * UDP_CHuNK_SIZE - (UDP_CHuNK_SIZE - p.size) = id.size
    <2> HIDE DEF t, id
    <2>1. t # 0
      <3>1. t \in Nat
        BY <1>1, TotalType, UdpAssumption
      <3>2. QED
        BY <1>1, <3>1
    <2>2. QED
      BY <1>1, <1>5, <2>1, ChunksAddUp
  <1>6. new.size = IF t - 1 \in DOMAIN new.parts
                   THEN id.size ELSE t * UDP_CHuNK_SIZE
    <2> HIDE DEF t, id
    <2>1. CASE p.chunk = t - 1
      BY <2>1, <1>2, <1>3, <1>4, <1>5
    <2>2. CASE p.chunk # t - 1
      BY <2>2, <1>2, <1>3, <1>4
    <2>3. QED
      BY <2>1, <2>2
  <1>7. QED
    BY <1>1, <1>2, <1>3, <1>4, <1>6 DEF Filled

LEMMA InsertUncrossed ==
    ASSUME NEW T, NEW F, Delivery(T, F, {}), NEW n \in Nodes,
           NEW p \in Packets, ChunkOf(T, p), p.dst = n, ~Crossed(T, n, p.sequence),
           NEW c, IsConnection(c), TrueConnection(T, F, n, c),
           c.in_working = F[n].in_working,
           NEW d, d = InsertChunk(c, p)
    PROVE  TrueConnection(T, F, n, d) /\ Keeps(c, d) /\ Got(d, p.id, p.chunk)
  <1> DEFINE s == p.sequence
             id == p.id
             old == Partial(c, p)
             new == NewPartial(old, p)
             t == p.total
             I == c.in_working
             m == [ep |-> p.src, size |-> new.size, parts |-> new.parts]
             D == {new.parts[k] : k \in DOMAIN new.parts}
  <1>1. /\ SomeOf(id, old)
        /\ s \notin DOMAIN I => DOMAIN old.parts = {}
        /\ s \in DOMAIN I => old = I[s]
    <2>1. old = Partial(F[n], p)
      BY DEF Partial
    <2>2. QED
      BY <2>1, OldPartial
  <1>2. /\ id \in T /\ id \in Ids /\ s = id.sequence /\ n = id.dst /\ p.src = id.src
        /\ t = TotalChunks(id.size) /\ p.chunk \in 0..(t - 1)
        /\ p.size = ChunkSize(id.size, p.chunk) /\ id.size \in 1..MAX_MESSAGE_SIZE
        /\ T \subseteq Ids
    BY DEF ChunkOf, PacketOf, Delivery, History, Ids
  <1>3. /\ t \in Nat \ {0}
        /\ p.chunk # t - 1 => p.size = UDP_CHuNK_SIZE
    <2> HIDE DEF t, id
    <2>1. t # 0
      <3>1. t \in Nat
        BY <1>2, TotalType, UdpAssumption
      <3>2. QED
        BY <1>2, <3>1
    <2>2. QED
      BY <1>2, <2>1, ChunksAddUp
  <1>4. IsPartial(old) /\ old.total = t
    <2>1. GoodInput(c.in_working)
      BY DEF IsConnection, GoodInput
    <2>2. QED
      BY <1>1, <1>2, <2>1, PartialOK DEF SomeOf
  <1>5. p.chunk \notin DOMAIN old.parts =>
          /\ new.total = t
          /\ DOMAIN new.parts = DOMAIN old.parts \cup {p.chunk}
          /\ DOMAIN new.parts \subseteq 0..(t - 1)
          /\ \A k \in DOMAIN new.parts : new.parts[k] = id
          /\ new.size = IF t - 1 \in DOMAIN new.parts
                        THEN id.size ELSE t * UDP_CHuNK_SIZE
    <2>1. new = NewPartial(old, p)
      OBVIOUS
    <2> HIDE DEF old, new
    <2>2. p.chunk \notin DOMAIN old.parts => Filled(old, new, p)
      BY <2>1, <1>1, <1>2, <1>4, FillTrue
    <2>3. QED
      BY <2>2 DEF Filled
  <1>6. d = IF \/ p.chunk >= old.total
               \/ p.total # old.total
               \/ p.chunk \in DOMAIN old.parts
               \/ p.chunk # old.total - 1 /\ p.size # UDP_CHuNK_SIZE
            THEN [c EXCEPT !.in_working = Put(I, s, old)]
            ELSE IF DOMAIN new.parts # 0..(new.total - 1)
            THEN [c EXCEPT !.in_working = Put(I, s, new)]
            ELSE [c EXCEPT !.in_working = Without(I, {s}),
                           !.in_queue = Append(@, m),
                           !.delivered = @ \cup D]
    BY DEF InsertChunk, NewPartial
  <1>m. m.ep = p.src /\ m.size = new.size /\ m.parts = new.parts
    OBVIOUS
  <1>d. \A x : x \in D <=> \E k \in DOMAIN new.parts : x = new.parts[k]
    OBVIOUS
  <1>i. I = c.in_working
    OBVIOUS
  <1> HIDE DEF old, new, m, D, t, id, s, I
  <1>c. \A x, k : Got(c, x, k) <=>
          \/ x \in c.delivered
          \/ /\ x.sequence \in DOMAIN I
             /\ k \in DOMAIN I[x.sequence].parts
             /\ I[x.sequence].parts[k] = x
    BY <1>i DEF Got
  <1>g. ASSUME NEW J, d.in_working = J, d.delivered = c.delivered,
               DOMAIN J = DOMAIN I \cup {s}, \A x \in DOMAIN I : x # s => J[x] = I[x],
               NEW e, J[s] = e, SomeOf(id, e), p.chunk \in DOMAIN e.parts,
               DOMAIN old.parts \subseteq DOMAIN e.parts,
               d.working = c.working, d.out_queue = c.out_queue,
               d.in_queue = c.in_queue, d.acked = c.acked
        PROVE  TrueConnection(T, F, n, d) /\ Keeps(c, d) /\ Got(d, id, p.chunk)
    <2>1. \A x, k : Got(d, x, k) <=>
            \/ x \in c.delivered
            \/ /\ x.sequence \in DOMAIN J
               /\ k \in DOMAIN J[x.sequence].parts
               /\ J[x.sequence].parts[k] = x
      BY <1>g DEF Got
    <2>2. Got(d, id, p.chunk)
      BY <2>1, <1>2, <1>g DEF SomeOf
    <2>3. ASSUME NEW x, NEW k, Got(c, x, k)
          PROVE  Got(d, x, k)
      <3>1. CASE x \in c.delivered
        BY <3>1, <2>1
      <3>2. CASE x \notin c.delivered /\ x.sequence # s
        BY <3>2, <2>1, <2>3, <1>c, <1>g
      <3>3. CASE x \notin c.delivered /\ x.sequence = s
        <4>1. s \in DOMAIN I /\ k \in DOMAIN old.parts /\ old.parts[k] = x
          BY <3>3, <2>3, <1>c, <1>1
        <4>2. x = id /\ k \in DOMAIN e.parts /\ e.parts[k] = id
          BY <4>1, <1>1, <1>g DEF SomeOf
        <4>3. QED
          BY <3>3, <4>2, <2>1, <1>g
      <3>4. QED
        BY <3>1, <3>2, <3>3
    <2>4. ASSUME NEW x \in DOMAIN J
          PROVE  TruePartial(T, n, x, J[x])
      <3>1. CASE x = s
        BY <3>1, <1>2, <1>g DEF TruePartial, PartsOf, SomeOf
      <3>2. CASE x # s
        BY <3>2, <1>g, <1>i DEF TrueConnection
      <3>3. QED
        BY <3>1, <3>2
    <2>5. QED
      BY <2>2, <2>3, <2>4, <1>g DEF TrueConnection, Keeps
  <1>7. CASE p.chunk \in DOMAIN old.parts
    <2> DEFINE J == Put(I, s, old)
    <2>1. d = [c EXCEPT !.in_working = J]
      BY <1>6, <1>7
    <2>2. DOMAIN J = DOMAIN I \cup {s} /\ J[s] = old
          /\ \A x \in DOMAIN I : x # s => J[x] = I[x]
      BY DEF Put
    <2> HIDE DEF J
    <2>3. /\ d.in_working = J /\ d.delivered = c.delivered
          /\ d.working = c.working /\ d.out_queue = c.out_queue
          /\ d.in_queue = c.in_queue /\ d.acked = c.acked
      BY <2>1 DEF IsConnection
    <2>4. QED
      BY <1>1, <1>7, <1>g, <2>2, <2>3 DEF id
  <1>8. CASE p.chunk \notin DOMAIN old.parts /\ DOMAIN new.parts # 0..(t - 1)
    <2> DEFINE J == Put(I, s, new)
    <2>1. d = [c EXCEPT !.in_working = J]
      BY <1>2, <1>3, <1>4, <1>5, <1>6, <1>8 DEF t
    <2>2. DOMAIN J = DOMAIN I \cup {s} /\ J[s] = new
          /\ \A x \in DOMAIN I : x # s => J[x] = I[x]
      BY DEF Put
    <2> HIDE DEF J
    <2>3. /\ d.in_working = J /\ d.delivered = c.delivered
          /\ d.working = c.working /\ d.out_queue = c.out_queue
          /\ d.in_queue = c.in_queue /\ d.acked = c.acked
      BY <2>1 DEF IsConnection
    <2>4. SomeOf(id, new)
      BY <1>2, <1>5, <1>8 DEF SomeOf
    <2>5. p.chunk \in DOMAIN new.parts /\ DOMAIN old.parts \subseteq DOMAIN new.parts
      BY <1>5, <1>8
    <2>6. QED
      BY <1>g, <2>2, <2>3, <2>4, <2>5 DEF id
  <1>9. CASE p.chunk \notin DOMAIN old.parts /\ DOMAIN new.parts = 0..(t - 1)
    <2> DEFINE J == Without(I, {s})
               Q == Append(c.in_queue, m)
               E == c.delivered \cup D
    <2>1. d = [c EXCEPT !.in_working = J, !.in_queue = Q, !.delivered = E]
      BY <1>2, <1>3, <1>4, <1>5, <1>6, <1>9 DEF t
    <2>2. DOMAIN J = DOMAIN I \ {s} /\ \A x \in DOMAIN J : J[x] = I[x]
      BY DEF Without
    <2>3. new.size = id.size /\ id \in E /\ c.delivered \subseteq E
          /\ 0 \in DOMAIN new.parts
      BY <1>3, <1>5, <1>9, <1>d
    <2>4. Intact(T, n, m)
      <3>1. PartsOf(T, n, s, m.parts) /\ m.parts[0].sequence = s
        BY <1>2, <1>5, <1>9, <1>m, <2>3 DEF PartsOf
      <3>2. Whole(m)
        BY <1>2, <1>5, <1>9, <1>m, <2>3 DEF Whole
      <3>3. QED
        BY <3>1, <3>2 DEF Intact
    <2>5. IsQueue(Q) /\ \A i \in DOMAIN Q : Intact(T, n, Q[i])
      <3>1. PICK S : c.in_queue \in Seq(S)
        BY DEF TrueConnection, IsQueue
      <3>2. Q \in Seq(S \cup {m}) /\ \A i \in DOMAIN Q :
              (i \in DOMAIN c.in_queue /\ Q[i] = c.in_queue[i]) \/ Q[i] = m
        BY <3>1
      <3>3. QED
        BY <3>2, <2>4 DEF TrueConnection, IsQueue
    <2> HIDE DEF J, Q, E
    <2>6. /\ d.in_working = J /\ d.delivered = E
          /\ d.working = c.working /\ d.out_queue = c.out_queue
          /\ d.in_queue = Q /\ d.acked = c.acked
      BY <2>1 DEF IsConnection
    <2>7. ASSUME NEW x, NEW k, Got(c, x, k)
          PROVE  Got(d, x, k)
      <3>1. CASE x \in c.delivered
        BY <3>1, <2>3, <2>6 DEF Got
      <3>2. CASE x \notin c.delivered /\ x.sequence # s
        BY <3>2, <2>2, <2>6, <2>7, <1>c DEF Got
      <3>3. CASE x \notin c.delivered /\ x.sequence = s
        <4>1. s \in DOMAIN I /\ k \in DOMAIN old.parts /\ old.parts[k] = x
          BY <3>3, <2>7, <1>c, <1>1
        <4>2. x = id
          BY <4>1, <1>1 DEF SomeOf
        <4>3. QED
          BY <4>2, <2>3, <2>6 DEF Got
      <3>4. QED
        BY <3>1, <3>2, <3>3
    <2>8. \A x \in DOMAIN J : TruePartial(T, n, x, J[x])
      BY <2>2, <1>i DEF TrueConnection
    <2>9. QED
      BY <2>3, <2>5, <2>6, <2>7, <2>8 DEF TrueConnection, Keeps, Got, id
  <1>10. QED
    BY <1>7, <1>8, <1>9 DEF id

(* A chunk whose number two senders have used is refused, fills a hole of
   the other's message or starts one: what the node has got it keeps.      *)
LEMMA InsertCrossed ==
    ASSUME NEW T, NEW F, NEW n \in Nodes,
           NEW p \in Packets, ChunkOf(T, p), p.dst = n, Crossed(T, n, p.sequence),
           NEW c, IsConnection(c), TrueConnection(T, F, n, c),
           NEW d, d = InsertChunk(c, p)
    PROVE  TrueConnection(T, F, n, d) /\ Keeps(c, d)
  <1> DEFINE s == p.sequence
             old == Partial(c, p)
             new == NewPartial(old, p)
             I == c.in_working
             m == [ep |-> p.src, size |-> new.size, parts |-> new.parts]
             D == {new.parts[k] : k \in DOMAIN new.parts}
  <1>1. p.id \in T /\ p.id.dst = n /\ p.id.sequence = s /\ p.chunk \in Nat
    BY DEF ChunkOf, PacketOf, Packets
  <1>2. IsPartial(old)
    BY PartialOK DEF IsConnection, GoodInput
  <1>3. PartsOf(T, n, s, old.parts) /\ (s \in DOMAIN I => old = I[s])
        /\ (s \notin DOMAIN I => DOMAIN old.parts = {})
    <2>1. CASE s \in DOMAIN I
      BY <2>1 DEF Partial, TrueConnection, TruePartial
    <2>2. CASE s \notin DOMAIN I
      <3>1. old = [total |-> p.total, size |-> p.total * UDP_CHuNK_SIZE,
                   parts |-> EmptyMap]
        BY <2>2 DEF Partial
      <3>2. DOMAIN old.parts = {}
        BY <3>1 DEF EmptyMap
      <3>3. QED
        BY <2>2, <3>2 DEF PartsOf
    <2>3. QED
      BY <2>1, <2>2
  <1>4. new.parts = Put(old.parts, p.chunk, p.id) /\ new.total = old.total
    <2>1. old = [total |-> old.total, size |-> old.size, parts |-> old.parts]
      BY <1>2 DEF IsPartial
    <2> HIDE DEF old
    <2>2. QED
      BY <2>1 DEF NewPartial
  <1>5. /\ DOMAIN new.parts = DOMAIN old.parts \cup {p.chunk}
        /\ new.parts[p.chunk] = p.id
        /\ \A k \in DOMAIN old.parts : k # p.chunk => new.parts[k] = old.parts[k]
    BY <1>4 DEF Put
  <1>6. d = IF \/ p.chunk >= old.total
               \/ p.total # old.total
               \/ p.chunk \in DOMAIN old.parts
               \/ p.chunk # old.total - 1 /\ p.size # UDP_CHuNK_SIZE
            THEN [c EXCEPT !.in_working = Put(I, s, old)]
            ELSE IF DOMAIN new.parts # 0..(new.total - 1)
            THEN [c EXCEPT !.in_working = Put(I, s, new)]
            ELSE [c EXCEPT !.in_working = Without(I, {s}),
                           !.in_queue = Append(@, m),
                           !.delivered = @ \cup D]
    BY DEF InsertChunk, NewPartial
  <1>m. m.parts = new.parts
    OBVIOUS
  <1>d. \A x : x \in D <=> \E k \in DOMAIN new.parts : x = new.parts[k]
    OBVIOUS
  <1>s. s = p.sequence /\ I = c.in_working
    OBVIOUS
  <1>t. old.total \in Nat
    BY <1>2 DEF IsPartial
  <1> HIDE DEF old, new, m, D, s, I
  <1>7. PartsOf(T, n, s, new.parts)
    BY <1>1, <1>3, <1>5 DEF PartsOf
  <1>8. ASSUME NEW e, PartsOf(T, n, s, e.parts), NEW J, J = Put(I, s, e),
               \A k \in DOMAIN old.parts : k \in DOMAIN e.parts /\ e.parts[k] = old.parts[k],
               d = [c EXCEPT !.in_working = J]
        PROVE  TrueConnection(T, F, n, d) /\ Keeps(c, d)
    <2>1. DOMAIN J = DOMAIN I \cup {s} /\ J[s] = e
          /\ \A x \in DOMAIN I : x # s => J[x] = I[x]
      BY <1>8 DEF Put
    <2>2. /\ d.in_working = J /\ d.delivered = c.delivered
          /\ d.working = c.working /\ d.out_queue = c.out_queue
          /\ d.in_queue = c.in_queue /\ d.acked = c.acked
      BY <1>8 DEF IsConnection
    <2>3. \A x \in DOMAIN J : TruePartial(T, n, x, J[x])
      BY <1>8, <1>s, <2>1 DEF TrueConnection, TruePartial
    <2>4. ASSUME NEW x, NEW k, Got(c, x, k)
          PROVE  Got(d, x, k)
      BY <1>3, <1>8, <1>s, <2>1, <2>2, <2>4 DEF Got
    <2>5. QED
      BY <2>2, <2>3, <2>4 DEF TrueConnection, Keeps
  <1>9. CASE d = [c EXCEPT !.in_working = Put(I, s, old)]
    BY <1>3, <1>8, <1>9
  <1>10. CASE /\ p.chunk \notin DOMAIN old.parts
              /\ d = [c EXCEPT !.in_working = Put(I, s, new)]
    <2>1. \A k \in DOMAIN old.parts :
            k \in DOMAIN new.parts /\ new.parts[k] = old.parts[k]
      BY <1>5, <1>10
    <2>2. QED
      BY <1>7, <1>8, <1>10, <2>1
  <1>11. CASE /\ p.chunk \notin DOMAIN old.parts /\ ~(p.chunk >= old.total)
              /\ DOMAIN new.parts = 0..(new.total - 1)
              /\ d = [c EXCEPT !.in_working = Without(I, {s}),
                               !.in_queue = Append(@, m),
                               !.delivered = @ \cup D]
    <2> DEFINE J == Without(I, {s})
               Q == Append(c.in_queue, m)
               E == c.delivered \cup D
    <2>1. d = [c EXCEPT !.in_working = J, !.in_queue = Q, !.delivered = E]
      BY <1>11
    <2>2. DOMAIN J = DOMAIN I \ {s} /\ \A x \in DOMAIN J : J[x] = I[x]
      BY DEF Without
    <2>3. 0 \in DOMAIN new.parts
      BY <1>1, <1>4, <1>11, <1>t
    <2>4. Intact(T, n, m)
      BY <1>7, <1>m, <1>s, <2>3 DEF Intact, PartsOf
    <2>5. IsQueue(Q) /\ \A i \in DOMAIN Q : Intact(T, n, Q[i])
      <3>1. PICK S : c.in_queue \in Seq(S)
        BY DEF TrueConnection, IsQueue
      <3>2. Q \in Seq(S \cup {m}) /\ \A i \in DOMAIN Q :
              (i \in DOMAIN c.in_queue /\ Q[i] = c.in_queue[i]) \/ Q[i] = m
        BY <3>1
      <3>3. QED
        BY <3>2, <2>4 DEF TrueConnection, IsQueue
    <2>e. E = c.delivered \cup D
      OBVIOUS
    <2> HIDE DEF J, Q, E
    <2>6. /\ d.in_working = J /\ d.delivered = E
          /\ d.working = c.working /\ d.out_queue = c.out_queue
          /\ d.in_queue = Q /\ d.acked = c.acked
      BY <2>1 DEF IsConnection
    <2>7. ASSUME NEW x, NEW k, Got(c, x, k)
          PROVE  Got(d, x, k)
      <3>1. CASE x \in c.delivered
        BY <3>1, <2>e, <2>6 DEF Got
      <3>2. CASE x \notin c.delivered /\ x.sequence # s
        BY <3>2, <2>2, <2>6, <2>7, <1>s DEF Got
      <3>3. CASE x \notin c.delivered /\ x.sequence = s
        <4>1. s \in DOMAIN I /\ k \in DOMAIN old.parts /\ old.parts[k] = x
          BY <3>3, <2>7, <1>3, <1>s DEF Got
        <4>2. x \in D
          BY <4>1, <1>5, <1>11, <1>d
        <4>3. QED
          BY <4>2, <2>e, <2>6 DEF Got
      <3>4. QED
        BY <3>1, <3>2, <3>3
    <2>8. \A x \in DOMAIN J : TruePartial(T, n, x, J[x])
      BY <2>2, <1>s DEF TrueConnection
    <2>9. \A id \in d.acked : id \in F[id.dst].delivered \/ Crossed(T, id.dst, id.sequence)
      BY <2>6 DEF TrueConnection
    <2>10. /\ \A x \in DOMAIN d.working : TrueMessage(T, F, n, x, d.working[x])
           /\ \A i \in DOMAIN d.out_queue : TruePacket(T, F, d.out_queue[i])
      BY <2>6 DEF TrueConnection
    <2>11. /\ \A x \in DOMAIN d.in_working : TruePartial(T, n, x, d.in_working[x])
           /\ IsQueue(d.in_queue) /\ \A i \in DOMAIN d.in_queue : Intact(T, n, d.in_queue[i])
      BY <2>5, <2>6, <2>8
    <2>12. TrueConnection(T, F, n, d)
      BY <2>9, <2>10, <2>11 DEF TrueConnection
    <2>13. Keeps(c, d)
      BY <2>7, <2>6, <2>e DEF Keeps
    <2>14. QED
      BY <2>12, <2>13
  <1>12. QED
    BY <1>6, <1>9, <1>10, <1>11

LEMMA InsertTrue ==
    ASSUME NEW T, NEW F, Delivery(T, F, {}), NEW n \in Nodes,
           NEW p \in Packets, ChunkOf(T, p), p.dst = n, IsConnection(F[n]),
           NEW d, d = InsertChunk(F[n], p)
    PROVE  /\ TrueConnection(T, F, n, d) /\ Keeps(F[n], d)
           /\ Crossed(T, n, p.sequence) \/ Got(d, p.id, p.chunk)
  <1>1. TrueConnection(T, F, n, F[n])
    BY DEF Delivery
  <1>2. QED
    BY <1>1, InsertUncrossed, InsertCrossed

(* The handlers of the sending side, receive() and the timer.              *)
LEMMA LessStep ==
    ASSUME IInv, IInv', NEW T, Delivery(T, con, net),
           NEW n \in Nodes, NEW d, Less(con[n], d), con' = [con EXCEPT ![n] = d],
           \A p \in net' : p \in net \/ TruePacket(T, con, p)
    PROVE  Delivery(T, con', net')
  <1>1. con'[n] = d /\ \A m \in Nodes : m # n => con'[m] = con[m]
    BY DEF IInv, QueuesTyped
  <1>2. \A m \in Nodes : IsConnection(con[m]) /\ IsConnection(con'[m])
    BY DEF IInv, QueuesTyped
  <1>3. \A m \in Nodes : Keeps(con[m], con'[m]) /\ con'[m].sequence = con[m].sequence
    <2>1. Keeps(con[n], d) /\ d.sequence = con[n].sequence
      BY LessKeeps DEF Less
    <2>2. QED
      BY <1>1, <2>1 DEF Keeps
  <1>4. TrueConnection(T, con', n, d)
    <2>1. TrueConnection(T, con, n, d)
      BY LessTrue DEF Delivery
    <2>2. QED
      BY <1>1, <1>2, <1>3, <2>1, KeepsTrue
  <1>5. \A p \in net' : p.src \in Nodes
    BY DEF IInv, QueuesTyped, Packets
  <1>6. \A p \in net' : p \in net \/ TruePacket(T, con', p)
    BY <1>3, <1>5, KeepsPacket
  <1>7. History(T, con')
    BY <1>3 DEF Delivery, History, Ids
  <1>8. QED
    BY <1>1, <1>3, <1>4, <1>6, <1>7, WorldStep

(* send() makes one message more.                                          *)
LEMMA SendTrue ==
    ASSUME IInv, IInv', NEW T, Delivery(T, con, net),
           NEW m \in Traffic, Send(m)
    PROVE  Delivery(IF TotalChunks(m.size) = 0
                    THEN T ELSE T \cup {NewId(con[m.src], m)}, con', net')
  <1> DEFINE n == m.src
             c == con[n]
             d == AddToWorkingSet(c, m)
             s == c.sequence + 1
             id == NewId(c, m)
             w == WorkingMessage(id, m)
             S == T \cup {id}
  <1>1. /\ n \in Nodes /\ con' = [con EXCEPT ![n] = d] /\ net' = net
        /\ m.dst \in Nodes /\ m.size \in 1..MAX_MESSAGE_SIZE
    BY UdpAssumption DEF Send
  <1>2. \A x \in Nodes : ConnectionOK(con[x]) /\ IsConnection(con[x])
                          /\ IsConnection(con'[x])
    BY ConnectionsOK DEF IInv, QueuesTyped
  <1>3. TrueConnection(T, con, n, c) /\ IsQueue(c.in_queue)
    BY <1>1 DEF Delivery, TrueConnection
  <1>4. CASE TotalChunks(m.size) = 0
    <2>1. d = [c EXCEPT !.failed = @ \cup {"total_chunks"}]
      BY <1>4 DEF AddToWorkingSet
    <2> HIDE DEF d
    <2>2. Untouched(c, d) /\ d.working = c.working
      BY <1>1, <1>2, <2>1 DEF IsConnection, Untouched
    <2>3. Less(c, d)
      BY <1>3, <2>2, UntouchedLess DEF NoNewMessages, Alike
    <2>4. QED
      BY <1>1, <1>4, <2>3, LessStep
  <1>5. CASE TotalChunks(m.size) # 0
    <2>1. /\ d.sequence = s /\ d.out_queue = c.out_queue
          /\ d.in_working = c.in_working /\ d.in_queue = c.in_queue
          /\ d.delivered = c.delivered /\ d.acked = c.acked
          /\ d.working = Put(c.working, s, w)
      BY <1>1, <1>2, <1>5, AddFrame
    <2>2. /\ id \in Ids /\ id.src = n /\ id.dst = m.dst /\ id.size = m.size
          /\ id.sequence = s /\ s \in Nat
      <3>1. c.sequence \in Nat
        BY <1>1, <1>2 DEF IsConnection
      <3>2. id \in Ids
        BY <1>1, <1>2, NewIdType
      <3>3. QED
        BY <3>1, <3>2 DEF NewId
    <2>3. /\ w.id = id /\ w.dst = m.dst /\ w.size = m.size
          /\ w.total = TotalChunks(m.size) /\ w.set = {}
      BY DEF WorkingMessage
    <2>4. con'[n] = d /\ \A x \in Nodes : x # n => con'[x] = con[x]
      BY <1>1 DEF IInv, QueuesTyped
    <2>c. c = con[n]
      OBVIOUS
    <2>q. c.sequence \in Nat /\ s = c.sequence + 1
      BY <1>1, <1>2 DEF IsConnection
    <2>u. T \subseteq S /\ id \in S /\ \A i \in S : i \in T \/ i = id
      OBVIOUS
    <2>w. /\ DOMAIN d.working = DOMAIN c.working \cup {s} /\ d.working[s] = w
          /\ \A x \in DOMAIN c.working : x # s => d.working[x] = c.working[x]
      BY <2>1 DEF Put
    <2> HIDE DEF d, id, w, s, c, S
    <2>5. \A x \in Nodes : Keeps(con[x], con'[x])
      <3>1. Keeps(c, d)
        BY <2>1, LessKeeps
      <3>2. QED
        BY <2>4, <2>c, <3>1 DEF Keeps
    <2>6. History(S, con')
      <3>1. \A i \in T : /\ i \in Ids /\ i.src \in Nodes /\ i.sequence \in Nat
                        /\ i.sequence <= con[i.src].sequence
        BY DEF Delivery, History, Ids
      <3>2. ASSUME NEW i \in T, i.src = n
            PROVE  i.sequence # s
        BY <3>1, <3>2, <2>c, <2>q
      <3>3. ASSUME NEW i \in S
            PROVE  i \in Ids /\ i.sequence <= con'[i.src].sequence
        <4>1. CASE i = id
          BY <4>1, <2>1, <2>2, <2>4
        <4>2. CASE i \in T /\ i.src = n
          BY <4>2, <3>1, <2>1, <2>4, <2>c, <2>q
        <4>3. CASE i \in T /\ i.src # n
          BY <4>3, <3>1, <2>4
        <4>4. QED
          BY <4>1, <4>2, <4>3, <2>u
      <3>4. ASSUME NEW i \in S, NEW j \in S, i.sequence = j.sequence,
                   i.src = j.src
            PROVE  i = j
        <4>1. CASE i \in T /\ j \in T
          BY <4>1, <3>4 DEF Delivery, History
        <4>2. QED
          BY <4>1, <3>2, <3>4, <2>u, <2>2
      <3>5. QED
        BY <3>3, <3>4 DEF History
    <2>7. TrueConnection(S, con', n, d)
      <3>1. TrueConnection(S, con', n, c)
        <4>1. IsConnection(c)
          BY <1>1, <1>2, <2>c
        <4>2. QED
          BY <1>3, <2>5, <2>u, <4>1, KeepsTrue
      <3>2. TrueMessage(S, con', n, s, w)
        BY <2>2, <2>3, <2>u DEF TrueMessage
      <3>3. \A x \in DOMAIN d.working : TrueMessage(S, con', n, x, d.working[x])
        BY <3>1, <3>2, <2>w DEF TrueConnection
      <3>4. QED
        BY <3>1, <3>3, <2>1 DEF TrueConnection
    <2>8. Delivery(S, con', net')
      <3>1. Keeps(con[n], con'[n]) /\ TrueConnection(S, con', n, con'[n])
        BY <1>1, <2>4, <2>5, <2>7
      <3>2. QED
        BY <1>1, <2>4, <2>6, <2>u, <3>1, WorldStep
    <2>9. QED
      BY <1>5, <2>8 DEF S, id, c
  <1>6. QED
    BY <1>4, <1>5

(* What insert_chunk does depends on the receiving side alone.             *)
LEMMA InsertAlone ==
    ASSUME NEW c, IsConnection(c), NEW e, IsConnection(e), NEW p,
           e.in_working = c.in_working, e.in_queue = c.in_queue,
           e.delivered = c.delivered,
           NEW d, d = InsertChunk(c, p), NEW f, f = InsertChunk(e, p)
    PROVE  /\ f.in_working = d.in_working /\ f.in_queue = d.in_queue
           /\ f.delivered = d.delivered
           /\ d.sequence = c.sequence /\ d.working = c.working
           /\ d.acked = c.acked /\ d.out_queue = c.out_queue
           /\ f.sequence = e.sequence /\ f.working = e.working
           /\ f.acked = e.acked /\ f.out_queue = e.out_queue
  <1> DEFINE old == Partial(c, p)
             new == NewPartial(old, p)
             m == [ep |-> p.src, size |-> new.size, parts |-> new.parts]
             A == Put(c.in_working, p.sequence, old)
             B == Put(c.in_working, p.sequence, new)
             W == Without(c.in_working, {p.sequence})
             Q == Append(c.in_queue, m)
             D == c.delivered \cup {new.parts[k] : k \in DOMAIN new.parts}
             drop == \/ p.chunk >= old.total
                     \/ p.total # old.total
                     \/ p.chunk \in DOMAIN old.parts
                     \/ p.chunk # old.total - 1 /\ p.size # UDP_CHuNK_SIZE
             more == DOMAIN new.parts # 0..(new.total - 1)
  <1>1. d = IF drop THEN [c EXCEPT !.in_working = A]
            ELSE IF more THEN [c EXCEPT !.in_working = B]
            ELSE [c EXCEPT !.in_working = W, !.in_queue = Q, !.delivered = D]
    BY DEF InsertChunk, NewPartial
  <1>2. f = IF drop THEN [e EXCEPT !.in_working = A]
            ELSE IF more THEN [e EXCEPT !.in_working = B]
            ELSE [e EXCEPT !.in_working = W, !.in_queue = Q, !.delivered = D]
    <2>1. Partial(e, p) = old
      BY DEF Partial
    <2>2. QED
      BY <2>1 DEF InsertChunk, NewPartial
  <1> HIDE DEF A, B, W, Q, D, drop, more
  <1>3. CASE drop
    BY <1>1, <1>2, <1>3 DEF IsConnection
  <1>4. CASE ~drop /\ more
    BY <1>1, <1>2, <1>4 DEF IsConnection
  <1>5. CASE ~drop /\ ~more
    BY <1>1, <1>2, <1>5 DEF IsConnection
  <1>6. QED
    BY <1>3, <1>4, <1>5

LEMMA KeptTrue ==
    ASSUME \A x \in Nodes : Keeps(con[x], con'[x]), NEW T, NEW n, NEW d,
           IsConnection(d), TrueConnection(T, con, n, d)
    PROVE  TrueConnection(T, con', n, d)
  <1>1. T \subseteq T
    OBVIOUS
  <1>2. QED
    BY <1>1, KeepsTrue

(* A datagram is handled.                                                  *)
LEMMA ReadTrue ==
    ASSUME IInv, IInv', NEW T, Delivery(T, con, net), NEW p \in net, NEW n,
           n = p.dst, con' = [con EXCEPT ![n] = HandleRead(n, @, p)],
           net' \subseteq net
    PROVE  Delivery(T, con', net')
  <1> DEFINE c == con[n]
             d == HandleRead(n, c, p)
  <1>1. /\ p \in Packets /\ n \in Nodes /\ TruePacket(T, con, p)
        /\ Delivery(T, con, {}) /\ TrueConnection(T, con, n, c)
        /\ c = con[n]
    BY DEF IInv, QueuesTyped, Packets, Delivery
  <1>2. \A x \in Nodes : ConnectionOK(con[x]) /\ IsConnection(con[x])
                          /\ IsConnection(con'[x])
    BY ConnectionsOK DEF IInv, QueuesTyped
  <1>3. con'[n] = d /\ \A x \in Nodes : x # n => con'[x] = con[x]
    BY <1>1 DEF IInv, QueuesTyped
  <1>4. IsConnection(d)
    BY <1>1, <1>2, <1>3
  <1>5. ASSUME Keeps(c, d), d.sequence = c.sequence,
               Keeps(c, d) /\ (\A x \in Nodes : Keeps(con[x], con'[x]))
                 => TrueConnection(T, con', n, d)
        PROVE  Delivery(T, con', net')
    <2> HIDE DEF c, d
    <2>1. \A x \in Nodes : Keeps(con[x], con'[x]) /\ con'[x].sequence = con[x].sequence
      <3>1. ASSUME NEW x \in Nodes
            PROVE  Keeps(con[x], con'[x]) /\ con'[x].sequence = con[x].sequence
        <4>1. CASE x = n
          BY <4>1, <1>1, <1>3, <1>5
        <4>2. CASE x # n
          BY <4>2, <1>3 DEF Keeps
        <4>3. QED
          BY <4>1, <4>2
      <3>2. QED
        BY <3>1
    <2>2. History(T, con')
      BY <2>1 DEF Delivery, History, Ids
    <2>3. Keeps(con[n], con'[n]) /\ TrueConnection(T, con', n, con'[n])
      BY <1>1, <1>3, <1>5, <2>1
    <2>4. QED
      BY <1>1, <1>3, <2>2, <2>3, WorldStep
  <1>6. CASE p.type = "ack"
    <2> DEFINE e == ValidateChunk(c, p)
    <2>1. TrueConnection(T, con, n, e) /\ Keeps(c, e)
      BY <1>1, <1>2, <1>6, AckTrue DEF TruePacket
    <2>2. Acknowledged(c, p, e)
      BY <1>1, <1>2, ValidateFrame
    <2>3. IsConnection(e)
      BY <1>1, <1>2, <1>6, ValidateChunkOK DEF Sound, ConnectionOK,
         IInv, OnlySentChunks, Sender
    <2>4. d = [e EXCEPT !.posted = TRUE]
      BY <1>6 DEF HandleRead
    <2> HIDE DEF c, d, e
    <2>5. Untouched(e, d) /\ d.working = e.working
      BY <2>3, <2>4 DEF IsConnection, Untouched
    <2>6. Less(e, d)
      <3>1. IsQueue(e.in_queue)
        BY <2>1 DEF TrueConnection
      <3>2. NoNewMessages(e, d)
        BY <2>5 DEF NoNewMessages, Alike
      <3>3. QED
        BY <2>5, <3>1, <3>2, UntouchedLess
    <2>7. TrueConnection(T, con, n, d)
      BY <2>1, <2>6, LessTrue
    <2>8. Keeps(c, d) /\ d.sequence = c.sequence
      <3>1. Keeps(e, d)
        BY <2>5, LessKeeps DEF Untouched
      <3>2. QED
        BY <2>1, <2>2, <2>5, <3>1 DEF Keeps, Untouched, Acknowledged
    <2>9. ASSUME \A x \in Nodes : Keeps(con[x], con'[x])
          PROVE  TrueConnection(T, con', n, d)
      BY <1>4, <2>7, <2>9, KeptTrue
    <2>10. QED
      BY <1>5, <2>8, <2>9 DEF d
  <1>7. CASE p.type # "ack"
    <2> DEFINE a == Ack(n, p)
               q == Append(c.out_queue, a)
               b == TRUE
               e == [c EXCEPT !.out_queue = q, !.posted = b]
               f == InsertChunk(c, p)
    <2>1. ChunkOf(T, p) /\ p.dst = n
      BY <1>1, <1>7 DEF TruePacket
    <2>2. /\ TrueConnection(T, con, n, f) /\ Keeps(c, f)
          /\ Crossed(T, n, p.sequence) \/ Got(f, p.id, p.chunk)
      BY <1>1, <1>2, <2>1, InsertTrue
    <2>3. /\ a.type = "ack" /\ a.src = n /\ a.dst = p.src /\ a.id = p.id
          /\ a.sequence = p.sequence /\ a.total = p.total /\ a.chunk = p.chunk
          /\ q \in Seq(Packets)
          /\ \A i \in DOMAIN q :
               (i \in DOMAIN c.out_queue /\ q[i] = c.out_queue[i]) \/ q[i] = a
      <3>0. c.out_queue \in Seq(Packets)
        BY <1>1, <1>2 DEF IsConnection
      <3>1. a \in Packets /\ c.out_queue \in Seq(Packets)
        BY <1>1, <3>0 DEF Ack, Packets
      <3>2. /\ a.type = "ack" /\ a.src = n /\ a.dst = p.src /\ a.id = p.id
            /\ a.sequence = p.sequence /\ a.total = p.total /\ a.chunk = p.chunk
        BY DEF Ack
      <3> HIDE DEF a, c
      <3>3. QED
        BY <3>1, <3>2
    <2>4. ConnectionOK(c) /\ IsConnection(c) /\ IsConnection(f)
      BY <1>1, <1>2, InsertChunkOK DEF Sound, ConnectionOK
    <2>5. /\ d.in_working = f.in_working /\ d.in_queue = f.in_queue
          /\ d.delivered = f.delivered /\ d.sequence = c.sequence
          /\ d.working = f.working /\ d.acked = f.acked
          /\ f.out_queue = c.out_queue
          /\ d.out_queue = q \/ d.out_queue = c.out_queue
      <3> HIDE DEF a, q
      <3>1. CASE p.type = "msg"
        <4>1. d = InsertChunk(e, p)
          BY <3>1 DEF HandleRead, q, a
        <4>2. e = [c EXCEPT !.out_queue = q, !.posted = b] /\ b = TRUE
          OBVIOUS
        <4>f. f = InsertChunk(c, p)
          OBVIOUS
        <4> HIDE DEF e, b, c, d, f
        <4>3. e = WithQueue(c, q, b)
          BY <2>4, <4>2 DEF WithQueue, WithInput, IsConnection
        <4>4. IsConnection(e)
          BY <2>3, <2>4, <4>2, <4>3, QueueOK DEF Sound, ConnectionOK
        <4>5. /\ e.in_working = c.in_working /\ e.in_queue = c.in_queue
              /\ e.delivered = c.delivered /\ e.sequence = c.sequence
              /\ e.working = c.working /\ e.acked = c.acked /\ e.out_queue = q
          BY <2>4, <4>2 DEF IsConnection
        <4>6. QED
          BY <2>4, <4>1, <4>4, <4>5, <4>f, InsertAlone
      <3>2. CASE p.type = "qmsg"
        <4>1. d = f
          BY <3>2 DEF HandleRead
        <4>f. f = InsertChunk(c, p)
          OBVIOUS
        <4> HIDE DEF c, d, f
        <4>2. QED
          BY <2>4, <4>1, <4>f, InsertAlone
      <3>3. QED
        BY <1>1, <1>7, <3>1, <3>2 DEF Packets
    <2> HIDE DEF c, d, f, q, a, e, b
    <2>6. /\ Keeps(c, d) /\ d.sequence = c.sequence
          /\ Crossed(T, n, p.sequence) \/ Got(d, p.id, p.chunk)
      <3>1. Keeps(f, d)
        BY <2>5, LessKeeps
      <3>2. QED
        BY <2>2, <2>5, <3>1 DEF Keeps
    <2>7. ASSUME \A x \in Nodes : Keeps(con[x], con'[x])
          PROVE  TrueConnection(T, con', n, d)
      <3>1. TrueConnection(T, con', n, f)
        BY <2>2, <2>4, <2>7, KeptTrue
      <3>2. TruePacket(T, con', a)
        BY <2>1, <2>3, <2>6, <1>3 DEF TruePacket, AckOf, ChunkOf, PacketOf, d
      <3>3. \A i \in DOMAIN d.out_queue : TruePacket(T, con', d.out_queue[i])
        BY <2>3, <2>5, <3>1, <3>2 DEF TrueConnection
      <3>4. QED
        BY <2>5, <3>1, <3>3 DEF TrueConnection
    <2>8. QED
      BY <1>5, <2>6, <2>7 DEF d
  <1>8. QED
    BY <1>6, <1>7

(* What do_send sends is a chunk of its message.                           *)
LEMMA ChunkTrue ==
    ASSUME IInv, NEW T, Delivery(T, con, net), NEW n \in Nodes,
           NEW s \in con[n].ring, NEW k \in Chunks(con[n].working[s]),
           NEW p, p = Chunk(n, s, con[n].working[s], k)
    PROVE  TruePacket(T, con, p)
  <1> DEFINE w == con[n].working[s]
  <1>1. TrueMessage(T, con, n, s, w)
    BY DEF IInv, RingIsWorking, Delivery, TrueConnection
  <1>2. /\ p.type # "ack" /\ p.src = n /\ p.dst = w.dst /\ p.sequence = s
        /\ p.total = w.total /\ p.chunk = k /\ p.id = w.id
        /\ p.size = ChunkSize(w.size, k)
    BY DEF Chunk, ChunkSize
  <1> HIDE DEF w
  <1>3. QED
    BY <1>1, <1>2 DEF TruePacket, ChunkOf, PacketOf, TrueMessage, Chunks, w

LEMMA NextDelivery ==
    ASSUME IInv, IInv', NEW T, T = numbered, Delivery(T, con, net), [Next]_vars
    PROVE  Delivery(numbered', con', net')
  <1>c. \A n \in Nodes : /\ ConnectionOK(con[n]) /\ IsConnection(con[n])
                         /\ con[n].ring = DOMAIN con[n].working
                         /\ TrueConnection(T, con, n, con[n])
                         /\ IsQueue(con[n].in_queue)
    BY ConnectionsOK DEF ConnectionOK, Delivery, TrueConnection
  <1>1. ASSUME NEW m \in Traffic, Send(m)
        PROVE  Delivery(numbered', con', net')
    BY <1>1, SendTrue DEF Send
  <1>2. ASSUME NEW n \in Nodes, Receive(n)
        PROVE  Delivery(T, con', net')
    <2> DEFINE c == con[n]
               q == Tail(c.in_queue)
               d == [c EXCEPT !.in_queue = q]
    <2>1. con' = [con EXCEPT ![n] = d] /\ net' = net /\ c.in_queue # <<>>
      BY <1>2 DEF Receive, IInv, QueuesTyped
    <2>2. IsQueue(q) /\ \A i \in DOMAIN q :
            i + 1 \in DOMAIN c.in_queue /\ q[i] = c.in_queue[i + 1]
      <3>1. PICK S : c.in_queue \in Seq(S)
        BY <1>c DEF IsQueue
      <3>2. q \in Seq(S) /\ \A i \in DOMAIN q :
              i + 1 \in DOMAIN c.in_queue /\ q[i] = c.in_queue[i + 1]
        BY <3>1, <2>1
      <3>3. QED
        BY <3>2 DEF IsQueue
    <2> HIDE DEF q
    <2>3. /\ d.sequence = c.sequence /\ d.delivered = c.delivered
          /\ d.in_working = c.in_working /\ d.acked = c.acked
          /\ d.working = c.working /\ d.out_queue = c.out_queue /\ d.in_queue = q
      BY <1>c DEF IsConnection
    <2> HIDE DEF d
    <2>4. Less(c, d)
      BY <2>2, <2>3 DEF Less, NoNewMessages, Alike
    <2>5. QED
      BY <2>1, <2>4, LessStep
  <1>3. ASSUME NEW n \in Nodes, SendQueued(n)
        PROVE  Delivery(T, con', net')
    <2> DEFINE c == con[n]
               q == Tail(c.out_queue)
               d == [c EXCEPT !.out_queue = q]
               h == Head(c.out_queue)
    <2>1. con' = [con EXCEPT ![n] = d] /\ net' = net \cup {h} /\ c.out_queue # <<>>
      BY <1>3 DEF SendQueued, IInv, QueuesTyped
    <2>2. /\ h = c.out_queue[1] /\ 1 \in DOMAIN c.out_queue
          /\ \A i \in DOMAIN q :
               i + 1 \in DOMAIN c.out_queue /\ q[i] = c.out_queue[i + 1]
      <3>1. c.out_queue \in Seq(Packets)
        BY <1>c DEF IsConnection
      <3>2. QED
        BY <3>1, <2>1
    <2> HIDE DEF q, h
    <2>3. /\ d.sequence = c.sequence /\ d.delivered = c.delivered
          /\ d.in_working = c.in_working /\ d.acked = c.acked
          /\ d.working = c.working /\ d.out_queue = q /\ d.in_queue = c.in_queue
      BY <1>c DEF IsConnection
    <2> HIDE DEF d
    <2>4. Less(c, d)
      BY <1>c, <2>2, <2>3 DEF Less, NoNewMessages, Alike
    <2>5. TruePacket(T, con, h)
      BY <1>c, <2>2 DEF TrueConnection
    <2>6. QED
      BY <2>1, <2>4, <2>5, LessStep
  <1>4. ASSUME NEW n \in Nodes, NEW s \in con[n].ring, SendNext(n, s)
        PROVE  Delivery(T, con', net')
    <2> DEFINE c == con[n]
               w == c.working[s]
               d == SentChunk([c EXCEPT !.next_message = RingIndex(c, s)],
                              s, TakeNextChunk(w), w.next_send)
               p == Chunk(n, s, w, w.next_send)
    <2>1. /\ con' = [con EXCEPT ![n] = d] /\ net' = net \cup {p}
          /\ CanSendNext(w)
      BY <1>4 DEF SendNext
    <2>2. Untouched(c, d) /\ NoNewMessages(c, d)
      BY <1>c, <2>1, SentChunkFrame
    <2>3. w.next_send \in Chunks(w)
      <3>1. IsWorkingMessage(w)
        BY <1>c DEF ConnectionOK, IsConnection
      <3>2. QED
        <4>1. w.next_send \in 0..w.total /\ w.total \in Nat /\ w.next_send < w.total
          BY <2>1, <3>1, UdpAssumption DEF CanSendNext, IsWorkingMessage
        <4> HIDE DEF w
        <4>2. QED
          BY <4>1 DEF Chunks
    <2>4. TruePacket(T, con, p)
      BY <2>3, ChunkTrue
    <2> HIDE DEF d, p
    <2>5. Less(c, d)
      BY <1>c, <2>2, UntouchedLess
    <2>6. QED
      BY <2>1, <2>4, <2>5, LessStep
  <1>5. ASSUME NEW n \in Nodes, NEW s \in con[n].ring,
               NEW k \in Chunks(con[n].working[s]), SendAgain(n, s, k)
        PROVE  Delivery(T, con', net')
    <2> DEFINE c == con[n]
               w == c.working[s]
               d == [c EXCEPT !.next_message = RingIndex(c, s),
                              !.working = Put(@, s, PopResend(w, k))]
               p == Chunk(n, s, w, k)
    <2>1. /\ con' = [con EXCEPT ![n] = d] /\ net' = net \cup {p}
      BY <1>5 DEF SendAgain
    <2>2. Untouched(c, d) /\ NoNewMessages(c, d)
      BY <1>c, SendAgainFrame
    <2>4. TruePacket(T, con, p)
      BY ChunkTrue
    <2> HIDE DEF d, p
    <2>5. Less(c, d)
      BY <1>c, <2>2, UntouchedLess
    <2>6. QED
      BY <2>1, <2>4, <2>5, LessStep
  <1>6. ASSUME NEW n \in Nodes, SendNothing(n)
        PROVE  Delivery(T, con', net')
    <2> DEFINE c == con[n]
               i == IF c.ring = {} THEN 0
                    ELSE (c.next_message + 1) % Cardinality(c.ring)
               Is(b) == [c EXCEPT !.next_message = i, !.posted = b]
    <2>1. PICK b \in BOOLEAN : con' = [con EXCEPT ![n].next_message = i, ![n].posted = b]
      BY <1>6 DEF SendNothing
    <2>2. con' = [con EXCEPT ![n] = Is(b)] /\ net' = net
      BY <1>6, <2>1 DEF IInv, QueuesTyped, SendNothing
    <2> HIDE DEF i
    <2>3. Untouched(c, Is(b)) /\ Is(b).working = c.working
      BY <1>c DEF IsConnection, Untouched
    <2> HIDE DEF Is
    <2>4. Less(c, Is(b))
      BY <1>c, <2>3, UntouchedLess DEF NoNewMessages, Alike
    <2>5. QED
      BY <2>2, <2>4, LessStep
  <1>7. ASSUME NEW n \in Nodes, ResendTick(n)
        PROVE  Delivery(T, con', net')
    <2> DEFINE c == con[n]
               d == Resend(c)
    <2>1. con' = [con EXCEPT ![n] = d] /\ net' = net
      BY <1>7 DEF ResendTick
    <2>2. Untouched(c, d) /\ NoNewMessages(c, d)
      BY <1>c, ResendFrame
    <2> HIDE DEF d
    <2>3. Less(c, d)
      BY <1>c, <2>2, UntouchedLess
    <2>4. QED
      BY <2>1, <2>3, LessStep
  <1>8. ASSUME NEW p \in net, Deliver(p) \/ Duplicate(p)
        PROVE  Delivery(T, con', net')
    <2>1. /\ con' = [con EXCEPT ![p.dst] = HandleRead(p.dst, @, p)]
          /\ net' \subseteq net
      BY <1>8 DEF Deliver, Duplicate
    <2>2. QED
      BY <2>1, ReadTrue
  <1>9. ASSUME con' = con, net' \subseteq net
        PROVE  Delivery(T, con', net')
    <2>1. Delivery(T, con, net')
      BY <1>9 DEF Delivery
    <2>2. QED
      BY <1>9, <2>1
  <1>10. numbered' = numbered \/ \E m \in Traffic : Send(m)
    BY DEF Next, Receive, DoSend, SendQueued, SendNext, SendAgain, SendNothing,
       ResendTick, Deliver, Duplicate, Lose, vars
  <1>11. Delivery(numbered', con', net') \/ Delivery(T, con', net')
    BY <1>1, <1>2, <1>3, <1>4, <1>5, <1>6, <1>7, <1>8, <1>9
       DEF Next, DoSend, Lose, vars
  <1>12. QED
    BY <1>1, <1>10, <1>11

Delivers == Delivery(numbered, con, net)

LEMMA DeliveryInvariance == Spec => []Delivers
  <1>1. Init => Delivery({}, con, net)
    <2>1. ASSUME Init, NEW n \in Nodes
          PROVE  TrueConnection({}, con, n, con[n])
      <3>1. /\ con[n].working = EmptyMap /\ con[n].out_queue = <<>>
            /\ con[n].in_working = EmptyMap /\ con[n].in_queue = <<>>
            /\ con[n].acked = {}
        BY <2>1 DEF Init, NewConnection
      <3>2. DOMAIN EmptyMap = {} /\ DOMAIN <<>> = {}
        BY DEF EmptyMap
      <3>3. IsQueue(<<>>)
        BY DEF IsQueue
      <3>4. QED
        BY <3>1, <3>2, <3>3 DEF TrueConnection
    <2>2. ASSUME Init
          PROVE  History({}, con) /\ net = {}
      BY <2>2 DEF Init, History
    <2>3. QED
      BY <2>1, <2>2 DEF Delivery
  <1>2. IInv /\ IInv' /\ Delivers /\ [Next]_vars => Delivers'
    BY NextDelivery DEF Delivers
  <1>3. Init => Delivers
    BY <1>1 DEF Delivers, Init
  <1>4. QED
    BY <1>2, <1>3, Invariance, PTL DEF Spec

(* What the application takes are chunks that were sent to this node under
   one number, no sender with two messages among them; and unless two senders
   have used that number for this node, it is one message, whole and of its
   size (insert_chunk).  Nothing is assumed of who sends to whom.  The
   invariant is that each datagram, reassembly entry and queue belongs to
   messages that were sent, and that no sender uses a number twice.        *)
THEOREM Intactness == Spec => []DeliveredIntact
  <1>1. ASSUME Delivers, NEW n \in Nodes, NEW i \in DOMAIN con[n].in_queue
        PROVE  LET d == con[n].in_queue[i]
                   s == d.parts[0].sequence
               IN /\ \A k \in DOMAIN d.parts : d.parts[k].dst = n /\ d.parts[k].sequence = s
                  /\ \A j, k \in DOMAIN d.parts :
                       d.parts[j].src = d.parts[k].src => d.parts[j] = d.parts[k]
                  /\ Crossed(numbered, n, s) \/ Whole(d)
    <2>1. Intact(numbered, n, con[n].in_queue[i]) /\ History(numbered, con)
      BY <1>1 DEF Delivers, Delivery, TrueConnection
    <2>2. QED
      BY <2>1 DEF Intact, PartsOf, History
  <1>2. Delivers => DeliveredIntact
    BY <1>1 DEF DeliveredIntact, Whole
  <1>3. QED
    BY <1>2, DeliveryInvariance, PTL

(* And a message of which every chunk was acknowledged is delivered, unless
   two senders have used its number for its destination: the acknowledgement
   goes out before insert_chunk has run, but both belong to one handler, and
   it takes another sender's message for insert_chunk to drop a chunk that it
   has not got.                                                            *)
THEOREM AckedDelivered == Spec => []AckedMeansDelivered
  <1>1. Delivers => AckedMeansDelivered
    BY DEF Delivers, Delivery, TrueConnection, AckedMeansDelivered
  <1>2. QED
    BY <1>1, DeliveryInvariance, PTL
=============================================================================
