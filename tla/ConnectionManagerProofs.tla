---------------------- MODULE ConnectionManagerProofs -----------------------
(***************************************************************************)
(* Proofs about ConnectionManager, for any addresses, any size of the pool *)
(* and every bound.                                                        *)
(***************************************************************************)
EXTENDS ConnectionManager, TLAPS, WellFoundedInduction

QueueState == {"none", "disconnected", "connecting", "connected"}

Queue == [to : SUBSET Addr, out : SUBSET Addr, data : 0..MaxData, state : QueueState]

SenderState == [pc : {"pop", "connect", "repool", "assign", "send"},
                to : SUBSET Addr, slot : 0..Size]

\* The sockets of the listening queue are of the connections it accepted.
InTyped == /\ in.nr \in Nat
           /\ in.queue \in Seq(Incoming)
           /\ in.last \in Seq(Incoming)
           /\ in = [nr |-> in.nr, queue |-> in.queue, last |-> in.last]

(***************************************************************************)
(* The send thread, while it works on a message, has its address; the slot *)
(* it was given is a fresh queue until it assigns it, and its own queue    *)
(* until it has sent: nobody else takes a queue out of the pool.           *)
(***************************************************************************)
SenderInProgress ==
    /\ sender.pc # "pop" => \E a \in Addr : sender.to = {a}
    /\ sender.pc \in {"assign", "send"} => sender.slot \in Slot
    /\ sender.pc = "assign" => pool[sender.slot] = NewQueue
    /\ sender.pc = "send" => pool[sender.slot].to = sender.to

\* An empty slot is empty throughout, and a queue holds no more data than came.
PoolShape ==
    \A i \in Slot : /\ pool[i].state = "none" => pool[i] = None
                    /\ pool[i].data <= used.data

\* Connections and sockets on their way belong to the listening queue of now.
SocketsOfNow ==
    /\ \A c \in live \cup pushing : c.at = in.nr
    /\ \A k \in 1..Len(in.last) : in.last[k].at = in.nr

(***************************************************************************)
(* A program that listens never has a free slot: create_tcp_pool fills     *)
(* them all, and find_next_available takes only an empty one.              *)
(***************************************************************************)
ListenerOpensNone ==
    listen => /\ \A i \in Slot : pool[i] = NewQueue
              /\ sender.pc \in {"pop", "connect", "repool"}

-----------------------------------------------------------------------------
\* The inductive invariant, in two halves that touch each other little: the
\* pool with the thread that sends, and the sockets of the listening queue.
PoolHalf ==
    /\ listen \in BOOLEAN
    /\ pool \in [Slot -> Queue]
    /\ out \in [Addr -> SUBSET Slot]
    /\ sendq \in Seq(Addr)
    /\ sender \in SenderState
    /\ SenderInProgress /\ PoolShape /\ ListenerOpensNone /\ RightAddress

SocketHalf ==
    /\ live \subseteq Incoming /\ pushing \subseteq Incoming
    /\ map \in [Addr -> SUBSET Incoming]
    /\ InTyped /\ SocketsOfNow /\ NoDanglingSocket

UsedSet == [sends : 0..MaxSends, data : 0..MaxData, accepts : 0..MaxAccepts]

RestTyped == rstate \in 1..DONE /\ failed \in BOOLEAN /\ used \in UsedSet

IInv == PoolHalf /\ SocketHalf /\ RestTyped

LEMMA TypesFollow == IInv => TypeOK
BY DEF IInv, TypeOK, PoolHalf, SocketHalf, RestTyped, Queue, QueueState,
       SenderState, UsedSet

LEMMA SocketsUntouched ==
    ASSUME SocketHalf, UNCHANGED <<in, live, map, pushing>>
    PROVE  SocketHalf'
BY DEF SocketHalf, InTyped, SocketsOfNow, NoDanglingSocket

LEMMA PoolUntouched ==
    ASSUME PoolHalf, UNCHANGED <<listen, pool, out, sendq, sender>>,
           used'.data = used.data
    PROVE  PoolHalf'
BY DEF PoolHalf, SenderInProgress, PoolShape, ListenerOpensNone, RightAddress

LEMMA RestUntouched ==
    ASSUME RestTyped, UNCHANGED <<rstate, failed, used>>
    PROVE  RestTyped'
BY DEF RestTyped

LEMMA UsedMore ==
    ASSUME used \in UsedSet
    PROVE  /\ used.sends < MaxSends => [used EXCEPT !.sends = @ + 1] \in UsedSet
           /\ used.data < MaxData => [used EXCEPT !.data = @ + 1] \in UsedSet
           /\ used.accepts < MaxAccepts => [used EXCEPT !.accepts = @ + 1] \in UsedSet
           /\ [used EXCEPT !.sends = @ + 1].data = used.data
           /\ [used EXCEPT !.data = @ + 1].data = used.data + 1
           /\ [used EXCEPT !.accepts = @ + 1].data = used.data
BY PoolAssumption DEF UsedSet

LEMMA Queues ==
    /\ None \in Queue /\ NewQueue \in Queue /\ NewQueue # None
    /\ ~Disconnected(None) /\ Disconnected(NewQueue)
    /\ None.to = {} /\ NewQueue.to = {} /\ None.out = {} /\ NewQueue.out = {}
    /\ None.data = 0 /\ NewQueue.data = 0
    /\ None.state = "none" /\ NewQueue.state = "disconnected"
BY PoolAssumption DEF Queue, QueueState, None, NewQueue, Disconnected

\* While the send thread works on a message, To is its address.
LEMMA ToIsTheAddress ==
    ASSUME SenderInProgress, sender.pc # "pop"
    PROVE  To \in Addr /\ sender.to = {To}
<1>1. PICK a \in Addr : sender.to = {a} BY DEF SenderInProgress
<1> QED BY <1>1 DEF To

(***************************************************************************)
(* find_next_available: it finds a slot unless none is empty, the slot it  *)
(* finds is one, and the others keep their queues.                         *)
(***************************************************************************)
LEMMA FindsAnEmptySlot ==
    ASSUME NEW p
    PROVE  /\ \A i \in Available(p) : i \in Slot /\ p[i] = None
           /\ Available(p) = {} => \A i \in Slot : p[i] # None
<1> DEFINE E == {i \in Slot : p[i] = None}
<1>1. E \subseteq Nat BY PoolAssumption DEF Slot
<1>2. ASSUME E # {} PROVE Available(p) # {}
  <2>1. PICK x \in E : \A y \in E : ~(<<y, x>> \in OpToRel(<, Nat))
    <3> HIDE DEF E
    <3> QED BY <1>1, <1>2, NatLessThanWellFounded, WFMin
  <2>2. \A y \in E : ~(y < x)
    BY <1>1, <2>1 DEF OpToRel
  <2>3. \A j \in 1..(x - 1) : j \in Slot /\ j < x
    BY <1>1, PoolAssumption DEF Slot
  <2>4. x \in Available(p)
    BY <2>2, <2>3 DEF Available
  <2> QED BY <2>4
<1> QED BY <1>2 DEF Available

LEMMA FillKeeps ==
    ASSUME NEW p \in [Slot -> Queue]
    PROVE  /\ Fill(p) \in [Slot -> Queue]
           /\ \A i \in Slot : \/ Fill(p)[i] = p[i] /\ i \notin Available(p)
                              \/ /\ i \in Available(p)
                                 /\ Fill(p)[i] = NewQueue
                                 /\ p[i] = None
BY Queues, FindsAnEmptySlot DEF Fill

LEMMA InitHolds == Init => IInv
<1> SUFFICES ASSUME Init PROVE IInv OBVIOUS
<1>1. sender \in SenderState /\ sender.pc = "pop"
  BY PoolAssumption DEF Init, SenderState
<1>2. pool \in [Slot -> Queue] /\ \A i \in Slot : pool[i] \in {None, NewQueue}
  BY Queues DEF Init
<1>3. used \in UsedSet /\ used.data = 0
  BY PoolAssumption DEF Init, UsedSet
<1>4. PoolHalf
  BY <1>1, <1>2, <1>3, Queues DEF Init, PoolHalf, SenderInProgress, PoolShape,
     ListenerOpensNone, RightAddress
<1>5. SocketHalf
  BY DEF Init, SocketHalf, InTyped, SocketsOfNow, NoDanglingSocket
<1>6. rstate \in 1..DONE BY DEF Init, DONE
<1>7. failed \in BOOLEAN BY Zenon DEF Init
<1>8. RestTyped BY <1>3, <1>6, <1>7 DEF RestTyped
<1> QED BY <1>4, <1>5, <1>8 DEF IInv

-----------------------------------------------------------------------------
(***************************************************************************)
(* The send thread.                                                        *)
(***************************************************************************)
LEMMA SendKeeps ==
    ASSUME IInv, NEW a \in Addr, Send(a)
    PROVE  IInv'
<1> USE DEF IInv
<1>1. used' \in UsedSet /\ used'.data = used.data
  BY UsedMore DEF Send, RestTyped
<1>2. sendq' \in Seq(Addr)
  BY DEF Send, PoolHalf
<1>3. PoolHalf'
  BY <1>1, <1>2 DEF Send, PoolHalf, SenderInProgress, PoolShape, ListenerOpensNone,
     RightAddress
<1>4. SocketHalf'
  BY SocketsUntouched DEF Send
<1>5. RestTyped'
  BY <1>1 DEF Send, RestTyped
<1> QED BY <1>3, <1>4, <1>5

LEMMA SenderPopsKeeps ==
    ASSUME IInv, SenderPops
    PROVE  IInv'
<1> USE DEF IInv
<1> DEFINE a == Head(sendq)
<1>1. a \in Addr /\ sendq' \in Seq(Addr)
  BY DEF SenderPops, PoolHalf
<1>2. \/ sender' = sender
      \/ sender' = [sender EXCEPT !.pc = "connect", !.to = {a}]
  BY DEF SenderPops
<1>3. sender' \in SenderState /\ sender'.pc \in {"pop", "connect"}
      /\ (sender'.pc # "pop" => sender'.to = {a})
  BY <1>1, <1>2 DEF SenderPops, PoolHalf, SenderState
<1> HIDE DEF a
<1>4. PoolHalf'
  BY <1>1, <1>3 DEF SenderPops, PoolHalf, SenderInProgress, PoolShape,
     ListenerOpensNone, RightAddress
<1>5. SocketHalf' /\ RestTyped'
  BY SocketsUntouched, RestUntouched DEF SenderPops
<1> QED BY <1>4, <1>5

\* Filling a slot takes none away that an address or the sender holds.
LEMMA FillIsHarmless ==
    ASSUME NEW p \in [Slot -> Queue], pool' = Fill(p), NEW o,
           \A i \in Slot : p[i].out \subseteq p[i].to,
           \A a \in Addr : \A i \in o[a] : i \in Slot /\ p[i] # None /\ p[i].to = {a},
           \A i \in Slot : /\ p[i].state = "none" => p[i] = None
                           /\ p[i].data <= used.data,
           used.data \in Nat, UNCHANGED used, out' = o
    PROVE  /\ pool' \in [Slot -> Queue]
           /\ PoolShape' /\ RightAddress'
<1>1. pool' \in [Slot -> Queue]
      /\ \A i \in Slot : \/ pool'[i] = p[i]
                         \/ pool'[i] = NewQueue /\ p[i] = None
  BY FillKeeps
<1>2. \A i \in Slot : pool'[i].out \subseteq pool'[i].to
  BY <1>1, Queues
<1>3. \A i \in Slot : /\ pool'[i].state = "none" => pool'[i] = None
                      /\ pool'[i].data <= used.data
  BY <1>1, Queues
<1>4. \A a \in Addr : \A i \in o[a] : pool'[i] # None /\ pool'[i].to = {a}
  BY <1>1
<1> QED BY <1>1, <1>2, <1>3, <1>4 DEF PoolShape, RightAddress

LEMMA SenderTakesSlot ==
    ASSUME NEW s \in SenderState, NEW k \in Slot, NEW p \in {"assign", "send"}
    PROVE  LET t == [s EXCEPT !.pc = p, !.slot = k]
           IN  t \in SenderState /\ t.pc = p /\ t.slot = k /\ t.to = s.to
<1>1. k \in 0..Size BY PoolAssumption DEF Slot
<1> QED BY <1>1 DEF SenderState

LEMMA ConnectKeeps ==
    ASSUME IInv, Connect
    PROVE  IInv' /\ ~failed'
<1> USE DEF IInv
<1>1. PICK i \in Slot \cup {0} :
          /\ out[To] = (IF i = 0 THEN {} ELSE {i})
          /\ failed' = (i # 0 /\ pool[i] = None)
          /\ IF i # 0 /\ ~Disconnected(pool[i])
             THEN /\ sender' = [sender EXCEPT !.pc = "send", !.slot = i]
                  /\ pool' = pool
             ELSE /\ pool' = Fill(pool)
                  /\ sender' = IF Available(pool) = {} THEN [sender EXCEPT !.pc = "repool"]
                               ELSE [sender EXCEPT !.pc = "assign",
                                        !.slot = CHOOSE k \in Available(pool) : TRUE]
  BY DEF Connect
<1>2. UNCHANGED <<listen, out, in, live, map, sendq, pushing, rstate, used>>
  BY DEF Connect
<1>3. sender.pc = "connect" /\ sender \in SenderState /\ To \in Addr /\ sender.to = {To}
  BY ToIsTheAddress DEF Connect, PoolHalf
<1>4. i # 0 => i \in Slot /\ pool[i] # None /\ pool[i].to = {To}
  BY <1>1, <1>3 DEF PoolHalf, RightAddress
<1>5. ~failed' /\ failed' \in BOOLEAN
  BY <1>1, <1>4
<1>6. SocketHalf' /\ RestTyped'
  BY <1>2, <1>5, SocketsUntouched DEF RestTyped
<1>7. used.data \in Nat
  BY DEF RestTyped, UsedSet
<1>8. CASE i # 0 /\ ~Disconnected(pool[i])
  <2>1. sender' \in SenderState /\ sender'.pc = "send" /\ sender'.slot = i
        /\ sender'.to = {To}
    <3>1. sender' = [sender EXCEPT !.pc = "send", !.slot = i] /\ i \in Slot
      BY <1>1, <1>4, <1>8
    <3> QED BY <1>3, <3>1, SenderTakesSlot
  <2>2. ~listen BY <1>4, <1>8, Queues DEF PoolHalf, ListenerOpensNone
  <2>3. pool' = pool BY <1>1, <1>8
  <2>4. SenderInProgress'
    <3>1. \E a \in Addr : sender'.to = {a} BY <1>3, <2>1
    <3>2. pool'[sender'.slot].to = sender'.to /\ sender'.slot \in Slot
      BY <1>4, <1>8, <2>1, <2>3
    <3> QED BY <2>1, <3>1, <3>2 DEF SenderInProgress
  <2>5. PoolHalf'
    BY <1>2, <2>1, <2>2, <2>3, <2>4 DEF PoolHalf, PoolShape, ListenerOpensNone, RightAddress
  <2> QED BY <1>5, <1>6, <2>5
<1>9. CASE ~(i # 0 /\ ~Disconnected(pool[i]))
  <2>1. pool' = Fill(pool) /\ pool \in [Slot -> Queue] /\ out \in [Addr -> SUBSET Slot]
    BY <1>1, <1>9 DEF PoolHalf
  <2>2. pool' \in [Slot -> Queue] /\ PoolShape' /\ RightAddress'
    BY <1>2, <1>7, <2>1, FillIsHarmless DEF PoolHalf, PoolShape, RightAddress
  <2>3. CASE Available(pool) = {}
    <3>1. sender' = [sender EXCEPT !.pc = "repool"]
      BY <1>1, <1>9, <2>3
    <3>2. sender' \in SenderState /\ sender'.pc = "repool" /\ sender'.to = {To}
      BY <1>3, <3>1 DEF SenderState
    <3>3. \A k \in Slot : pool'[k] = pool[k]
      BY <2>1, <2>3, FillKeeps
    <3>4. SenderInProgress' /\ ListenerOpensNone'
      BY <1>2, <1>3, <3>2, <3>3 DEF SenderInProgress, ListenerOpensNone, PoolHalf
    <3> QED BY <1>2, <1>5, <1>6, <2>2, <3>2, <3>4 DEF PoolHalf
  <2>4. CASE Available(pool) # {}
    <3> DEFINE k == CHOOSE j \in Available(pool) : TRUE
    <3>1. k \in Available(pool) /\ k \in Slot /\ pool[k] = None
      BY <2>4, FindsAnEmptySlot
    <3>2. sender' = [sender EXCEPT !.pc = "assign", !.slot = k]
      BY <1>1, <1>9, <2>4
    <3>3. pool'[k] = NewQueue
      BY <2>1, <3>1, FillKeeps
    <3> HIDE DEF k
    <3>4. sender' \in SenderState /\ sender'.pc = "assign" /\ sender'.to = {To}
          /\ sender'.slot = k
      BY <1>3, <3>1, <3>2, SenderTakesSlot
    <3>5. ~listen BY <3>1, Queues DEF PoolHalf, ListenerOpensNone
    <3>6. SenderInProgress' /\ ListenerOpensNone'
      BY <1>2, <1>3, <3>1, <3>3, <3>4, <3>5 DEF SenderInProgress, ListenerOpensNone
    <3> QED BY <1>2, <1>5, <1>6, <2>2, <3>4, <3>6 DEF PoolHalf
  <2> QED BY <2>3, <2>4
<1> QED BY <1>8, <1>9

\* The first section of teardown_and_repool: cleanup_pool over pool and out.
LEMMA CleanupIsHarmless ==
    ASSUME PoolHalf
    PROVE  /\ Cleaned \in [Slot -> Queue]
           /\ \A i \in Slot : Cleaned[i] = IF Disconnected(pool[i]) THEN None ELSE pool[i]
           /\ \A i \in Slot : Cleaned[i].out \subseteq Cleaned[i].to
           /\ \A i \in Slot : /\ Cleaned[i].state = "none" => Cleaned[i] = None
                              /\ Cleaned[i].data = 0 \/ Cleaned[i].data <= used.data
           /\ CleanedOut(Cleaned) \in [Addr -> SUBSET Slot]
           /\ \A a \in Addr : \A i \in CleanedOut(Cleaned)[a] :
                 i \in Slot /\ Cleaned[i] # None /\ Cleaned[i].to = {a}
<1>1. /\ pool \in [Slot -> Queue] /\ out \in [Addr -> SUBSET Slot]
      /\ PoolShape /\ RightAddress
  BY DEF PoolHalf
<1>2. Cleaned \in [Slot -> Queue]
  BY <1>1, Queues DEF Cleaned
<1>3. \A i \in Slot : Cleaned[i] = IF Disconnected(pool[i]) THEN None ELSE pool[i]
  BY DEF Cleaned
<1>4. \A i \in Slot : Cleaned[i].out \subseteq Cleaned[i].to
  BY <1>1, <1>3, Queues DEF RightAddress
<1>5. \A i \in Slot : /\ Cleaned[i].state = "none" => Cleaned[i] = None
                      /\ Cleaned[i].data = 0 \/ Cleaned[i].data <= used.data
  BY <1>1, <1>3, Queues DEF PoolShape
<1>6. \A a \in Addr : /\ CleanedOut(Cleaned)[a] \subseteq out[a]
                      /\ \A i \in CleanedOut(Cleaned)[a] : Cleaned[i] # None
  BY DEF CleanedOut
<1>7. CleanedOut(Cleaned) \in [Addr -> SUBSET Slot]
  BY <1>1 DEF CleanedOut
<1>8. \A a \in Addr : \A i \in CleanedOut(Cleaned)[a] :
          i \in Slot /\ Cleaned[i] # None /\ Cleaned[i].to = {a}
  BY <1>1, <1>3, <1>6 DEF RightAddress
<1> QED BY <1>2, <1>3, <1>4, <1>5, <1>7, <1>8

LEMMA RepoolKeeps ==
    ASSUME IInv, Repool
    PROVE  IInv'
<1> USE DEF IInv
<1> DEFINE p == IF listen THEN [i \in Slot |-> NewQueue] ELSE Cleaned
           o == CleanedOut(Cleaned)
<1>1. /\ out' = o
      /\ pool' = Fill(p)
      /\ sender' = IF Available(p) = {} THEN [sender EXCEPT !.pc = "pop"]
                   ELSE [sender EXCEPT !.pc = "assign",
                            !.slot = CHOOSE k \in Available(p) : TRUE]
      /\ in' = IF listen THEN [nr |-> in.nr + 1, queue |-> <<>>, last |-> <<>>] ELSE in
      /\ live' = {} /\ pushing' = {}
      /\ map' = [a \in Addr |-> {}]
      /\ UNCHANGED <<listen, sendq, rstate, failed, used>>
  BY DEF Repool, TornMap
<1>2. sender.pc = "repool" /\ sender \in SenderState /\ To \in Addr /\ sender.to = {To}
  BY ToIsTheAddress DEF Repool, PoolHalf
<1>3. used.data \in Nat
  BY DEF RestTyped, UsedSet
<1>4. SocketHalf'
  <2>1. in'.nr \in Nat /\ in'.last \in Seq(Incoming) /\ in'.queue \in Seq(Incoming)
        /\ (in'.last = <<>> \/ (in'.last = in.last /\ in'.nr = in.nr))
        /\ in' = [nr |-> in'.nr, queue |-> in'.queue, last |-> in'.last]
    BY <1>1 DEF SocketHalf, InTyped
  <2>2. InTyped' BY <2>1 DEF InTyped
  <2>3. SocketsOfNow' BY <1>1, <2>1 DEF SocketHalf, SocketsOfNow
  <2>4. NoDanglingSocket' /\ map' \in [Addr -> SUBSET Incoming]
    BY <1>1 DEF NoDanglingSocket
  <2> QED BY <1>1, <2>2, <2>3, <2>4 DEF SocketHalf
<1>5. RestTyped' BY <1>1 DEF RestTyped
<1>6. CASE listen
  <2>1. p \in [Slot -> Queue] /\ \A i \in Slot : p[i] = NewQueue
    BY <1>6, Queues
  <2>2. \A i \in Slot : pool[i] = NewQueue
    BY <1>6 DEF PoolHalf, ListenerOpensNone
  <2>3. (\A a \in Addr : o[a] = {}) /\ out' \in [Addr -> SUBSET Slot]
    BY <1>1, <2>2, CleanupIsHarmless, Queues
  <2> HIDE DEF p, o
  <2>4. Available(p) = {}
    BY <2>1, FindsAnEmptySlot, Queues
  <2>5. pool' \in [Slot -> Queue] /\ \A i \in Slot : pool'[i] = NewQueue
    BY <1>1, <2>1, <2>4, FillKeeps
  <2>6. sender' \in SenderState /\ sender'.pc = "pop"
    BY <1>1, <1>2, <2>4 DEF SenderState
  <2>7. PoolShape' /\ RightAddress'
    BY <1>1, <1>3, <2>3, <2>5, Queues DEF PoolShape, RightAddress
  <2>8. SenderInProgress' /\ ListenerOpensNone'
    BY <2>5, <2>6 DEF SenderInProgress, ListenerOpensNone
  <2>9. PoolHalf' BY <1>1, <2>3, <2>5, <2>6, <2>7, <2>8 DEF PoolHalf
  <2> QED BY <1>4, <1>5, <2>9
<1>7. CASE ~listen
  <2>1. p = Cleaned BY <1>7
  <2>2. p \in [Slot -> Queue] /\ o \in [Addr -> SUBSET Slot]
    BY <2>1, CleanupIsHarmless
  <2>3. /\ \A i \in Slot : p[i].out \subseteq p[i].to
        /\ \A a \in Addr : \A i \in o[a] : i \in Slot /\ p[i] # None /\ p[i].to = {a}
        /\ \A i \in Slot : /\ p[i].state = "none" => p[i] = None
                           /\ p[i].data <= used.data
    BY <1>3, <2>1, CleanupIsHarmless
  <2> HIDE DEF p, o
  <2>4. pool' \in [Slot -> Queue] /\ PoolShape' /\ RightAddress'
    BY <1>1, <1>3, <2>2, <2>3, FillIsHarmless
  <2>5. ListenerOpensNone' BY <1>1, <1>7 DEF ListenerOpensNone
  <2>6. sender' \in SenderState /\ SenderInProgress'
    <3>1. CASE Available(p) = {}
      <4>1. sender' \in SenderState /\ sender'.pc = "pop"
        BY <1>1, <1>2, <3>1 DEF SenderState
      <4> QED BY <4>1 DEF SenderInProgress
    <3>2. CASE Available(p) # {}
      <4> DEFINE k == CHOOSE j \in Available(p) : TRUE
      <4>1. k \in Available(p) /\ k \in Slot
        BY <3>2, FindsAnEmptySlot
      <4>2. sender' = [sender EXCEPT !.pc = "assign", !.slot = k]
        BY <1>1, <3>2
      <4>3. pool'[k] = NewQueue
        BY <1>1, <2>2, <4>1, FillKeeps
      <4> HIDE DEF k
      <4>4. sender' \in SenderState /\ sender'.pc = "assign" /\ sender'.slot = k
            /\ sender'.to = {To}
        BY <1>2, <4>1, <4>2, SenderTakesSlot
      <4> QED BY <1>2, <4>1, <4>3, <4>4 DEF SenderInProgress
    <3> QED BY <3>1, <3>2
  <2>7. PoolHalf' BY <1>1, <2>2, <2>4, <2>5, <2>6 DEF PoolHalf
  <2> QED BY <1>4, <1>5, <2>7
<1> QED BY <1>6, <1>7

LEMMA QueueFields ==
    ASSUME NEW r \in Queue, NEW x, NEW y
    PROVE  /\ [r EXCEPT !.to = x, !.state = y]
                = [to |-> x, out |-> r.out, data |-> r.data, state |-> y]
           /\ [r EXCEPT !.out = x, !.state = y]
                = [to |-> r.to, out |-> x, data |-> r.data, state |-> y]
<1>1. [r EXCEPT !.to = x] = [to |-> x, out |-> r.out, data |-> r.data, state |-> r.state]
  BY DEF Queue
<1>2. [r EXCEPT !.out = x] = [to |-> r.to, out |-> x, data |-> r.data, state |-> r.state]
  BY DEF Queue
<1>3. \A a, b : [[to |-> a, out |-> b, data |-> r.data, state |-> r.state] EXCEPT !.state = y]
                = [to |-> a, out |-> b, data |-> r.data, state |-> y]
  OBVIOUS
<1> QED BY <1>1, <1>2, <1>3

LEMMA AssignKeeps ==
    ASSUME IInv, Assign
    PROVE  IInv' /\ ~failed'
<1> USE DEF IInv
<1> DEFINE i == sender.slot
           q == [pool[i] EXCEPT !.to = sender.to, !.state = "connecting"]
<1>1. /\ sender.pc = "assign" /\ sender \in SenderState /\ To \in Addr
      /\ sender.to = {To} /\ i \in Slot /\ pool[i] = NewQueue /\ ~listen
  BY ToIsTheAddress DEF Assign, PoolHalf, SenderInProgress, ListenerOpensNone
<1>2. ~failed' /\ failed' \in BOOLEAN
  BY <1>1, Queues DEF Assign
<1>3. q = [to |-> {To}, out |-> {}, data |-> 0, state |-> "connecting"]
  <2>1. pool[i] \in Queue /\ pool[i].out = {} /\ pool[i].data = 0 BY <1>1, Queues
  <2>2. q = [to |-> sender.to, out |-> pool[i].out, data |-> pool[i].data,
             state |-> "connecting"]
    <3> DEFINE r == pool[i]
               x == sender.to
    <3>1. r \in Queue BY <2>1
    <3> HIDE DEF r, x
    <3>2. [r EXCEPT !.to = x, !.state = "connecting"]
            = [to |-> x, out |-> r.out, data |-> r.data, state |-> "connecting"]
      BY <3>1, QueueFields
    <3> QED BY <3>2 DEF r, x
  <2> QED BY <1>1, <2>1, <2>2
<1>4. /\ q \in Queue /\ q # None /\ q.to = {To} /\ q.out = {} /\ q.data = 0
      /\ q.state = "connecting"
  BY <1>1, <1>3, PoolAssumption, Queues DEF Queue, QueueState
<1>5. pool' = [pool EXCEPT ![i] = q]
  BY DEF Assign
<1>6. /\ out' = [out EXCEPT ![To] = {i}]
      /\ sender' = [sender EXCEPT !.pc = "send"]
      /\ UNCHANGED <<listen, in, live, map, sendq, pushing, rstate, used>>
  BY DEF Assign
<1>7. SocketHalf' /\ RestTyped'
  BY <1>2, <1>6, SocketsUntouched DEF RestTyped
<1> HIDE DEF q
<1>8. pool' \in [Slot -> Queue] /\ out' \in [Addr -> SUBSET Slot]
  BY <1>1, <1>4, <1>5, <1>6 DEF PoolHalf
<1>9. \A k \in Slot : pool'[k] = IF k = i THEN q ELSE pool[k]
  BY <1>5 DEF PoolHalf
<1>10. sender' \in SenderState /\ sender'.pc = "send" /\ sender'.slot = i
       /\ sender'.to = {To}
  BY <1>1, <1>6 DEF SenderState
<1>11. SenderInProgress'
  BY <1>1, <1>4, <1>9, <1>10 DEF SenderInProgress
<1>12. PoolShape'
  BY <1>4, <1>6, <1>9 DEF PoolHalf, PoolShape, RestTyped, UsedSet
<1>13. \A a \in Addr : \A k \in out'[a] : pool'[k] # None /\ pool'[k].to = {a}
  <2> SUFFICES ASSUME NEW a \in Addr, NEW k \in out'[a]
               PROVE  pool'[k] # None /\ pool'[k].to = {a}
    OBVIOUS
  <2>1. CASE a = To BY <1>1, <1>4, <1>6, <1>9, <2>1 DEF PoolHalf
  <2>2. CASE a # To
    <3>1. k \in out[a] /\ k \in Slot /\ pool[k].to = {a} /\ pool[k] # None
      BY <1>6, <2>2 DEF PoolHalf, RightAddress
    <3>2. k # i BY <1>1, <3>1, Queues
    <3> QED BY <1>9, <3>1, <3>2
  <2> QED BY <2>1, <2>2
<1>14. RightAddress'
  BY <1>4, <1>9, <1>13 DEF PoolHalf, RightAddress
<1>15. PoolHalf'
  BY <1>1, <1>6, <1>8, <1>10, <1>11, <1>12, <1>14 DEF PoolHalf, ListenerOpensNone
<1> QED BY <1>2, <1>7, <1>15

\* A queue of the pool changes its state and what it holds, and stays the
\* queue of its address.
LEMMA QueueChanges ==
    ASSUME PoolHalf, NEW i \in Slot, NEW q \in Queue,
           pool' = [pool EXCEPT ![i] = q],
           pool[i].state # "none", q.state # "none", q.to = pool[i].to,
           q.out \subseteq q.to, q.data <= used'.data,
           used.data \in Nat, used'.data \in Nat, used'.data >= used.data,
           UNCHANGED <<listen, out, sendq>>, ~listen,
           \/ sender' = sender /\ pool[i] # NewQueue
           \/ sender' \in SenderState /\ sender'.pc = "pop"
    PROVE  PoolHalf'
<1>1. \A k \in Slot : pool'[k] = IF k = i THEN q ELSE pool[k]
  BY DEF PoolHalf
<1>2. pool' \in [Slot -> Queue]
  BY DEF PoolHalf
<1>3. q # None /\ pool[i] # None
  BY Queues
<1>4. \A k \in Slot : pool[k].data \in Nat
  BY PoolAssumption DEF PoolHalf, Queue
<1>5. PoolShape'
  BY <1>1, <1>4 DEF PoolHalf, PoolShape
<1>6. RightAddress'
  BY <1>1, <1>3 DEF PoolHalf, RightAddress
<1>7. sender' \in SenderState
  BY DEF PoolHalf
<1>8. SenderInProgress'
  <2>1. CASE sender'.pc = "pop" BY <2>1 DEF SenderInProgress
  <2>2. CASE sender' = sender /\ pool[i] # NewQueue
    <3>1. sender.pc = "assign" => i # sender.slot
      BY <2>2 DEF PoolHalf, SenderInProgress
    <3> QED BY <1>1, <2>2, <3>1 DEF PoolHalf, SenderInProgress
  <2> QED BY <2>1, <2>2
<1> QED BY <1>2, <1>5, <1>6, <1>7, <1>8 DEF PoolHalf, ListenerOpensNone

LEMMA SenderSendsKeeps ==
    ASSUME IInv, SenderSends
    PROVE  IInv'
<1> USE DEF IInv
<1> DEFINE i == sender.slot
           st == IF pool[i].state = "disconnected" THEN "connecting" ELSE pool[i].state
           q == [pool[i] EXCEPT !.out = @ \cup sender.to, !.state = st]
<1>1. /\ sender.pc = "send" /\ sender \in SenderState /\ i \in Slot
      /\ sender.to \in SUBSET Addr /\ sender.to # {} /\ pool[i].to = sender.to
      /\ ~listen /\ pool[i] \in Queue
  BY ToIsTheAddress DEF SenderSends, PoolHalf, SenderInProgress, ListenerOpensNone
<1>2. pool[i].state # "none" /\ pool[i].out \subseteq pool[i].to
      /\ pool[i].data <= used.data
  BY <1>1, Queues DEF PoolHalf, PoolShape, RightAddress
<1>3. pool' = [pool EXCEPT ![i] = q]
  BY DEF SenderSends
<1>4. q = [to |-> pool[i].to, out |-> pool[i].out \cup sender.to,
           data |-> pool[i].data, state |-> st]
  BY <1>1, QueueFields
<1>5. st \in QueueState /\ st # "none"
  BY <1>1, <1>2 DEF Queue, QueueState
<1> HIDE DEF q, st
<1>6. q \in Queue
  BY <1>1, <1>4, <1>5 DEF Queue
<1>7. /\ sender' \in SenderState /\ sender'.pc = "pop"
      /\ UNCHANGED <<listen, out, in, live, map, sendq, pushing, rstate, failed, used>>
  BY <1>1 DEF SenderSends, SenderState
<1>8. used.data \in Nat
  BY DEF RestTyped, UsedSet
<1>9. PoolHalf'
  <2>1. q.state # "none" /\ q.out \subseteq q.to /\ q.to = pool[i].to
    BY <1>1, <1>2, <1>4, <1>5
  <2>2. used'.data \in Nat /\ used'.data >= used.data /\ q.data <= used'.data
    BY <1>2, <1>4, <1>7, <1>8
  <2>3. UNCHANGED <<listen, out, sendq>> BY <1>7
  <2> QED BY <1>1, <1>2, <1>3, <1>6, <1>7, <1>8, <2>1, <2>2, <2>3, QueueChanges
<1> QED BY <1>7, <1>9, SocketsUntouched, RestUntouched

-----------------------------------------------------------------------------
(***************************************************************************)
(* The TCP queues.                                                         *)
(***************************************************************************)
LEMMA QueueInState ==
    ASSUME NEW r \in Queue, NEW y \in QueueState
    PROVE  /\ [r EXCEPT !.state = y] \in Queue
           /\ [r EXCEPT !.state = y].to = r.to
           /\ [r EXCEPT !.state = y].out = r.out
           /\ [r EXCEPT !.state = y].data = r.data
           /\ [r EXCEPT !.state = y].state = y
BY DEF Queue

LEMMA QueueWithData ==
    ASSUME NEW r \in Queue, NEW y \in 0..MaxData
    PROVE  /\ [r EXCEPT !.data = y] \in Queue
           /\ [r EXCEPT !.data = y].to = r.to
           /\ [r EXCEPT !.data = y].out = r.out
           /\ [r EXCEPT !.data = y].data = y
           /\ [r EXCEPT !.data = y].state = r.state
BY DEF Queue

LEMMA PoolQueueKeeps ==
    ASSUME IInv, NEW i \in Slot, QueueConnects(i) \/ QueueBreaks(i) \/ QueueGets(i)
    PROVE  IInv'
<1> USE DEF IInv
<1>1. pool[i] \in Queue /\ pool[i].data <= used.data /\ pool[i].out \subseteq pool[i].to
      /\ used.data \in Nat /\ pool[i].data \in Nat /\ used \in UsedSet
  BY DEF PoolHalf, PoolShape, RightAddress, Queue, RestTyped, UsedSet
<1>2. pool[i].state \in {"connecting", "connected"}
  BY DEF QueueConnects, QueueBreaks, QueueGets
<1>3. pool[i] # NewQueue /\ ~listen
  BY <1>2, Queues DEF PoolHalf, ListenerOpensNone
<1>4. CASE QueueConnects(i) \/ QueueBreaks(i)
  <2>1. PICK st \in {"connected", "disconnected"} :
           pool' = [pool EXCEPT ![i] = [pool[i] EXCEPT !.state = st]]
    BY <1>4 DEF QueueConnects, QueueBreaks
  <2> DEFINE q == [pool[i] EXCEPT !.state = st]
  <2>2. q \in Queue /\ q.to = pool[i].to /\ q.out = pool[i].out /\ q.state = st
        /\ q.data = pool[i].data
    <3>1. st \in QueueState BY <2>1 DEF QueueState
    <3> QED BY <1>1, <3>1, QueueInState
  <2> HIDE DEF q
  <2>3. UNCHANGED <<listen, out, in, live, map, sendq, sender, pushing, rstate, failed, used>>
    BY <1>4 DEF QueueConnects, QueueBreaks
  <2>4. pool' = [pool EXCEPT ![i] = q] BY <2>1 DEF q
  <2>5. PoolHalf'
    <3>1. q.state # "none" /\ q.out \subseteq q.to BY <1>1, <2>1, <2>2
    <3>2. used'.data \in Nat /\ used'.data >= used.data /\ q.data <= used'.data
      BY <1>1, <2>2, <2>3
    <3>3. pool[i].state # "none" BY <1>2
    <3>4. sender' = sender /\ UNCHANGED <<listen, out, sendq>> BY <2>3
    <3> QED BY <1>1, <1>3, <2>2, <2>4, <3>1, <3>2, <3>3, <3>4, QueueChanges
  <2> QED BY <2>3, <2>5, SocketsUntouched, RestUntouched
<1>5. CASE QueueGets(i)
  <2> DEFINE q == [pool[i] EXCEPT !.data = @ + 1]
  <2>1. used' \in UsedSet /\ used'.data = used.data + 1 /\ used'.data \in 0..MaxData
    BY <1>1, <1>5, UsedMore DEF QueueGets, UsedSet
  <2>2. q \in Queue /\ q.to = pool[i].to /\ q.out = pool[i].out
        /\ q.state = pool[i].state /\ q.data = pool[i].data + 1
    <3>1. pool[i].data + 1 \in 0..MaxData BY <1>1, <2>1, PoolAssumption
    <3> QED BY <1>1, <3>1, QueueWithData
  <2>3. pool' = [pool EXCEPT ![i] = q] BY <1>5 DEF QueueGets
  <2>4. UNCHANGED <<listen, out, in, live, map, sendq, sender, pushing, rstate, failed>>
    BY <1>5 DEF QueueGets
  <2> HIDE DEF q
  <2>5. PoolHalf'
    <3>1. q.state # "none" /\ q.out \subseteq q.to BY <1>1, <1>2, <2>2
    <3>2. used'.data \in Nat /\ used'.data >= used.data /\ q.data <= used'.data
      BY <1>1, <2>1, <2>2
    <3>3. pool[i].state # "none" BY <1>2
    <3>4. sender' = sender /\ UNCHANGED <<listen, out, sendq>> BY <2>4
    <3> QED BY <1>1, <1>3, <2>2, <2>3, <3>1, <3>2, <3>3, <3>4, QueueChanges
  <2>6. RestTyped' BY <2>1, <2>4 DEF RestTyped
  <2> QED BY <2>4, <2>5, <2>6, SocketsUntouched
<1> QED BY <1>4, <1>5

LEMMA ReceiveOutKeeps ==
    ASSUME IInv, ReceiveOut
    PROVE  IInv' /\ ~failed'
<1> USE DEF IInv
<1>1. ~failed' /\ failed' \in BOOLEAN
  BY DEF ReceiveOut, PoolHalf, RightAddress
<1>2. rstate' \in 1..DONE BY DEF ReceiveOut, DONE
<1>3. UNCHANGED <<listen, out, in, live, map, sendq, sender, pushing, used>>
  BY DEF ReceiveOut
<1>4. RestTyped' /\ SocketHalf'
  BY <1>1, <1>2, <1>3, SocketsUntouched DEF RestTyped
<1>5. CASE pool' = pool
  BY <1>1, <1>3, <1>4, <1>5, PoolUntouched
<1>6. ASSUME NEW i \in Readable, pool' = [pool EXCEPT ![i].data = @ - 1]
      PROVE  PoolHalf'
  <2>1. PICK a \in Addr : i \in out[a] BY DEF Readable
  <2>2. i \in Slot /\ pool[i] # None /\ pool[i].to = {a} /\ pool[i].data > 0
    BY <2>1 DEF Readable, PoolHalf, RightAddress
  <2>3. /\ pool[i] \in Queue /\ pool[i].state # "none" /\ pool[i] # NewQueue
        /\ pool[i].data <= used.data /\ pool[i].out \subseteq pool[i].to
        /\ used.data \in Nat /\ pool[i].data \in 0..MaxData
    BY <2>2, Queues DEF PoolHalf, PoolShape, RightAddress, Queue, RestTyped, UsedSet
  <2>4. ~listen BY <2>2, <2>3 DEF PoolHalf, ListenerOpensNone
  <2> DEFINE q == [pool[i] EXCEPT !.data = @ - 1]
  <2>5. q \in Queue /\ q.to = pool[i].to /\ q.out = pool[i].out
        /\ q.state = pool[i].state /\ q.data = pool[i].data - 1
    <3>1. pool[i].data - 1 \in 0..MaxData BY <2>2, <2>3, PoolAssumption
    <3> QED BY <2>3, <3>1, QueueWithData
  <2>6. pool' = [pool EXCEPT ![i] = q] BY <1>6
  <2> HIDE DEF q
  <2>7. q.state # "none" /\ q.out \subseteq q.to BY <2>3, <2>5
  <2>8. used'.data \in Nat /\ used'.data >= used.data /\ q.data <= used'.data
    BY <1>3, <2>3, <2>5
  <2>9. sender' = sender /\ UNCHANGED <<listen, out, sendq>> BY <1>3
  <2> QED BY <2>2, <2>3, <2>4, <2>5, <2>6, <2>7, <2>8, <2>9, QueueChanges
<1> QED BY <1>1, <1>4, <1>5, <1>6 DEF ReceiveOut

-----------------------------------------------------------------------------
(***************************************************************************)
(* The listening queue.                                                    *)
(***************************************************************************)
LEMMA AcceptKeeps ==
    ASSUME IInv, NEW a \in Addr, Accept(a)
    PROVE  IInv'
<1> USE DEF IInv
<1> DEFINE c == [from |-> a, at |-> in.nr, nr |-> used.accepts + 1]
<1>1. used' \in UsedSet /\ used'.data = used.data /\ used.accepts + 1 \in 1..MaxAccepts
  BY UsedMore, PoolAssumption DEF Accept, RestTyped, UsedSet
<1>2. c \in Incoming /\ c.at = in.nr
  BY <1>1 DEF Incoming, SocketHalf, InTyped
<1>3. live' = live \cup {c}
      /\ UNCHANGED <<listen, pool, out, in, map, sendq, sender, pushing, rstate, failed>>
  BY DEF Accept
<1> HIDE DEF c
<1>4. SocketHalf'
  BY <1>2, <1>3 DEF SocketHalf, InTyped, SocketsOfNow, NoDanglingSocket
<1>5. RestTyped' BY <1>1, <1>3 DEF RestTyped
<1> QED BY <1>1, <1>3, <1>4, <1>5, PoolUntouched

LEMMA IncomingBreaksKeeps ==
    ASSUME IInv, NEW c \in live, IncomingBreaks(c)
    PROVE  IInv'
<1> USE DEF IInv
<1>1. live' \subseteq live
      /\ UNCHANGED <<listen, pool, out, in, map, sendq, sender, pushing, rstate, failed, used>>
  BY DEF IncomingBreaks
<1>2. SocketHalf'
  BY <1>1 DEF SocketHalf, InTyped, SocketsOfNow, NoDanglingSocket
<1> QED BY <1>1, <1>2, PoolUntouched, RestUntouched

LEMMA PushDataKeeps ==
    ASSUME IInv, NEW c \in live, PushData(c)
    PROVE  IInv'
<1> USE DEF IInv
<1>1. /\ used' = [used EXCEPT !.data = @ + 1]
      /\ in' = [in EXCEPT !.queue = Append(@, c)]
      /\ pushing' = {c}
      /\ UNCHANGED <<listen, pool, out, live, map, sendq, sender, rstate, failed>>
  BY DEF PushData
<1>2. used' \in UsedSet /\ used'.data = used.data + 1 /\ used.data \in Nat
  BY <1>1, UsedMore DEF PushData, RestTyped, UsedSet
<1>3. c \in Incoming /\ c.at = in.nr
  BY DEF SocketHalf, SocketsOfNow
<1>4. /\ in'.nr = in.nr /\ in'.last = in.last /\ in'.queue \in Seq(Incoming)
      /\ in' = [nr |-> in'.nr, queue |-> in'.queue, last |-> in'.last]
  <2>1. in' = [nr |-> in.nr, queue |-> Append(in.queue, c), last |-> in.last]
    <3>1. in = [nr |-> in.nr, queue |-> in.queue, last |-> in.last]
      BY DEF SocketHalf, InTyped
    <3> QED BY <1>1, <3>1
  <2>2. Append(in.queue, c) \in Seq(Incoming) BY <1>3 DEF SocketHalf, InTyped
  <2> QED BY <2>1, <2>2
<1>5. SocketHalf'
  BY <1>1, <1>3, <1>4 DEF SocketHalf, InTyped, SocketsOfNow, NoDanglingSocket
<1>6. \A i \in Slot : pool[i].data \in Nat
  BY PoolAssumption DEF PoolHalf, Queue
<1>7. PoolHalf'
  BY <1>1, <1>2, <1>6 DEF PoolHalf, SenderInProgress, PoolShape, ListenerOpensNone, RightAddress
<1>8. RestTyped' BY <1>1, <1>2 DEF RestTyped
<1> QED BY <1>5, <1>7, <1>8

LEMMA PushSocketKeeps ==
    ASSUME IInv, NEW c \in pushing, PushSocket(c)
    PROVE  IInv'
<1> USE DEF IInv
<1>1. /\ in' = [in EXCEPT !.last = Append(@, c)]
      /\ pushing' = {}
      /\ UNCHANGED <<listen, pool, out, live, map, sendq, sender, rstate, failed, used>>
  BY DEF PushSocket
<1>2. c \in Incoming /\ c.at = in.nr
  BY DEF SocketHalf, SocketsOfNow
<1>3. /\ in'.nr = in.nr /\ in'.queue = in.queue /\ in'.last = Append(in.last, c)
      /\ in' = [nr |-> in'.nr, queue |-> in'.queue, last |-> in'.last]
  BY <1>1 DEF SocketHalf, InTyped
<1>4. in'.last \in Seq(Incoming) /\ Len(in'.last) = Len(in.last) + 1
      /\ \A k \in 1..Len(in'.last) : in'.last[k] = IF k <= Len(in.last) THEN in.last[k] ELSE c
  BY <1>2, <1>3 DEF SocketHalf, InTyped
<1>5. Len(in.last) \in Nat
  BY DEF SocketHalf, InTyped
<1>6. \A k \in 1..Len(in'.last) : in'.last[k].at = in'.nr
  BY <1>2, <1>3, <1>4, <1>5 DEF SocketHalf, SocketsOfNow
<1>7. SocketHalf'
  BY <1>1, <1>3, <1>4, <1>6 DEF SocketHalf, InTyped, SocketsOfNow, NoDanglingSocket
<1> QED BY <1>1, <1>7, PoolUntouched, RestUntouched

LEMMA ReceiveInKeeps ==
    ASSUME IInv, ReceiveIn
    PROVE  IInv'
<1> USE DEF IInv
<1>1. UNCHANGED <<listen, pool, out, live, sendq, sender, pushing, used>>
      /\ rstate' \in 1..DONE
  BY DEF ReceiveIn, OUT_TCP, DONE
<1>2. PoolHalf' BY <1>1, PoolUntouched
<1>3. CASE in.queue = <<>> \/ in.last = <<>>
  <2>1. UNCHANGED <<in, map>> BY <1>3 DEF ReceiveIn
  <2>2. failed' \in BOOLEAN BY <1>3 DEF ReceiveIn, RestTyped
  <2> QED BY <1>1, <1>2, <2>1, <2>2, SocketsUntouched DEF RestTyped
<1>4. CASE in.queue # <<>> /\ in.last # <<>>
  <2> DEFINE h == Head(in.last)
  <2>1. /\ in' = [in EXCEPT !.queue = Tail(@), !.last = Tail(@)]
        /\ map' = [map EXCEPT ![h.from] = {h}]
        /\ failed' = failed
    BY <1>4 DEF ReceiveIn
  <2>2. in.last \in Seq(Incoming) /\ in.queue \in Seq(Incoming) /\ in.nr \in Nat
    BY DEF SocketHalf, InTyped
  <2>3. h = in.last[1] /\ 1 \in 1..Len(in.last) /\ h \in Incoming
    BY <1>4, <2>2
  <2>4. h.at = in.nr /\ h.from \in Addr
    BY <2>3 DEF SocketHalf, SocketsOfNow, Incoming
  <2>5. /\ in'.nr = in.nr /\ in'.queue = Tail(in.queue) /\ in'.last = Tail(in.last)
        /\ in' = [nr |-> in'.nr, queue |-> in'.queue, last |-> in'.last]
    BY <2>1 DEF SocketHalf, InTyped
  <2>6. /\ in'.last \in Seq(Incoming) /\ in'.queue \in Seq(Incoming)
        /\ \A k \in 1..Len(in'.last) : /\ k + 1 \in 1..Len(in.last)
                                       /\ in'.last[k] = in.last[k + 1]
    BY <1>4, <2>2, <2>5
  <2>7. \A k \in 1..Len(in'.last) : in'.last[k].at = in'.nr
    BY <2>5, <2>6 DEF SocketHalf, SocketsOfNow
  <2> HIDE DEF h
  <2>8. map' \in [Addr -> SUBSET Incoming] /\ NoDanglingSocket'
    BY <2>1, <2>3, <2>4, <2>5 DEF SocketHalf, NoDanglingSocket
  <2>9. SocketHalf'
    BY <1>1, <2>2, <2>5, <2>6, <2>7, <2>8 DEF SocketHalf, InTyped, SocketsOfNow
  <2> QED BY <1>1, <1>2, <2>1, <2>9 DEF RestTyped
<1> QED BY <1>3, <1>4

LEMMA OtherReceivesKeep ==
    ASSUME IInv, (\E some \in BOOLEAN : ReceiveUdp(some)) \/ ReceiveAgain
    PROVE  IInv' /\ failed' = failed
<1> USE DEF IInv
<1>1. UNCHANGED <<listen, pool, out, in, live, map, sendq, sender, pushing, failed, used>>
  BY DEF ReceiveUdp, ReceiveAgain
<1>2. rstate' \in 1..DONE
  BY DEF ReceiveUdp, ReceiveAgain, AfterData, IN_TCP, OUT_TCP, DONE
<1>3. RestTyped' BY <1>1, <1>2 DEF RestTyped
<1> QED BY <1>1, <1>3, PoolUntouched, SocketsUntouched

-----------------------------------------------------------------------------
LEMMA NextKeeps == IInv /\ [Next]_vars => IInv'
<1> SUFFICES ASSUME IInv, [Next]_vars PROVE IInv' OBVIOUS
<1>1. CASE UNCHANGED vars
  BY <1>1, PoolUntouched, SocketsUntouched, RestUntouched DEF IInv, vars
<1>2. CASE \E a \in Addr : Send(a)
  BY <1>2, SendKeeps
<1>3. CASE SendThread
  BY <1>3, SenderPopsKeeps, ConnectKeeps, RepoolKeeps, AssignKeeps, SenderSendsKeeps
     DEF SendThread
<1>4. CASE Receive
  BY <1>4, OtherReceivesKeep, ReceiveInKeeps, ReceiveOutKeeps DEF Receive
<1>5. CASE RunThread
  BY <1>5, PushSocketKeeps DEF RunThread
<1>6. CASE Network
  BY <1>6, PoolQueueKeeps, AcceptKeeps, IncomingBreaksKeeps, PushDataKeeps DEF Network
<1> QED BY <1>1, <1>2, <1>3, <1>4, <1>5, <1>6 DEF Next

THEOREM Invariance == Spec => []IInv
<1> QED BY InitHolds, NextKeeps, PTL DEF Spec

(***************************************************************************)
(* A message goes only to the address it was sent to, whatever the size of *)
(* the pool and however its slots pass from address to address.            *)
(***************************************************************************)
THEOREM MessagesGoToTheirAddress == Spec => []RightAddress
<1>1. IInv => RightAddress BY DEF IInv, PoolHalf
<1> QED BY <1>1, Invariance, PTL

(***************************************************************************)
(* The raw pointers in _in_connections are of the listening queue of now.  *)
(***************************************************************************)
THEOREM SocketsAreOwned == Spec => []NoDanglingSocket
<1>1. IInv => NoDanglingSocket BY DEF IInv, SocketHalf
<1> QED BY <1>1, Invariance, PTL

(***************************************************************************)
(* A program that listens (the locator) never uses a slot of its pool: it  *)
(* only answers on connections that came in.                               *)
(***************************************************************************)
THEOREM ListenersOnlyAnswer == Spec => []ListenerOpensNone
<1>1. IInv => ListenerOpensNone BY DEF IInv, PoolHalf
<1> QED BY <1>1, Invariance, PTL

(***************************************************************************)
(* A client gives a message up only when no slot is empty or holds a       *)
(* connection that broke: cleanup_pool and find_next_available, together.  *)
(***************************************************************************)
THEOREM GivingUpMeansBusy == Spec => GivesUpOnlyWhenBusy
<1>1. ASSUME IInv, [Next]_vars
      PROVE  [~listen /\ sender.pc = "repool" /\ sender'.pc = "pop"
              => \A i \in Slot : pool[i].state \in {"connecting", "connected"}]_vars
  <2> SUFFICES ASSUME Next, ~listen, sender.pc = "repool", sender'.pc = "pop",
                      NEW i \in Slot
               PROVE  pool[i].state \in {"connecting", "connected"}
    BY <1>1
  <2>1. Repool
    BY DEF Next, Send, SendThread, SenderPops, Connect, Assign, SenderSends, Receive,
       ReceiveUdp, ReceiveIn, ReceiveOut, ReceiveAgain, RunThread, PushSocket, Network,
       QueueConnects, QueueBreaks, QueueGets, Accept, IncomingBreaks, PushData
  <2>2. Available(Cleaned) = {}
    <3> SUFFICES ASSUME Available(Cleaned) # {} PROVE FALSE OBVIOUS
    <3> DEFINE k == CHOOSE j \in Available(Cleaned) : TRUE
    <3>1. sender' = [sender EXCEPT !.pc = "assign", !.slot = k] BY <2>1 DEF Repool
    <3>2. k \in Slot BY FindsAnEmptySlot
    <3>3. sender \in SenderState BY <1>1 DEF IInv, PoolHalf
    <3> HIDE DEF k
    <3>4. sender'.pc = "assign" BY <3>1, <3>2, <3>3, SenderTakesSlot
    <3> QED BY <3>4
  <2>3. Cleaned[i] # None BY <2>2, FindsAnEmptySlot
  <2>4. ~Disconnected(pool[i]) /\ pool[i] # None
    BY <1>1, <2>3, CleanupIsHarmless DEF IInv
  <2>5. pool[i] \in Queue /\ pool[i].state # "none"
    BY <1>1, <2>4 DEF IInv, PoolHalf, PoolShape
  <2> QED BY <2>4, <2>5 DEF Queue, QueueState, Disconnected
<1> QED BY <1>1, Invariance, PTL DEF Spec, GivesUpOnlyWhenBusy

(***************************************************************************)
(* Of the contracts of the connection manager only one can fail, the       *)
(* CHECK(s) of receive, and only when the data of a connection that came   *)
(* in is there and its socket is not: no queue in _out is ever null, and   *)
(* a slot that is assigned still holds the fresh queue it was given.       *)
(***************************************************************************)
OnlyReceiveInFails ==
    [][failed' => rstate = IN_TCP /\ in.queue # <<>> /\ in.last = <<>>]_vars

THEOREM OtherContractsHold == Spec => OnlyReceiveInFails
<1>1. ASSUME IInv, [Next]_vars
      PROVE  [failed' => rstate = IN_TCP /\ in.queue # <<>> /\ in.last = <<>>]_vars
  <2> SUFFICES ASSUME Next, failed', ~failed
               PROVE  rstate = IN_TCP /\ in.queue # <<>> /\ in.last = <<>>
    BY <1>1 DEF Next
  <2>1. ~Connect /\ ~Assign /\ ~ReceiveOut
    BY <1>1, ConnectKeeps, AssignKeeps, ReceiveOutKeeps
  <2>2. ReceiveIn
    BY <2>1 DEF Next, Send, SendThread, SenderPops, Repool, SenderSends, Receive,
       ReceiveUdp, ReceiveAgain, RunThread, PushSocket, Network,
       QueueConnects, QueueBreaks, QueueGets, Accept, IncomingBreaks, PushData
  <2> QED BY <2>2 DEF ReceiveIn
<1> QED BY <1>1, Invariance, PTL DEF Spec, OnlyReceiveInFails

=============================================================================
