---------------------------- MODULE TcpQueueProofs -----------------------------
(***************************************************************************)
(* Proofs about TcpQueue, for every bound.                                 *)
(***************************************************************************)
EXTENDS TcpQueue, TLAPS, SequenceTheorems

Op == {"connect", "read", "write", "send", "close"}

HandlerSet == [h : Op, ok : BOOLEAN]

Label == {"none", "hello", "connect", "async", "idle", "push", "post", "join", "gone",
          "run", "connected", "write", "caught", "sleep",
          "loop", "close_writing", "close_post", "ended"}

Connecting == con.state = "connecting"

(***************************************************************************)
(* What the proofs need to know of a queue of handlers, besides whether it *)
(* holds one of an operation: it holds at most one of a write, one of a    *)
(* write that was completed, and a close comes last.                       *)
(***************************************************************************)
Single(s) == \A i, j \in 1..Len(s) : s[i].h = "write" /\ s[j].h = "write" => i = j
Written(s) == \E i \in 1..Len(s) : s[i].h = "write" /\ s[i].ok
EndsInClose(s) == s # <<>> => s[Len(s)].h = "close"

\* Messages that have left the queue; a write that is not handled yet
Popped == used.pushed - Len(outq)
Underway == "write" \in pending \/ Any(ready, "write")

-----------------------------------------------------------------------------
ConSet == [state : {"disconnected", "connecting", "connected"},
           open : BOOLEAN, fresh : BOOLEAN, writing : BOOLEAN, alive : BOOLEAN]

UsedSet == [pushed : Nat, sends : Nat, acks : Nat]

Typed ==
    /\ con \in ConSet
    /\ outq \in Seq(Nat)
    /\ ready \in Seq(HandlerSet)
    /\ pending \subseteq {"connect", "read", "write"}
    /\ pc \in [Thread -> Label]
    /\ wrote \in [last : Nat, here : BOOLEAN]
    /\ used \in UsedSet

(***************************************************************************)
(* Where the threads are.  Nothing is connected before the run thread has  *)
(* pushed its keep-alive; _writing is set only while a write is under way  *)
(* or about to be; a queue that is being destroyed is disconnected and     *)
(* stays so.                                                               *)
(***************************************************************************)
Threads ==
    /\ pc["run"] \in {"none", "hello"} => ~Connected
    /\ (con.writing /\ failed = "no") => Underway \/ pc["run"] = "write"
    /\ done => Disconnected /\ pc["caller"] \in {"join", "gone"}
    /\ pc["keep"] \in {"close_writing", "close_post"} => Overlapping

(***************************************************************************)
(* The queue holds the messages that were pushed last; those that have     *)
(* left it were written, and perhaps the first of it.                      *)
(***************************************************************************)
Numbered ==
    /\ Popped \in Nat
    /\ \A i \in 1..Len(outq) : outq[i] = Popped + i
    /\ wrote.last = Popped \/ (wrote.last = Popped + 1 /\ outq # <<>>)

\* One write at a time, of a message that stays in the queue until it is handled
OneWrite ==
    failed = "no" =>
        /\ Single(ready)
        /\ "write" \in pending => ~Any(ready, "write")
        /\ Underway \/ pc["run"] = "write" => outq # <<>>
        /\ Written(ready) => wrote.last = Popped + 1

(***************************************************************************)
(* Without a race the connection goes through its states one at a time.    *)
(* Idle: it is disconnected with no close to come, and then nothing is     *)
(* left of what was under way before.  Opening: from connect() to          *)
(* handle_connect there is nothing else under way.  Up: connected.         *)
(***************************************************************************)
Alone(s) == s = <<>> \/ s = <<Handler("connect", TRUE)>> \/ s = <<Handler("connect", FALSE)>>

Idle ==
    /\ Closing => Disconnected
    /\ Disconnected => ~con.writing /\ pc["run"] \notin {"write", "connected"}
    /\ (Disconnected /\ ~Closing) => ready = <<>> /\ pending = {}
    /\ (Disconnected /\ ~con.open) =>
          /\ pending = {}
          /\ (Any(ready, "close") /\ pc["run"] # "caught") => EndsInClose(ready)
    /\ pc["run"] = "caught" => ~con.open

Opening ==
    /\ Connecting => /\ pc["run"] \notin {"write", "connected"}
                     /\ pending \subseteq {"connect"}
                     /\ Alone(ready) /\ (ready = <<>> \/ pending = {})
                     /\ ready = <<Handler("connect", TRUE)>> => ~wrote.here
    /\ pc["caller"] = "async" => Connecting /\ ready = <<>> /\ pending = {}
    /\ ~Disconnected => pc["caller"] = "async" \/ con.open

Up ==
    /\ Connected => "connect" \notin pending /\ ~Any(ready, "connect")
    /\ pc["run"] = "write" => con.writing /\ ~Underway
    /\ (~Disconnected /\ Underway) => con.writing

\* What was written on this connection is popped before the next write.
Once ==
    (wrote.here /\ wrote.last = Popped + 1) =>
        \/ Written(ready)
        \/ "write" \notin pending /\ pc["run"] # "write" /\ ~Connected

Calm == ~Overlapping => failed = "no" /\ Idle /\ Opening /\ Up /\ Once

IInv == /\ Typed /\ Threads /\ NothingStranded /\ ConnectingEnds
        /\ Numbered /\ OneWrite /\ Calm

-----------------------------------------------------------------------------
LEMMA Nothing ==
    /\ <<>> \in Seq(HandlerSet) /\ Single(<<>>) /\ ~Written(<<>>) /\ EndsInClose(<<>>)
    /\ \A op : ~Any(<<>>, op)
BY DEF Any, Single, Written, EndsInClose

LEMMA AnyIsSome ==
    ASSUME NEW s \in Seq(HandlerSet)
    PROVE  /\ Written(s) => Any(s, "write")
           /\ (EndsInClose(s) /\ ~Any(s, "close")) => s = <<>>
BY DEF Any, Written, EndsInClose

\* A queue that one handler is appended to
LEMMA Appended ==
    ASSUME NEW s \in Seq(HandlerSet), NEW op \in Op, NEW good \in BOOLEAN
    PROVE  LET t == Append(s, Handler(op, good)) IN
           /\ t \in Seq(HandlerSet) /\ t # <<>>
           /\ \A o : Any(t, o) <=> Any(s, o) \/ o = op
           /\ (Single(s) /\ ~(op = "write" /\ Any(s, "write"))) => Single(t)
           /\ Written(t) <=> Written(s) \/ (op = "write" /\ good)
           /\ EndsInClose(t) <=> op = "close"
<1> DEFINE e == Handler(op, good)
           t == Append(s, e)
<1>1. e \in HandlerSet /\ e.h = op /\ e.ok = good BY DEF Handler, HandlerSet
<1> HIDE DEF e
<1>2. /\ t \in Seq(HandlerSet) /\ Len(t) = Len(s) + 1 /\ t[Len(s) + 1] = e
      /\ \A i \in 1..Len(s) : t[i] = s[i]
      /\ Len(s) \in Nat
  BY <1>1
<1> HIDE DEF t
<1>3. t # <<>> BY <1>2
<1>4. ASSUME NEW o PROVE Any(t, o) <=> Any(s, o) \/ o = op
  BY <1>1, <1>2 DEF Any
<1>5. (Single(s) /\ ~(op = "write" /\ Any(s, "write"))) => Single(t)
  BY <1>1, <1>2 DEF Single, Any
<1>6. Written(t) <=> Written(s) \/ (op = "write" /\ good)
  BY <1>1, <1>2 DEF Written
<1>7. EndsInClose(t) <=> op = "close"
  BY <1>1, <1>2, <1>3 DEF EndsInClose
<1> QED BY <1>2, <1>3, <1>4, <1>5, <1>6, <1>7 DEF t, e

\* A queue that its first handler is taken from
LEMMA Taken ==
    ASSUME NEW s \in Seq(HandlerSet), s # <<>>
    PROVE  LET t == Tail(s) IN
           /\ t \in Seq(HandlerSet) /\ Head(s) \in HandlerSet
           /\ \A o : Any(s, o) <=> Any(t, o) \/ o = Head(s).h
           /\ Single(s) => Single(t) /\ (Head(s).h = "write" => ~Any(t, "write"))
           /\ Written(s) <=> Written(t) \/ (Head(s).h = "write" /\ Head(s).ok)
           /\ EndsInClose(s) => EndsInClose(t)
           /\ Alone(s) => t = <<>>
<1> DEFINE t == Tail(s)
<1>1. /\ t \in Seq(HandlerSet) /\ Head(s) = s[1] /\ s[1] \in HandlerSet
      /\ Len(t) \in Nat /\ Len(s) = Len(t) + 1
      /\ \A i \in 1..Len(t) : t[i] = s[i + 1]
  OBVIOUS
<1>2. \A i \in 1..Len(s) : i = 1 \/ (i - 1 \in 1..Len(t) /\ s[i] = t[i - 1])
  BY <1>1
<1>4. EndsInClose(s) => EndsInClose(t)
  <2> SUFFICES ASSUME EndsInClose(s), t # <<>> PROVE t[Len(t)].h = "close"
    BY DEF EndsInClose
  <2>1. Len(t) \in 1..Len(t) BY <1>1
  <2>2. t[Len(t)] = s[Len(s)] BY <1>1, <2>1
  <2> QED BY <2>2 DEF EndsInClose
<1> HIDE DEF t
<1>3. Alone(s) => t = <<>>
  <2>1. ASSUME NEW e, s = <<e>> PROVE Len(s) = 1 BY <2>1
  <2>2. Alone(s) => Len(s) = 1 BY <2>1, Zenon DEF Alone
  <2>3. t # <<>> => Len(t) # 0 BY <1>1, EmptySeq
  <2>4. Len(s) = 1 => Len(t) = 0 BY <1>1
  <2> QED BY <2>2, <2>3, <2>4, Zenon
<1>5. ASSUME NEW o PROVE Any(s, o) <=> Any(t, o) \/ o = Head(s).h
  <2>1. ASSUME NEW i \in 1..Len(t), t[i].h = o PROVE Any(s, o)
    <3>1. i + 1 \in 1..Len(s) /\ s[i + 1].h = o BY <1>1, <2>1
    <3> QED BY <3>1 DEF Any
  <2>2. o = Head(s).h => Any(s, o)
    <3>1. 1 \in 1..Len(s) BY <1>1
    <3> QED BY <1>1, <3>1 DEF Any
  <2>3. Any(s, o) => Any(t, o) \/ o = Head(s).h
    BY <1>1, <1>2 DEF Any
  <2> QED BY <2>1, <2>2, <2>3 DEF Any
<1>6. Written(s) <=> Written(t) \/ (Head(s).h = "write" /\ Head(s).ok)
  <2>1. ASSUME NEW i \in 1..Len(t), t[i].h = "write" /\ t[i].ok PROVE Written(s)
    <3>1. i + 1 \in 1..Len(s) /\ s[i + 1].h = "write" /\ s[i + 1].ok BY <1>1, <2>1
    <3> QED BY <3>1 DEF Written
  <2>2. Head(s).h = "write" /\ Head(s).ok => Written(s)
    <3>1. 1 \in 1..Len(s) BY <1>1
    <3> QED BY <1>1, <3>1 DEF Written
  <2>3. Written(s) => Written(t) \/ (Head(s).h = "write" /\ Head(s).ok)
    BY <1>1, <1>2 DEF Written
  <2> QED BY <2>1, <2>2, <2>3 DEF Written
<1>7. ASSUME Single(s) PROVE Single(t) /\ (Head(s).h = "write" => ~Any(t, "write"))
  <2>1. \A i \in 1..Len(t) : i + 1 \in 1..Len(s) /\ i + 1 # 1 /\ s[i + 1] = t[i]
    BY <1>1
  <2>2. 1 \in 1..Len(s) BY <1>1
  <2>3. Single(t) BY <1>7, <2>1 DEF Single
  <2>4. Head(s).h = "write" => ~Any(t, "write")
    BY <1>1, <1>7, <2>1, <2>2 DEF Single, Any
  <2> QED BY <2>3, <2>4
<1> QED BY <1>1, <1>3, <1>4, <1>5, <1>6, <1>7 DEF t

\* A queue of handlers that others are put behind
LEMMA Joins ==
    ASSUME NEW s \in Seq(HandlerSet), NEW t \in Seq(HandlerSet)
    PROVE  LET u == s \o t IN
           /\ u \in Seq(HandlerSet)
           /\ \A o : Any(u, o) <=> Any(s, o) \/ Any(t, o)
           /\ (Single(s) /\ Single(t) /\ ~(Any(s, "write") /\ Any(t, "write"))) => Single(u)
           /\ Written(u) <=> Written(s) \/ Written(t)
<1> DEFINE u == s \o t
<1>1. /\ u \in Seq(HandlerSet) /\ Len(s) \in Nat /\ Len(t) \in Nat
      /\ Len(u) = Len(s) + Len(t)
      /\ \A i \in 1..Len(s) : u[i] = s[i]
      /\ \A i \in 1..Len(t) : u[Len(s) + i] = t[i]
  OBVIOUS
<1>2. \A i \in 1..Len(u) :
          \/ i \in 1..Len(s) /\ u[i] = s[i]
          \/ i - Len(s) \in 1..Len(t) /\ u[i] = t[i - Len(s)]
  <2> TAKE i \in 1..Len(u)
  <2>1. CASE i <= Len(s) BY <1>1, <2>1
  <2>2. CASE i > Len(s)
    <3>1. i - Len(s) \in 1..Len(t) /\ i = Len(s) + (i - Len(s)) BY <1>1, <2>2
    <3> QED BY <1>1, <3>1
  <2> QED BY <1>1, <2>1, <2>2
<1>3. /\ \A i \in 1..Len(s) : i \in 1..Len(u)
      /\ \A i \in 1..Len(t) : Len(s) + i \in 1..Len(u)
  BY <1>1
<1> HIDE DEF u
<1>4. ASSUME NEW o PROVE Any(u, o) <=> Any(s, o) \/ Any(t, o)
  <2>1. Any(s, o) => Any(u, o) BY <1>1, <1>3 DEF Any
  <2>2. Any(t, o) => Any(u, o) BY <1>1, <1>3 DEF Any
  <2>3. Any(u, o) => Any(s, o) \/ Any(t, o) BY <1>2 DEF Any
  <2> QED BY <2>1, <2>2, <2>3
<1>5. Written(u) <=> Written(s) \/ Written(t)
  <2>1. Written(s) => Written(u) BY <1>1, <1>3 DEF Written
  <2>2. Written(t) => Written(u) BY <1>1, <1>3 DEF Written
  <2>3. Written(u) => Written(s) \/ Written(t) BY <1>2 DEF Written
  <2> QED BY <2>1, <2>2, <2>3
<1>6. ASSUME Single(s), Single(t), ~(Any(s, "write") /\ Any(t, "write"))
      PROVE  Single(u)
  <2> SUFFICES ASSUME NEW i \in 1..Len(u), NEW j \in 1..Len(u),
                      u[i].h = "write", u[j].h = "write"
               PROVE  i = j
    BY DEF Single
  <2>1. CASE i \in 1..Len(s) /\ u[i] = s[i]
    <3>1. Any(s, "write") BY <2>1 DEF Any
    <3>2. ~Any(t, "write") BY <1>6, <3>1
    <3>3. j \in 1..Len(s) /\ u[j] = s[j] BY <1>2, <3>2 DEF Any
    <3> QED BY <1>6, <2>1, <3>3 DEF Single
  <2>2. CASE i - Len(s) \in 1..Len(t) /\ u[i] = t[i - Len(s)]
    <3>1. Any(t, "write") BY <2>2 DEF Any
    <3>2. ~Any(s, "write") BY <1>6, <3>1
    <3>3. j - Len(s) \in 1..Len(t) /\ u[j] = t[j - Len(s)] BY <1>2, <3>2 DEF Any
    <3>4. i - Len(s) = j - Len(s) BY <1>6, <2>2, <3>3 DEF Single
    <3> QED BY <1>1, <3>4
  <2> QED BY <1>2, <2>1, <2>2
<1> QED BY <1>1, <1>4, <1>5, <1>6 DEF u

\* One handler on its own
LEMMA Alones ==
    ASSUME NEW op \in Op, NEW good \in BOOLEAN
    PROVE  LET t == <<Handler(op, good)>> IN
           /\ t \in Seq(HandlerSet) /\ Single(t)
           /\ \A o : Any(t, o) <=> o = op
           /\ Written(t) <=> op = "write" /\ good
<1> DEFINE e == Handler(op, good)
           t == <<e>>
<1>1. e \in HandlerSet /\ e.h = op /\ e.ok = good BY DEF Handler, HandlerSet
<1> HIDE DEF e
<1>2. t \in Seq(HandlerSet) /\ Len(t) = 1 /\ t[1] = e BY <1>1
<1> HIDE DEF t
<1>3. \A i \in 1..Len(t) : i = 1 BY <1>2
<1>4. 1 \in 1..Len(t) BY <1>2
<1> QED BY <1>1, <1>2, <1>3, <1>4 DEF Any, Single, Written, t, e

LEMMA AbortedOnes ==
    /\ Aborted \in Seq(HandlerSet) /\ Single(Aborted) /\ ~Written(Aborted)
    /\ ~Any(Aborted, "close") /\ ~Any(Aborted, "send")
    /\ Any(Aborted, "write") => "write" \in pending
    /\ Any(Aborted, "connect") => "connect" \in pending
<1> DEFINE Part(op) == IF op \in pending THEN <<Handler(op, FALSE)>> ELSE <<>>
<1>1. ASSUME NEW op \in Op
      PROVE  /\ Part(op) \in Seq(HandlerSet) /\ Single(Part(op)) /\ ~Written(Part(op))
             /\ \A o : Any(Part(op), o) => o = op /\ op \in pending
  BY Nothing, Alones
<1>2. "read" \in Op /\ "write" \in Op /\ "connect" \in Op BY DEF Op
<1>3. Aborted = (Part("read") \o Part("write")) \o Part("connect") BY DEF Aborted
<1> HIDE DEF Part
<1> DEFINE RW == Part("read") \o Part("write")
<1>4. /\ RW \in Seq(HandlerSet) /\ Single(RW) /\ ~Written(RW)
      /\ \A o : Any(RW, o) => Any(Part("read"), o) \/ Any(Part("write"), o)
  BY <1>1, <1>2, Joins
<1> HIDE DEF RW
<1>5. ~Any(Part("connect"), "write") BY <1>1, <1>2
<1>6. Aborted = RW \o Part("connect") BY <1>3 DEF RW
<1>7. /\ Aborted \in Seq(HandlerSet) /\ Single(Aborted) /\ ~Written(Aborted)
      /\ \A o : Any(Aborted, o) => Any(RW, o) \/ Any(Part("connect"), o)
  BY <1>1, <1>2, <1>4, <1>5, <1>6, Joins
<1>8. ASSUME NEW o, Any(Aborted, o)
      PROVE  /\ o \in {"read", "write", "connect"} /\ o \in pending
  BY <1>1, <1>2, <1>4, <1>7, <1>8
<1>9. ~Any(Aborted, "close") /\ ~Any(Aborted, "send") BY <1>8
<1>10. /\ Any(Aborted, "write") => "write" \in pending
       /\ Any(Aborted, "connect") => "connect" \in pending
  BY <1>8
<1> QED BY <1>7, <1>9, <1>10

-----------------------------------------------------------------------------
LEMMA Moved ==
    ASSUME pc \in [Thread -> Label], NEW t \in Thread, NEW l \in Label, Goto(t, l)
    PROVE  /\ pc' \in [Thread -> Label] /\ pc'[t] = l
           /\ \A u \in Thread : u # t => pc'[u] = pc[u]
BY DEF Goto

LEMMA ThreadNames == "caller" \in Thread /\ "run" \in Thread /\ "keep" \in Thread
BY DEF Thread

\* What is pushed is the next number, behind those in the queue.
LEMMA Pushed ==
    ASSUME Typed, Numbered, Push, wrote' = wrote
    PROVE  /\ Numbered' /\ Popped' = Popped /\ outq' # <<>>
           /\ outq' \in Seq(Nat) /\ used' \in UsedSet
<1>1. /\ outq' = Append(outq, used.pushed + 1) /\ used'.pushed = used.pushed + 1
      /\ used' \in UsedSet /\ used.pushed \in Nat
  BY DEF Typed, UsedSet, Push
<1>2. /\ outq' \in Seq(Nat) /\ Len(outq) \in Nat /\ Len(outq') = Len(outq) + 1
      /\ outq'[Len(outq) + 1] = used.pushed + 1
      /\ \A i \in 1..Len(outq) : outq'[i] = outq[i]
  BY <1>1 DEF Typed
<1>3. outq' # <<>> BY <1>2, EmptySeq
<1>4. Popped' = Popped
  <2>1. \A a, b \in Nat : (a + 1) - (b + 1) = a - b OBVIOUS
  <2>2. used.pushed \in Nat /\ Len(outq) \in Nat BY <1>1, <1>2
  <2>3. (used.pushed + 1) - (Len(outq) + 1) = used.pushed - Len(outq) BY <2>1, <2>2
  <2> QED BY <1>1, <1>2, <2>3 DEF Popped
<1>5. \A i \in 1..Len(outq') : outq'[i] = Popped + i
  <2> TAKE i \in 1..Len(outq')
  <2>1. CASE i \in 1..Len(outq) BY <1>2, <2>1 DEF Numbered
  <2>2. CASE i = Len(outq) + 1 BY <1>1, <1>2, <2>2 DEF Popped
  <2> QED BY <1>2, <2>1, <2>2
<1> QED BY <1>1, <1>2, <1>3, <1>4, <1>5 DEF Numbered

LEMMA NumbersStay ==
    ASSUME Numbered, outq' = outq, used'.pushed = used.pushed, wrote'.last = wrote.last
    PROVE  Numbered' /\ Popped' = Popped
BY DEF Numbered, Popped

LEMMA Counted ==
    ASSUME used \in UsedSet
    PROVE  /\ [used EXCEPT !.sends = @ + 1] \in UsedSet
           /\ [used EXCEPT !.sends = @ + 1].pushed = used.pushed
           /\ [used EXCEPT !.acks = @ + 1] \in UsedSet
           /\ [used EXCEPT !.acks = @ + 1].pushed = used.pushed
<1>1. used.pushed \in Nat /\ used.sends + 1 \in Nat /\ used.acks + 1 \in Nat
  BY DEF UsedSet
<1>2. /\ [used EXCEPT !.sends = @ + 1] \in UsedSet
      /\ [used EXCEPT !.sends = @ + 1].pushed = used.pushed
  BY <1>1 DEF UsedSet
<1>3. /\ [used EXCEPT !.acks = @ + 1] \in UsedSet
      /\ [used EXCEPT !.acks = @ + 1].pushed = used.pushed
  BY <1>1 DEF UsedSet
<1> QED BY <1>2, <1>3

LEMMA Posted ==
    ASSUME Typed, NEW op \in {"send", "close"}, ready' = Post(op)
    PROVE  /\ ready' \in Seq(HandlerSet) /\ ready' # <<>>
           /\ \A o : Any(ready', o) <=> Any(ready, o) \/ o = op
           /\ Single(ready) => Single(ready')
           /\ Written(ready') <=> Written(ready)
           /\ EndsInClose(ready') <=> op = "close"
<1>1. op \in Op /\ op # "write" /\ ready \in Seq(HandlerSet) BY DEF Op, Typed
<1> QED BY <1>1, Appended DEF Post

\* A keep-alive is pushed, and sent if the connection is up.
LEMMA KeptAlive ==
    ASSUME Typed, Numbered, SendKeepAlive, wrote' = wrote
    PROVE  /\ Numbered' /\ Popped' = Popped /\ outq' # <<>>
           /\ outq' \in Seq(Nat) /\ used' \in UsedSet
           /\ ready' \in Seq(HandlerSet)
           /\ \A o : Any(ready', o) <=> Any(ready, o) \/ (Connected /\ o = "send")
           /\ Single(ready) => Single(ready')
           /\ Written(ready') <=> Written(ready)
           /\ ~Connected => ready' = ready
<1>1. Push /\ ready' = IF Connected THEN Post("send") ELSE ready BY DEF SendKeepAlive
<1>2. CASE Connected BY <1>1, <1>2, Pushed, Posted
<1>3. CASE ~Connected BY <1>1, <1>3, Pushed DEF Typed
<1> QED BY <1>2, <1>3

\* An operation in progress becomes a handler that is ready to run.
LEMMA Completed ==
    ASSUME Typed, NEW op, NEW good \in BOOLEAN, Completes(op, good)
    PROVE  /\ op \in pending /\ op \in {"connect", "read", "write"}
           /\ pending' \subseteq pending
           /\ \A o : o \in pending' <=> o \in pending /\ o # op
           /\ ready' \in Seq(HandlerSet) /\ ready' # <<>>
           /\ \A o : Any(ready', o) <=> Any(ready, o) \/ o = op
           /\ (Single(ready) /\ ~(op = "write" /\ Any(ready, "write"))) => Single(ready')
           /\ Written(ready') <=> Written(ready) \/ (op = "write" /\ good)
           /\ ready = <<>> => ready' = <<Handler(op, good)>>
<1>1. op \in Op /\ op \in {"connect", "read", "write"} BY DEF Completes, Typed, Op
<1>2. ready = <<>> => ready' = <<Handler(op, good)>> BY DEF Completes
<1> QED BY <1>1, <1>2, Appended DEF Completes, Typed

LEMMA TakenHandler ==
    ASSUME Typed, NEW op, NEW good, Takes(op, good)
    PROVE  /\ pc["run"] = "run" /\ ready # <<>> /\ Any(ready, op)
           /\ Tail(ready) \in Seq(HandlerSet)
           /\ \A o : Any(ready, o) <=> Any(Tail(ready), o) \/ o = op
           /\ Single(ready) => /\ Single(Tail(ready))
                               /\ op = "write" => ~Any(Tail(ready), "write")
           /\ Written(Tail(ready)) => Written(ready)
           /\ Written(ready) => Written(Tail(ready)) \/ op = "write"
           /\ (op = "write" /\ good) => Written(ready)
           /\ EndsInClose(ready) => EndsInClose(Tail(ready))
           /\ Alone(ready) => Tail(ready) = <<>>
<1>1. /\ pc["run"] = "run" /\ ready # <<>> /\ Head(ready) = Handler(op, good)
      /\ ready \in Seq(HandlerSet)
  BY DEF Takes, Typed
<1>2. Head(ready).h = op /\ Head(ready).ok = good BY <1>1 DEF Handler
<1> QED BY <1>1, <1>2, Taken

\* While the connection opens the only handler there can be is the connect's.
LEMMA AloneIsConnect ==
    ASSUME Typed, Alone(ready), NEW op, NEW good, Takes(op, good)
    PROVE  op = "connect" /\ ready = <<Handler(op, good)>>
<1>1. ready # <<>> /\ Head(ready) = Handler(op, good) BY DEF Takes
<1>2. PICK g \in BOOLEAN : ready = <<Handler("connect", g)>> BY <1>1 DEF Alone
<1>3. Head(ready) = Handler("connect", g) BY <1>2
<1>4. Handler(op, good).h = "connect" BY <1>1, <1>3 DEF Handler
<1> QED BY <1>1, <1>2, <1>3, <1>4 DEF Handler

LEMMA ClosedHere ==
    ASSUME Typed, NEW op, NEW good, Takes(op, good), CloseHere
    PROVE  /\ con'.state = "disconnected" /\ ~con'.writing /\ con'.open = con.open
           /\ con' \in ConSet
           /\ ready' \in Seq(HandlerSet) /\ ready' # <<>>
           /\ \A o : Any(ready', o) <=> Any(Tail(ready), o) \/ o = "close"
           /\ Single(Tail(ready)) => Single(ready')
           /\ Written(ready') <=> Written(Tail(ready))
           /\ EndsInClose(ready')
<1>1. con'.state = "disconnected" /\ ~con'.writing /\ con'.open = con.open /\ con' \in ConSet
  BY DEF CloseHere, Typed, ConSet
<1>2. ready' = Append(Tail(ready), Handler("close", TRUE)) BY DEF CloseHere
<1>3. Tail(ready) \in Seq(HandlerSet) /\ "close" \in Op BY TakenHandler DEF Op
<1> QED BY <1>1, <1>2, <1>3, Appended

LEMMA GoesOn ==
    ASSUME Typed, Goon
    PROVE  /\ pc' \in [Thread -> Label]
           /\ pc["run"] = "none" =>
                pc'["caller"] = "idle" /\ pc'["run"] = "hello" /\ pc'["keep"] = "hello"
           /\ pc["run"] # "none" =>
                pc'["caller"] = "push" /\ pc'["run"] = pc["run"] /\ pc'["keep"] = pc["keep"]
<1>1. CASE pc["run"] = "none"
  <2>1. pc' = [caller |-> "idle", run |-> "hello", keep |-> "hello"] BY <1>1 DEF Goon
  <2>2. pc' = [t \in Thread |-> IF t = "caller" THEN "idle" ELSE "hello"]
    BY <2>1 DEF Thread
  <2> QED BY <1>1, <2>2 DEF Thread, Label
<1>2. CASE pc["run"] # "none"
  BY <1>2, ThreadNames DEF Goon, Typed, Label
<1> QED BY <1>1, <1>2

-----------------------------------------------------------------------------
\* The steps, one by one: each keeps the invariant.
USE DEF Connected, Disconnected, Connecting, Underway, Has, Closing

LEMMA CallSendKeeps ==
    ASSUME IInv, CallSend PROVE IInv'
<1> USE DEF IInv
<1>1. \E l \in {"connect", "push"} : Goto("caller", l) BY DEF CallSend
<1>2. /\ pc' \in [Thread -> Label] /\ pc'["caller"] \in {"connect", "push"}
      /\ pc'["run"] = pc["run"] /\ pc'["keep"] = pc["keep"]
  BY <1>1, Moved, ThreadNames DEF Typed, Label
<1>3. used' \in UsedSet /\ used'.pushed = used.pushed
  BY Counted DEF CallSend, Typed
<1>4. UNCHANGED <<con, outq, ready, pending, stopped, done, failed, race, link, wrote>>
  BY DEF CallSend
<1>5. Typed' BY <1>2, <1>3, <1>4 DEF Typed
<1>6. Numbered' /\ Popped' = Popped BY <1>3, <1>4, NumbersStay
<1>7. OneWrite' BY <1>2, <1>4, <1>6 DEF OneWrite, Underway
<1>8. Threads' /\ NothingStranded' /\ ConnectingEnds'
  BY <1>2, <1>4 DEF CallSend, Threads, NothingStranded, ConnectingEnds, Overlapping, Has, Connected, Disconnected, Underway
<1>9. Calm'
  BY <1>2, <1>4, <1>6 DEF CallSend, Calm, Overlapping, Idle, Opening, Up, Once, Closing, Has, Connected, Disconnected, Connecting, Underway
<1> QED BY <1>5, <1>6, <1>7, <1>8, <1>9

LEMMA JoinedKeeps ==
    ASSUME IInv, Joined PROVE IInv'
<1> USE DEF IInv
<1>1. /\ pc' \in [Thread -> Label]
      /\ pc'["caller"] = "gone" /\ pc'["run"] = pc["run"] /\ pc'["keep"] = pc["keep"]
  BY Moved, ThreadNames DEF Joined, Typed, Label
<1>2. UNCHANGED <<con, outq, ready, pending, stopped, failed, race, wrote, used, done>> BY DEF Joined
<1>3. Typed' BY <1>1, <1>2 DEF Typed
<1>4. Numbered' /\ Popped' = Popped BY <1>2, NumbersStay
<1>5. OneWrite' BY <1>1, <1>2, <1>4 DEF Joined, OneWrite
<1>6. Threads' /\ NothingStranded' /\ ConnectingEnds'
  BY <1>1, <1>2 DEF Joined, Threads, Overlapping, NothingStranded, ConnectingEnds
<1>7. Calm'
  BY <1>1, <1>2, <1>4 DEF Joined, Calm, Overlapping, Idle, Opening, Up, Once
<1> QED BY <1>3, <1>4, <1>5, <1>6, <1>7

LEMMA RunReturnsKeeps ==
    ASSUME IInv, RunReturns PROVE IInv'
<1> USE DEF IInv
<1>1. /\ pc' \in [Thread -> Label]
      /\ pc'["caller"] = pc["caller"] /\ pc'["run"] = "sleep" /\ pc'["keep"] = pc["keep"]
  BY Moved, ThreadNames DEF RunReturns, Typed, Label
<1>2. /\ UNCHANGED <<con, outq, ready, pending, failed, race, wrote, used, done>>
      /\ pc["run"] = "run"
      /\ stopped \/ (ready = <<>> /\ pending = {})
  BY DEF RunReturns
<1>3. Typed' BY <1>1, <1>2 DEF Typed
<1>4. Numbered' /\ Popped' = Popped BY <1>2, NumbersStay
<1>5. OneWrite' BY <1>1, <1>2, <1>4 DEF RunReturns, OneWrite
<1>6. Threads' /\ NothingStranded'
  BY <1>1, <1>2, Nothing DEF Threads, Overlapping, NothingStranded, Underway
<1>8. ConnectingEnds'
  BY <1>1, <1>2, Nothing DEF ConnectingEnds, Has
<1>7. Calm'
  BY <1>1, <1>2, <1>4 DEF Calm, Overlapping, Idle, Opening, Up, Once
<1> QED BY <1>3, <1>4, <1>5, <1>6, <1>7, <1>8

LEMMA RunThreadEndsKeeps ==
    ASSUME IInv, RunThreadEnds PROVE IInv'
<1> USE DEF IInv
<1>1. /\ pc' \in [Thread -> Label]
      /\ pc'["caller"] = pc["caller"] /\ pc'["run"] = "ended" /\ pc'["keep"] = pc["keep"]
  BY Moved, ThreadNames DEF RunThreadEnds, Typed, Label
<1>2. UNCHANGED <<con, outq, ready, pending, stopped, failed, race, wrote, used, done>> BY DEF RunThreadEnds
<1>3. Typed' BY <1>1, <1>2 DEF Typed
<1>4. Numbered' /\ Popped' = Popped BY <1>2, NumbersStay
<1>5. OneWrite' BY <1>1, <1>2, <1>4 DEF RunThreadEnds, OneWrite
<1>6. Threads' /\ NothingStranded' /\ ConnectingEnds'
  BY <1>1, <1>2 DEF RunThreadEnds, Threads, Overlapping, NothingStranded, ConnectingEnds
<1>7. Calm'
  BY <1>1, <1>2, <1>4 DEF RunThreadEnds, Calm, Overlapping, Idle, Opening, Up, Once
<1> QED BY <1>3, <1>4, <1>5, <1>6, <1>7

LEMMA KeepEndsKeeps ==
    ASSUME IInv, KeepEnds PROVE IInv'
<1> USE DEF IInv
<1>1. /\ pc' \in [Thread -> Label]
      /\ pc'["caller"] = pc["caller"] /\ pc'["run"] = pc["run"] /\ pc'["keep"] = "ended"
  BY Moved, ThreadNames DEF KeepEnds, Typed, Label
<1>2. UNCHANGED <<con, outq, ready, pending, stopped, failed, race, wrote, used, done>> BY DEF KeepEnds
<1>3. Typed' BY <1>1, <1>2 DEF Typed
<1>4. Numbered' /\ Popped' = Popped BY <1>2, NumbersStay
<1>5. OneWrite' BY <1>1, <1>2, <1>4 DEF KeepEnds, OneWrite
<1>6. Threads' /\ NothingStranded' /\ ConnectingEnds'
  BY <1>1, <1>2 DEF KeepEnds, Threads, Overlapping, NothingStranded, ConnectingEnds
<1>7. Calm'
  BY <1>1, <1>2, <1>4 DEF KeepEnds, Calm, Overlapping, Idle, Opening, Up, Once
<1> QED BY <1>3, <1>4, <1>5, <1>6, <1>7

LEMMA PeerClosesKeeps ==
    ASSUME IInv, PeerCloses PROVE IInv'
<1> USE DEF IInv
<1>1. UNCHANGED <<con, outq, ready, pending, pc, done, stopped, failed, race, wrote, used>>
  BY DEF PeerCloses
<1>2. Typed' BY <1>1 DEF Typed
<1>3. Numbered' /\ Popped' = Popped BY <1>1, NumbersStay
<1>4. OneWrite' BY <1>1, <1>3 DEF OneWrite
<1>5. Threads' /\ NothingStranded' /\ ConnectingEnds'
  BY <1>1 DEF Threads, Overlapping, NothingStranded, ConnectingEnds
<1>6. Calm' BY <1>1, <1>3 DEF Calm, Overlapping, Idle, Opening, Up, Once
<1> QED BY <1>2, <1>3, <1>4, <1>5, <1>6

LEMMA ResolveFailsKeeps ==
    ASSUME IInv, ResolveFails PROVE IInv'
<1> USE DEF IInv
<1>1. UNCHANGED <<con, outq, ready, pending, done, stopped, failed, race, wrote, used>>
  BY DEF ResolveFails
<1>2. pc["caller"] = "connect" /\ Goon BY DEF ResolveFails
<1>3. Typed' BY <1>1, <1>2, GoesOn DEF Typed
<1>4. Numbered' /\ Popped' = Popped BY <1>1, NumbersStay
<1>5. OneWrite' BY <1>1, <1>2, <1>4, GoesOn DEF OneWrite
<1>6. Threads' /\ NothingStranded' /\ ConnectingEnds'
  BY <1>1, <1>2, GoesOn DEF Threads, Overlapping, NothingStranded, ConnectingEnds
<1>7. Calm' BY <1>1, <1>2, <1>4, GoesOn DEF Calm, Overlapping, Idle, Opening, Up, Once
<1> QED BY <1>3, <1>4, <1>5, <1>6, <1>7

LEMMA ConnectStateKeeps ==
    ASSUME IInv, ConnectState PROVE IInv'
<1> USE DEF IInv
<1>1. /\ pc["caller"] = "connect"
      /\ UNCHANGED <<outq, ready, pending, done, stopped, failed, wrote, used>>
  BY DEF ConnectState
<1>2. CASE Disconnected
  <2>1. con' = [con EXCEPT !.state = "connecting"] /\ Goto("caller", "async")
    BY <1>2 DEF ConnectState
  <2>2. /\ con'.state = "connecting" /\ con'.open = con.open /\ con'.writing = con.writing
        /\ con' \in ConSet
    BY <2>1 DEF Typed, ConSet
  <2>3. /\ pc' \in [Thread -> Label] /\ pc'["caller"] = "async"
        /\ pc'["run"] = pc["run"] /\ pc'["keep"] = pc["keep"]
    BY <2>1, Moved, ThreadNames DEF Typed, Label
  <2>4. race' = IF Closing THEN race \cup {"hasty"} ELSE race
    BY <1>2 DEF ConnectState
  <2>5. Typed' BY <1>1, <2>2, <2>3 DEF Typed
  <2>6. Numbered' /\ Popped' = Popped BY <1>1, NumbersStay
  <2>7. OneWrite' BY <1>1, <2>3, <2>6 DEF OneWrite
  <2>8. Threads' /\ NothingStranded' /\ ConnectingEnds'
    BY <1>1, <1>2, <2>2, <2>3, <2>4 DEF Threads, Overlapping, NothingStranded, ConnectingEnds
  <2>9. Calm'
    <3> SUFFICES ASSUME ~Overlapping' PROVE Calm' BY DEF Calm, Overlapping
    <3>1. ~Overlapping /\ ~Closing BY <2>4 DEF Overlapping
    <3>2. ready = <<>> /\ pending = {} BY <1>2, <3>1 DEF Calm, Overlapping, Idle
    <3>3. \A op : ~Any(ready, op) BY <3>2, Nothing
    <3> QED
      BY <1>1, <1>2, <2>2, <2>3, <2>6, <3>1, <3>2, <3>3
         DEF Calm, Overlapping, Idle, Opening, Up, Once, Alone
  <2> QED BY <2>5, <2>6, <2>7, <2>8, <2>9
<1>3. CASE ~Disconnected
  <2>1. con' = con /\ race' = race /\ Goto("caller", "push") BY <1>3 DEF ConnectState
  <2>2. /\ pc' \in [Thread -> Label] /\ pc'["caller"] = "push"
        /\ pc'["run"] = pc["run"] /\ pc'["keep"] = pc["keep"]
    BY <2>1, Moved, ThreadNames DEF Typed, Label
  <2>3. Typed' BY <1>1, <2>1, <2>2 DEF Typed
  <2>4. Numbered' /\ Popped' = Popped BY <1>1, NumbersStay
  <2>5. OneWrite' BY <1>1, <2>2, <2>4 DEF OneWrite
  <2>6. Threads' /\ NothingStranded' /\ ConnectingEnds'
    BY <1>1, <2>1, <2>2 DEF Threads, Overlapping, NothingStranded, ConnectingEnds
  <2>7. Calm' BY <1>1, <2>1, <2>2, <2>4 DEF Calm, Overlapping, Idle, Opening, Up, Once
  <2> QED BY <2>3, <2>4, <2>5, <2>6, <2>7
<1> QED BY <1>2, <1>3

LEMMA ConnectAsyncKeeps ==
    ASSUME IInv, ConnectAsync PROVE IInv'
<1> USE DEF IInv
<1>1. /\ pc["caller"] = "async" /\ Goon
      /\ pending' = pending \cup {"connect"}
      /\ race' = IF stopped /\ pc["keep"] = "ended" THEN race \cup {"dead"} ELSE race
      /\ UNCHANGED <<outq, ready, done, stopped, failed, wrote, used>>
  BY DEF ConnectAsync
<1>9. (Overlapping' <=> Overlapping) /\ ("dead" \in race => "dead" \in race')
  BY <1>1 DEF Overlapping
<1>2. /\ con'.state = con.state /\ con'.open /\ con'.writing = con.writing
      /\ con' \in ConSet
  BY DEF ConnectAsync, Typed, ConSet
<1>3. Typed' BY <1>1, <1>2, GoesOn DEF Typed
<1>4. Numbered' /\ Popped' = Popped BY <1>1, NumbersStay
<1>5. "write" \in pending' <=> "write" \in pending BY <1>1
<1>6. OneWrite' BY <1>1, <1>4, <1>5, GoesOn DEF OneWrite
<1>7. Threads' /\ NothingStranded' /\ ConnectingEnds'
  BY <1>1, <1>2, <1>5, <1>9, GoesOn DEF Threads, NothingStranded, ConnectingEnds
<1>8. Calm'
  BY <1>1, <1>2, <1>4, <1>5, <1>9, GoesOn, Nothing DEF Calm, Idle, Opening, Up, Once
<1> QED BY <1>3, <1>4, <1>6, <1>7, <1>8

LEMMA CallerPushKeeps ==
    ASSUME IInv, CallerPush PROVE IInv'
<1> USE DEF IInv
<1>1. /\ pc["caller"] = "push" /\ Push /\ Goto("caller", "post")
      /\ UNCHANGED <<con, ready, pending, done, stopped, failed, race, wrote>>
  BY DEF CallerPush
<1>2. /\ pc' \in [Thread -> Label] /\ pc'["caller"] = "post"
      /\ pc'["run"] = pc["run"] /\ pc'["keep"] = pc["keep"]
  BY <1>1, Moved, ThreadNames DEF Typed, Label
<1>3. /\ Numbered' /\ Popped' = Popped /\ outq' # <<>>
      /\ outq' \in Seq(Nat) /\ used' \in UsedSet
  BY <1>1, Pushed
<1>4. Typed' BY <1>1, <1>2, <1>3 DEF Typed
<1>5. OneWrite' BY <1>1, <1>2, <1>3 DEF OneWrite
<1>6. Threads' /\ NothingStranded' /\ ConnectingEnds'
  BY <1>1, <1>2 DEF Threads, Overlapping, NothingStranded, ConnectingEnds
<1>7. Calm' BY <1>1, <1>2, <1>3 DEF Calm, Overlapping, Idle, Opening, Up, Once
<1> QED BY <1>3, <1>4, <1>5, <1>6, <1>7

LEMMA RunHelloKeeps ==
    ASSUME IInv, RunHello PROVE IInv'
<1> USE DEF IInv
<1>1. /\ pc["run"] = "hello" /\ Push /\ Goto("run", "run")
      /\ UNCHANGED <<con, ready, pending, done, stopped, failed, race, wrote>>
  BY DEF RunHello
<1>2. /\ pc' \in [Thread -> Label] /\ pc'["run"] = "run"
      /\ pc'["caller"] = pc["caller"] /\ pc'["keep"] = pc["keep"]
  BY <1>1, Moved, ThreadNames DEF Typed, Label
<1>3. /\ Numbered' /\ Popped' = Popped /\ outq' # <<>>
      /\ outq' \in Seq(Nat) /\ used' \in UsedSet
  BY <1>1, Pushed
<1>4. Typed' BY <1>1, <1>2, <1>3 DEF Typed
<1>5. OneWrite' BY <1>1, <1>2, <1>3 DEF OneWrite
<1>6. Threads' /\ NothingStranded' /\ ConnectingEnds'
  BY <1>1, <1>2 DEF Threads, Overlapping, NothingStranded, ConnectingEnds
<1>7. Calm' BY <1>1, <1>2, <1>3 DEF Calm, Overlapping, Idle, Opening, Up, Once
<1> QED BY <1>3, <1>4, <1>5, <1>6, <1>7

LEMMA CallerPostKeeps ==
    ASSUME IInv, CallerPost PROVE IInv'
<1> USE DEF IInv
<1>1. /\ pc["caller"] = "post" /\ Goto("caller", "idle")
      /\ UNCHANGED <<con, outq, pending, done, stopped, failed, race, wrote, used>>
  BY DEF CallerPost
<1>2. /\ pc' \in [Thread -> Label] /\ pc'["caller"] = "idle"
      /\ pc'["run"] = pc["run"] /\ pc'["keep"] = pc["keep"]
  BY <1>1, Moved, ThreadNames DEF Typed, Label
<1>3. Numbered' /\ Popped' = Popped BY <1>1, NumbersStay
<1>4. CASE Connected
  <2>1. ready' = Post("send") BY <1>4 DEF CallerPost
  <2>2. Typed' BY <1>1, <1>2, <2>1, Posted DEF Typed
  <2>3. OneWrite' BY <1>1, <1>2, <1>3, <2>1, Posted DEF OneWrite
  <2>4. Threads' /\ NothingStranded' /\ ConnectingEnds'
    BY <1>1, <1>2, <1>4, <2>1, Posted DEF Threads, Overlapping, NothingStranded, ConnectingEnds
  <2>5. Calm'
    BY <1>1, <1>2, <1>3, <1>4, <2>1, Posted DEF Typed, ConSet, Calm, Overlapping, Idle, Opening, Up, Once
  <2> QED BY <1>3, <2>2, <2>3, <2>4, <2>5
<1>5. CASE ~Connected
  <2>1. ready' = ready BY <1>5 DEF CallerPost
  <2>2. Typed' BY <1>1, <1>2, <2>1 DEF Typed
  <2>3. OneWrite' BY <1>1, <1>2, <1>3, <2>1 DEF OneWrite
  <2>4. Threads' /\ NothingStranded' /\ ConnectingEnds'
    BY <1>1, <1>2, <1>5, <2>1 DEF Threads, Overlapping, NothingStranded, ConnectingEnds
  <2>5. Calm' BY <1>1, <1>2, <1>3, <2>1 DEF Calm, Overlapping, Idle, Opening, Up, Once
  <2> QED BY <1>3, <2>2, <2>3, <2>4, <2>5
<1> QED BY <1>4, <1>5

LEMMA DestroyKeeps ==
    ASSUME IInv, Destroy PROVE IInv'
<1> USE DEF IInv
<1>1. /\ pc["caller"] = "idle" /\ Disconnected /\ Goto("caller", "join")
      /\ ready' = Post("close")
      /\ UNCHANGED <<outq, pending, failed, race, wrote, used>>
  BY DEF Destroy
<1>2. /\ pc' \in [Thread -> Label] /\ pc'["caller"] = "join"
      /\ pc'["run"] = pc["run"] /\ pc'["keep"] = pc["keep"]
  BY <1>1, Moved, ThreadNames DEF Typed, Label
<1>3. /\ con'.state = "disconnected" /\ con'.open = con.open /\ ~con'.writing
      /\ con' \in ConSet
  BY DEF Destroy, Typed, ConSet
<1>4. Numbered' /\ Popped' = Popped BY <1>1, NumbersStay
<1>5. Typed' BY <1>1, <1>2, <1>3, Posted DEF Typed
<1>6. OneWrite' BY <1>1, <1>2, <1>4, Posted DEF OneWrite
<1>7. Threads' /\ NothingStranded' /\ ConnectingEnds'
  BY <1>1, <1>2, <1>3, Posted DEF Threads, Overlapping, NothingStranded, ConnectingEnds
<1>8. Calm'
  BY <1>1, <1>2, <1>3, <1>4, Posted DEF Calm, Overlapping, Idle, Opening, Up, Once
<1> QED BY <1>4, <1>5, <1>6, <1>7, <1>8

LEMMA CaughtKeeps ==
    ASSUME IInv, Caught PROVE IInv'
<1> USE DEF IInv
<1>1. /\ pc["run"] = "caught" /\ Goto("run", "run")
      /\ ready' = Post("close")
      /\ UNCHANGED <<outq, pending, done, stopped, failed, race, wrote, used>>
  BY DEF Caught
<1>2. /\ pc' \in [Thread -> Label] /\ pc'["run"] = "run"
      /\ pc'["caller"] = pc["caller"] /\ pc'["keep"] = pc["keep"]
  BY <1>1, Moved, ThreadNames DEF Typed, Label
<1>3. /\ con'.state = "disconnected" /\ con'.open = con.open /\ ~con'.writing
      /\ con' \in ConSet
  BY DEF Caught, Typed, ConSet
<1>4. Numbered' /\ Popped' = Popped BY <1>1, NumbersStay
<1>5. Typed' BY <1>1, <1>2, <1>3, Posted DEF Typed
<1>6. OneWrite' BY <1>1, <1>2, <1>4, Posted DEF OneWrite
<1>7. Threads' /\ NothingStranded' /\ ConnectingEnds'
  BY <1>1, <1>2, <1>3, Posted DEF Threads, Overlapping, NothingStranded, ConnectingEnds
<1>8. Calm'
  BY <1>1, <1>2, <1>3, <1>4, Posted DEF Calm, Overlapping, Idle, Opening, Up, Once
<1> QED BY <1>4, <1>5, <1>6, <1>7, <1>8

LEMMA KeepClosePostKeeps ==
    ASSUME IInv, KeepClosePost PROVE IInv'
<1> USE DEF IInv
<1>1. /\ pc["keep"] = "close_post" /\ Goto("keep", "loop")
      /\ ready' = Post("close")
      /\ UNCHANGED <<con, outq, pending, done, stopped, failed, race, wrote, used>>
  BY DEF KeepClosePost, ClosePost
<1>2. /\ pc' \in [Thread -> Label] /\ pc'["keep"] = "loop"
      /\ pc'["caller"] = pc["caller"] /\ pc'["run"] = pc["run"]
  BY <1>1, Moved, ThreadNames DEF Typed, Label
<1>3. Numbered' /\ Popped' = Popped BY <1>1, NumbersStay
<1>4. Typed' BY <1>1, <1>2, Posted DEF Typed
<1>5. OneWrite' BY <1>1, <1>2, <1>3, Posted DEF OneWrite
<1>6. Threads' /\ NothingStranded' /\ ConnectingEnds'
  BY <1>1, <1>2, Posted DEF Threads, Overlapping, NothingStranded, ConnectingEnds
<1>7. Calm' BY <1>1 DEF Threads, Calm, Overlapping
<1> QED BY <1>3, <1>4, <1>5, <1>6, <1>7

LEMMA KeepCloseWritingKeeps ==
    ASSUME IInv, KeepCloseWriting PROVE IInv'
<1> USE DEF IInv
<1>1. /\ pc["keep"] = "close_writing" /\ Goto("keep", "close_post")
      /\ UNCHANGED <<outq, ready, pending, done, stopped, failed, race, wrote, used>>
  BY DEF KeepCloseWriting, CloseWriting
<1>2. /\ pc' \in [Thread -> Label] /\ pc'["keep"] = "close_post"
      /\ pc'["caller"] = pc["caller"] /\ pc'["run"] = pc["run"]
  BY <1>1, Moved, ThreadNames DEF Typed, Label
<1>3. /\ con'.state = con.state /\ ~con'.writing /\ con' \in ConSet
  BY DEF KeepCloseWriting, CloseWriting, Typed, ConSet
<1>4. Numbered' /\ Popped' = Popped BY <1>1, NumbersStay
<1>5. Typed' BY <1>1, <1>2, <1>3 DEF Typed
<1>6. OneWrite' BY <1>1, <1>2, <1>4 DEF OneWrite
<1>7. Threads' /\ NothingStranded' /\ ConnectingEnds'
  BY <1>1, <1>2, <1>3 DEF Threads, Overlapping, NothingStranded, ConnectingEnds
<1>8. Calm' BY <1>1 DEF Threads, Calm, Overlapping
<1> QED BY <1>4, <1>5, <1>6, <1>7, <1>8

\* A keep-alive does not disturb what Calm says, in any state.
LEMMA KeepAliveIsCalm ==
    ASSUME IInv, SendKeepAlive,
           con'.state = con.state, con'.open = con.open, con'.writing = con.writing,
           pc'["caller"] = pc["caller"], pc'["run"] = pc["run"],
           UNCHANGED <<pending, stopped, failed, race, wrote>>
    PROVE  Calm'
<1> USE DEF IInv
<1> SUFFICES ASSUME ~Overlapping PROVE Calm' BY DEF Calm, Overlapping
<1>1. Popped' = Popped BY KeptAlive
<1>2. CASE ~Connected
  <2>1. ready' = ready BY <1>2, KeptAlive
  <2> QED BY <1>1, <1>2, <2>1 DEF Calm, Overlapping, Idle, Opening, Up, Once
<1>3. CASE Connected
  <2>1. /\ \A o : Any(ready', o) <=> Any(ready, o) \/ o = "send"
        /\ Written(ready') <=> Written(ready)
    BY <1>3, KeptAlive
  <2>2. Idle' BY <1>3, <2>1 DEF Calm, Overlapping, Idle
  <2>3. Opening' BY <1>3, <2>1 DEF Calm, Opening
  <2>4. Up' BY <1>3, <2>1 DEF Calm, Up
  <2>5. Once' BY <1>1, <1>3, <2>1 DEF Calm, Once
  <2> QED BY <2>2, <2>3, <2>4, <2>5 DEF Calm
<1> QED BY <1>2, <1>3

LEMMA KeepHelloKeeps ==
    ASSUME IInv, KeepHello PROVE IInv'
<1> USE DEF IInv
<1>1. /\ pc["keep"] = "hello" /\ Goto("keep", "loop") /\ SendKeepAlive
      /\ UNCHANGED <<con, pending, done, stopped, failed, race, wrote>>
  BY DEF KeepHello
<1>2. /\ pc' \in [Thread -> Label] /\ pc'["keep"] = "loop"
      /\ pc'["caller"] = pc["caller"] /\ pc'["run"] = pc["run"]
  BY <1>1, Moved, ThreadNames DEF Typed, Label
<1>3. Typed' BY <1>1, <1>2, KeptAlive DEF Typed
<1>4. Numbered' /\ OneWrite' BY <1>1, <1>2, KeptAlive DEF OneWrite
<1>5. Threads' /\ NothingStranded' /\ ConnectingEnds'
  BY <1>1, <1>2, KeptAlive DEF Threads, Overlapping, NothingStranded, ConnectingEnds
<1>6. Calm' BY <1>1, <1>2, KeepAliveIsCalm
<1> QED BY <1>3, <1>4, <1>5, <1>6

LEMMA KeepTickKeeps ==
    ASSUME IInv, KeepTick PROVE IInv'
<1> USE DEF IInv
<1>1. /\ pc["keep"] = "loop" /\ ~done /\ ~Disconnected
      /\ UNCHANGED <<done, failed, pending, wrote>>
  BY DEF KeepTick, CloseState
<1>2. CASE con.alive
  <2>1. SendKeepAlive /\ UNCHANGED <<pc, race, stopped>> BY <1>2 DEF KeepTick
  <2>2. /\ con'.state = con.state /\ con'.open = con.open /\ con'.writing = con.writing
        /\ con' \in ConSet
    BY <1>2 DEF KeepTick, Typed, ConSet
  <2>3. Typed' BY <1>1, <2>1, <2>2, KeptAlive DEF Typed
  <2>4. Numbered' /\ OneWrite' BY <1>1, <2>1, KeptAlive DEF OneWrite
  <2>5. Threads' /\ NothingStranded' /\ ConnectingEnds'
    BY <1>1, <2>1, <2>2, KeptAlive DEF Threads, Overlapping, NothingStranded, ConnectingEnds
  <2>6. Calm' BY <1>1, <2>1, <2>2, KeepAliveIsCalm
  <2> QED BY <2>3, <2>4, <2>5, <2>6
<1>3. CASE ~con.alive
  <2>1. /\ Goto("keep", "close_writing") /\ race' = race \cup {"keep"}
        /\ UNCHANGED <<outq, ready, used>>
    BY <1>3 DEF KeepTick, CloseState
  <2>2. /\ pc' \in [Thread -> Label] /\ pc'["keep"] = "close_writing"
        /\ pc'["caller"] = pc["caller"] /\ pc'["run"] = pc["run"]
    BY <2>1, Moved, ThreadNames DEF Typed, Label
  <2>3. /\ con'.state = "disconnected" /\ con'.writing = con.writing /\ con' \in ConSet
    BY <1>3 DEF KeepTick, CloseState, Typed, ConSet
  <2>4. Typed' BY <1>1, <2>1, <2>2, <2>3 DEF Typed
  <2>5. Numbered' /\ Popped' = Popped BY <1>1, <2>1, NumbersStay
  <2>6. OneWrite' BY <1>1, <2>1, <2>2, <2>5 DEF OneWrite
  <2>7. Overlapping' BY <2>1 DEF Overlapping
  <2>8. Threads' /\ NothingStranded' /\ ConnectingEnds'
    BY <1>1, <2>1, <2>2, <2>3, <2>7 DEF Threads, NothingStranded, ConnectingEnds, Connected, Disconnected
  <2>9. Calm' BY <2>7 DEF Calm
  <2> QED BY <2>4, <2>5, <2>6, <2>8, <2>9
<1> QED BY <1>2, <1>3

\* A connect that completes, on a socket that was fresh or on one that was not
LEMMA ConnectCompletesKeeps ==
    ASSUME IInv, NEW good \in BOOLEAN, Completes("connect", good),
           con' \in ConSet, con'.state = con.state, con'.open = con.open,
           con'.writing = con.writing,
           wrote' \in [last : Nat, here : BOOLEAN], wrote'.last = wrote.last,
           IF good THEN ~wrote'.here ELSE wrote'.here = wrote.here,
           UNCHANGED <<outq, pc, done, stopped, failed, race, used>>
    PROVE  IInv'
<1> USE DEF IInv
<1>1. Typed' BY Completed DEF Typed
<1>2. Numbered' /\ Popped' = Popped BY NumbersStay
<1>3. OneWrite' BY <1>2, Completed DEF OneWrite
<1>4. Threads' /\ NothingStranded' /\ ConnectingEnds'
  BY Completed DEF Threads, Overlapping, NothingStranded, ConnectingEnds
<1>5. Calm'
  <2> SUFFICES ASSUME ~Overlapping PROVE Calm' BY DEF Calm, Overlapping
  <2>1. Connecting => ready' = <<Handler("connect", good)>> /\ ready = <<>>
    BY Completed DEF Calm, Opening
  <2>2. Connecting' => Alone(ready') /\ pending' = {}
    BY <2>1, Completed DEF Alone, Calm, Opening
  <2>3. ASSUME ready' = <<Handler("connect", TRUE)>>, Connecting PROVE ~wrote'.here
    <3>1. Handler("connect", TRUE) = Handler("connect", good) BY <2>1, <2>3
    <3>2. good = TRUE BY <3>1 DEF Handler
    <3> QED BY <3>2
  <2>4. Idle' BY <2>1, Completed DEF Calm, Overlapping, Idle
  <2>5. Opening' BY <2>1, <2>2, <2>3, Completed DEF Calm, Opening
  <2>6. Up' BY <2>1, Completed DEF Calm, Up
  <2>7. Once' BY <1>2, Completed DEF Calm, Once
  <2> QED BY <2>4, <2>5, <2>6, <2>7 DEF Calm
<1> QED BY <1>1, <1>2, <1>3, <1>4, <1>5

LEMMA NetConnectsKeeps ==
    ASSUME IInv, NetConnects PROVE IInv'
<1>1. /\ Completes("connect", TRUE)
      /\ con' \in ConSet /\ con'.state = con.state /\ con'.open = con.open
      /\ con'.writing = con.writing
      /\ wrote' \in [last : Nat, here : BOOLEAN] /\ wrote'.last = wrote.last /\ ~wrote'.here
      /\ UNCHANGED <<outq, pc, done, stopped, failed, race, used>>
  BY DEF NetConnects, IInv, Typed, ConSet
<1> QED BY <1>1, ConnectCompletesKeeps

LEMMA NetRefusesKeeps ==
    ASSUME IInv, NetRefuses PROVE IInv'
<1>1. Completes("connect", FALSE)
      /\ UNCHANGED <<con, outq, pc, done, stopped, failed, race, wrote, used>>
  BY DEF NetRefuses
<1> QED BY <1>1, ConnectCompletesKeeps DEF IInv, Typed

\* A read that completes, or a write that fails
LEMMA OtherCompletesKeeps ==
    ASSUME IInv, NEW op \in {"read", "write"}, NEW good \in BOOLEAN, Completes(op, good),
           op = "write" => ~good,
           UNCHANGED <<con, outq, pc, done, stopped, failed, race, wrote>>,
           used' \in UsedSet, used'.pushed = used.pushed
    PROVE  IInv'
<1> USE DEF IInv
<1>1. Typed' BY Completed DEF Typed
<1>2. Numbered' /\ Popped' = Popped BY NumbersStay
<1>3. OneWrite' BY <1>2, Completed DEF OneWrite
<1>4. Threads' /\ NothingStranded' /\ ConnectingEnds'
  BY Completed DEF Threads, Overlapping, NothingStranded, ConnectingEnds
<1>5. Calm'
  <2> SUFFICES ASSUME ~Overlapping PROVE Calm' BY DEF Calm, Overlapping
  <2>1. op \in pending /\ ~Connecting BY Completed DEF Calm, Opening
  <2>2. Idle' BY <2>1, Completed DEF Calm, Overlapping, Idle
  <2>3. Opening' BY <2>1, Completed DEF Calm, Opening
  <2>4. Up' BY <2>1, Completed DEF Calm, Up
  <2>5. Once' BY <1>2, Completed DEF Calm, Once
  <2> QED BY <2>2, <2>3, <2>4, <2>5 DEF Calm
<1> QED BY <1>1, <1>2, <1>3, <1>4, <1>5

LEMMA NetBreaksKeeps ==
    ASSUME IInv, NEW op, NetBreaks(op) PROVE IInv'
<1>1. /\ op \in {"read", "write"} /\ Completes(op, FALSE)
      /\ UNCHANGED <<con, outq, pc, done, stopped, failed, race, wrote, used>>
  BY DEF NetBreaks
<1> QED BY <1>1, OtherCompletesKeeps DEF IInv, Typed

LEMMA PeerAcksKeeps ==
    ASSUME IInv, PeerAcks PROVE IInv'
<1>1. /\ Completes("read", TRUE)
      /\ UNCHANGED <<con, outq, pc, done, stopped, failed, race, wrote>>
      /\ used' \in UsedSet /\ used'.pushed = used.pushed
  BY Counted DEF PeerAcks, IInv, Typed
<1> QED BY <1>1, OtherCompletesKeeps

\* The first message of the queue is the one after those that have left it.
LEMMA NextIsFirst ==
    ASSUME Typed, Numbered, outq # <<>>
    PROVE  /\ Head(outq) = Popped + 1 /\ Tail(outq) \in Seq(Nat)
           /\ Len(Tail(outq)) = Len(outq) - 1
           /\ \A i \in 1..Len(Tail(outq)) : Tail(outq)[i] = (Popped + 1) + i
<1>1. outq \in Seq(Nat) /\ Len(outq) \in Nat \ {0} BY EmptySeq DEF Typed
<1>2. /\ Head(outq) = outq[1] /\ Tail(outq) \in Seq(Nat)
      /\ Len(Tail(outq)) = Len(outq) - 1
      /\ \A i \in 1..Len(Tail(outq)) : Tail(outq)[i] = outq[i + 1]
  BY <1>1
<1>3. 1 \in 1..Len(outq) /\ Popped \in Nat BY <1>1 DEF Numbered
<1>4. Head(outq) = Popped + 1 BY <1>2, <1>3 DEF Numbered
<1>5. ASSUME NEW i \in 1..Len(Tail(outq)) PROVE Tail(outq)[i] = (Popped + 1) + i
  <2>1. i \in Nat /\ i + 1 \in 1..Len(outq) BY <1>1, <1>2
  <2>2. outq[i + 1] = Popped + (i + 1) BY <2>1 DEF Numbered
  <2>3. \A a \in Nat : a + (i + 1) = (a + 1) + i BY <2>1
  <2> QED BY <1>2, <1>3, <2>2, <2>3
<1> QED BY <1>2, <1>4, <1>5

LEMMA NetWritesKeeps ==
    ASSUME IInv, failed = "no", NetWrites PROVE IInv'
<1> USE DEF IInv
<1>1. /\ Completes("write", TRUE) /\ wrote' = [last |-> Head(outq), here |-> TRUE]
      /\ UNCHANGED <<con, outq, pc, done, stopped, failed, race, used>>
  BY DEF NetWrites
<1>2. "write" \in pending /\ ~Any(ready, "write") /\ outq # <<>> /\ Single(ready)
  BY <1>1 DEF Completes, OneWrite
<1>3. wrote'.last = Popped + 1 /\ wrote'.here /\ Popped' = Popped
      /\ wrote' \in [last : Nat, here : BOOLEAN]
  BY <1>1, <1>2, NextIsFirst DEF Numbered, Popped
<1>4. Typed' BY <1>1, <1>3, Completed DEF Typed
<1>5. Numbered' BY <1>1, <1>2, <1>3 DEF Numbered
<1>6. OneWrite' BY <1>1, <1>2, <1>3, Completed DEF OneWrite
<1>7. Threads' /\ NothingStranded' /\ ConnectingEnds'
  BY <1>1, Completed DEF Threads, Overlapping, NothingStranded, ConnectingEnds
<1>8. Calm'
  <2> SUFFICES ASSUME ~Overlapping PROVE Calm' BY <1>1 DEF Calm, Overlapping
  <2>1. ~Connecting BY <1>2 DEF Calm, Opening
  <2>2. Idle' BY <1>1, <1>2, <2>1, Completed DEF Calm, Overlapping, Idle
  <2>3. Opening' BY <1>1, <1>2, <2>1, Completed DEF Calm, Opening
  <2>4. Up' BY <1>1, <2>1, Completed DEF Calm, Up
  <2>5. Once' BY <1>1, Completed DEF Once
  <2> QED BY <1>1, <2>2, <2>3, <2>4, <2>5 DEF Calm
<1> QED BY <1>4, <1>5, <1>6, <1>7, <1>8

\* A handler that closes the connection
LEMMA CloseHereKeeps ==
    ASSUME IInv, NEW op \in {"connect", "read", "write"}, NEW good, Takes(op, good),
           CloseHere, ~Disconnected,
           UNCHANGED <<outq, pending, pc, done, stopped, failed, race, wrote, used>>
    PROVE  IInv'
<1> USE DEF IInv
<1>1. pc["run"] = "run" BY TakenHandler
<1>2. Typed' BY ClosedHere DEF Typed
<1>3. Numbered' /\ Popped' = Popped BY NumbersStay
<1>4. OneWrite' BY <1>3, TakenHandler, ClosedHere DEF OneWrite
<1>5. Threads' /\ NothingStranded' /\ ConnectingEnds'
  BY <1>1, ClosedHere DEF Threads, Overlapping, NothingStranded, ConnectingEnds
<1>6. Calm'
  <2> SUFFICES ASSUME ~Overlapping PROVE Calm' BY DEF Calm, Overlapping
  <2>1. con.open /\ pc["caller"] # "async" BY TakenHandler DEF Calm, Opening
  <2>2. Idle' BY <1>1, <2>1, ClosedHere DEF Calm, Overlapping, Idle
  <2>3. Opening' BY <2>1, ClosedHere DEF Opening
  <2>4. Up' BY <1>1, ClosedHere DEF Up
  <2>5. Once'
    <3>1. op = "write" => "write" \notin pending
      BY TakenHandler DEF Calm, OneWrite
    <3> QED BY <1>1, <1>3, <3>1, TakenHandler, ClosedHere DEF Calm, Once
  <2> QED BY <2>2, <2>3, <2>4, <2>5 DEF Calm
<1> QED BY <1>2, <1>3, <1>4, <1>5, <1>6

\* A handler that finds the connection gone, or made without it, does nothing.
LEMMA DropKeeps ==
    ASSUME IInv, NEW op \in {"connect", "read", "write"}, NEW good, Takes(op, good),
           ready' = Tail(ready),
           IF op = "connect" THEN ~Connecting ELSE Disconnected,
           op = "write" => ~con.writing,
           UNCHANGED <<con, outq, pending, pc, done, stopped, failed, race, wrote, used>>
    PROVE  IInv'
<1> USE DEF IInv
<1>1. pc["run"] = "run" BY TakenHandler
<1>2. Typed' BY TakenHandler DEF Typed
<1>3. Numbered' /\ Popped' = Popped BY NumbersStay
<1>4. OneWrite' BY <1>3, TakenHandler DEF OneWrite
<1>5. Threads' /\ NothingStranded' /\ ConnectingEnds'
  BY <1>1, TakenHandler DEF Threads, Overlapping, NothingStranded, ConnectingEnds
<1>6. Calm'
  <2> SUFFICES ASSUME ~Overlapping PROVE Calm' BY DEF Calm, Overlapping
  <2>1. ~Connecting /\ pc["caller"] # "async" BY TakenHandler DEF Calm, Opening
  <2>2. Idle' BY <1>1, <2>1, TakenHandler DEF Calm, Overlapping, Idle
  <2>3. Opening' BY <2>1, TakenHandler DEF Calm, Opening
  <2>4. Up' BY <1>1, TakenHandler DEF Calm, Up
  <2>5. Once'
    <3>1. op = "write" => "write" \notin pending /\ ~Connected
      BY TakenHandler DEF Calm, OneWrite
    <3> QED BY <1>1, <1>3, <3>1, TakenHandler DEF Calm, Once
  <2> QED BY <2>2, <2>3, <2>4, <2>5 DEF Calm
<1> QED BY <1>2, <1>3, <1>4, <1>5, <1>6

LEMMA HandleConnectKeeps ==
    ASSUME IInv, NEW good \in BOOLEAN, HandleConnect(good) PROVE IInv'
<1> USE DEF IInv
<1>1. /\ Takes("connect", good)
      /\ UNCHANGED <<outq, pending, done, stopped, failed, race, wrote, used>>
  BY DEF HandleConnect
<1>2. CASE ~Connecting
  <2>1. con' = con /\ ready' = Tail(ready) /\ pc' = pc BY <1>2 DEF HandleConnect
  <2> QED BY <1>1, <1>2, <2>1, DropKeeps
<1>3. CASE Connecting /\ ~(con.open /\ good)
  <2>1. CloseHere /\ pc' = pc BY <1>3 DEF HandleConnect
  <2> QED BY <1>1, <1>3, <2>1, CloseHereKeeps
<1>4. CASE Connecting /\ con.open /\ good
  <2>1. ready' = Tail(ready) /\ Goto("run", "connected") BY <1>4 DEF HandleConnect
  <2>2. /\ con'.state = "connected" /\ con'.open /\ con'.writing = con.writing
        /\ con' \in ConSet
    BY <1>4 DEF HandleConnect, Typed, ConSet
  <2>3. /\ pc' \in [Thread -> Label] /\ pc'["run"] = "connected"
        /\ pc'["caller"] = pc["caller"] /\ pc'["keep"] = pc["keep"]
    BY <2>1, Moved, ThreadNames DEF Typed, Label
  <2>4. pc["run"] = "run" /\ ready # <<>> BY <1>1, TakenHandler
  <2>5. Typed' BY <1>1, <2>1, <2>2, <2>3, TakenHandler DEF Typed
  <2>6. Numbered' /\ Popped' = Popped BY <1>1, NumbersStay
  <2>7. OneWrite' BY <1>1, <2>1, <2>3, <2>4, <2>6, TakenHandler DEF OneWrite
  <2>8. Threads' /\ NothingStranded' /\ ConnectingEnds'
    BY <1>1, <1>4, <2>1, <2>2, <2>3, <2>4, TakenHandler
       DEF Threads, Overlapping, NothingStranded, ConnectingEnds
  <2>9. Calm'
    <3> SUFFICES ASSUME ~Overlapping PROVE Calm' BY <1>1 DEF Calm, Overlapping
    <3>1. Alone(ready) /\ pending = {} BY <1>4, <2>4 DEF Calm, Opening
    <3>2. ready' = <<>> /\ ready = <<Handler("connect", TRUE)>>
      BY <1>1, <1>4, <2>1, <3>1, TakenHandler, AloneIsConnect
    <3>3. ~wrote.here BY <1>4, <3>2 DEF Calm, Opening
    <3>4. \A o : ~Any(ready', o) BY <3>2, Nothing
    <3>5. pc["caller"] # "async" BY <2>4 DEF Calm, Opening
    <3> QED
      BY <1>1, <2>2, <2>3, <3>1, <3>3, <3>4, <3>5 DEF Calm, Overlapping, Idle, Opening, Up, Once
  <2> QED BY <2>5, <2>6, <2>7, <2>8, <2>9
<1> QED BY <1>2, <1>3, <1>4

LEMMA NotOpening ==
    ASSUME IInv, ~Overlapping, NEW op, op # "connect", NEW good, Takes(op, good)
    PROVE  ~Connecting /\ pc["caller"] # "async"
<1>1. ~Alone(ready) BY AloneIsConnect DEF IInv
<1>2. Opening BY DEF IInv, Calm
<1> QED BY <1>1, <1>2 DEF Opening, Alone

LEMMA HandleReadKeeps ==
    ASSUME IInv, NEW good \in BOOLEAN, HandleRead(good) PROVE IInv'
<1> USE DEF IInv
<1>1. /\ Takes("read", good)
      /\ UNCHANGED <<outq, pc, done, stopped, failed, race, wrote, used>>
  BY DEF HandleRead
<1>2. CASE Disconnected
  <2>1. con' = con /\ ready' = Tail(ready) /\ pending' = pending BY <1>2 DEF HandleRead
  <2> QED BY <1>1, <1>2, <2>1, DropKeeps
<1>3. CASE ~Disconnected /\ (~good \/ ~con.open)
  <2>1. CloseHere /\ pending' = pending BY <1>3 DEF HandleRead
  <2> QED BY <1>1, <1>3, <2>1, CloseHereKeeps
<1>4. CASE ~Disconnected /\ good /\ con.open
  <2>1. ready' = Tail(ready) /\ pending' = pending \cup {"read"} BY <1>4 DEF HandleRead
  <2>2. /\ con'.state = con.state /\ con'.open = con.open /\ con'.writing = con.writing
        /\ con' \in ConSet
    BY <1>4 DEF HandleRead, Typed, ConSet
  <2>3. pc["run"] = "run" /\ ready # <<>> BY <1>1, TakenHandler
  <2>4. Typed' BY <1>1, <2>1, <2>2, TakenHandler DEF Typed
  <2>5. Numbered' /\ Popped' = Popped BY <1>1, NumbersStay
  <2>6. OneWrite' BY <1>1, <2>1, <2>5, TakenHandler DEF OneWrite
  <2>7. Threads' /\ NothingStranded' /\ ConnectingEnds'
    BY <1>1, <2>1, <2>2, TakenHandler DEF Threads, Overlapping, NothingStranded, ConnectingEnds
  <2>8. Calm'
    <3> SUFFICES ASSUME ~Overlapping PROVE Calm' BY <1>1 DEF Calm, Overlapping
    <3>1. ~Connecting /\ pc["caller"] # "async"
      BY <1>1, NotOpening
    <3>2. Idle' BY <1>1, <1>4, <2>1, <2>2, <2>3, TakenHandler DEF Calm, Overlapping, Idle
    <3>3. Opening' BY <1>1, <1>4, <2>2, <3>1 DEF Opening
    <3>4. Up' BY <1>1, <2>1, <2>2, TakenHandler DEF Calm, Up
    <3>5. Once' BY <1>1, <2>1, <2>2, <2>3, <2>5, TakenHandler DEF Calm, Once
    <3> QED BY <1>1, <3>2, <3>3, <3>4, <3>5 DEF Calm
  <2> QED BY <2>4, <2>5, <2>6, <2>7, <2>8
<1> QED BY <1>2, <1>3, <1>4

(***************************************************************************)
(* do_send up to `_writing = true`, from a handler of its own or from      *)
(* handle_connect: it starts a write only if there is none.                *)
(***************************************************************************)
LEMMA DoSendKeeps ==
    ASSUME IInv, DoSend(con, FALSE), pc["run"] \in {"run", "connected"},
           ready' \in Seq(HandlerSet),
           \A o : o # "send" => (Any(ready', o) <=> Any(ready, o)),
           Single(ready) => Single(ready'), Written(ready') <=> Written(ready),
           pending' = pending \/ (pending' = pending \cup {"read"} /\ ~Disconnected),
           ~Overlapping => /\ ~Connecting /\ pc["caller"] # "async"
                           /\ Disconnected => /\ Closing
                                              /\ EndsInClose(ready) => EndsInClose(ready'),
           UNCHANGED <<outq, done, stopped, failed, race, wrote, used>>
    PROVE  IInv'
<1> USE DEF IInv
<1>1. /\ con'.state = con.state /\ con'.open = con.open /\ con' \in ConSet
      /\ pc' \in [Thread -> Label]
      /\ pc'["caller"] = pc["caller"] /\ pc'["keep"] = pc["keep"]
      /\ \/ /\ pc'["run"] = "run" /\ con' = con
            /\ Disconnected \/ outq = <<>> \/ con.writing
         \/ /\ pc'["run"] = "write" /\ con'.writing
            /\ ~Disconnected /\ outq # <<>> /\ ~con.writing
  <2>1. CASE Disconnected \/ outq = <<>> \/ con.writing
    <3>1. con' = con /\ Goto("run", "run") BY <2>1 DEF DoSend
    <3> QED BY <2>1, <3>1, Moved, ThreadNames DEF Typed, Label
  <2>2. CASE ~(Disconnected \/ outq = <<>> \/ con.writing)
    <3>1. con' = [con EXCEPT !.writing = TRUE] /\ Goto("run", "write")
      BY <2>2 DEF DoSend
    <3>2. con'.state = con.state /\ con'.open = con.open /\ con' \in ConSet /\ con'.writing
      BY <3>1 DEF Typed, ConSet
    <3> QED BY <2>2, <3>1, <3>2, Moved, ThreadNames DEF Typed, Label
  <2> QED BY <2>1, <2>2
<1>2. "write" \in pending' <=> "write" \in pending OBVIOUS
<1>3. Typed' BY <1>1 DEF Typed
<1>4. Numbered' /\ Popped' = Popped BY NumbersStay
<1>5. OneWrite' BY <1>1, <1>2, <1>4 DEF OneWrite
<1>6. Threads' /\ NothingStranded' /\ ConnectingEnds'
  <2>1. Threads' BY <1>1, <1>2 DEF Threads, Overlapping
  <2>2. NothingStranded' BY <1>1, <1>2 DEF Threads, NothingStranded
  <2>3. ConnectingEnds' BY <1>1 DEF ConnectingEnds
  <2> QED BY <2>1, <2>2, <2>3
<1>7. Calm'
  <2> SUFFICES ASSUME ~Overlapping PROVE Calm' BY DEF Calm, Overlapping
  <2>1. Idle' BY <1>1 DEF Calm, Overlapping, Idle
  <2>2. Opening' BY <1>1 DEF Calm, Opening
  <2>3. Up' BY <1>1, <1>2 DEF Calm, Up
  <2>4. Once'
    <3>1. pc'["run"] = "write" => Connected /\ ~Underway
      BY <1>1 DEF Typed, ConSet, Calm, Up
    <3>2. Written(ready) => Underway BY AnyIsSome DEF Typed
    <3> QED BY <1>1, <1>2, <1>4, <3>1, <3>2 DEF Calm, Once
  <2> QED BY <2>1, <2>2, <2>3, <2>4 DEF Calm
<1> QED BY <1>3, <1>4, <1>5, <1>6, <1>7

LEMMA HandleSendKeeps ==
    ASSUME IInv, HandleSend PROVE IInv'
<1>1. /\ Takes("send", TRUE) /\ ready' = Tail(ready) /\ DoSend(con, FALSE)
      /\ UNCHANGED <<outq, pending, done, stopped, failed, race, wrote, used>>
  BY DEF HandleSend
<1>2. Typed /\ Calm BY DEF IInv
<1>3. /\ pc["run"] = "run" /\ ready # <<>> /\ ready' \in Seq(HandlerSet)
      /\ Single(ready) => Single(ready')
      /\ EndsInClose(ready) => EndsInClose(ready')
  BY <1>1, <1>2, TakenHandler
<1>5. ASSUME NEW o, o # "send" PROVE Any(ready', o) <=> Any(ready, o)
  BY <1>1, <1>2, <1>5, TakenHandler
<1>6. Written(ready') <=> Written(ready)
  <2>1. Written(ready') => Written(ready) BY <1>1, <1>2, TakenHandler
  <2>2. ASSUME Written(ready) PROVE Written(ready')
    <3>1. Written(Tail(ready)) \/ "send" = "write" BY <1>1, <1>2, <2>2, TakenHandler
    <3> QED BY <1>1, <3>1
  <2> QED BY <2>1, <2>2 DEF Written
<1>4. ~Overlapping => /\ ~Connecting /\ pc["caller"] # "async"
                      /\ Disconnected => Closing
  BY <1>1, <1>2, <1>3, NotOpening DEF Calm, Overlapping, Idle
<1> QED BY <1>1, <1>3, <1>4, <1>5, <1>6, DoSendKeeps

LEMMA HandleConnectedKeeps ==
    ASSUME IInv, HandleConnected PROVE IInv'
<1>1. /\ pc["run"] = "connected"
      /\ UNCHANGED <<outq, done, stopped, failed, race, wrote, used>>
  BY DEF HandleConnected
<1>2. Typed /\ Calm BY DEF IInv
<1>3. ~Overlapping => ~Connecting /\ pc["caller"] # "async" /\ ~Disconnected /\ con.open
  BY <1>1, <1>2 DEF Calm, Overlapping, Idle, Opening
<1>4. CASE con.open
  <2>1. pending' = pending \cup {"read"} /\ ready' = ready /\ DoSend(con, FALSE)
    BY <1>4 DEF HandleConnected
  <2>2. CASE ~Disconnected
    <3>1. ready' \in Seq(HandlerSet) BY <1>2, <2>1 DEF Typed
    <3> QED BY <1>1, <1>3, <2>1, <2>2, <3>1, DoSendKeeps
  <2>3. CASE Disconnected
    <3> USE DEF IInv
    <3>1. con' = con /\ Goto("run", "run") BY <2>1, <2>3 DEF DoSend
    <3>2. /\ pc' \in [Thread -> Label] /\ pc'["run"] = "run"
          /\ pc'["caller"] = pc["caller"] /\ pc'["keep"] = pc["keep"]
      BY <3>1, Moved, ThreadNames DEF Typed, Label
    <3>3. Typed' BY <1>1, <2>1, <3>1, <3>2 DEF Typed
    <3>4. Numbered' /\ Popped' = Popped BY <1>1, NumbersStay
    <3>5. OneWrite' BY <1>1, <2>1, <3>2, <3>4 DEF OneWrite
    <3>6. Threads' /\ NothingStranded' /\ ConnectingEnds'
      BY <1>1, <2>1, <2>3, <3>1, <3>2 DEF Threads, Overlapping, NothingStranded, ConnectingEnds
    <3>7. Calm' BY <1>1, <1>3, <2>3 DEF Calm, Overlapping
    <3> QED BY <3>3, <3>4, <3>5, <3>6, <3>7
  <2> QED BY <2>2, <2>3
<1>5. CASE ~con.open
  <2> USE DEF IInv
  <2> DEFINE c == [con EXCEPT !.state = "disconnected", !.writing = FALSE]
  <2>1. pending' = pending /\ ready' = Post("close") /\ DoSend(c, FALSE)
    BY <1>5 DEF HandleConnected
  <2>2. c.state = "disconnected" /\ ~c.writing /\ c \in ConSet BY DEF Typed, ConSet
  <2>3. con' = c /\ Goto("run", "run") BY <2>1, <2>2 DEF DoSend
  <2> HIDE DEF c
  <2>4. /\ pc' \in [Thread -> Label] /\ pc'["run"] = "run"
        /\ pc'["caller"] = pc["caller"] /\ pc'["keep"] = pc["keep"]
    BY <2>3, Moved, ThreadNames DEF Typed, Label
  <2>5. Typed' BY <1>1, <2>1, <2>2, <2>3, <2>4, Posted DEF Typed
  <2>6. Numbered' /\ Popped' = Popped BY <1>1, NumbersStay
  <2>7. OneWrite' BY <1>1, <2>1, <2>4, <2>6, Posted DEF OneWrite
  <2>8. Threads' /\ NothingStranded' /\ ConnectingEnds'
    BY <1>1, <2>1, <2>2, <2>3, <2>4, Posted DEF Threads, Overlapping, NothingStranded, ConnectingEnds
  <2>9. Calm' BY <1>1, <1>3, <1>5 DEF Calm, Overlapping
  <2> QED BY <2>5, <2>6, <2>7, <2>8, <2>9
<1> QED BY <1>4, <1>5

LEMMA DoSendWriteKeeps ==
    ASSUME IInv, failed = "no", DoSendWrite PROVE IInv'
<1> USE DEF IInv
<1>1. /\ pc["run"] = "write" /\ Goto("run", "run") /\ pending' = pending \cup {"write"}
      /\ UNCHANGED <<con, outq, ready, done, stopped, race, wrote, used>>
  BY DEF DoSendWrite
<1>2. /\ pc' \in [Thread -> Label] /\ pc'["run"] = "run"
      /\ pc'["caller"] = pc["caller"] /\ pc'["keep"] = pc["keep"]
  BY <1>1, Moved, ThreadNames DEF Typed, Label
<1>3. /\ failed' = "no" => con.writing /\ ~Underway
      /\ (con.writing /\ ~Underway) => failed' = "no"
  BY DEF DoSendWrite
<1>4. Typed' BY <1>1, <1>2 DEF Typed
<1>5. Numbered' /\ Popped' = Popped BY <1>1, NumbersStay
<1>6. OneWrite' BY <1>1, <1>2, <1>3, <1>5 DEF OneWrite
<1>7. Threads' /\ NothingStranded' /\ ConnectingEnds'
  BY <1>1, <1>2 DEF Threads, Overlapping, NothingStranded, ConnectingEnds
<1>8. Calm'
  <2> SUFFICES ASSUME ~Overlapping PROVE Calm' BY <1>1 DEF Calm, Overlapping
  <2>1. con.writing /\ ~Underway /\ Connected
    BY <1>1 DEF Calm, Up, Idle, Opening, Typed, ConSet
  <2>2. Idle' BY <1>1, <1>2, <2>1 DEF Calm, Overlapping, Idle
  <2>3. Opening' BY <1>1, <1>2, <2>1 DEF Calm, Opening
  <2>4. Up' BY <1>1, <1>2, <2>1 DEF Calm, Up
  <2>5. Once'
    <3>1. ~Written(ready) BY <2>1, AnyIsSome DEF Typed
    <3> QED BY <1>1, <1>5, <2>1, <3>1 DEF Calm, Once
  <2> QED BY <1>3, <2>1, <2>2, <2>3, <2>4, <2>5 DEF Calm
<1> QED BY <1>4, <1>5, <1>6, <1>7, <1>8

\* The write succeeded: its message is popped, and the next one is sent.
LEMMA HandleWritePops ==
    ASSUME IInv, failed = "no", Takes("write", TRUE), HandleWrite(TRUE),
           ~Disconnected, con.open
    PROVE  IInv'
<1> USE DEF IInv
<1>1. /\ pc["run"] = "run" /\ ready # <<>> /\ Any(ready, "write")
      /\ Written(ready) /\ ~Any(Tail(ready), "write")
      /\ "write" \notin pending /\ outq # <<>>
  BY TakenHandler DEF OneWrite
<1> DEFINE next == IF Tail(outq) = <<>> THEN "run" ELSE "write"
<1>2. /\ outq' = Tail(outq) /\ ready' = Tail(ready) /\ Goto("run", next)
      /\ UNCHANGED <<pending, done, stopped, failed, race, wrote, used>>
  BY <1>1 DEF HandleWrite
<1>3. /\ con'.state = con.state /\ con'.open = con.open
      /\ con'.writing <=> Tail(outq) # <<>>
      /\ con' \in ConSet
  BY <1>1 DEF HandleWrite, Typed, ConSet
<1>4. /\ pc' \in [Thread -> Label] /\ pc'["run"] = next
      /\ pc'["caller"] = pc["caller"] /\ pc'["keep"] = pc["keep"]
  <2>1. next \in Label BY DEF Label
  <2> HIDE DEF next
  <2> QED BY <1>2, <2>1, Moved, ThreadNames DEF Typed
<1>5. /\ outq' \in Seq(Nat) /\ Len(outq') = Len(outq) - 1
      /\ \A i \in 1..Len(outq') : outq'[i] = (Popped + 1) + i
  BY <1>1, <1>2, NextIsFirst
<1>6. Popped \in Nat /\ Popped' = Popped + 1
  <2>1. Popped \in Nat BY DEF Numbered
  <2>2. used.pushed \in Nat /\ Len(outq) \in Nat BY DEF Typed, UsedSet
  <2>3. \A a, b \in Nat : a - (b - 1) = (a - b) + 1 OBVIOUS
  <2>4. used.pushed - (Len(outq) - 1) = (used.pushed - Len(outq)) + 1 BY <2>2, <2>3
  <2> QED BY <1>2, <1>5, <2>1, <2>4 DEF Popped
<1>7. wrote.last = Popped + 1 BY <1>1 DEF OneWrite
<1>8. Typed' BY <1>2, <1>3, <1>4, <1>5, TakenHandler DEF Typed
<1>9. Numbered' BY <1>2, <1>5, <1>6, <1>7 DEF Numbered
<1>10. ~Underway' /\ Single(ready') /\ ~Written(ready')
  <2>1. Single(ready') /\ ready' \in Seq(HandlerSet) BY <1>2, TakenHandler DEF OneWrite
  <2>2. ~Any(ready', "write") BY <1>1, <1>2
  <2> QED BY <1>1, <1>2, <2>1, <2>2, AnyIsSome
<1>11. pc'["run"] = "write" <=> outq' # <<>> BY <1>2, <1>4
<1>12. OneWrite' BY <1>10, <1>11 DEF OneWrite
<1>13. pc'["run"] \in {"run", "write"} BY <1>4
<1> HIDE DEF next
<1>14. Threads' /\ NothingStranded' /\ ConnectingEnds'
  <2>1. \A o : Any(ready, o) <=> Any(ready', o) \/ o = "write" BY <1>2, TakenHandler
  <2> QED BY <1>1, <1>2, <1>3, <1>4, <1>11, <1>13, <2>1
             DEF Threads, Overlapping, NothingStranded, ConnectingEnds
<1>15. Calm'
  <2> SUFFICES ASSUME ~Overlapping PROVE Calm' BY <1>2 DEF Calm, Overlapping
  <2>1. ~Connecting /\ pc["caller"] # "async" BY NotOpening
  <2>2. \A o : Any(ready, o) <=> Any(ready', o) \/ o = "write" BY <1>2, TakenHandler
  <2>3. Idle' BY <1>1, <1>2, <1>3, <1>13, <2>2 DEF Calm, Overlapping, Idle
  <2>4. Opening' BY <1>2, <1>3, <1>4, <2>1 DEF Calm, Opening
  <2>5. Up' BY <1>2, <1>3, <1>10, <1>11, <2>2 DEF Calm, Up
  <2>6. Once' BY <1>2, <1>6, <1>7 DEF Once
  <2> QED BY <1>2, <2>3, <2>4, <2>5, <2>6 DEF Calm
<1> QED BY <1>8, <1>9, <1>12, <1>14, <1>15

LEMMA HandleWriteKeeps ==
    ASSUME IInv, failed = "no", NEW good \in BOOLEAN, HandleWrite(good) PROVE IInv'
<1> USE DEF IInv
<1>1. Takes("write", good) /\ UNCHANGED <<pending, done, stopped, race, wrote, used>>
  BY DEF HandleWrite
<1>2. CASE Disconnected /\ ~con.writing
  <2>1. failed' = failed /\ ready' = Tail(ready) /\ UNCHANGED <<con, outq, pc>>
    BY <1>2 DEF HandleWrite
  <2> QED BY <1>1, <1>2, <2>1, DropKeeps
<1>3. CASE Disconnected /\ con.writing
  <2>1. failed' = "contract" /\ ready' = Tail(ready) /\ UNCHANGED <<con, outq, pc>>
    BY <1>3 DEF HandleWrite
  <2>2. Typed' BY <1>1, <2>1, TakenHandler DEF Typed
  <2>3. Numbered' BY <1>1, <2>1, NumbersStay
  <2>4. OneWrite' /\ Threads' /\ NothingStranded' /\ ConnectingEnds'
    BY <1>1, <1>3, <2>1 DEF OneWrite, Threads, Overlapping, NothingStranded, ConnectingEnds
  <2>5. Calm' BY <1>1, <1>3, <2>1 DEF Calm, Overlapping, Idle
  <2> QED BY <2>2, <2>3, <2>4, <2>5
<1>4. CASE ~Disconnected /\ (~good \/ ~con.open)
  <2>1. CloseHere /\ UNCHANGED <<outq, pc, failed>> BY <1>4 DEF HandleWrite
  <2> QED BY <1>1, <1>4, <2>1, CloseHereKeeps
<1>5. CASE ~Disconnected /\ good /\ con.open
  <2>1. good = TRUE BY <1>5
  <2> QED BY <1>1, <1>5, <2>1, HandleWritePops
<1> QED BY <1>2, <1>3, <1>4, <1>5

(***************************************************************************)
(* do_close: of an open socket it aborts what is in progress, and the run  *)
(* thread will catch; of a closed one it is the last thing there is.       *)
(***************************************************************************)
LEMMA HandleCloseKeeps ==
    ASSUME IInv, failed = "no", HandleClose PROVE IInv'
<1> USE DEF IInv
<1>1. /\ Takes("close", TRUE)
      /\ UNCHANGED <<outq, done, stopped, failed, race, wrote, used>>
  BY DEF HandleClose
<1>2. /\ con'.state = "disconnected" /\ ~con'.writing /\ ~con'.open /\ con' \in ConSet
  BY DEF HandleClose, Typed, ConSet
<1>3. pc["run"] = "run" /\ Any(ready, "close") BY <1>1, TakenHandler
<1>4. Numbered' /\ Popped' = Popped BY <1>1, NumbersStay
<1>5. CASE con.open
  <2>1. ready' = Tail(ready) \o Aborted /\ pending' = {} /\ Goto("run", "caught")
    BY <1>5 DEF HandleClose
  <2>2. /\ pc' \in [Thread -> Label] /\ pc'["run"] = "caught"
        /\ pc'["caller"] = pc["caller"] /\ pc'["keep"] = pc["keep"]
    BY <2>1, Moved, ThreadNames DEF Typed, Label
  <2>3. /\ Tail(ready) \in Seq(HandlerSet) /\ Single(Tail(ready))
        /\ Any(Tail(ready), "write") => Any(ready, "write")
        /\ Written(Tail(ready)) => Written(ready)
        /\ Written(ready) => Written(Tail(ready))
    <3>1. Written(ready) => Written(Tail(ready)) \/ "close" = "write"
      BY <1>1, TakenHandler
    <3>2. ASSUME Written(ready) PROVE Written(Tail(ready)) BY <3>1, <3>2
    <3> QED BY <1>1, <3>2, TakenHandler DEF OneWrite
  <2>4. ~(Any(Tail(ready), "write") /\ Any(Aborted, "write"))
    BY <2>3, AbortedOnes DEF OneWrite
  <2>5. /\ ready' \in Seq(HandlerSet) /\ Single(ready')
        /\ Any(ready', "write") => Underway
        /\ Written(ready') => Written(ready)
    BY <2>1, <2>3, <2>4, Joins, AbortedOnes
  <2>6. Typed' BY <1>1, <1>2, <2>1, <2>2, <2>5 DEF Typed
  <2>7. OneWrite' BY <1>1, <1>4, <2>1, <2>2, <2>5 DEF OneWrite
  <2>8. Threads' /\ NothingStranded' /\ ConnectingEnds'
    BY <1>1, <1>2, <2>2 DEF Threads, Overlapping, NothingStranded, ConnectingEnds
  <2>9. Calm'
    <3> SUFFICES ASSUME ~Overlapping PROVE Calm' BY <1>1 DEF Calm, Overlapping
    <3>1. pc["caller"] # "async" BY <1>1, NotOpening
    <3> QED BY <1>1, <1>2, <2>1, <2>2, <3>1 DEF Calm, Overlapping, Idle, Opening, Up, Once
  <2> QED BY <1>4, <2>6, <2>7, <2>8, <2>9
<1>6. CASE ~con.open
  <2>1. ready' = Tail(ready) /\ pending' = pending /\ Goto("run", "run")
    BY <1>6 DEF HandleClose
  <2>2. /\ pc' \in [Thread -> Label] /\ pc'["run"] = "run"
        /\ pc'["caller"] = pc["caller"] /\ pc'["keep"] = pc["keep"]
    BY <2>1, Moved, ThreadNames DEF Typed, Label
  <2>3. /\ ready' \in Seq(HandlerSet)
        /\ Single(ready) => Single(ready')
        /\ Any(ready', "write") => Any(ready, "write")
        /\ Written(ready') => Written(ready)
        /\ EndsInClose(ready) => EndsInClose(ready')
    BY <1>1, <2>1, TakenHandler
  <2>4. Typed' BY <1>1, <1>2, <2>1, <2>2, <2>3 DEF Typed
  <2>5. OneWrite' BY <1>1, <1>4, <2>1, <2>2, <2>3 DEF OneWrite
  <2>6. Threads' /\ NothingStranded' /\ ConnectingEnds'
    BY <1>1, <1>2, <2>2 DEF Threads, Overlapping, NothingStranded, ConnectingEnds
  <2>7. Calm'
    <3> SUFFICES ASSUME ~Overlapping PROVE Calm' BY <1>1 DEF Calm, Overlapping
    <3>1. pc["caller"] # "async" BY <1>1, NotOpening
    <3>2. pending = {} /\ EndsInClose(ready) BY <1>3, <1>6 DEF Calm, Overlapping, Idle
    <3>3. ~Any(ready', "close") => ready' = <<>> BY <2>3, <3>2, AnyIsSome
    <3>4. Idle' BY <1>2, <2>1, <2>2, <2>3, <3>2, <3>3 DEF Idle
    <3> QED BY <1>1, <1>2, <2>1, <2>2, <3>1, <3>2, <3>4 DEF Calm, Opening, Up, Once
  <2> QED BY <1>4, <2>4, <2>5, <2>6, <2>7
<1> QED BY <1>5, <1>6

-----------------------------------------------------------------------------
LEMMA InitHolds == Init => IInv
<1> SUFFICES ASSUME Init PROVE IInv OBVIOUS
<1>1. /\ con \in ConSet /\ con.state = "disconnected" /\ con.open /\ ~con.writing
      /\ outq = <<>> /\ ready = <<>> /\ pending = {} /\ ~done /\ failed = "no"
      /\ wrote.last = 0 /\ wrote \in [last : Nat, here : BOOLEAN] /\ ~wrote.here
      /\ used \in UsedSet /\ used.pushed = 0
  BY DEF Init, ConSet, UsedSet
<1>2. /\ pc \in [Thread -> Label] /\ pc["caller"] = "connect"
      /\ pc["run"] = "none" /\ pc["keep"] = "none"
  BY ThreadNames DEF Init, Label
<1>3. Typed BY <1>1, <1>2, Nothing, EmptySeq DEF Typed
<1>4. Numbered
  <2>1. Len(outq) = 0 BY <1>1, EmptySeq
  <2>2. Popped = 0
    <3>1. used.pushed - Len(outq) = 0 - 0 BY <1>1, <2>1
    <3>2. 0 - 0 = 0 OBVIOUS
    <3> QED BY <3>1, <3>2 DEF Popped
  <2>3. 1..Len(outq) = {} BY <2>1
  <2> QED BY <1>1, <2>2, <2>3 DEF Numbered
<1>5. OneWrite BY <1>1, <1>2, Nothing DEF OneWrite
<1>6. Threads /\ NothingStranded /\ ConnectingEnds
  BY <1>1, <1>2, Nothing DEF Threads, Overlapping, NothingStranded, ConnectingEnds
<1>7. Calm BY <1>1, <1>2, Nothing DEF Calm, Overlapping, Idle, Opening, Up, Once
<1> QED BY <1>3, <1>4, <1>5, <1>6, <1>7 DEF IInv

LEMMA NextKeeps == IInv /\ [Next]_vars => IInv'
<1> SUFFICES ASSUME IInv, [Next]_vars PROVE IInv' OBVIOUS
<1>1. CASE UNCHANGED vars
  <2>1. UNCHANGED <<con, outq, ready, pending, pc, done, stopped, failed, race, wrote, used>>
    BY <1>1 DEF vars
  <2> USE DEF IInv
  <2>2. Typed' BY <2>1 DEF Typed
  <2>3. Numbered' /\ Popped' = Popped BY <2>1, NumbersStay
  <2>4. OneWrite' BY <2>1, <2>3 DEF OneWrite
  <2>5. Threads' /\ NothingStranded' /\ ConnectingEnds'
    BY <2>1 DEF Threads, Overlapping, NothingStranded, ConnectingEnds
  <2>6. Calm' BY <2>1, <2>3 DEF Calm, Overlapping, Idle, Opening, Up, Once
  <2> QED BY <2>2, <2>3, <2>4, <2>5, <2>6
<1>2. CASE failed = "no" /\ Caller
  BY <1>2, CallSendKeeps, ConnectStateKeeps, ConnectAsyncKeeps, ResolveFailsKeeps,
     CallerPushKeeps, CallerPostKeeps, DestroyKeeps, JoinedKeeps DEF Caller
<1>3. CASE failed = "no" /\ RunThread
  BY <1>3, RunHelloKeeps, HandleConnectKeeps, HandleWriteKeeps, HandleReadKeeps,
     HandleConnectedKeeps, HandleSendKeeps, DoSendWriteKeeps, HandleCloseKeeps,
     CaughtKeeps, RunReturnsKeeps, RunThreadEndsKeeps DEF RunThread
<1>4. CASE failed = "no" /\ KeepThread
  BY <1>4, KeepHelloKeeps, KeepTickKeeps, KeepCloseWritingKeeps, KeepClosePostKeeps,
     KeepEndsKeeps DEF KeepThread
<1>5. CASE failed = "no" /\ (Network \/ PeerAcks \/ PeerCloses)
  BY <1>5, NetConnectsKeeps, NetRefusesKeeps, NetWritesKeeps, NetBreaksKeeps,
     PeerAcksKeeps, PeerClosesKeeps DEF Network
<1> QED BY <1>1, <1>2, <1>3, <1>4, <1>5 DEF Next

\* The inductive invariant, which the theorems below follow from.
THEOREM Invariance == Spec => []IInv
<1> QED BY InitHolds, NextKeeps, PTL DEF Spec

(***************************************************************************)
(* A message never waits on a connection that is up with nobody to send    *)
(* it: send() pushes and then looks at the state, handle_connect sets the  *)
(* state and then looks at the queue, and handle_write pops and then looks.*)
(***************************************************************************)
THEOREM NothingIsStranded == Spec => []NothingStranded
<1>1. IInv => NothingStranded BY DEF IInv
<1> QED BY <1>1, Invariance, PTL

(***************************************************************************)
(* A connection is never left in connecting with nothing under way that    *)
(* could end it (connect and handle_connect, close, keep_alive_thread).    *)
(***************************************************************************)
THEOREM ConnectingIsTransient == Spec => []ConnectingEnds
<1>1. IInv => ConnectingEnds BY DEF IInv
<1> QED BY <1>1, Invariance, PTL

(***************************************************************************)
(* Unless one of the two races has happened, the contracts on _writing     *)
(* hold, and do_send never starts a write while another is in progress.    *)
(***************************************************************************)
THEOREM OneWriterUnlessRaced == Spec => []WritesAreExclusive
<1>1. IInv => WritesAreExclusive BY DEF IInv, Calm, WritesAreExclusive
<1> QED BY <1>1, Invariance, PTL

OrderStep ==
    /\ (wrote'.last # wrote.last \/ (wrote'.here /\ ~wrote.here)) =>
           \/ wrote'.last = wrote.last + 1
           \/ wrote'.last = wrote.last /\ ~wrote.here
    /\ (NetWrites /\ ~Overlapping /\ wrote.here) => Head(outq) # wrote.last

LEMMA StepsKeepOrder ==
    ASSUME IInv, [Next]_vars PROVE [OrderStep]_vars
<1> USE DEF IInv, OrderStep
<1>1. CASE UNCHANGED vars BY <1>1
<1>2. CASE failed = "no" /\ NetWrites
  <2>1. /\ Completes("write", TRUE) /\ wrote' = [last |-> Head(outq), here |-> TRUE]
    BY <1>2 DEF NetWrites
  <2>2. "write" \in pending BY <2>1 DEF Completes
  <2>3. ~Any(ready, "write") /\ outq # <<>> BY <1>2, <2>2 DEF OneWrite
  <2>4. Head(outq) = Popped + 1 BY <2>3, NextIsFirst
  <2>5. ~Written(ready) BY <2>3, AnyIsSome DEF Typed
  <2>6. ~Overlapping /\ wrote.here => wrote.last # Popped + 1
    BY <2>2, <2>5 DEF Calm, Once
  <2>7. wrote.last \in {Popped, Popped + 1} BY DEF Numbered
  <2> QED BY <2>1, <2>4, <2>6, <2>7 DEF Numbered
<1>3. CASE Next /\ ~NetWrites
  <2>1. wrote' = wrote \/ (wrote'.last = wrote.last /\ ~wrote'.here)
    <3>1. CASE NetConnects BY <3>1 DEF NetConnects, Typed
    <3>2. CASE ~NetConnects
      <4>1. CASE Caller
        BY <4>1 DEF Caller, CallSend, ConnectState, ConnectAsync, ResolveFails,
                    CallerPush, CallerPost, Destroy, Joined
      <4>2. CASE RunThread
        BY <4>2 DEF RunThread, RunHello, HandleConnect, HandleWrite, HandleRead,
                    HandleConnected, HandleSend, DoSendWrite, HandleClose, Caught,
                    RunReturns, RunThreadEnds
      <4>3. CASE KeepThread
        BY <4>3 DEF KeepThread, KeepHello, KeepTick, CloseState, KeepCloseWriting,
                    CloseWriting, KeepClosePost, ClosePost, KeepEnds
      <4>4. CASE Network \/ PeerAcks \/ PeerCloses
        BY <1>3, <3>2, <4>4 DEF Network, NetRefuses, NetBreaks, PeerAcks, PeerCloses
      <4> QED BY <1>3, <4>1, <4>2, <4>3, <4>4 DEF Next
    <3> QED BY <3>1, <3>2
  <2> QED BY <1>3, <2>1 DEF Typed
<1> QED BY <1>1, <1>2, <1>3 DEF Next

(***************************************************************************)
(* The kernel is given the messages in order and none is skipped, over any *)
(* number of connections and whatever races happen; and none twice on the  *)
(* same connection without a race (handle_write pops what was written).    *)
(***************************************************************************)
THEOREM WrittenInOrder == Spec => InOrder
<1>1. IInv /\ [Next]_vars => [OrderStep]_vars BY StepsKeepOrder
<1>2. Spec => [][OrderStep]_vars BY <1>1, Invariance, PTL DEF Spec
<1> QED BY <1>2 DEF InOrder, OrderStep

=============================================================================
