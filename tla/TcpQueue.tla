------------------------------ MODULE TcpQueue ------------------------------
(***************************************************************************)
(* One outgoing TCP connection of the pool (network/tcp_queue): a          *)
(* tcp_queue that was made for a delayed connect, its tcp_connection, and  *)
(* the three threads that touch them without a common lock: the caller     *)
(* (the send thread of the connection manager), the run thread, which runs *)
(* the handlers of the queue's io_service, and the keep-alive thread.      *)
(*                                                                         *)
(* asio is external: ready holds the handlers that can run, in order;      *)
(* pending the operations in progress, which the network completes.  An    *)
(* io_service that ran out of work is stopped, and run() on it returns at  *)
(* once, for it is never reset.  A contract that fails ends the process.   *)
(***************************************************************************)
EXTENDS Naturals, Sequences, FiniteSets

CONSTANTS MaxSends,    \* bound: messages the caller sends
          MaxAcks      \* bound: keep-alives the peer answers

ASSUME TcpAssumption == MaxSends \in Nat /\ MaxAcks \in Nat

(***************************************************************************)
(* Messages are numbered as they are pushed, the keep-alives among them:   *)
(* one of each thread at its start, and one for every answer.              *)
(***************************************************************************)
Message == 1..(MaxSends + MaxAcks + 2)

Thread == {"caller", "run", "keep"}

VARIABLES con,      \* the tcp_connection: [state, open, fresh, writing, alive]; a
                    \* fresh socket has not been connected yet
          outq,     \* _out_queue
          ready,    \* handlers of the io_service that can run: [h, ok]
          pending,  \* operations in progress
          stopped,  \* the io_service is stopped
          pc,       \* pc[t]: where thread t is
          done,     \* _done
          failed,   \* "contract": one failed and the process is gone; "overlap":
                    \* two writes share _out_buffer; otherwise "no"
          race,     \* "keep": the keep-alive thread has closed the connection;
                    \* "hasty": it was connected again before its close was over;
                    \* "dead": it was connected again with no thread left to run
                    \* the handler of the connect
          link,     \* the socket is connected with the peer
          wrote,    \* [last, here]: the last message whose write was completed,
                    \* and whether that was since the last connect
          used      \* [pushed, sends, acks]: messages pushed, and the bounds used

vars == <<con, outq, ready, pending, stopped, pc, done, failed, race, link, wrote, used>>

Handler(op, good) == [h |-> op, ok |-> good]
Post(op) == Append(ready, Handler(op, TRUE))

Any(s, op) == \E i \in 1..Len(s) : s[i].h = op
Has(op) == Any(ready, op)

\* A do_close is still to run, or to be posted where tcp_run_thread catches
Closing == Has("close") \/ pc["run"] = "caught"

Disconnected == con.state = "disconnected"
Connected == con.state = "connected"

\* tcp_queue(delayed_connect): the socket is open and bound, no thread yet
Init ==
    /\ con = [state |-> "disconnected", open |-> TRUE, fresh |-> TRUE,
              writing |-> FALSE, alive |-> FALSE]
    /\ outq = <<>> /\ ready = <<>> /\ pending = {} /\ stopped = FALSE
    /\ pc = [t \in Thread |-> IF t = "caller" THEN "connect" ELSE "none"]
    /\ done = FALSE /\ failed = "no" /\ race = {}
    /\ link = FALSE
    /\ wrote = [last |-> 0, here |-> FALSE]
    /\ used = [pushed |-> 0, sends |-> 0, acks |-> 0]

Goto(t, l) == pc' = [pc EXCEPT ![t] = l]

-----------------------------------------------------------------------------
Push == /\ outq' = Append(outq, used.pushed + 1)
        /\ used' = [used EXCEPT !.pushed = @ + 1]

\* tcp_connection::send is two steps for the caller: the push, and the do_send
\* that is posted if the connection is connected by then.  The keep-alive
\* thread's calls are one step each; their race is that of the caller's.
SendKeepAlive ==
    /\ Push
    /\ ready' = IF Connected THEN Post("send") ELSE ready

\* close() in the three steps the other threads can see
CloseState(t, l) ==
    /\ con' = [con EXCEPT !.state = "disconnected"]
    /\ race' = race \cup {t}
    /\ Goto(t, l)
    /\ UNCHANGED <<outq, ready, pending, stopped, done, failed, link, wrote, used>>

CloseWriting(t, l) ==
    /\ con' = [con EXCEPT !.writing = FALSE]
    /\ Goto(t, l)
    /\ UNCHANGED <<outq, ready, pending, stopped, done, failed, race, link, wrote, used>>

ClosePost(t, l) ==
    /\ ready' = Post("close")
    /\ Goto(t, l)
    /\ UNCHANGED <<con, outq, pending, stopped, done, failed, race, link, wrote, used>>

-----------------------------------------------------------------------------
\* The caller.

\* tcp_queue::send finds the connection as it is, or connects it again
CallSend ==
    /\ pc["caller"] = "idle" /\ used.sends < MaxSends
    /\ used' = [used EXCEPT !.sends = @ + 1]
    /\ Goto("caller", IF Disconnected THEN "connect" ELSE "push")
    /\ UNCHANGED <<con, outq, ready, pending, stopped, done, failed, race, link, wrote>>

\* tcp_connection::connect, under its lock
ConnectState ==
    /\ pc["caller"] = "connect"
    /\ IF Disconnected
       THEN /\ con' = [con EXCEPT !.state = "connecting"]
            /\ Goto("caller", "async")
       ELSE con' = con /\ Goto("caller", "push")
    /\ race' = IF Disconnected /\ Closing THEN race \cup {"hasty"} ELSE race
    /\ UNCHANGED <<outq, ready, pending, stopped, done, failed, link, wrote, used>>

\* The first connect starts the threads; a later one goes on with the send
Goon == pc' = IF pc["run"] = "none"
              THEN [caller |-> "idle", run |-> "hello", keep |-> "hello"]
              ELSE [pc EXCEPT !["caller"] = "push"]

\* async_connect, which opens a socket that is not open.  Nobody looks whether
\* the io_service still runs, and the threads are not started again.
ConnectAsync ==
    /\ pc["caller"] = "async"
    /\ con' = IF con.open THEN con ELSE [con EXCEPT !.open = TRUE, !.fresh = TRUE]
    /\ pending' = pending \cup {"connect"}
    /\ race' = IF stopped /\ pc["keep"] = "ended" THEN race \cup {"dead"} ELSE race
    /\ Goon
    /\ UNCHANGED <<outq, ready, stopped, done, failed, link, wrote, used>>

\* The resolver throws: tcp_queue::connect logs it
ResolveFails ==
    /\ pc["caller"] = "connect"
    /\ Goon
    /\ UNCHANGED <<con, outq, ready, pending, stopped, done, failed, race, link, wrote, used>>

CallerPush ==
    /\ pc["caller"] = "push"
    /\ Push
    /\ Goto("caller", "post")
    /\ UNCHANGED <<con, ready, pending, stopped, done, failed, race, link, wrote>>

CallerPost ==
    /\ pc["caller"] = "post"
    /\ ready' = IF Connected THEN Post("send") ELSE ready
    /\ Goto("caller", "idle")
    /\ UNCHANGED <<con, outq, pending, stopped, done, failed, race, link, wrote, used>>

\* connection_manager::cleanup_pool drops a queue that is disconnected, and
\* ~tcp_queue closes it, stops the io_service and joins the threads
Destroy ==
    /\ pc["caller"] = "idle" /\ Disconnected
    /\ con' = [con EXCEPT !.writing = FALSE]
    /\ ready' = Post("close")
    /\ done' = TRUE /\ stopped' = TRUE
    /\ Goto("caller", "join")
    /\ UNCHANGED <<outq, pending, failed, race, link, wrote, used>>

Joined ==
    /\ pc["caller"] = "join" /\ pc["run"] = "ended" /\ pc["keep"] = "ended"
    /\ Goto("caller", "gone")
    /\ UNCHANGED <<con, outq, ready, pending, stopped, done, failed, race, link, wrote, used>>

-----------------------------------------------------------------------------
\* The run thread: tcp_run_thread and the handlers.

\* Nothing can be connected before this thread runs the first handler
RunHello ==
    /\ pc["run"] = "hello"
    /\ Push
    /\ Goto("run", "run")
    /\ UNCHANGED <<con, ready, pending, stopped, done, failed, race, link, wrote>>

\* The next handler is op, completed or not as good says
Takes(op, good) ==
    /\ pc["run"] = "run" /\ ~stopped
    /\ ready # <<>> /\ Head(ready) = Handler(op, good)

\* close() inside a handler, atomic for the handlers that follow
CloseHere ==
    /\ con' = [con EXCEPT !.state = "disconnected", !.writing = FALSE]
    /\ ready' = Append(Tail(ready), Handler("close", TRUE))

\* Mutant: a connect that fails is not followed by a close
HandleConnectIgnores(good) ==
    /\ Takes("connect", good)
    /\ ready' = Tail(ready)
    /\ IF con.state = "connecting" /\ con.open /\ good
       THEN con' = [con EXCEPT !.state = "connected"] /\ Goto("run", "connected")
       ELSE con' = con /\ pc' = pc
    /\ UNCHANGED <<outq, pending, stopped, done, failed, race, link, wrote, used>>

\* handle_connect
HandleConnect(good) ==
    /\ Takes("connect", good)
    /\ IF con.state # "connecting"
       THEN con' = con /\ ready' = Tail(ready) /\ pc' = pc
       ELSE IF con.open /\ good
       THEN /\ con' = [con EXCEPT !.state = "connected"]
            /\ ready' = Tail(ready)
            /\ Goto("run", "connected")
       ELSE CloseHere /\ pc' = pc
    /\ UNCHANGED <<outq, pending, stopped, done, failed, race, link, wrote, used>>

\* Mutant: do_send does not look whether a write is in progress
DoSendAlways(c, force) ==
    IF c.state = "disconnected" \/ outq = <<>>
    THEN con' = c /\ Goto("run", "run")
    ELSE con' = [c EXCEPT !.writing = TRUE] /\ Goto("run", "write")

\* do_send up to _writing = true, in the state c of the connection
DoSend(c, force) ==
    IF c.state = "disconnected" \/ outq = <<>> \/ (~force /\ c.writing)
    THEN con' = c /\ Goto("run", "run")
    ELSE con' = [c EXCEPT !.writing = TRUE] /\ Goto("run", "write")

\* Mutant: what was queued while connecting waits for the next send
HandleConnectedIdle ==
    /\ pc["run"] = "connected"
    /\ pending' = IF con.open THEN pending \cup {"read"} ELSE pending
    /\ ready' = IF con.open THEN ready ELSE Post("close")
    /\ con' = IF con.open THEN con
              ELSE [con EXCEPT !.state = "disconnected", !.writing = FALSE]
    /\ Goto("run", "run")
    /\ UNCHANGED <<outq, stopped, done, failed, race, link, wrote, used>>

\* handle_connect after it has set the state: start_read, and what was queued
\* before the connection stood is sent
HandleConnected ==
    /\ pc["run"] = "connected"
    /\ pending' = IF con.open THEN pending \cup {"read"} ELSE pending
    /\ ready' = IF con.open THEN ready ELSE Post("close")
    /\ DoSend(IF con.open THEN con
              ELSE [con EXCEPT !.state = "disconnected", !.writing = FALSE], FALSE)
    /\ UNCHANGED <<outq, stopped, done, failed, race, link, wrote, used>>

\* do_send(false) as a handler of its own
HandleSend ==
    /\ Takes("send", TRUE)
    /\ ready' = Tail(ready)
    /\ DoSend(con, FALSE)
    /\ UNCHANGED <<outq, pending, stopped, done, failed, race, link, wrote, used>>

\* The rest of do_send: ENSURE(_writing), the same as at the end of
\* handle_write, and async_write of the front of the queue
DoSendWrite ==
    /\ pc["run"] = "write"
    /\ pending' = pending \cup {"write"}
    /\ failed' = CASE ~con.writing -> "contract"
                   [] "write" \in pending \/ Has("write") -> "overlap"
                   [] OTHER -> failed
    /\ Goto("run", "run")
    /\ UNCHANGED <<con, outq, ready, stopped, done, race, link, wrote, used>>

\* Mutant: the message is removed before the error is looked at
HandleWriteDrops(good) ==
    /\ Takes("write", good)
    /\ outq # <<>> /\ outq' = Tail(outq)
    /\ IF Disconnected \/ ~good \/ ~con.open
       THEN CloseHere /\ pc' = pc
       ELSE /\ ready' = Tail(ready)
            /\ con' = [con EXCEPT !.writing = Tail(outq) # <<>>]
            /\ Goto("run", IF Tail(outq) = <<>> THEN "run" ELSE "write")
    /\ UNCHANGED <<pending, stopped, done, failed, race, link, wrote, used>>

\* handle_write.  A message is left in the queue when the connection is gone.
HandleWrite(good) ==
    /\ Takes("write", good)
    /\ IF Disconnected
       THEN /\ failed' = IF con.writing THEN "contract" ELSE failed
            /\ ready' = Tail(ready)
            /\ UNCHANGED <<con, outq, pc>>
       ELSE IF ~good \/ ~con.open
       THEN CloseHere /\ UNCHANGED <<outq, pc, failed>>
       ELSE IF outq = <<>>
       THEN failed' = "contract" /\ UNCHANGED <<con, outq, pc, ready>>
       ELSE /\ outq' = Tail(outq)
            /\ ready' = Tail(ready)
            /\ failed' = failed
            /\ con' = [con EXCEPT !.writing = Tail(outq) # <<>>]
            /\ Goto("run", IF Tail(outq) = <<>> THEN "run" ELSE "write")
    /\ UNCHANGED <<pending, stopped, done, race, link, wrote, used>>

\* handle_header and handle_body of an answer to a keep-alive, or of an error
HandleRead(good) ==
    /\ Takes("read", good)
    /\ IF Disconnected
       THEN con' = con /\ ready' = Tail(ready) /\ pending' = pending
       ELSE IF ~good \/ ~con.open
       THEN CloseHere /\ pending' = pending
       ELSE /\ con' = [con EXCEPT !.alive = TRUE]
            /\ ready' = Tail(ready)
            /\ pending' = pending \cup {"read"}
    /\ UNCHANGED <<outq, stopped, pc, done, failed, race, link, wrote, used>>

\* Operations that are aborted when the socket is closed
Aborted == (IF "read" \in pending THEN <<Handler("read", FALSE)>> ELSE <<>>)
        \o (IF "write" \in pending THEN <<Handler("write", FALSE)>> ELSE <<>>)
        \o (IF "connect" \in pending THEN <<Handler("connect", FALSE)>> ELSE <<>>)

\* do_close.  Of a socket it has just closed it then logs the endpoints, which
\* throws: tcp_run_thread catches and calls close() once more.
HandleClose ==
    /\ Takes("close", TRUE)
    /\ con' = [con EXCEPT !.state = "disconnected", !.writing = FALSE, !.open = FALSE]
    /\ ready' = IF con.open THEN Tail(ready) \o Aborted ELSE Tail(ready)
    /\ pending' = IF con.open THEN {} ELSE pending
    /\ link' = (link /\ ~con.open)
    /\ Goto("run", IF con.open THEN "caught" ELSE "run")
    /\ UNCHANGED <<outq, stopped, done, failed, race, wrote, used>>

Caught ==
    /\ pc["run"] = "caught"
    /\ con' = [con EXCEPT !.state = "disconnected", !.writing = FALSE]
    /\ ready' = Post("close")
    /\ Goto("run", "run")
    /\ UNCHANGED <<outq, pending, stopped, done, failed, race, link, wrote, used>>

\* run() returns: there is no work, or the io_service was stopped before
RunReturns ==
    /\ pc["run"] = "run"
    /\ stopped \/ (ready = <<>> /\ pending = {})
    /\ stopped' = TRUE
    /\ Goto("run", "sleep")
    /\ UNCHANGED <<con, outq, ready, pending, done, failed, race, link, wrote, used>>

\* The thread leaves its loop; otherwise run() returns at once for ever
RunThreadEnds ==
    /\ pc["run"] = "sleep" /\ (Disconnected \/ done)
    /\ Goto("run", "ended")
    /\ UNCHANGED <<con, outq, ready, pending, stopped, done, failed, race, link, wrote, used>>

-----------------------------------------------------------------------------
\* keep_alive_thread.

KeepHello ==
    /\ pc["keep"] = "hello"
    /\ SendKeepAlive
    /\ Goto("keep", "loop")
    /\ UNCHANGED <<con, pending, stopped, done, failed, race, link, wrote>>

\* KEEP_ALIVE_THRESH ticks have passed: another keep-alive if the last one was
\* answered, otherwise the connection is closed
KeepTick ==
    /\ pc["keep"] = "loop" /\ ~done /\ ~Disconnected
    /\ IF con.alive
       THEN /\ SendKeepAlive
            /\ con' = [con EXCEPT !.alive = FALSE]
            /\ UNCHANGED <<pending, stopped, pc, done, failed, race, link, wrote>>
       ELSE CloseState("keep", "close_writing")

KeepCloseWriting == pc["keep"] = "close_writing" /\ CloseWriting("keep", "close_post")

KeepClosePost == pc["keep"] = "close_post" /\ ClosePost("keep", "loop")

\* After its sleep the thread finds the connection gone
KeepEnds ==
    /\ pc["keep"] = "loop" /\ (Disconnected \/ done)
    /\ Goto("keep", "ended")
    /\ UNCHANGED <<con, outq, ready, pending, stopped, done, failed, race, link, wrote, used>>

-----------------------------------------------------------------------------
\* The network and the peer, who answers a keep-alive and may hang up.

Completes(op, good) ==
    /\ op \in pending
    /\ pending' = pending \ {op}
    /\ ready' = Append(ready, Handler(op, good))

NetConnects ==
    /\ Completes("connect", TRUE) /\ con.fresh
    /\ con' = [con EXCEPT !.fresh = FALSE]
    /\ link' = TRUE
    /\ wrote' = [wrote EXCEPT !.here = FALSE]
    /\ UNCHANGED <<outq, stopped, pc, done, failed, race, used>>

\* Refused, timed out, or a socket that is connected already
NetRefuses ==
    /\ Completes("connect", FALSE)
    /\ UNCHANGED <<con, outq, stopped, pc, done, failed, race, link, wrote, used>>

\* A write is completed when the kernel has taken the bytes.  The peer gets them
\* later, or never if the connection breaks, and the kernel may still take the
\* bytes of a connection that is broken already.
NetWrites ==
    /\ Completes("write", TRUE) /\ con.open /\ ~con.fresh
    /\ wrote' = [last |-> Head(outq), here |-> TRUE]
    /\ UNCHANGED <<con, outq, stopped, pc, done, failed, race, link, used>>

NetBreaks(op) ==
    /\ op \in {"read", "write"} /\ ~link
    /\ Completes(op, FALSE)
    /\ UNCHANGED <<con, outq, stopped, pc, done, failed, race, link, wrote, used>>

PeerAcks ==
    /\ link /\ used.acks < MaxAcks
    /\ Completes("read", TRUE)
    /\ used' = [used EXCEPT !.acks = @ + 1]
    /\ UNCHANGED <<con, outq, stopped, pc, done, failed, race, link, wrote>>

PeerCloses ==
    /\ link
    /\ link' = FALSE
    /\ UNCHANGED <<con, outq, ready, pending, stopped, pc, done, failed, race, wrote, used>>

-----------------------------------------------------------------------------
Caller == \/ CallSend \/ ConnectState \/ ConnectAsync \/ ResolveFails
          \/ CallerPush \/ CallerPost \/ Destroy \/ Joined

RunThread == \/ RunHello
             \/ \E good \in BOOLEAN : \/ HandleConnect(good) \/ HandleWrite(good)
                                      \/ HandleRead(good)
             \/ HandleConnected \/ HandleSend \/ DoSendWrite
             \/ HandleClose \/ Caught \/ RunReturns \/ RunThreadEnds

KeepThread == \/ KeepHello \/ KeepTick
              \/ KeepCloseWriting \/ KeepClosePost \/ KeepEnds

Network == \/ NetConnects \/ NetRefuses \/ NetWrites \/ \E op \in pending : NetBreaks(op)

Next == failed = "no" /\ (Caller \/ RunThread \/ KeepThread \/ Network \/ PeerAcks \/ PeerCloses)

Spec == Init /\ [][Next]_vars

-----------------------------------------------------------------------------
TypeOK ==
    /\ con \in [state : {"disconnected", "connecting", "connected"},
                open : BOOLEAN, fresh : BOOLEAN, writing : BOOLEAN, alive : BOOLEAN]
    /\ outq \in Seq(Message)
    /\ ready \in Seq([h : {"connect", "read", "write", "send", "close"}, ok : BOOLEAN])
    /\ pending \subseteq {"connect", "read", "write"}
    /\ stopped \in BOOLEAN /\ done \in BOOLEAN
    /\ failed \in {"no", "contract", "overlap"} /\ race \subseteq {"keep", "hasty", "dead"}
    /\ link \in BOOLEAN /\ wrote \in [last : {0} \cup Message, here : BOOLEAN]

(***************************************************************************)
(* A message never waits in the queue of a connection that is up with      *)
(* nobody to send it: a write is in progress, or its handler, a do_send or *)
(* a do_close is waiting to run, or a thread is on its way to post one.    *)
(* The push of send() races the test for an empty queue in handle_connect  *)
(* and in handle_write.                                                    *)
(***************************************************************************)
NothingStranded ==
    (Connected /\ outq # <<>> /\ failed = "no") =>
        \/ "write" \in pending \/ Has("write") \/ Has("send") \/ Has("close")
        \/ pc["run"] \in {"connected", "write", "caught"}
        \/ pc["caller"] = "post" \/ pc["keep"] \in {"close_writing", "close_post"}

\* The two races that let two threads write _state and _writing at once
Overlapping == race \cap {"keep", "hasty"} # {}

(***************************************************************************)
(* The kernel is given the messages in the order they were sent and none   *)
(* is skipped, also when the connection is lost and made again, for a      *)
(* message stays at the front of the queue until its write is completed.   *)
(* Only a message whose handle_write met a lost connection is given again, *)
(* and then on the next connection; twice on one it is given only after    *)
(* one of the races that WritesAreExclusive names.  What the kernel took   *)
(* is not acknowledged by the peer: of the messages of one connection he   *)
(* gets the first ones, and those written last before it broke are lost    *)
(* and not sent again.                                                     *)
(***************************************************************************)
InOrder ==
    [][/\ (wrote'.last # wrote.last \/ (wrote'.here /\ ~wrote.here)) =>
              \/ wrote'.last = wrote.last + 1
              \/ wrote'.last = wrote.last /\ ~wrote.here
       /\ (NetWrites /\ ~Overlapping /\ wrote.here) => Head(outq) # wrote.last]_vars

(***************************************************************************)
(* As long as the keep-alive thread has not closed the connection, and the *)
(* caller has not connected it again before its close was over, the        *)
(* contracts on _writing hold and no write starts while another is in      *)
(* progress: the flag is enough for the run thread and the caller.  The    *)
(* close is over when do_close has run and nothing is left of the second   *)
(* close() that tcp_run_thread calls when it catches what do_close threw.  *)
(***************************************************************************)
WritesAreExclusive == failed # "no" => Overlapping

(***************************************************************************)
(* A connection does not stay in connecting, where the pool takes it for   *)
(* live and queues messages on it: the keep-alive thread is there to give  *)
(* it up, or its connect or a close is under way on an io_service that     *)
(* still runs.  There is one exception, which the code does not prevent:   *)
(* send() connects again when the io_service has run out of work, which is *)
(* never reset, and the keep-alive thread has ended.  That connection      *)
(* stays connecting for ever.                                              *)
(***************************************************************************)
ConnectingEnds ==
    (con.state = "connecting" /\ pc["run"] # "none" /\ pc["caller"] # "async") =>
        \/ pc["keep"] # "ended"
        \/ /\ ~stopped
           /\ "connect" \in pending \/ Has("connect") \/ Has("close") \/ pc["run"] = "caught"
        \/ "dead" \in race

=============================================================================
