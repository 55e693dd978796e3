------------------------- MODULE UserServiceProofs -------------------------
(***************************************************************************)
(* Proofs about UserService, for every threshold and every bound.          *)
(***************************************************************************)
EXTENDS UserService, TLAPS

USE DEF CONNECTED, DISCONNECTED

(***************************************************************************)
(* The request being handled: its contact is not live until the service    *)
(* thread says so, its channel is made before the contact is connecting    *)
(* and agreed before the first ping.                                       *)
(***************************************************************************)
RequestInProgress ==
    /\ InRequest => service.secret # 0
    /\ service.pc \in {"address", "answer", "connecting"} => ~Busy
    /\ service.pc \in {"answer", "connecting"} /\ known => Exists
    /\ service.pc \in {"secure", "ping"} => ~contact_available
    /\ service.pc = "ping" => Exists /\ Ready

\* Public values are only set on channels that have a pair.
ChannelShape == Ready => Exists

\* The inductive invariant.
IInv ==
    /\ TypeOK
    /\ RequestInProgress
    /\ ChannelShape
    /\ LiveContactIsSecure
    /\ ServiceContractsHold

\* The elements of the message sets.
LEMMA MessageFacts ==
    /\ \A m \in Message : m.type \in {"ping", "request"}
    /\ \A m \in Message : m.type = "ping" => m \in Pings
    /\ \A m \in Message : m.type = "request"
          => m.send_back \in BOOLEAN /\ m.secret \in 1 .. MaxSecrets
BY DEF Message, Pings, Requests, Ping, Request, Secret

LEMMA PingIsMessage ==
    \A s \in {"c", "d"} : Ping(s) \in Message
BY DEF Message, Pings

LEMMA RequestIsMessage ==
    ASSUME NEW b \in BOOLEAN, NEW x \in Secret
    PROVE  Request(b, x) \in Message
BY DEF Message, Requests

LEMMA HeadIsMessage ==
    ASSUME NEW q \in Seq(Message), q # <<>>
    PROVE  Head(q) \in Message /\ Tail(q) \in Seq(Message)
OBVIOUS

LEMMA PairIsSecret ==
    ASSUME TypeOK, PairAfter <= MaxSecrets
    PROVE  PairAfter \in Secret
BY UserAssumption DEF TypeOK, Channel, PairAfter, Exists, Secret

\* Records of the service thread.
LEMMA ServiceRecord ==
    ASSUME NEW p \in ServicePcs, NEW b \in BOOLEAN, NEW x \in 0 .. MaxSecrets
    PROVE  [pc |-> p, send_back |-> b, secret |-> x] \in ServiceState
BY DEF ServiceState

LEMMA IdleRecord ==
    Idle \in ServiceState /\ Idle.pc = "idle"
<1> DEFINE b == FALSE
<1>1. b \in BOOLEAN OBVIOUS
<1>2. Idle = [pc |-> "idle", send_back |-> b, secret |-> 0] BY DEF Idle
<1> HIDE DEF b
<1>3. "idle" \in ServicePcs BY DEF ServicePcs
<1> QED BY <1>1, <1>2, <1>3, ServiceRecord, UserAssumption

LEMMA GoingRecord ==
    ASSUME NEW sv \in ServiceState, NEW p \in ServicePcs
    PROVE  /\ [sv EXCEPT !.pc = p] \in ServiceState
           /\ [sv EXCEPT !.pc = p].pc = p
           /\ [sv EXCEPT !.pc = p].secret = sv.secret
BY DEF ServiceState

LEMMA InitHolds == Init => IInv
<1> SUFFICES ASSUME Init PROVE IInv OBVIOUS
<1>1. known \in BOOLEAN /\ told \in BOOLEAN
  BY Zenon DEF Init
<1>2. service \in ServiceState /\ service.pc = "idle"
  BY IdleRecord DEF Init
<1>3. channel \in Channel /\ ~Exists /\ ~Ready
  BY UserAssumption DEF Init, Channel, NoChannel, Exists, Ready
<1>4. /\ contact \in {"none", "null", "set"}
      /\ last_ping \in 0 .. PING_THRESH + PING_THRESH
  BY UserAssumption DEF Init
<1>5. TypeOK
  BY <1>1, <1>2, <1>3, <1>4, UserAssumption DEF Init, TypeOK, Contracts
<1>6. RequestInProgress /\ ChannelShape /\ LiveContactIsSecure /\ ServiceContractsHold
  BY <1>2, <1>3 DEF Init, RequestInProgress, InRequest, ChannelShape,
         LiveContactIsSecure, ServiceContractsHold
<1> QED BY <1>5, <1>6 DEF IInv
----------------------------------------------------------------------------
(***************************************************************************)
(* What the three shared operations do.                                    *)
(***************************************************************************)
LEMMA Disconnected ==
    ASSUME TypeOK, fire_contact_disconnected_event
    PROVE  /\ state' \in {state, "OFFLINE"}
           /\ last_ping' \in 0 .. PING_THRESH + PING_THRESH
           /\ channel' \in Channel
           /\ \/ channel' = channel
              \/ /\ contact_available
                 /\ channel' = NoChannel
                 /\ state' = "OFFLINE"
           /\ told' \in BOOLEAN
           /\ failed' \in {failed, "disconnect"}
<1>1. told' \in BOOLEAN
  BY Zenon DEF TypeOK, fire_contact_disconnected_event
<1>2. NoChannel \in Channel
  BY UserAssumption DEF NoChannel, Channel
<1> QED
  BY <1>1, <1>2, UserAssumption DEF TypeOK, fire_contact_disconnected_event, contact_available

LEMMA PingSent ==
    ASSUME TypeOK, NEW s \in {"c", "d"}, NEW force \in BOOLEAN,
           send_ping_to(s, force)
    PROVE  /\ outbox' \in Seq(Message)
           /\ contact' \in {contact, "null"}
           /\ failed' \in {failed, "get_channel", "ping_ready"}
           /\ failed' = "get_channel" /\ failed # "get_channel"
                => ~Exists /\ contact = "set" /\ (state = "OFFLINE" => force)
BY PingIsMessage DEF TypeOK, send_ping_to, Push

LEMMA ChannelMade ==
    ASSUME TypeOK, ChannelShape, NEW x \in 0 .. MaxSecrets, CreateChannel(x)
    PROVE  /\ channel' \in Channel
           /\ secrets' \in 0 .. MaxSecrets
           /\ channel'.own # 0
           /\ channel'.other = x
BY UserAssumption DEF TypeOK, CreateChannel, Channel, PairAfter, Exists

LEMMA PkChannelMade ==
    ASSUME TypeOK, ChannelShape, CreatePkChannel
    PROVE  /\ channel' \in Channel
           /\ secrets' \in 0 .. MaxSecrets
           /\ channel'.own # 0
           /\ channel'.other = channel.other
<1>1. channel.other \in 0 .. MaxSecrets BY DEF TypeOK, Channel
<1> QED BY <1>1, ChannelMade DEF CreatePkChannel

LEMMA RequestSent ==
    ASSUME TypeOK, ChannelShape, NEW b \in BOOLEAN, NEW k \in Contracts,
           send_ping_request(b, k)
    PROVE  \/ /\ Busy
              /\ failed' = k
              /\ UNCHANGED <<channel, secrets, outbox>>
           \/ /\ failed' = failed
              /\ channel' \in Channel
              /\ secrets' \in 0 .. MaxSecrets
              /\ channel'.own # 0
              /\ channel'.other = channel.other
              /\ outbox' \in Seq(Message)
<1>1. CASE Busy
  BY <1>1 DEF send_ping_request, channelVars
<1>2. CASE ~Busy
  <2>1. CreatePkChannel /\ Push(Request(b, PairAfter)) /\ failed' = failed
    BY <1>2 DEF send_ping_request
  <2>2. PairAfter \in Secret
    BY <2>1, PairIsSecret DEF CreatePkChannel, CreateChannel
  <2>3. outbox' \in Seq(Message)
    BY <2>1, <2>2, RequestIsMessage DEF Push, TypeOK
  <2> QED BY <2>1, <2>3, PkChannelMade
<1> QED BY <1>1, <1>2

LEMMA Handled ==
    ASSUME TypeOK, NEW t \in {"ping", "request"}, Handle(t)
    PROVE  /\ inbox' \in Seq(Message)
           /\ Head(inbox) \in Message
           /\ Head(inbox).type = t
           /\ service.pc = "idle"
BY HeadIsMessage DEF TypeOK, Handle
----------------------------------------------------------------------------
(***************************************************************************)
(* Every action keeps the invariant.  Invariants that speak of a request   *)
(* or of a channel are Safe; TypeOK is proved apart from them.             *)
(***************************************************************************)
Safe ==
    /\ RequestInProgress
    /\ ChannelShape
    /\ LiveContactIsSecure
    /\ ServiceContractsHold

LEMMA PingReceived ==
    ASSUME IInv, received_ping PROVE IInv'
<1>1. inbox' \in Seq(Message) /\ service.pc = "idle"
  BY Handled DEF IInv, received_ping
<1>2. /\ service' \in ServiceState
      /\ service'.pc \in {"idle", "connected", "gone"}
  <2>1. /\ [service EXCEPT !.pc = "connected"] \in ServiceState
        /\ [service EXCEPT !.pc = "connected"].pc = "connected"
        /\ [service EXCEPT !.pc = "gone"] \in ServiceState
        /\ [service EXCEPT !.pc = "gone"].pc = "gone"
    BY GoingRecord DEF IInv, TypeOK, ServicePcs
  <2> QED BY <2>1, <1>1 DEF received_ping, Going, IInv, TypeOK
<1>t. TypeOK'
  BY <1>1, <1>2, UserAssumption DEF IInv, TypeOK, Contracts, contactVars, channelVars, received_ping, PingTicks
<1>s. Safe'
  BY <1>1, <1>2, UserAssumption DEF IInv, TypeOK, Safe, contactVars, channelVars,
     RequestInProgress, InRequest, Busy, contact_available, is_contact_connecting,
     ChannelShape, LiveContactIsSecure, ServiceContractsHold, Exists, Ready, received_ping
<1> QED BY <1>t, <1>s DEF IInv, Safe

LEMMA Connected ==
    ASSUME IInv, contact_connected PROVE IInv'
<1>1. /\ service' \in ServiceState
      /\ service'.pc \in {"idle", "event", "connected"}
  <2>1. /\ [service EXCEPT !.pc = "event"] \in ServiceState
        /\ [service EXCEPT !.pc = "event"].pc = "event"
    BY GoingRecord DEF IInv, TypeOK, ServicePcs
  <2> QED BY <2>1, IdleRecord DEF contact_connected, Going, Finish, IInv, TypeOK
<1>t. TypeOK'
  BY <1>1, UserAssumption DEF IInv, TypeOK, Contracts, contactVars, channelVars, contact_connected
<1>s. Safe'
  BY <1>1, UserAssumption DEF IInv, TypeOK, Safe, contactVars, channelVars,
     RequestInProgress, InRequest, Busy, contact_available, is_contact_connecting,
     ChannelShape, LiveContactIsSecure, ServiceContractsHold, Exists, Ready, contact_connected
<1> QED BY <1>t, <1>s DEF IInv, Safe

LEMMA EventSent ==
    ASSUME IInv, fire_contact_connected_event PROVE IInv'
<1>1. told' \in BOOLEAN
  BY Zenon DEF fire_contact_connected_event
<1>2. service' \in ServiceState /\ service'.pc = "idle"
  BY IdleRecord DEF fire_contact_connected_event, Finish
<1>t. TypeOK'
  BY <1>1, <1>2 DEF IInv, TypeOK, fire_contact_connected_event, contactVars, channelVars
<1>s. Safe'
  BY <1>2 DEF fire_contact_connected_event, IInv, TypeOK, Safe, contactVars, channelVars,
     RequestInProgress, InRequest, Busy, contact_available, is_contact_connecting,
     ChannelShape, LiveContactIsSecure, ServiceContractsHold, Exists, Ready
<1> QED BY <1>t, <1>s DEF IInv, Safe

LEMMA Gone ==
    ASSUME IInv, PeerGone PROVE IInv'
<1>1. service' \in ServiceState /\ service'.pc = "idle"
  BY IdleRecord DEF PeerGone, Finish
<1>2. fire_contact_disconnected_event BY DEF PeerGone
<1>t. TypeOK'
  BY <1>1, <1>2, Disconnected, UserAssumption DEF IInv, TypeOK, Contracts, contactVars, channelVars, PeerGone
<1>s. Safe'
  BY <1>1, <1>2, Disconnected, UserAssumption DEF IInv, TypeOK, Safe, contactVars, channelVars,
     RequestInProgress, InRequest, Busy, contact_available, is_contact_connecting,
     ChannelShape, LiveContactIsSecure, ServiceContractsHold, Exists, Ready, PeerGone, NoChannel
<1> QED BY <1>t, <1>s DEF IInv, Safe

LEMMA RequestReceived ==
    ASSUME IInv, received_connect_request PROVE IInv'
<1>1. inbox' \in Seq(Message) /\ service.pc = "idle"
  BY Handled DEF IInv, received_connect_request
<1>2. /\ service' \in ServiceState
      /\ service'.pc \in {"idle", "address"}
      /\ service'.pc = "address" => known /\ ~Busy /\ service'.secret # 0
  <2> DEFINE m == Head(inbox)
             q == [pc |-> "address", send_back |-> m.send_back, secret |-> m.secret]
  <2>1. m.send_back \in BOOLEAN /\ m.secret \in 1 .. MaxSecrets
    BY Handled, MessageFacts DEF IInv, received_connect_request
  <2>2. q \in ServiceState
    <3>1. "address" \in ServicePcs /\ m.secret \in 0 .. MaxSecrets
      BY <2>1, UserAssumption DEF ServicePcs
    <3> QED BY <2>1, <3>1, ServiceRecord
  <2>3. q.pc = "address" /\ q.secret # 0
    BY <2>1
  <2>4. service' = service \/ (known /\ ~Busy /\ service' = q)
    BY DEF received_connect_request
  <2> QED BY <1>1, <2>2, <2>3, <2>4 DEF IInv, TypeOK
<1>t. TypeOK'
  BY <1>1, <1>2, UserAssumption DEF IInv, TypeOK, Contracts, contactVars, channelVars, received_connect_request
<1>s. Safe'
  BY <1>1, <1>2, UserAssumption DEF IInv, TypeOK, Safe, contactVars, channelVars,
     RequestInProgress, InRequest, Busy, contact_available, is_contact_connecting,
     ChannelShape, LiveContactIsSecure, ServiceContractsHold, Exists, Ready, received_connect_request
<1> QED BY <1>t, <1>s DEF IInv, Safe

LEMMA AddressUpdated ==
    ASSUME IInv, update_contact_address PROVE IInv'
<1>1. /\ service' \in ServiceState
      /\ service'.pc = "answer"
      /\ service'.secret = service.secret
  BY GoingRecord DEF update_contact_address, Going, IInv, TypeOK, ServicePcs
<1>2. /\ channel' \in Channel /\ secrets' \in 0 .. MaxSecrets
      /\ channel'.other = channel.other
      /\ channel'.own # 0 \/ (~known /\ channel' = channel)
  BY PkChannelMade DEF update_contact_address, IInv, TypeOK, channelVars
<1>t. TypeOK'
  BY <1>1, <1>2, UserAssumption DEF IInv, TypeOK, Contracts, contactVars, channelVars, update_contact_address
<1>s. Safe'
  BY <1>1, <1>2, UserAssumption DEF IInv, TypeOK, Safe, contactVars, channelVars,
     RequestInProgress, InRequest, Busy, contact_available, is_contact_connecting,
     ChannelShape, LiveContactIsSecure, ServiceContractsHold, Exists, Ready, update_contact_address
<1> QED BY <1>t, <1>s DEF IInv, Safe

LEMMA Answered ==
    ASSUME IInv, Answer PROVE IInv'
<1>1. /\ service' \in ServiceState
      /\ service'.pc = "connecting"
      /\ service'.secret = service.secret
  BY GoingRecord DEF Answer, Going, IInv, TypeOK, ServicePcs
<1>2. /\ channel' \in Channel /\ secrets' \in 0 .. MaxSecrets
      /\ channel'.other = channel.other
      /\ channel'.own # 0 \/ channel' = channel
      /\ outbox' \in Seq(Message)
      /\ failed' = failed
  <2>1. CASE service.send_back
    <3> DEFINE b == FALSE
    <3>1. b \in BOOLEAN /\ "answer" \in Contracts BY DEF Contracts
    <3>2. send_ping_request(b, "answer") BY <2>1 DEF Answer
    <3>3. ~Busy BY DEF Answer, IInv, RequestInProgress
    <3> HIDE DEF b
    <3> QED BY <3>1, <3>2, <3>3, RequestSent DEF IInv, TypeOK
  <2>2. CASE ~service.send_back
    BY <2>2 DEF Answer, IInv, TypeOK, channelVars
  <2> QED BY <2>1, <2>2
<1>t. TypeOK'
  BY <1>1, <1>2, UserAssumption DEF IInv, TypeOK, Contracts, contactVars, channelVars, Answer
<1>s. Safe'
  BY <1>1, <1>2, UserAssumption DEF IInv, TypeOK, Safe, contactVars, channelVars,
     RequestInProgress, InRequest, Busy, contact_available, is_contact_connecting,
     ChannelShape, LiveContactIsSecure, ServiceContractsHold, Exists, Ready, Answer
<1> QED BY <1>t, <1>s DEF IInv, Safe

LEMMA Connecting ==
    ASSUME IInv, contact_connecting PROVE IInv'
<1>1. /\ service' \in ServiceState
      /\ service'.pc = "secure"
      /\ service'.secret = service.secret
  BY GoingRecord DEF contact_connecting, Going, IInv, TypeOK, ServicePcs
<1>t. TypeOK'
  BY <1>1, UserAssumption DEF IInv, TypeOK, Contracts, contactVars, channelVars, contact_connecting
<1>s. Safe'
  BY <1>1, UserAssumption DEF IInv, TypeOK, Safe, contactVars, channelVars,
     RequestInProgress, InRequest, Busy, contact_available, is_contact_connecting,
     ChannelShape, LiveContactIsSecure, ServiceContractsHold, Exists, Ready, contact_connecting
<1> QED BY <1>t, <1>s DEF IInv, Safe

LEMMA Secured ==
    ASSUME IInv, setup_security_conversation PROVE IInv'
<1>1. /\ service' \in ServiceState
      /\ service'.pc = "ping"
      /\ service'.secret = service.secret
  BY GoingRecord DEF setup_security_conversation, Going, IInv, TypeOK, ServicePcs
<1>2. /\ channel' \in Channel /\ secrets' \in 0 .. MaxSecrets
      /\ channel'.own # 0 /\ channel'.other # 0
  <2>1. service.secret \in 0 .. MaxSecrets /\ service.secret # 0
    BY DEF setup_security_conversation, IInv, TypeOK, ServiceState,
           RequestInProgress, InRequest
  <2> QED BY <2>1, ChannelMade DEF setup_security_conversation, IInv
<1>t. TypeOK'
  BY <1>1, <1>2, UserAssumption DEF IInv, TypeOK, Contracts, contactVars, channelVars, setup_security_conversation
<1>s. Safe'
  BY <1>1, <1>2, UserAssumption DEF IInv, TypeOK, Safe, contactVars, channelVars,
     RequestInProgress, InRequest, Busy, contact_available, is_contact_connecting,
     ChannelShape, LiveContactIsSecure, ServiceContractsHold, Exists, Ready, setup_security_conversation
<1> QED BY <1>t, <1>s DEF IInv, Safe

LEMMA FirstPinged ==
    ASSUME IInv, FirstPing PROVE IInv'
<1>1. service' \in ServiceState /\ service'.pc = "idle"
  BY IdleRecord DEF FirstPing, Finish
<1>2. /\ outbox' \in Seq(Message)
      /\ contact' \in {contact, "null"}
      /\ failed' \in {failed, "ping_ready"}
  <2> DEFINE b == TRUE
  <2>1. b \in BOOLEAN /\ "c" \in {"c", "d"} OBVIOUS
  <2>2. send_ping_to("c", b) BY DEF FirstPing
  <2>3. Exists BY DEF FirstPing, IInv, RequestInProgress
  <2> HIDE DEF b
  <2> QED BY <2>1, <2>2, <2>3, PingSent DEF IInv, ServiceContractsHold
<1>t. TypeOK'
  BY <1>1, <1>2, UserAssumption DEF IInv, TypeOK, Contracts, contactVars, channelVars, FirstPing
<1>s. Safe'
  BY <1>1, <1>2, UserAssumption DEF IInv, TypeOK, Safe, contactVars, channelVars,
     RequestInProgress, InRequest, Busy, contact_available, is_contact_connecting,
     ChannelShape, LiveContactIsSecure, ServiceContractsHold, Exists, Ready, FirstPing
<1> QED BY <1>t, <1>s DEF IInv, Safe

LEMMA Found ==
    ASSUME IInv, received_greet_find_response PROVE IInv'
<1>1. /\ channel' \in Channel /\ secrets' \in 0 .. MaxSecrets
      /\ channel'.other = channel.other
      /\ channel'.own # 0 \/ channel' = channel
      /\ outbox' \in Seq(Message)
      /\ failed' \in {failed, "find"}
  <2>1. CASE contact = "none"
    BY <2>1 DEF received_greet_find_response, IInv, TypeOK, channelVars
  <2>2. CASE contact # "none"
    <3> DEFINE b == TRUE
    <3>1. b \in BOOLEAN OBVIOUS
    <3>2. CreatePkChannel /\ Push(Request(b, PairAfter)) /\ failed' = failed
      BY <2>2 DEF received_greet_find_response
    <3> HIDE DEF b
    <3>3. PairAfter \in Secret
      BY <3>2, PairIsSecret DEF CreatePkChannel, CreateChannel, IInv
    <3>4. outbox' \in Seq(Message)
      BY <3>1, <3>2, <3>3, RequestIsMessage DEF Push, IInv, TypeOK
    <3> QED BY <3>2, <3>4, PkChannelMade DEF IInv
  <2> QED BY <2>1, <2>2
<1>t. TypeOK'
  BY <1>1, UserAssumption DEF IInv, TypeOK, Contracts, contactVars, channelVars, received_greet_find_response
<1>s. Safe'
  BY <1>1, UserAssumption DEF IInv, TypeOK, Safe, contactVars, channelVars,
     RequestInProgress, InRequest, Busy, contact_available, is_contact_connecting,
     ChannelShape, LiveContactIsSecure, ServiceContractsHold, Exists, Ready, received_greet_find_response
<1> QED BY <1>t, <1>s DEF IInv, Safe

LEMMA Pinged ==
    ASSUME IInv, NEW s \in {"c", "d"}, send_ping(s) PROVE IInv'
<1>1. /\ outbox' \in Seq(Message)
      /\ contact' \in {contact, "null"}
      /\ failed' \in {failed, "ping_ready"}
  <2> DEFINE b == FALSE
  <2>1. b \in BOOLEAN /\ ~b OBVIOUS
  <2>2. send_ping_to(s, b) BY DEF send_ping
  <2>3. state # "OFFLINE" BY DEF send_ping
  <2>4. Exists BY <2>3 DEF IInv, LiveContactIsSecure
  <2> HIDE DEF b
  <2> QED BY <2>1, <2>2, <2>4, PingSent DEF IInv, ServiceContractsHold
<1>t. TypeOK'
  BY <1>1, UserAssumption DEF IInv, TypeOK, Contracts, contactVars, channelVars, send_ping
<1>s. Safe'
  BY <1>1, UserAssumption DEF IInv, TypeOK, Safe, contactVars, channelVars,
     RequestInProgress, InRequest, Busy, contact_available, is_contact_connecting,
     ChannelShape, LiveContactIsSecure, ServiceContractsHold, Exists, Ready, send_ping
<1> QED BY <1>t, <1>s DEF IInv, Safe

LEMMA Ticked ==
    ASSUME IInv, ping_thread PROVE IInv'
<1>1. /\ state' \in {state, "OFFLINE"}
      /\ last_ping' \in 0 .. PING_THRESH + PING_THRESH
      /\ channel' \in Channel
      /\ \/ channel' = channel
         \/ /\ contact_available
            /\ channel' = NoChannel
            /\ state' = "OFFLINE"
      /\ told' \in BOOLEAN
      /\ failed' \in {failed, "disconnect"}
  <2>1. CASE available(last_ping + 1)
    BY <2>1, UserAssumption DEF ping_thread, IInv, TypeOK, available
  <2>2. CASE ~available(last_ping + 1)
    BY <2>2, Disconnected DEF ping_thread, IInv
  <2> QED BY <2>1, <2>2
<1>t. TypeOK'
  BY <1>1, UserAssumption DEF IInv, TypeOK, Contracts, contactVars, channelVars, ping_thread
<1>s. Safe'
  BY <1>1, UserAssumption DEF IInv, TypeOK, Safe, contactVars, channelVars,
     RequestInProgress, InRequest, Busy, contact_available, is_contact_connecting,
     ChannelShape, LiveContactIsSecure, ServiceContractsHold, Exists, Ready, ping_thread, NoChannel
<1> QED BY <1>t, <1>s DEF IInv, Safe

LEMMA ReconnectTested ==
    ASSUME IInv, send_ping_requests PROVE IInv'
<1>t. TypeOK'
  BY UserAssumption DEF IInv, TypeOK, Contracts, contactVars, channelVars, send_ping_requests
<1>s. Safe'
  BY UserAssumption DEF IInv, TypeOK, Safe, contactVars, channelVars,
     RequestInProgress, InRequest, Busy, contact_available, is_contact_connecting,
     ChannelShape, LiveContactIsSecure, ServiceContractsHold, Exists, Ready, send_ping_requests
<1> QED BY <1>t, <1>s DEF IInv, Safe

LEMMA ReconnectSent ==
    ASSUME IInv, SendRequest PROVE IInv'
<1>1. /\ channel' \in Channel /\ secrets' \in 0 .. MaxSecrets
      /\ channel'.other = channel.other
      /\ channel'.own # 0 \/ channel' = channel
      /\ outbox' \in Seq(Message)
      /\ failed' \in {failed, "request"}
  <2> DEFINE b == TRUE
  <2>1. b \in BOOLEAN /\ "request" \in Contracts BY DEF Contracts
  <2>2. send_ping_request(b, "request") BY DEF SendRequest
  <2> HIDE DEF b
  <2> QED BY <2>1, <2>2, RequestSent DEF IInv, TypeOK
<1>t. TypeOK'
  BY <1>1, UserAssumption DEF IInv, TypeOK, Contracts, contactVars, channelVars, SendRequest
<1>s. Safe'
  BY <1>1, UserAssumption DEF IInv, TypeOK, Safe, contactVars, channelVars,
     RequestInProgress, InRequest, Busy, contact_available, is_contact_connecting,
     ChannelShape, LiveContactIsSecure, ServiceContractsHold, Exists, Ready, SendRequest
<1> QED BY <1>t, <1>s DEF IInv, Safe

LEMMA Removed ==
    ASSUME IInv, remove_contact PROVE IInv'
<1>1. fire_contact_disconnected_event BY DEF remove_contact
<1>t. TypeOK'
  BY <1>1, Disconnected, UserAssumption DEF IInv, TypeOK, Contracts, contactVars, channelVars, remove_contact, Edit
<1>s. Safe'
  BY <1>1, Disconnected, UserAssumption DEF IInv, TypeOK, Safe, contactVars, channelVars,
     RequestInProgress, InRequest, Busy, contact_available, is_contact_connecting,
     ChannelShape, LiveContactIsSecure, ServiceContractsHold, Exists, Ready, remove_contact, NoChannel
<1> QED BY <1>t, <1>s DEF IInv, Safe

LEMMA Forgotten ==
    ASSUME IInv, Forget PROVE IInv'
<1>1. known' \in BOOLEAN /\ ~known'
  BY Zenon DEF Forget
<1>t. TypeOK'
  BY <1>1, UserAssumption DEF IInv, TypeOK, Contracts, contactVars, channelVars, Forget
<1>s. Safe'
  BY <1>1, UserAssumption DEF IInv, TypeOK, Safe, contactVars, channelVars,
     RequestInProgress, InRequest, Busy, contact_available, is_contact_connecting,
     ChannelShape, LiveContactIsSecure, ServiceContractsHold, Exists, Ready, Forget
<1> QED BY <1>t, <1>s DEF IInv, Safe

LEMMA Confirmed ==
    ASSUME IInv, confirm_contact PROVE IInv'
<1>1. known' \in BOOLEAN
  BY Zenon DEF confirm_contact
<1>t. TypeOK'
  BY <1>1, UserAssumption DEF IInv, TypeOK, Contracts, contactVars, channelVars, confirm_contact, Edit
<1>s. Safe'
  BY <1>1, UserAssumption DEF IInv, TypeOK, Safe, contactVars, channelVars,
     RequestInProgress, InRequest, Busy, contact_available, is_contact_connecting,
     ChannelShape, LiveContactIsSecure, ServiceContractsHold, Exists, Ready, confirm_contact
<1> QED BY <1>t, <1>s DEF IInv, Safe

LEMMA DataAdded ==
    ASSUME IInv, add_contact_data PROVE IInv'
<1>t. TypeOK'
  BY UserAssumption DEF IInv, TypeOK, Contracts, contactVars, channelVars, add_contact_data
<1>s. Safe'
  BY UserAssumption DEF IInv, TypeOK, Safe, contactVars, channelVars,
     RequestInProgress, InRequest, Busy, contact_available, is_contact_connecting,
     ChannelShape, LiveContactIsSecure, ServiceContractsHold, Exists, Ready, add_contact_data
<1> QED BY <1>t, <1>s DEF IInv, Safe

LEMMA ConfirmSent ==
    ASSUME IInv, ConfirmRequest PROVE IInv'
<1>1. /\ channel' \in Channel /\ secrets' \in 0 .. MaxSecrets
      /\ channel'.other = channel.other
      /\ channel'.own # 0 \/ channel' = channel
      /\ outbox' \in Seq(Message)
      /\ failed' \in {failed, "confirm"}
  <2> DEFINE b == TRUE
  <2>1. b \in BOOLEAN /\ "confirm" \in Contracts BY DEF Contracts
  <2>2. send_ping_request(b, "confirm") BY DEF ConfirmRequest
  <2> HIDE DEF b
  <2> QED BY <2>1, <2>2, RequestSent DEF IInv, TypeOK
<1>t. TypeOK'
  BY <1>1, UserAssumption DEF IInv, TypeOK, Contracts, contactVars, channelVars, ConfirmRequest
<1>s. Safe'
  BY <1>1, UserAssumption DEF IInv, TypeOK, Safe, contactVars, channelVars,
     RequestInProgress, InRequest, Busy, contact_available, is_contact_connecting,
     ChannelShape, LiveContactIsSecure, ServiceContractsHold, Exists, Ready, ConfirmRequest
<1> QED BY <1>t, <1>s DEF IInv, Safe

LEMMA MessageOut ==
    ASSUME IInv, out_thread PROVE IInv'
<1>1. outbox' \in Seq(Message)
  BY HeadIsMessage DEF out_thread, IInv, TypeOK
<1>t. TypeOK'
  BY <1>1, UserAssumption DEF IInv, TypeOK, Contracts, contactVars, channelVars, out_thread
<1>s. Safe'
  BY <1>1, UserAssumption DEF IInv, TypeOK, Safe, contactVars, channelVars,
     RequestInProgress, InRequest, Busy, contact_available, is_contact_connecting,
     ChannelShape, LiveContactIsSecure, ServiceContractsHold, Exists, Ready, out_thread
<1> QED BY <1>t, <1>s DEF IInv, Safe

LEMMA MessageIn ==
    ASSUME IInv, NEW m \in Message, in_thread(m) PROVE IInv'
<1>t. TypeOK'
  BY UserAssumption DEF IInv, TypeOK, Contracts, contactVars, channelVars, in_thread
<1>s. Safe'
  BY UserAssumption DEF IInv, TypeOK, Safe, contactVars, channelVars,
     RequestInProgress, InRequest, Busy, contact_available, is_contact_connecting,
     ChannelShape, LiveContactIsSecure, ServiceContractsHold, Exists, Ready, in_thread
<1> QED BY <1>t, <1>s DEF IInv, Safe
----------------------------------------------------------------------------
LEMMA StepKeeps == IInv /\ [Next]_vars => IInv'
<1> SUFFICES ASSUME IInv, [Next]_vars PROVE IInv' OBVIOUS
<1>1. CASE ServiceThread
  BY <1>1, PingReceived, Connected, EventSent, Gone, RequestReceived,
     AddressUpdated, Answered, Connecting, Secured, FirstPinged, Found
  DEF ServiceThread
<1>2. CASE PingThread
  BY <1>2, Pinged, Ticked DEF PingThread
<1>3. CASE ReconnectThread
  BY <1>3, ReconnectTested, ReconnectSent DEF ReconnectThread
<1>4. CASE GuiThread
  BY <1>4, Removed, Forgotten, Confirmed, DataAdded, ConfirmSent DEF GuiThread
<1>5. CASE PostThreads
  BY <1>5, MessageOut, MessageIn DEF PostThreads
<1>6. CASE UNCHANGED vars
  <2>1. TypeOK'
    BY <1>6 DEF IInv, TypeOK, vars, contactVars, channelVars
  <2>2. Safe'
    BY <1>6 DEF IInv, Safe, vars, contactVars, channelVars, RequestInProgress,
       InRequest, Busy, contact_available, is_contact_connecting, ChannelShape,
       LiveContactIsSecure, ServiceContractsHold, Exists, Ready
  <2> QED BY <2>1, <2>2 DEF IInv, Safe
<1> QED BY <1>1, <1>2, <1>3, <1>4, <1>5, <1>6 DEF Next

LEMMA Invariance == Spec => []IInv
BY InitHolds, StepKeeps, PTL DEF Spec

\* The variables of the user service keep their types.
THEOREM TypeCorrect == Spec => []TypeOK
<1>1. IInv => TypeOK BY DEF IInv
<1> QED BY <1>1, Invariance, PTL

\* A contact that is connecting or connected has its channel, and its key but
\* for the gap in received_connect_request, whatever the four threads and the
\* network do.
THEOREM ContactIsSecure == Spec => []LiveContactIsSecure
<1>1. IInv => LiveContactIsSecure BY DEF IInv
<1> QED BY <1>1, Invariance, PTL

\* get_channel always finds its channel, and the service thread never answers
\* a contact that is already connecting.
THEOREM ServiceContracts == Spec => []ServiceContractsHold
<1>1. IInv => ServiceContractsHold BY DEF IInv
<1> QED BY <1>1, Invariance, PTL

\* The key of a connected contact never changes.
THEOREM KeyIsStable == Spec => KeyStaysWhileConnected
<1> DEFINE Stays == contact_available /\ contact_available' => channel' = channel
<1>1. IInv /\ [Next]_vars => [Stays]_vars
  <2> SUFFICES ASSUME IInv, [Next]_vars, contact_available, contact_available'
               PROVE  channel' = channel
    BY DEF Stays
  <2>1. CreatePkChannel => channel' = channel
    <3>1. Exists BY DEF IInv, LiveContactIsSecure, contact_available
    <3> QED BY <3>1 DEF CreatePkChannel, CreateChannel, PairAfter, IInv, TypeOK, Channel
  <2>2. CASE ServiceThread
    <3>1. ~setup_security_conversation
      BY DEF setup_security_conversation, IInv, RequestInProgress
    <3>2. ~Answer /\ ~received_greet_find_response
      BY DEF Answer, received_greet_find_response, IInv, RequestInProgress, Busy,
             contact_available
    <3> QED
      BY <2>1, <2>2, <3>1, <3>2 DEF ServiceThread, received_ping, contact_connected,
         fire_contact_connected_event, PeerGone, received_connect_request,
         update_contact_address, contact_connecting, FirstPing, channelVars,
         fire_contact_disconnected_event, contact_available
  <2>3. CASE PingThread
    BY <2>3 DEF PingThread, send_ping, ping_thread, channelVars,
       fire_contact_disconnected_event, contact_available
  <2>4. CASE ReconnectThread
    BY <2>1, <2>4 DEF ReconnectThread, send_ping_requests, SendRequest,
       send_ping_request, channelVars
  <2>5. CASE GuiThread
    BY <2>1, <2>5 DEF GuiThread, remove_contact, Forget, confirm_contact,
       add_contact_data, ConfirmRequest, send_ping_request, channelVars,
       fire_contact_disconnected_event, contact_available
  <2>6. CASE PostThreads
    BY <2>6 DEF PostThreads, out_thread, in_thread, channelVars
  <2>7. CASE UNCHANGED vars
    BY <2>7 DEF vars, channelVars
  <2> QED BY <2>2, <2>3, <2>4, <2>5, <2>6, <2>7 DEF Next
<1> QED BY <1>1, Invariance, PTL DEF Spec, KeyStaysWhileConnected
----------------------------------------------------------------------------
(***************************************************************************)
(* Events.  Until somebody edits the contact list a contact that is known  *)
(* keeps its pointer, and the GUI thread is idle.                          *)
(***************************************************************************)
EventsInv ==
    /\ edits = 0 /\ gui = "idle"
    /\ known => contact = "set"
    /\ service.pc = "event" => state = "CONNECTED"
    /\ EventsMatchState

LEMMA EventsInit == Init => EventsInv
<1> SUFFICES ASSUME Init PROVE EventsInv OBVIOUS
<1>1. service.pc = "idle" BY IdleRecord DEF Init
<1>2. known => contact = "set" BY DEF Init
<1> QED BY <1>1, <1>2 DEF Init, EventsInv, EventsMatchState

\* A step makes one edit at most, and takes none back.
LEMMA EditsGrow ==
    ASSUME TypeOK, [Next]_vars PROVE edits \in Nat /\ (edits' = edits \/ edits' = edits + 1)
<1>1. edits \in Nat BY UserAssumption DEF TypeOK
<1> SUFFICES edits' = edits \/ edits' = edits + 1 BY <1>1
<1>2. CASE ServiceThread
  BY <1>2 DEF ServiceThread, received_ping, contact_connected,
     fire_contact_connected_event, PeerGone, received_connect_request,
     update_contact_address, Answer, contact_connecting,
     setup_security_conversation, FirstPing, received_greet_find_response
<1>3. CASE PingThread
  BY <1>3 DEF PingThread, send_ping, ping_thread
<1>4. CASE ReconnectThread
  BY <1>4 DEF ReconnectThread, send_ping_requests, SendRequest
<1>5. CASE GuiThread
  BY <1>5, Zenon DEF GuiThread, remove_contact, Forget, confirm_contact,
     add_contact_data, ConfirmRequest, Edit
<1>6. CASE PostThreads
  BY <1>6 DEF PostThreads, out_thread, in_thread
<1>7. CASE UNCHANGED vars BY <1>7 DEF vars
<1> QED BY <1>2, <1>3, <1>4, <1>5, <1>6, <1>7 DEF Next

\* A step that is no edit keeps what is known about events.
LEMMA EventsStep ==
    ASSUME IInv, EventsInv, [Next]_vars, edits' = 0 PROVE EventsInv'
<1>1. CASE ServiceThread
  <2>0. TypeOK /\ service \in ServiceState BY DEF IInv, TypeOK
  <2>1. CASE received_ping
    <3>1. service.pc = "idle"
      BY <2>0, <2>1, Handled DEF received_ping
    <3>2. service'.pc \in {"idle", "connected", "gone"}
      <4>1. /\ [service EXCEPT !.pc = "connected"].pc = "connected"
            /\ [service EXCEPT !.pc = "gone"].pc = "gone"
        BY <2>0, GoingRecord DEF ServicePcs
      <4> QED BY <2>1, <3>1, <4>1 DEF received_ping, Going
    <3> QED BY <2>1, <3>1, <3>2 DEF received_ping, EventsInv, EventsMatchState
  <2>2. CASE contact_connected
    <3>0. [service EXCEPT !.pc = "event"].pc = "event"
      BY <2>0, GoingRecord DEF ServicePcs
    <3>1. service'.pc = "event" => state' = "CONNECTED"
      BY <2>2, IdleRecord DEF contact_connected, Going, Finish
    <3>2. service'.pc # "event" => state' = state
      BY <2>2, <3>0 DEF contact_connected, Going, contactVars
    <3>3. known' => contact' = "set"
      BY <2>2 DEF contact_connected, contactVars, EventsInv
    <3> QED BY <2>2, <3>1, <3>2, <3>3 DEF contact_connected, EventsInv, EventsMatchState
  <2>3. CASE fire_contact_connected_event
    <3>1. service'.pc = "idle"
      BY <2>3, IdleRecord DEF fire_contact_connected_event, Finish
    <3>2. told' /\ state' = "CONNECTED"
      BY <2>3 DEF fire_contact_connected_event, contactVars, EventsInv
    <3>3. edits' = 0 /\ gui' = "idle" /\ (known' => contact' = "set")
      BY <2>3 DEF fire_contact_connected_event, contactVars, EventsInv
    <3> QED BY <3>1, <3>2, <3>3 DEF EventsInv, EventsMatchState
  <2>4. CASE PeerGone
    <3>1. service'.pc = "idle"
      BY <2>4, IdleRecord DEF PeerGone, Finish
    <3>2. told' <=> state' = "CONNECTED"
      BY <2>4 DEF PeerGone, fire_contact_disconnected_event, EventsInv, EventsMatchState
    <3> QED BY <2>4, <3>1, <3>2 DEF PeerGone, EventsInv, EventsMatchState
  <2>5. CASE received_connect_request
    <3>1. service.pc = "idle"
      BY <2>0, <2>5, Handled DEF received_connect_request
    <3>2. service'.pc # "event"
      BY <2>5, <3>1 DEF received_connect_request
    <3> QED BY <2>5, <3>1, <3>2 DEF received_connect_request, EventsInv, EventsMatchState
  <2>6. CASE update_contact_address
    <3>1. service'.pc = "answer"
      BY <2>0, <2>6, GoingRecord DEF update_contact_address, Going, ServicePcs
    <3> QED BY <2>6, <3>1 DEF update_contact_address, contactVars, EventsInv, EventsMatchState
  <2>7. CASE Answer
    <3>1. service'.pc = "connecting"
      BY <2>0, <2>7, GoingRecord DEF Answer, Going, ServicePcs
    <3> QED BY <2>7, <3>1 DEF Answer, contactVars, EventsInv, EventsMatchState
  <2>8. CASE contact_connecting
    <3>1. service'.pc = "secure"
      BY <2>0, <2>8, GoingRecord DEF contact_connecting, Going, ServicePcs
    <3>2. known => state = "OFFLINE"
      BY <2>0, <2>8 DEF contact_connecting, IInv, TypeOK, RequestInProgress, Busy,
         contact_available, is_contact_connecting, EventsInv
    <3>3. (state' = "CONNECTED") <=> (state = "CONNECTED")
      BY <2>8, <3>2 DEF contact_connecting, contactVars
    <3>4. known' => contact' = "set"
      BY <2>8 DEF contact_connecting, contactVars, EventsInv
    <3> QED BY <2>8, <3>1, <3>3, <3>4 DEF contact_connecting, EventsInv, EventsMatchState
  <2>9. CASE setup_security_conversation
    <3>1. service'.pc = "ping"
      BY <2>0, <2>9, GoingRecord DEF setup_security_conversation, Going, ServicePcs
    <3> QED BY <2>9, <3>1 DEF setup_security_conversation, contactVars, EventsInv,
               EventsMatchState
  <2>10. CASE FirstPing
    <3>1. service'.pc = "idle"
      BY <2>10, IdleRecord DEF FirstPing, Finish
    <3>2. known' => contact' = "set"
      BY <2>10 DEF FirstPing, send_ping_to, EventsInv
    <3> QED BY <2>10, <3>1, <3>2 DEF FirstPing, EventsInv, EventsMatchState
  <2>11. CASE received_greet_find_response
    BY <2>11 DEF received_greet_find_response, contactVars, EventsInv, EventsMatchState
  <2> QED BY <1>1, <2>1, <2>2, <2>3, <2>4, <2>5, <2>6, <2>7, <2>8, <2>9, <2>10, <2>11
          DEF ServiceThread
<1>2. CASE PingThread
  <2>1. CASE \E s \in {CONNECTED, DISCONNECTED} : send_ping(s)
    BY <2>1 DEF send_ping, send_ping_to, EventsInv, EventsMatchState
  <2>2. CASE ping_thread
    <3>1. CASE available(last_ping + 1)
      BY <2>2, <3>1 DEF ping_thread, EventsInv, EventsMatchState
    <3>2. CASE ~available(last_ping + 1)
      <4>1. service.pc # "event" /\ service' = service
        BY <2>2, <3>2 DEF ping_thread, JustReset
      <4>2. told' <=> state' = "CONNECTED"
        BY <2>2, <3>2, <4>1 DEF ping_thread, fire_contact_disconnected_event, EventsInv,
           EventsMatchState
      <4> QED BY <2>2, <4>1, <4>2 DEF ping_thread, EventsInv, EventsMatchState
    <3> QED BY <3>1, <3>2
  <2> QED BY <1>2, <2>1, <2>2 DEF PingThread
<1>3. CASE ReconnectThread
  <2>1. UNCHANGED <<known, contact, state, service, gui, told, edits>>
    BY <1>3 DEF ReconnectThread, send_ping_requests, SendRequest, contactVars
  <2> QED BY <2>1 DEF EventsInv, EventsMatchState
<1>4. CASE GuiThread
  <2>1. edits = 0 /\ gui = "idle" BY DEF EventsInv
  <2>2. ~Edit BY <2>1 DEF Edit
  <2> QED BY <1>4, <2>1, <2>2 DEF GuiThread, remove_contact, Forget, confirm_contact,
             add_contact_data, ConfirmRequest
<1>5. CASE PostThreads
  BY <1>5 DEF PostThreads, out_thread, in_thread, contactVars, EventsInv, EventsMatchState
<1>6. CASE UNCHANGED vars
  BY <1>6 DEF vars, contactVars, EventsInv, EventsMatchState
<1> QED BY <1>1, <1>2, <1>3, <1>4, <1>5, <1>6 DEF Next

\* As long as nobody removes or confirms the contact, what the listeners were
\* told last is the contact's state.
THEOREM EventsAreTrue == Spec => []EventsMatchState
<1> DEFINE Unedited == edits = 0 => EventsInv
<1>1. Init => Unedited BY EventsInit
<1>2. IInv /\ Unedited /\ [Next]_vars => Unedited'
  <2> SUFFICES ASSUME IInv, Unedited, [Next]_vars, edits' = 0 PROVE EventsInv'
    OBVIOUS
  <2>1. edits = 0 BY EditsGrow DEF IInv
  <2> QED BY <2>1, EventsStep
<1>3. Unedited => EventsMatchState BY DEF EventsInv, EventsMatchState
<1> QED BY <1>1, <1>2, <1>3, Invariance, PTL DEF Spec
----------------------------------------------------------------------------
(***************************************************************************)
(* Pointers.  A contact that is known and live has its pointer, as long as *)
(* the list is edited at most once: a contact that the process started     *)
(* without is untouched until it is confirmed, and one that was removed,   *)
(* whose pointer a ping may reset, is not known again.                     *)
(***************************************************************************)
PointerInv ==
    /\ DisconnectFindsContact
    /\ known /\ state # "OFFLINE" => contact = "set"
    /\ ~known /\ edits = 0 => contact = "none" /\ state = "OFFLINE"
    /\ gui # "idle" => edits # 0

\* fire_contact_disconnected_event finds a pointer, and its contact goes offline.
LEMMA Dropped ==
    ASSUME PointerInv, fire_contact_disconnected_event
    PROVE  /\ failed' # "disconnect"
           /\ state' \in {state, "OFFLINE"}
BY DEF PointerInv, fire_contact_disconnected_event, DisconnectFindsContact

LEMMA PointerStep ==
    ASSUME TypeOK, PointerInv, [Next]_vars, edits' \in {0, 1} PROVE PointerInv'
<1>0. edits \in Nat /\ (edits' = edits \/ edits' = edits + 1) BY EditsGrow
<1>1. CASE ServiceThread
  <2>1. CASE received_ping
    BY <2>1 DEF received_ping, PointerInv, DisconnectFindsContact
  <2>2. CASE contact_connected
    BY <2>2 DEF contact_connected, contactVars, PointerInv, DisconnectFindsContact
  <2>3. CASE fire_contact_connected_event
    BY <2>3 DEF fire_contact_connected_event, contactVars, PointerInv,
       DisconnectFindsContact
  <2>4. CASE PeerGone
    BY <2>4, Dropped DEF PeerGone, PointerInv, DisconnectFindsContact
  <2>5. CASE received_connect_request
    BY <2>5 DEF received_connect_request, PointerInv, DisconnectFindsContact
  <2>6. CASE update_contact_address
    BY <2>6 DEF update_contact_address, contactVars, PointerInv, DisconnectFindsContact
  <2>7. CASE Answer
    BY <2>7 DEF Answer, send_ping_request, contactVars, PointerInv,
       DisconnectFindsContact
  <2>8. CASE contact_connecting
    BY <2>8 DEF contact_connecting, contactVars, PointerInv, DisconnectFindsContact
  <2>9. CASE setup_security_conversation
    BY <2>9 DEF setup_security_conversation, contactVars, PointerInv,
       DisconnectFindsContact
  <2>10. CASE FirstPing
    BY <2>10 DEF FirstPing, send_ping_to, PointerInv, DisconnectFindsContact
  <2>11. CASE received_greet_find_response
    BY <2>11 DEF received_greet_find_response, contactVars, PointerInv,
       DisconnectFindsContact
  <2> QED BY <1>1, <2>1, <2>2, <2>3, <2>4, <2>5, <2>6, <2>7, <2>8, <2>9, <2>10, <2>11
          DEF ServiceThread
<1>2. CASE PingThread
  <2>1. CASE \E s \in {CONNECTED, DISCONNECTED} : send_ping(s)
    BY <2>1 DEF send_ping, send_ping_to, PointerInv, DisconnectFindsContact
  <2>2. CASE ping_thread
    BY <2>2, Dropped DEF ping_thread, PointerInv, DisconnectFindsContact
  <2> QED BY <1>2, <2>1, <2>2 DEF PingThread
<1>3. CASE ReconnectThread
  <2>1. CASE send_ping_requests
    BY <2>1 DEF send_ping_requests, contactVars, PointerInv, DisconnectFindsContact
  <2>2. CASE SendRequest
    BY <2>2 DEF SendRequest, send_ping_request, contactVars, PointerInv,
       DisconnectFindsContact
  <2> QED BY <1>3, <2>1, <2>2 DEF ReconnectThread
<1>4. CASE GuiThread
  <2>1. CASE remove_contact
    BY <1>0, <2>1, Dropped DEF remove_contact, Edit, PointerInv, DisconnectFindsContact
  <2>2. CASE Forget
    BY <2>2 DEF Forget, contactVars, PointerInv, DisconnectFindsContact
  <2>3. CASE confirm_contact
    \* the one edit there may be, of a contact that was never known
    <3>1. edits = 0 /\ edits' # 0 BY <1>0, <2>3 DEF confirm_contact, Edit
    <3>2. ~known /\ state = "OFFLINE" BY <2>3, <3>1 DEF confirm_contact, PointerInv
    <3> QED BY <2>3, <3>1, <3>2 DEF confirm_contact, contactVars, PointerInv,
               DisconnectFindsContact
  <2>4. CASE add_contact_data
    BY <2>4 DEF add_contact_data, PointerInv, DisconnectFindsContact
  <2>5. CASE ConfirmRequest
    BY <2>5 DEF ConfirmRequest, send_ping_request, contactVars, PointerInv,
       DisconnectFindsContact
  <2> QED BY <1>4, <2>1, <2>2, <2>3, <2>4, <2>5 DEF GuiThread
<1>5. CASE PostThreads
  BY <1>5 DEF PostThreads, out_thread, in_thread, contactVars, PointerInv,
     DisconnectFindsContact
<1>6. CASE UNCHANGED vars
  BY <1>6 DEF vars, contactVars, PointerInv, DisconnectFindsContact
<1> QED BY <1>1, <1>2, <1>3, <1>4, <1>5, <1>6 DEF Next

\* The contact that a disconnect finds live has its pointer, as long as the user
\* edits the list once at most: removed and confirmed again, a contact can be
\* live with the pointer that a ping has reset in between.
THEOREM DisconnectHasContact == Spec => [](edits < 2 => DisconnectFindsContact)
<1> DEFINE Edited == edits \in {0, 1} => PointerInv
<1>1. Init => Edited BY DEF Init, PointerInv, DisconnectFindsContact
<1>2. IInv /\ Edited /\ [Next]_vars => Edited'
  <2> SUFFICES ASSUME IInv, Edited, [Next]_vars, edits' \in {0, 1} PROVE PointerInv'
    OBVIOUS
  <2>1. TypeOK BY DEF IInv
  <2>2. edits \in {0, 1} BY <2>1, EditsGrow
  <2> QED BY <2>1, <2>2, PointerStep
<1>3. IInv /\ Edited => (edits < 2 => DisconnectFindsContact)
  <2> SUFFICES ASSUME IInv, Edited, edits < 2 PROVE DisconnectFindsContact OBVIOUS
  <2>1. edits \in Nat BY UserAssumption DEF IInv, TypeOK
  <2>2. edits \in {0, 1} BY <2>1
  <2> QED BY <2>2 DEF PointerInv
<1> QED BY <1>1, <1>2, <1>3, Invariance, PTL DEF Spec
=============================================================================
