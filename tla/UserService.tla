---------------------------- MODULE UserService ----------------------------
(***************************************************************************)
(* What one process does with one contact: user/user_service, with the     *)
(* encrypted channel it shares with the master post office.                *)
(*                                                                         *)
(* Four threads touch the contact: the service thread (one message of the  *)
(* mailbox after the other), the ping thread, the reconnect thread and the *)
(* GUI.  One action is what a thread does under one lock (_ping_mutex for  *)
(* the contact, the channels' own mutex for a channel), so a handler that  *)
(* takes the lock several times is a chain of actions, and the other       *)
(* threads run in between.  _mutex is held across such a chain by the      *)
(* reconnect thread and by confirm_contact.                                *)
(*                                                                         *)
(* The contact is the environment (external): any request and any ping     *)
(* that the network may bring, late, twice, out of order, from a contact   *)
(* that restarted.  It has one address.  An idle ping ('i') does to the    *)
(* contact's state what 'c' does, so it is not told apart; versions are    *)
(* left out.                                                               *)
(***************************************************************************)
EXTENDS Naturals, Sequences

CONSTANTS
    PING_THRESH,    \* ticks without a ping until a contact is unavailable
    MaxSecrets,     \* bound: DH pairs made, here and by the contact
    MaxQueue,       \* bound: messages in the outbox or the inbox
    MaxEdits        \* bound: contacts removed or confirmed

ASSUME UserAssumption ==
    /\ PING_THRESH \in Nat \ {0}
    /\ MaxSecrets \in Nat /\ MaxQueue \in Nat /\ MaxEdits \in Nat

VARIABLES
    known,          \* the contact is in _user->contacts()
    contact,        \* contact_data::contact: no entry, a null pointer, or set
    state,          \* contact_data::state
    last_ping,      \* contact_data::last_ping
    channel,        \* the channel to the contact's address
    secrets,        \* how many DH pairs the process has made
    outbox,         \* messages not yet encrypted by out_thread
    inbox,          \* messages in_thread has decrypted
    service,        \* where the service thread is
    reconnect,      \* where the reconnect thread is
    gui,            \* where the GUI thread is
    told,           \* the last event about the contact was "connected"
    failed,         \* the contract that ended the process, or "none"
    edits           \* what MaxEdits counts

contactVars == <<contact, state, last_ping>>
channelVars == <<channel, secrets>>
vars == <<known, contactVars, channelVars, outbox, inbox, service, reconnect,
          gui, told, failed, edits>>

(***************************************************************************)
(* Messages.  A secret is the number of its sender's DH pair.              *)
(***************************************************************************)
CONNECTED == "c"
DISCONNECTED == "d"
Secret == 1 .. MaxSecrets

Ping(s) == [type |-> "ping", s |-> s]
Request(back, secret) ==
    [type |-> "request", send_back |-> back, secret |-> secret]

Pings == {Ping(s) : s \in {CONNECTED, DISCONNECTED}}
Requests == {Request(b, x) : b \in BOOLEAN, x \in Secret}
Message == Pings \union Requests

(***************************************************************************)
(* The channel (security_library).  own is the DH pair, other the          *)
(* contact's public value; zero is none.                                   *)
(***************************************************************************)
Channel == [own : 0 .. MaxSecrets, other : 0 .. MaxSecrets]
NoChannel == [own |-> 0, other |-> 0]

Exists == channel.own # 0
Ready == channel.other # 0

\* dh_secret{} makes a new pair; a channel that is there keeps its own.
PairAfter == IF Exists THEN channel.own ELSE secrets + 1

CreateChannel(other) ==
    /\ PairAfter <= MaxSecrets
    /\ channel' = [own |-> PairAfter, other |-> other]
    /\ secrets' = IF Exists THEN secrets ELSE secrets + 1

\* create_channel without a public value leaves a channel that exists alone.
CreatePkChannel == CreateChannel(channel.other)

(***************************************************************************)
(* What threads ask of the contact.                                        *)
(***************************************************************************)
available(ticks) == ticks <= PING_THRESH

contact_available == contact = "set" /\ state = "CONNECTED"
is_contact_connecting == contact = "set" /\ state = "CONNECTING"
Busy == contact_available \/ is_contact_connecting

Running == failed = "none"
MutexFree == reconnect = "idle" /\ gui \notin {"data", "confirm"}

Push(m) ==
    /\ Len(outbox) < MaxQueue
    /\ outbox' = Append(outbox, m)

Going(pc) == service' = [service EXCEPT !.pc = pc]
Idle == [pc |-> "idle", send_back |-> FALSE, secret |-> 0]
Finish == service' = Idle

(***************************************************************************)
(* fire_contact_disconnected_event, under _ping_mutex.                     *)
(***************************************************************************)
\* Mutant: the channel goes whatever the state was.
DisconnectAlwaysRemoves ==
    IF ~known \/ state = "OFFLINE"
    THEN UNCHANGED <<state, last_ping, channel, told, failed>>
    ELSE IF contact # "set"
    THEN failed' = "disconnect" /\ UNCHANGED <<state, last_ping, channel, told>>
    ELSE /\ state' = "OFFLINE"
         /\ last_ping' = PING_THRESH
         /\ channel' = NoChannel
         /\ told' = FALSE
         /\ UNCHANGED failed

\* Mutant: a contact that was removed is not skipped.
DisconnectUnknown ==
    IF state = "OFFLINE"
    THEN UNCHANGED <<state, last_ping, channel, told, failed>>
    ELSE IF contact # "set"
    THEN failed' = "disconnect" /\ UNCHANGED <<state, last_ping, channel, told>>
    ELSE /\ state' = "OFFLINE"
         /\ last_ping' = PING_THRESH
         /\ IF state = "CONNECTED"
            THEN channel' = NoChannel /\ told' = FALSE
            ELSE UNCHANGED <<channel, told>>
         /\ UNCHANGED failed

\* Mutant: no event is sent.
DisconnectSilent ==
    IF ~known \/ state = "OFFLINE"
    THEN UNCHANGED <<state, last_ping, channel, told, failed>>
    ELSE IF contact # "set"
    THEN failed' = "disconnect" /\ UNCHANGED <<state, last_ping, channel, told>>
    ELSE /\ state' = "OFFLINE"
         /\ last_ping' = PING_THRESH
         /\ IF state = "CONNECTED"
            THEN channel' = NoChannel
            ELSE UNCHANGED channel
         /\ UNCHANGED told
         /\ UNCHANGED failed

fire_contact_disconnected_event ==
    IF ~known \/ state = "OFFLINE"
    THEN UNCHANGED <<state, last_ping, channel, told, failed>>
    ELSE IF contact # "set"
    THEN failed' = "disconnect" /\ UNCHANGED <<state, last_ping, channel, told>>
    ELSE /\ state' = "OFFLINE"
         /\ last_ping' = PING_THRESH
         /\ IF state = "CONNECTED"
            THEN channel' = NoChannel /\ told' = FALSE
            ELSE UNCHANGED <<channel, told>>
         /\ UNCHANGED failed

(***************************************************************************)
(* send_ping_to, under _ping_mutex.                                        *)
(***************************************************************************)
send_ping_to(s, force) ==
    IF contact # "set" \/ (state = "OFFLINE" /\ ~force)
    THEN UNCHANGED <<outbox, contact, failed>>
    ELSE IF ~Exists
    THEN failed' = "get_channel" /\ UNCHANGED <<outbox, contact>>
    ELSE IF ~Ready
    THEN failed' = "ping_ready" /\ UNCHANGED <<outbox, contact>>
    ELSE IF ~known
    THEN contact' = "null" /\ UNCHANGED <<outbox, failed>>
    ELSE Push(Ping(s)) /\ UNCHANGED <<contact, failed>>

(***************************************************************************)
(* send_ping_request(contact, send_back): the contract, then one request   *)
(* to the contact's address.                                               *)
(***************************************************************************)
send_ping_request(back, contract) ==
    IF Busy
    THEN failed' = contract /\ UNCHANGED <<channelVars, outbox>>
    ELSE /\ CreatePkChannel
         /\ Push(Request(back, PairAfter))
         /\ UNCHANGED failed
----------------------------------------------------------------------------
(***************************************************************************)
(* The service thread: received_ping.                                      *)
(***************************************************************************)
Handle(type) ==
    /\ Running
    /\ service.pc = "idle"
    /\ inbox # <<>>
    /\ Head(inbox).type = type
    /\ inbox' = Tail(inbox)

\* Mutant: one tick too far.
PingTicksOver(s) == IF s = DISCONNECTED THEN PING_THRESH + PING_THRESH + 1 ELSE 0

PingTicks(s) == IF s = DISCONNECTED THEN PING_THRESH + PING_THRESH ELSE 0

received_ping ==
    /\ Handle("ping")
    /\ IF contact # "set"
       THEN UNCHANGED <<last_ping, service>>
       ELSE LET ticks == PingTicks(Head(inbox).s)
                fire_event == \/ available(ticks) # available(last_ping)
                              \/ state = "CONNECTING"
            IN  /\ last_ping' = ticks
                /\ IF fire_event
                   THEN Going(IF available(ticks) THEN "connected" ELSE "gone")
                   ELSE UNCHANGED service
    /\ UNCHANGED <<known, contact, state, channelVars, outbox, reconnect, gui,
                   told, failed, edits>>

contact_connected ==
    /\ Running
    /\ service.pc = "connected"
    /\ IF ~known \/ state = "CONNECTED"
       THEN Finish /\ UNCHANGED <<contactVars, failed>>
       ELSE IF state # "CONNECTING"
       THEN failed' = "connected" /\ UNCHANGED <<contactVars, service>>
       ELSE /\ contact' = "set"
            /\ last_ping' = 0
            /\ state' = "CONNECTED"
            /\ Going("event")
            /\ UNCHANGED failed
    /\ UNCHANGED <<known, channelVars, outbox, inbox, reconnect, gui, told, edits>>

\* fire_contact_connected_event sends the event after the lock is released.
fire_contact_connected_event ==
    /\ Running
    /\ service.pc = "event"
    /\ told' = TRUE
    /\ Finish
    /\ UNCHANGED <<known, contactVars, channelVars, outbox, inbox, reconnect,
                   gui, failed, edits>>

PeerGone ==
    /\ Running
    /\ service.pc = "gone"
    /\ fire_contact_disconnected_event
    /\ Finish
    /\ UNCHANGED <<known, contact, secrets, outbox, inbox, reconnect, gui, edits>>
----------------------------------------------------------------------------
(***************************************************************************)
(* The service thread: received_connect_request, in the order of its locks.*)
(***************************************************************************)
\* Mutant: only a contact that is connecting is left alone.
RequestWhileConnected ==
    /\ Handle("request")
    /\ IF ~known
       THEN UNCHANGED <<contact, service>>
       ELSE \* update_contact_version makes the entry if there is none
            /\ contact' = IF contact = "none" THEN "null" ELSE contact
            /\ IF is_contact_connecting
               THEN UNCHANGED service
               ELSE service' = [pc |-> "address",
                                send_back |-> Head(inbox).send_back,
                                secret |-> Head(inbox).secret]
    /\ UNCHANGED <<known, state, last_ping, channelVars, outbox, reconnect, gui,
                   told, failed, edits>>

received_connect_request ==
    /\ Handle("request")
    /\ IF ~known
       THEN UNCHANGED <<contact, service>>
       ELSE \* update_contact_version makes the entry if there is none
            /\ contact' = IF contact = "none" THEN "null" ELSE contact
            /\ IF Busy
               THEN UNCHANGED service
               ELSE service' = [pc |-> "address",
                                send_back |-> Head(inbox).send_back,
                                secret |-> Head(inbox).secret]
    /\ UNCHANGED <<known, state, last_ping, channelVars, outbox, reconnect, gui,
                   told, failed, edits>>

\* Mutant: the address is noted and no channel is made.
UpdateAddressOnly ==
    /\ Running
    /\ service.pc = "address"
    /\ MutexFree
    /\ UNCHANGED channelVars
    /\ Going("answer")
    /\ UNCHANGED <<known, contactVars, outbox, inbox, reconnect, gui, told,
                   failed, edits>>

update_contact_address ==
    /\ Running
    /\ service.pc = "address"
    /\ MutexFree
    /\ IF known THEN CreatePkChannel ELSE UNCHANGED channelVars
    /\ Going("answer")
    /\ UNCHANGED <<known, contactVars, outbox, inbox, reconnect, gui, told,
                   failed, edits>>

Answer ==
    /\ Running
    /\ service.pc = "answer"
    /\ IF service.send_back
       THEN send_ping_request(FALSE, "answer")
       ELSE UNCHANGED <<channelVars, outbox, failed>>
    /\ Going("connecting")
    /\ UNCHANGED <<known, contactVars, inbox, reconnect, gui, told, edits>>

contact_connecting ==
    /\ Running
    /\ service.pc = "connecting"
    /\ IF known
       THEN contact' = "set" /\ last_ping' = 0 /\ state' = "CONNECTING"
       ELSE UNCHANGED contactVars
    /\ Going("secure")
    /\ UNCHANGED <<known, channelVars, outbox, inbox, reconnect, gui, told,
                   failed, edits>>

setup_security_conversation ==
    /\ Running
    /\ service.pc = "secure"
    /\ CreateChannel(service.secret)
    /\ Going("ping")
    /\ UNCHANGED <<known, contactVars, outbox, inbox, reconnect, gui, told,
                   failed, edits>>

FirstPing ==
    /\ Running
    /\ service.pc = "ping"
    /\ send_ping_to(CONNECTED, TRUE)
    /\ Finish
    /\ UNCHANGED <<known, state, last_ping, channelVars, inbox, reconnect, gui,
                   told, edits>>

\* A greeter (external) answers that it knows where the contact is.
received_greet_find_response ==
    /\ Running
    /\ service.pc = "idle"
    /\ known
    /\ IF contact = "none"
       THEN failed' = "find" /\ UNCHANGED <<channelVars, outbox>>
       ELSE /\ ~Busy
            /\ CreatePkChannel
            /\ Push(Request(TRUE, PairAfter))
            /\ UNCHANGED failed
    /\ UNCHANGED <<known, contactVars, inbox, service, reconnect, gui, told, edits>>
----------------------------------------------------------------------------
(***************************************************************************)
(* The ping thread; the destructor's 'd' is sent by the same send_ping.    *)
(***************************************************************************)
send_ping(s) ==
    /\ Running
    /\ contact = "set" /\ state # "OFFLINE"
    /\ send_ping_to(s, FALSE)
    /\ UNCHANGED <<known, state, last_ping, channelVars, inbox, service,
                   reconnect, gui, told, edits>>

\* Timing: the threshold is thirty seconds.  A handler that has just set
\* last_ping to zero finishes before that many ticks pass.
JustReset == service.pc \in {"connected", "event", "secure", "ping"}

\* A contact's turn in the loop of ping_thread.  last_ping saturates: above
\* the threshold its value makes no difference.
ping_thread ==
    /\ Running
    /\ contact = "set" /\ state # "OFFLINE"
    /\ available(last_ping)
    /\ IF available(last_ping + 1)
       THEN /\ last_ping' = last_ping + 1
            /\ UNCHANGED <<state, channel, told, failed>>
       ELSE ~JustReset /\ fire_contact_disconnected_event
    /\ UNCHANGED <<known, contact, secrets, outbox, inbox, service, reconnect,
                   gui, edits>>
----------------------------------------------------------------------------
(***************************************************************************)
(* The reconnect thread, which holds _mutex from the test to the request.  *)
(***************************************************************************)
send_ping_requests ==
    /\ Running
    /\ MutexFree
    /\ known /\ ~Busy
    /\ reconnect' = "send"
    /\ UNCHANGED <<known, contactVars, channelVars, outbox, inbox, service, gui,
                   told, failed, edits>>

SendRequest ==
    /\ Running
    /\ reconnect = "send"
    /\ send_ping_request(TRUE, "request")
    /\ reconnect' = "idle"
    /\ UNCHANGED <<known, contactVars, inbox, service, gui, told, edits>>
----------------------------------------------------------------------------
(***************************************************************************)
(* The GUI thread: remove_contact and confirm_contact.                     *)
(***************************************************************************)
Edit == edits < MaxEdits /\ edits' = edits + 1

remove_contact ==
    /\ Running
    /\ gui = "idle"
    /\ Edit
    /\ known
    /\ fire_contact_disconnected_event
    /\ gui' = "forget"
    /\ UNCHANGED <<known, contact, secrets, outbox, inbox, service, reconnect>>

Forget ==
    /\ Running
    /\ gui = "forget"
    /\ known' = FALSE
    /\ gui' = "idle"
    /\ UNCHANGED <<contactVars, channelVars, outbox, inbox, service, reconnect,
                   told, failed, edits>>

\* Timing: a user does not remove a contact and confirm it again while the
\* service thread is still busy with a request it took up before.
InRequest == service.pc \in {"address", "answer", "connecting", "secure", "ping"}

confirm_contact ==
    /\ Running
    /\ ~InRequest
    /\ gui = "idle"
    /\ Edit
    /\ MutexFree
    /\ ~known
    /\ known' = TRUE
    /\ gui' = "data"
    /\ UNCHANGED <<contactVars, channelVars, outbox, inbox, service, reconnect,
                   told, failed>>

add_contact_data ==
    /\ Running
    /\ gui = "data"
    /\ contact' = "set" /\ state' = "OFFLINE" /\ last_ping' = PING_THRESH
    /\ gui' = "confirm"
    /\ UNCHANGED <<known, channelVars, outbox, inbox, service, reconnect, told,
                   failed, edits>>

ConfirmRequest ==
    /\ Running
    /\ gui = "confirm"
    /\ send_ping_request(TRUE, "confirm")
    /\ gui' = "idle"
    /\ UNCHANGED <<known, contactVars, inbox, service, reconnect, told, edits>>
----------------------------------------------------------------------------
(***************************************************************************)
(* The post office threads: out_thread encrypts with the channel of the    *)
(* moment, in_thread decrypts with it.  A ping the contact encrypted       *)
(* decrypts when it was meant for the present pair of secrets, that is,    *)
(* whenever the channel is ready; a request always does.                   *)
(***************************************************************************)
out_thread ==
    /\ Running
    /\ outbox # <<>>
    /\ outbox' = Tail(outbox)
    /\ IF Head(outbox).type = "ping" /\ Exists /\ ~Ready
       THEN failed' = "encrypt"
       ELSE UNCHANGED failed
    /\ UNCHANGED <<known, contactVars, channelVars, inbox, service, reconnect,
                   gui, told, edits>>

in_thread(m) ==
    /\ Running
    /\ Len(inbox) < MaxQueue
    /\ m \in Pings => Ready
    /\ inbox' = Append(inbox, m)
    /\ UNCHANGED <<known, contactVars, channelVars, outbox, service, reconnect,
                   gui, told, failed, edits>>
----------------------------------------------------------------------------
\* The process starts with the contact list it finds on disk.
Init ==
    /\ known \in BOOLEAN
    /\ contact = IF known THEN "set" ELSE "none"
    /\ state = "OFFLINE"
    /\ last_ping = IF known THEN PING_THRESH ELSE 0
    /\ channel = NoChannel
    /\ secrets = 0
    /\ outbox = <<>>
    /\ inbox = <<>>
    /\ service = Idle
    /\ reconnect = "idle"
    /\ gui = "idle"
    /\ told = FALSE
    /\ failed = "none"
    /\ edits = 0

ServiceThread ==
    \/ received_ping
    \/ contact_connected
    \/ fire_contact_connected_event
    \/ PeerGone
    \/ received_connect_request
    \/ update_contact_address
    \/ Answer
    \/ contact_connecting
    \/ setup_security_conversation
    \/ FirstPing
    \/ received_greet_find_response

PingThread ==
    \/ \E s \in {CONNECTED, DISCONNECTED} : send_ping(s)
    \/ ping_thread

ReconnectThread == send_ping_requests \/ SendRequest

GuiThread ==
    \/ remove_contact
    \/ Forget
    \/ confirm_contact
    \/ add_contact_data
    \/ ConfirmRequest

PostThreads == out_thread \/ \E m \in Message : in_thread(m)

Next ==
    \/ ServiceThread
    \/ PingThread
    \/ ReconnectThread
    \/ GuiThread
    \/ PostThreads

Spec == Init /\ [][Next]_vars
----------------------------------------------------------------------------
Contracts == {"disconnect", "get_channel", "ping_ready", "answer", "connected",
              "find", "request", "confirm", "encrypt"}

ServicePcs == {"idle", "connected", "event", "gone", "address", "answer",
               "connecting", "secure", "ping"}

ServiceState == [pc : ServicePcs, send_back : BOOLEAN, secret : 0 .. MaxSecrets]

\* The types of the variables.
TypeOK ==
    /\ known \in BOOLEAN
    /\ contact \in {"none", "null", "set"}
    /\ state \in {"OFFLINE", "CONNECTING", "CONNECTED"}
    /\ last_ping \in 0 .. PING_THRESH + PING_THRESH
    /\ channel \in Channel
    /\ secrets \in 0 .. MaxSecrets
    /\ outbox \in Seq(Message) /\ inbox \in Seq(Message)
    /\ service \in ServiceState
    /\ reconnect \in {"idle", "send"}
    /\ gui \in {"idle", "forget", "data", "confirm"}
    /\ told \in BOOLEAN
    /\ failed \in Contracts \union {"none"}
    /\ edits \in 0 .. MaxEdits

\* A contact that is not offline has a channel, and outside the gap between
\* contact_connecting and setup_security_conversation its key is agreed: the
\* channel is only taken away by the step that takes the contact offline.
LiveContactIsSecure ==
    state # "OFFLINE" => Exists /\ (service.pc # "secure" => Ready)

\* get_channel finds the channel whenever a ping is sent (REQUIRE in
\* get_channel), and the service thread answers a request only for a contact
\* that is offline (REQUIRE_FALSE in send_ping_request), whatever the other
\* threads did since the request was taken up.  The checks that pings in the
\* wrong order and an answer during confirm_contact can fail are not meant.
ServiceContractsHold == failed \notin {"get_channel", "answer"}

\* The contact a disconnect finds live has its pointer (CHECK in
\* fire_contact_disconnected_event), although send_ping_to resets pointers.
DisconnectFindsContact == failed # "disconnect"

\* The key of a connected contact never changes: late requests, answers to
\* them and reconnects leave the channel alone until the contact is offline.
KeyStaysWhileConnected ==
    [][contact_available /\ contact_available' => channel' = channel]_vars

\* What the listeners of contact events were told last is the contact's state,
\* but for the moment between contact_connected and the event it leads to, as
\* long as the user does not remove or confirm the contact: a removal can
\* overtake the event of a contact that has just connected.  Every disconnect
\* is reported.
EventsMatchState ==
    edits = 0 /\ service.pc # "event" => (told <=> state = "CONNECTED")

\* user_service.cpp: CHECK(sc.shared_secret.ready()) in send_ping_to.
PingsOnReadyChannel == failed # "ping_ready"
=============================================================================
