# Fire★ in TLA+

Fire★ is a peer-to-peer program: users keep lists of contacts, contacts find
each other through a greeter (firelocator), exchange public keys and a session
secret, and then hold conversations in which Lua apps send messages to each
other. There is no server in the message path. Everything hard about the
program is in how peers, threads and messages meet: UDP datagrams are lost and
reordered, four threads of one process touch the contact table, TCP connections are
shared by three threads without a lock, and a failed
contract (`CHECK`, `REQUIRE`, `ENSURE`, see `src/src/util/dbc.hpp`) ends the
process with `exit(1)`.

This directory holds TLA+ modules that model parts of it, the TLC
configurations that check them, and proofs that TLAPS checks.
`PROJECT.json` lists the components, the runs, the mutants, the source lines of
every definition, the hazards, the findings and the theorems.

## 1. The system

### Components

| component | state | operations | talks to |
|---|---|---|---|
| UDP transport `network/udp_queue` | working map, message ring, out queue, reassembly map, window counters per message | send, do_send, handle_read, resend | datagrams; `connection_manager` |
| TCP transport `network/tcp_queue` | connection states, out queue, buffers, last-in sockets | connect, accept, send, header and body reads, keep-alive | sockets; `connection_manager` |
| connection manager `network/connection_manager`, `connection` | TCP pool, endpoint to slot map, UDP multiplexing state | send, connect, receive, teardown and repool | both transports; post offices |
| message passing `message/*` | tree of post offices, mailboxes, in and out queues | send up and down the tree, in and out threads of the master post | connection manager; security library |
| security `security/*` | one channel per address: public key, DH pair, shared key | create, encrypt, decrypt, remove | master post; user service |
| user service `user/user_service`, `user/user` | contacts with a ping state and last ping time, greeters, introductions, contact files | connect request and response, pings, register and find, reconnect, introduce | mailboxes; security; GUI events |
| conversations `conversation/*` | conversations with contacts and apps, who asked about whom | sync, create, quit, ask about a contact, clique test | user service; mailboxes |
| services `service/*`, `messages/*` | one thread and one mailbox per service | handle loop, start, stop, typed messages | post offices |
| firelocator `firelocator/*` | registered users and their addresses | register, find, introduce both sides | connection manager |
| app editor `gui/app/app_editor`, `util/crstring`, `util/vclock` | code with a version vector, data, run state | edit, send, receive and merge, run when idle | conversations; disk store |
| scripted apps `gui/lua`, `gui/qtw`, `gui/app/*` | a backend thread with its mailbox and references, the widgets of a frontend, closed apps | script calls, widget events, reset, close, reap, exit | Qt's event loop; services |
| app data `util/disk_store`, `gui/app/app` | an index in memory and on disk, value files | set, remove, clear, import, save_app, has and get | files; editor; scripts |
| other utilities `util/*` | blocking queues, encoders | push, pop, done; encode, decode | everything |
| interpreter and vendored code `slb`, `dtl` | | | scripted apps |

### What is hard

* **Datagrams.** Chunks and acknowledgements are lost, duplicated, reordered
  and late, and can outlive the message and the process that sent them.
* **Threads.** The user service's contact states are written by the service
  thread, the ping thread, the reconnect thread and the GUI thread.
* **Asynchronous handlers.** A handler decides on state that the previous
  handler left: the send chain of a UDP connection must be restarted by
  whoever opens its window.
* **Recursive routing.** A post office that cannot route a message hands it to
  its parent, which holds its own lock while it asks its children.
* **Replicas without a server.** Every contact has its own copy of a
  conversation's members and of an app's code, and merges what the others send.
* **Threads that wait for each other.** A script's thread asks the GUI thread
  for the state of a widget; the GUI thread, when it ends, waits for the reaper,
  which waits for the scripts' threads.
* **Files rewritten in place.** A crash between two writes, or within one,
  leaves the index of an app's data and its value files apart.
* **Contracts that exit.** Each of them is a safety property of the whole
  process.

`hazards` in PROJECT.json lists them one by one, with the line where each bites.

## 2. Plan

Order: the transports everything rests on first, then the state machines above
them, then the data structures. Done:

| module | part | proofs |
|---|---|---|
| `UdpQueue` | UDP transport (section 3) | `UdpQueueProofs` |
| `UserService` | contact states, security channel, four threads (4) | `UserServiceProofs` |
| `PostOffice` | routing through the tree with its locks (5) | `PostOfficeProofs` |
| `Conversation` | membership of a conversation (6) | `ConversationProofs` |
| `TcpQueue` | one outgoing TCP connection with its three threads (7) | `TcpQueueProofs` |
| `ConnectionManager` | the pool of TCP queues, incoming connections, receive (7) | `ConnectionManagerProofs` |
| `CrString`, `AppEditor` | the shared code editor and its replicated string (8) | `AppEditorProofs` |
| `LuaApp` | scripted apps, their frontends, the reaper, the end of the program (9) | `AppProofs` |
| `DiskStore`, `KeyValueStore` | an app's data on disk, and the table it implements (10) | `AppProofs` |
| `Greeter` | users and the locator with which they register (11) | |

`ConnectionManager` sees a TCP queue as its state and its data and leaves the
inside to `TcpQueue`; `AppEditor` extends `CrString`; `DiskStore` instantiates
`KeyValueStore` under a refinement mapping. `Conversation`, `AppEditor` and
`UserService` take from `UdpQueue` that mail may be lost, reordered and
repeated.

Left, in this order:

1. introductions between contacts;
2. two user services against each other.

`Greeter` has no proofs: what its run asks is what is known when every queue has
drained, a question of liveness, and stays with TLC. `AppProofs` holds the proofs
of two parts of an app, its data and its script's threads, which share no state:
it extends both modules, which is why the names in `LuaApp` (`AppInit`, `AppNext`,
`AppSpec`) are its own.

## 3. The UDP transport

### Modules

* `UdpQueue.tla` models `network/udp_queue.cpp`. `con[n]` is the
  `udp_connection` of node `n`. Its fields keep the names of the C++ members:
  `working` is `_out_working` (with each message's resend queue, which the code
  keeps in the ring item), `ring` is `_message_ring`, `next_message`,
  `out_queue`, `in_working`, `in_queue`, `sequence`. `posted` says that some
  `do_send` handler is pending on the io service, as a post or as the completion
  of a write. `net` is the set of datagrams in transit.
* `MCUdpQueue.tla` gives the traffic of the TLC instances.
* `UdpQueueProofs.tla` holds the proofs.

A handler is one action because one thread runs a connection's io service:

| action | code |
|---|---|
| `Send` | `udp_connection::send`, `add_to_working_set`, `create_prototype`, `init_working` |
| `SendQueued`, `SendNext`, `SendAgain`, `SendNothing` | `do_send` with an acknowledgement, a new chunk, a chunk once more, or nothing to send; with `queue_next_chunk`, `sent_chunk`, `handle_write` |
| `ResendTick` | the handler `resend_thread` posts every second |
| `Deliver` | `handle_read`, with `validate_chunk` or `insert_chunk` |
| `Receive` | `udp_queue::receive` |
| `Duplicate`, `Lose` | the network (external) |
| `Restart` | destruction and construction of the queue (only in `RestartSpec`) |

What is abstracted: a payload is its size and the identity of its message; the
wire format is the fields it carries (host and port of a received chunk are
those of the datagram's sender, as in `handle_read`); the order of a resend
queue; the number of pending `do_send` handlers, of which only "at least one"
matters, so `SendNothing` may leave `posted` set. `net` is a set: two equal
datagrams are one, which is the behaviour in which the other is lost. `ticks`
saturates above both thresholds. A failed contract is recorded in `failed`, and
the node takes no further step.

### Runs

| run | instance | question |
|---|---|---|
| `udp_senders` | two nodes send one receiver a robust and a quick message, each of two chunks and with number one, window 1, resend at every tick, purge at 2, one duplicated datagram | is the window exact, is every unacknowledged chunk sent again, do chunks and acknowledgements get along without a failed contract or a lost wake-up; what does the receiver make of two messages with one number, and of one alone? |
| `udp_live` | a robust and a quick message share the ring, fair threads | does the ring stay consistent, and does every message leave the working set? |

Bounds. Two chunks with a window of one is the least in which a window is full,
moves, and has a chunk it has not reached; two messages are the least for
a round robin; a tick threshold of zero makes retransmissions and purges
overlap with everything else in few states. `MaxSequence`, `MaxDup` and
`MaxRestarts` bound the messages a node sends, duplicated datagrams and
restarts. Every number one of `udp_senders` may be used twice or, when one of
the senders is quiet or late, once, so both sides of the properties about the
receiver occur. Larger windows, and traffic in both directions, are the proofs'
matter. Deadlock is not checked: when
all messages have left and no more are allowed by the bound, the system is
rightly quiet.

Fairness (`udp_live` only): weak fairness of `DoSend(n)`, because
`udp_run_thread` runs whatever is posted, and of `ResendTick(n)`, because
`resend_thread` posts a tick every second for as long as the queue lives.
Nothing is assumed of the network: messages leave because they are purged.

### Where it breaks

Two configurations are kept beside the runs to show what the contracts do not
survive; TLC finds each violated.

* `udp_restart.cfg` (`NoContractFails`): a process numbers its messages from
  one. Acknowledgements meant for its predecessor on the same port are taken for
  acknowledgements of chunks it has not sent, and
  `CHECK_EQUAL(wm.sent.count(), ...)` fails.
* `udp_crowded.cfg` (`NothingAckedIsLost`, and so is `NothingIsMixed` of
  `MCUdpQueue`): reassembly is keyed by the sequence number, which every sender
  starts at one. A chunk of the second of two messages with one number is
  acknowledged, and refused if the first has that chunk already or another
  chunk count; it is not resent, although docs/api/reference.md:2160 promises
  that of a robust message. If the counts agree the two messages may also be put
  together and handed over as one.

A third case needs no run of its own: `send` refuses sizes above
`MAX_MESSAGE_SIZE`, which is 2^16 chunks, but the chunk count is a `uint16_t`. A
message of more than 2^16 - 1 chunks gets the count 0 (`TotalChunks`) and fails
`ENSURE_GREATER(r, 0)`; with such a message in `Traffic`, `NoContractFails` is
violated at once.

### Proofs

`UdpQueueProofs.tla` proves, for every set of nodes, every traffic and all
values of the constants that satisfy `UdpAssumption`:

* `TypeCorrect`: `Spec => []TypeOK`
* `WindowIsExact`: `Spec => []WindowExact`
* `RingPointsIntoWorking`: `Spec => []RingIsWorking`
* `NothingForged`: `Spec => []OnlySentChunks`
* `ContractsHold`: `NoOverflow /\ Spec => []NoContractFails`, where `NoOverflow`
  says that no message is longer than `MAX_CHUNKS - 1` chunks; without it the
  statement is false, as said above
* `ResendCovers`: `Spec => ResendCoversUnacked`
* `SendersWake`: `Spec => []NeverStalls`
* `Intactness`: `Spec => []DeliveredIntact`
* `AckedDelivered`: `Spec => []AckedMeansDelivered`
* `RestartKeepsTypes`, `RestartKeepsRing`, `RestartWakes`:
  `RestartSpec => []QueuesTyped`, `[]RingIsWorking`, `[]NeverStalls`
* `RestartKeepsBound`: `RestartSpec => []...Bounded(con[n].working[s])`
* `RestartFailures`: `NoOverflow /\ RestartSpec =>` only `validate_chunk` is
  ever in `failed`

Neither of `Intactness` and `AckedDelivered` assumes anything about who sends to
whom. Both say what holds of a number that two senders have used for one
receiver (`Crossed`) and what holds of every other. A crossed number is nothing
unusual, since a connection has one counter for all its peers; there chunks are
lost and mixed, as said above, and all that is left is that the chunks of what
is handed over were sent to that node under that number, and that no sender has
two messages among them. `numbered`, the messages that have taken a number, is a
history variable: `Crossed` cannot be read off the queues once the messages have
left them.

The inductive invariant is `IInv`, the conjunction of the first four. The window
is not inductive by itself: that an acknowledgement acknowledges a chunk that
was sent is a fact about the network (`OnlySentChunks`), which in turn needs that
only sent chunks are queued for retransmission (part of `WindowOK`) and that a
working message never forgets a chunk it sent (`Evolves`). Each handler has a
lemma that it keeps a connection's own invariant and is an `Evolves` step
(`Sound`); `StepKeeps` turns that into `IInv'` for the whole system, and each
action has its own step lemma. `ResendCovers` follows from
`Cardinality(sent \ set) <= MAX_FLIGHT`.

`NeverStalls` is inductive together with `IInv`: a handler that opens the window
or queues a chunk posts `do_send` itself, and one that does not leaves no message
with work it had not before (`ResendFrame`).

The receiving side needs an invariant of its own, `Delivers`. With `T` the
messages numbered so far, it says (`Delivery`):

* no two messages in `T` have the same number and the same sender (`History`);
  so those to one node with one number are one message, unless it is crossed
  (`Uncrossed`);
* every working message and every datagram belongs to a member of `T`
  (`TrueMessage`, `TruePacket`), and a chunk has the size its place gives it;
* the parts of a reassembly entry are chunks of members of `T` to this node under
  its number (`PartsOf`); unless that is crossed they are some chunks of one
  member, but not all, and the size is what is left after a short last chunk
  (`TruePartial`, `SomeOf`);
* whatever is acknowledged, in transit or in a working message, its receiver has
  got, unless the number is crossed: the chunk is in the reassembly entry or the
  message delivered (`Got`).

`send` adds one message to `T` (`SendTrue`); the sending handlers, `receive` and
the timer only take away (`LessTrue`, `LessStep`); `validate_chunk` counts an
acknowledgement for the right message (`AckTrue`), and `insert_chunk` drops a
chunk of an uncrossed number only if it has it (`InsertUncrossed`), with the
arithmetic of the last chunk in `ChunksAddUp`, and takes nothing away under a
crossed one (`InsertCrossed`). That an uncrossed entry is never complete is why
"every chunk is got" means "delivered" (`AllGot`).

The theorems about `RestartSpec` say what is left when a node may come back at
any moment with its numbers starting from one, while the network and the peers
still hold what its predecessor sent. `IInv` is not an invariant there: a stale
acknowledgement marks a chunk that was not sent, so `in_flight` counts too few
(`WindowExact`), what is in transit was sent by another incarnation
(`OnlySentChunks`), and chunks of two incarnations' messages may be put together
(`DeliveredIntact`); TLC finds each of the three violated on the instance of
`udp_restart`. `RInv` is what remains: the types, the ring and the map agree,
no do_send is missing (`Awake`), at most `validate_chunk`'s contract fails, and
the window is `Bounded`: no more than `MAX_FLIGHT` chunks are in flight, the
sent chunks are the first `next_send`, and only those are sent again. Each
handler has a lemma that keeps this of one connection, whatever datagram of the
right type arrives (`Steady`), and the restarted connection has it
(`NewSteady`). So `udp_restart` shows the only way a restart stops a node.

Only model-checked: `EveryMessageLeaves` (liveness is out of the prover's
reach). What a restart does to reassembly has no property: no statement of the
repository promises anything there.

## 4. The user service

`UserService.tla` models what one process does with one contact: connecting,
pinging, losing it, and the encrypted channel to its address that the service
shares with the post office. The contact is an arbitrary environment: any
request and any ping can arrive at any time, late, twice or out of order.

State: `known` is membership in the user's contact list; `contact`, `state` and
`last_ping` are the fields of `contact_data`; `channel` is the entry of
`encrypted_channels` (`own` is the number of our DH pair, `other` the number of
the contact's public value, zero for none); `outbox` and `inbox` are the
mailbox; `service`, `reconnect` and `gui` say where the threads are. A contract
that fails is recorded in `failed`, and nothing happens after it.

One action is what a thread does under one lock. `received_connect_request` is
therefore a chain of actions (`update_contact_address`, `Answer`,
`contact_connecting`, `setup_security_conversation`, `FirstPing`), and so are
`received_ping` (`contact_connected`, `fire_contact_connected_event`,
`PeerGone`), `remove_contact` (`Forget`), `confirm_contact`
(`add_contact_data`, `ConfirmRequest`) and `send_ping_requests`
(`SendRequest`). `out_thread` and `in_thread` are the parts of `master_post`
that encrypt and decrypt.

Two timing assumptions, both stated at the action they restrict: a handler that
has just set `last_ping` to zero ends before the thirty seconds of the threshold
pass (`JustReset`), and a user does not remove a contact and confirm it again
within one request handler (`InRequest`).

| run | question |
|---|---|
| `user_threads` | all threads, two DH pairs, queues of two, one edit: does a live contact always have its channel, does its key stay, does `get_channel` find its channel and the service thread answer only offline contacts, and do listeners know the contact's state until the edit? |

Five contracts can fail in the model, and no property of `user_threads` claims them. `user_ping_gap.cfg` shows the first: a ping
between `contact_connecting` and `setup_security_conversation` fails
`CHECK(sc.shared_secret.ready())` (`user_service.cpp:878`, `PingsOnReadyChannel`).
Each of the others is a value of `failed` that TLC reaches under the constants
of `user_ping_gap.cfg` or `user_threads.cfg`:

* `"request"`: the reconnect thread tests that the contact is offline and calls
  `send_ping_request`, which requires it again (`user_service.cpp:950`); the
  service thread, which does not take `_mutex`, sets `CONNECTING` in between.
* `"connected"`: a `d` for a contact that is already offline leaves `last_ping`
  at twice the threshold, so a `c` that it overtook looks like a change of state
  and fails `CHECK(cd.state == CONNECTING)` (`user_service.cpp:1027`).
* `"encrypt"`: a queued ping is encrypted with the channel of the moment
  `out_thread` pops it, which may have been removed and made anew without a key
  (`security_library.cpp:77`).
* `"find"`: `confirm_contact` puts the contact into the list
  (`user_service.cpp:1157`) before `add_contact_data` makes its data; a greeter's
  answer in between fails `CHECK(_contacts.count(c->id()))`
  (`user_service.cpp:536`).

`ServiceContractsHold` is about the other two contracts of the service thread, the
`REQUIRE` of `get_channel` and that of `send_ping_request` when it answers.

And the ping that a comment in `received_connect_request` announces for a contact
that is already connected (`user_service.cpp:449`) is not sent.

Bounds. Two DH pairs are the least for a channel that is made, removed and made
again; two queued messages the least for reordering; a threshold of one tick is
the least for which available and unavailable differ. One edit is a removal or a
confirmation. With two edits `DisconnectFindsContact` can fail: the contact is
removed, a ping resets its pointer, and it is confirmed again while the old
state is still live; the run keeps to one. `EventsMatchState` speaks of the time
before the edit, because a removal between `contact_connected` and its event
makes the event stale. It shows that every disconnect is reported; that a
disconnect overtakes a connected event takes such a removal, or a handler slower
than `JustReset` assumes, and is left out.
Deadlock is not checked, because the bounds on pairs and queues stop the model.

`UserServiceProofs.tla` proves for all bounds: `TypeCorrect`,
`ContactIsSecure`, `ServiceContracts`, `KeyIsStable`, `EventsAreTrue` and
`DisconnectHasContact`. The inductive invariant `IInv` adds to the three properties
`RequestInProgress` (what the service thread's position says about the contact
and the channel: without it nothing is known when the handler continues) and
`ChannelShape` (a channel with a key has a DH pair of its own).
`DisconnectHasContact` is `Spec => [](edits < 2 => DisconnectFindsContact)`; the
run has `MaxEdits = 1`, and with two edits the invariant can fail, as said above.
It rests on `PointerInv`: until the second edit a known contact that is live
keeps its pointer, an unknown one that was never edited is offline without a
pointer, and the GUI thread is in the middle of something only if it has edited.

## 5. Message passing

`PostOffice.tla` models `post_office::send` in a tree of offices, with the
thread each office runs on its mailboxes' outboxes and the root's `in_thread`.
A call of `send` is a frame on its thread's `stack`, so calls of several threads
interleave, and `post_m` is held for as long as the code holds it: during the
calls of children, not during the call of the parent. `ToMailbox`, `ToChild`,
`Delegate` and `ToParent` are the branches of `send`, `Return` is its return to
the caller, `Answer` a mailbox's owner that replies to the address in `from`,
`Destroy` a mailbox that goes away.

| run | question |
|---|---|
| `post_office` | four offices on three levels, letters up, down, across and to a stranger, one message from outside, any one mailbox but the root's disappears, fair threads: do answers find their way back, what can a thread wait for, and does every message arrive, go outside or fail? |

`send` has one deadlock, and the run reaches it. A child that cannot send a message
delegates it to its parent (178, "it will delegate it to the parent" in
`message/README.md`:13-14); if it is the parent that called the child, its `_post_m`
is held (166) and not recursive, and the thread waits for itself for ever. A message
for a mailbox two levels down that has gone is enough. `DelegatedBack` names that
state; other threads can be stuck behind it (`Stuck`; three in this instance).
`OnlyDelegationBackBlocks` says that it is the only way to block: whoever waits for
himself is in that state, and there is no circle of threads that wait for each other.
`EverythingArrives` exempts what is left to threads that are stuck, and nothing else.

Three levels are the least in which a child that cannot route has more than its
own name left. Every mailbox writes at most two letters, so the model ends and
deadlock is not checked. Fairness: weak fairness of each thread,
which the code runs in a loop; a thread that waits for a lock need not be
treated better than weakly, because a lock is held for finitely many calls in
a tree unless its holder is stuck.

`PostOfficeProofs.tla` proves both invariants of the run for every tree, every set
of mailboxes, any letters and arrivals and any number of removals. It uses
`OfficeAssumption` and `ThreadAssumption` (the tree's functions have their domains
and the names are apart), `AddressAssumption` (a name is a string, an address a
sequence of them) and `TreeAssumption` (an office is deeper than its parent).
`IInv` has three parts:

* `TypeOK`.
* `LocksHeldByCallers`: below the top of a stack stand only calls that have called
  a child, and a thread holds `post_m` of an office exactly when the office is among
  those callers, at one place of the stack. `Return` needs it to know which lock it
  frees and where the caller goes on.
* `MailReturns`: `from` of every letter on the way, read at the office where
  the letter is, is a walk (`Walk`) from office to office, each next to the one
  before, that ends at the writer's mailbox (`Leads`); and `to` of every answer is
  such a walk, possibly with the office's own name still in front (`Arriving`).
  Every branch of `send` moves the letter by one office and puts one name in front
  of `from`, or takes one from `to`, and each of these steps has its lemma.

`AnswersAlwaysReturn` (`[]AnswersReturn`) and `LocksAreHeldByCallers`
(`[]LocksHeldByCallers`) follow. `OnlyDelegationsBackBlock` is
`[]OnlyDelegationBackBlocks`, without any assumption on letters or mailboxes. Its
invariant `Descending` says that the offices a thread has locked get deeper along its
stack, each a child of the one before, and that what runs is a call of a child of the
last of them or, delegated back, of the last of them itself. A thread that waits for
another therefore waits for an office deeper than all it has locked (`WaitsDeeper`):
of several threads the one that waits for the deepest office waits for none of the
others (`NoCircle`, by the well-foundedness of the natural numbers), and a thread that
waits for itself waits for the last office it has locked (`SelfWaits`).
That everything arrives is checked only.

## 6. Conversations

`Conversation.tla` models the membership of one conversation at every node.
`live[n]` says that the conversation is in `n`'s table, `contacts[n]` are the
members it has, `asked[n]` and `requests[n]` are `_pending_adds`. Two threads
work on a conversation: the service's (`ReceivedSync`, `ReceivedAskReq`,
`Lookup`, `ApplyAnswer`, `RemoveContact`) and the GUI's (`Create`, `Show`,
`AddContact`, `Quit`, `Disconnected`). Both run `add_contact_to_conversation`,
which decides (`Decision`) and then acts (`AddNow`, `AskAbout`). `_mutex` is
held by a sync and by quit, not by an addition of the user; handlers look a
conversation up under the lock and use it after the lock is released. `thread`
holds what a thread is in the middle of.

Abstractions: contact lists are constant, messages form a set and may be
delivered once more or never, `_removed` is never read and left out,
and so are apps. An access to one container is atomic; `_pending_adds` is not
protected in the code, and what the race does to it is not modelled. The tab of
a conversation closes with `Quit`. Bounds limit additions, departures, lost
contacts and repeated messages; when they are used up the system is rightly
quiet, so deadlock is not checked.

A scenario says what the users do and what goes wrong. The run `conversation`
starts in any of four:

| scenario | what happens | question |
|---|---|---|
| `Joining` | `a` adds three users, of whom `b` and `d` do not know each other | does the clique test keep one of them out, is nobody drawn in whom no user added? |
| `Losing` | `a` adds two strangers to a conversation with `c`, who knows both, and loses `c` at any moment | do members still know each other? |
| `Repeating` | as `Losing`, but an answer of `c` comes twice instead | the same |
| `Leaving` | `a` and `b` leave, lose each other, are added again, and a message of any type comes twice | does the exchange end, though a departure crosses a sync? |

`MembersKnowEachOther` names two mishaps that the code does not survive, and says
nothing of a node from then on (`torn`):

* `LostWhileAsking`: a member is lost while a question about somebody else is
  open. The clique test of `conversation.cpp:153` compares how many were asked
  with how many members there are, and not who was asked, and one more member
  makes up for the one lost.
* `BothAdd`: the only contact is gone, and the GUI's thread (an addition) and the
  service's thread (a late sync or answer) both find the conversation empty and add
  two strangers, because the GUI's addition does not take `_mutex`.

Both are in the run: `Losing` reaches them. Two more configurations show what
comes of such limits, each violated:

* `conv_size.cfg` (`CliqueTestSuffices`, which is `MembersKnowEachOther` without the
  exemption, in `Losing`).
* `conv_left.cfg` (`MembersWereInvited`): a sync on its way to a user who leaves
  creates the conversation again and brings the user back, against
  "If you leave a conversation, you need someone who is still in it to add you
  back" (`conversation/README.md:10-11`).

`MembersKnowEachOther` needs four users: the one whose view it is, a member
who knows both newcomers, and the two; a fifth gives each scenario a pair of its
own. Contact lists are one-sided (`Star`): `Knows` says whom a user has, not who
has the user. Fairness (`Settles`): weak fairness of the two threads of each node,
which run until the process ends; that messages arrive is part of the service's
weak fairness, and a message that is lost only makes the exchange shorter.

`ConversationProofs.tla` proves, for any number of users, any contact lists and
any scenarios:

* `TypesHold`: a member is a contact of the node that has it, and never the node
  itself, whatever lists are passed on (`Spec => []TypeOK`).
* `OnlyTheInvitedAreIn`: `Spec => []OnlyInvited`.
* `MembersKnowEachOtherAlways`: `Spec => []MembersKnowEachOther`.
* `MembersKnowEachOtherUntilDisturbed`: while nobody has left or lost a contact, all
  members of all nodes know each other, and no mishap is exempt. Together with
  the theorem before: a node has to lose a member before either can happen.

There are four layers; `Typed`, about the shapes, is the base of the others.
`Invitations` says, until somebody quits, that threads, nodes and
messages hold only users that somebody added: a message carries a list of
members on, so the invariant must be about all three places.

`Proper` is the one for the third theorem. `Honest` says that what answers
and messages say about acquaintance is true, wherever they are. `Whole(n)`, at a
node that was spared the mishaps: `Open`, the questions about users who are no
members were put to members only, so that equal numbers mean that every member
was asked (`PartOfClique`), although members come and go; whoever a thread is about to
add fits the members there are (`Fits`); and the two threads do not both add.

`Cliques` is the one for the fourth:

* `AnswersTrue`, `FramesTrue`, `NetTrue`: what is known about two users in an
  answer, in what a thread is in the middle of, or in a message, is true.
* `Sleep` and `Creation`: a node without the conversation has no members and no
  questions, and only a creation is under way there.
* `MembersAsked`: whoever a stranger is asked about was a member.
* `FoundersAlone` and `NothingAsked`: an addition without any question happens
  only while the founder has no members, and no other thread adds at that node
  then.
* `AllAcquainted`: the claim itself; `FramesTrue` extends it to those about to be
  added.

That the exchange ends (`Settles`) is only model-checked.

## 7. TCP

`TcpQueue.tla` models one outgoing connection of the pool
(`network/tcp_queue.cpp`, mode `delayed_connect`) with the three threads that
use it: the caller, which is the send thread of the connection manager, the run
thread with the handlers of its io service, and the keep-alive thread. `con` is
the `tcp_connection` (`state`, `writing`, `alive` are its members; `open` and
`fresh` the socket), `outq` is `_out_queue`, `ready` and `pending` the
handlers that can run and the operations in progress (asio, external), `stopped`
that the io service has run out of work and will never run again. Where two
threads can meet inside a function it is cut in two: `send` into the push
(`CallerPush`) and the test with the post (`CallerPost`); `close` into its three
assignments; `do_send` before and after `_writing = true`; `connect` before and
after `async_connect`; `handle_connect` at the change of state.

| run | question |
|---|---|
| `tcp_queue` | the caller's message, the two keep-alives every connection starts with and one more after an answer, one peer that refuses, accepts, answers or hangs up: is a queued message always on its way (`NothingStranded`), is there always somebody to end `connecting` (`ConnectingEnds`), do writes overlap or the contracts on `_writing` fail only after the keep-alive thread's `close()` or a hasty reconnect (`WritesAreExclusive`), is everything written in order and nothing skipped, and twice on one connection only after such a race (`InOrder`)? |

Four messages are enough for a queue that is written, broken off and written
again while another is pushed. `WritesAreExclusive` names the two races in which
the code does fail. `"keep"`: `close()` of the keep-alive thread writes `_state` and
`_writing` without a lock while the run thread is between two lines that rely on
them. `"hasty"`: a `send()` reconnects before the close is over. A close is over
later than it seems: `do_close` throws where it logs the endpoint of the socket
it has just closed, `tcp_run_thread` catches that and calls `close()` a second
time (`tcp_queue.cpp:712`). A caller that reconnects between the two has its connect
undone; the completion of that connect is then taken for the one of the next,
the queue "connects" early, and two writes share `_out_buffer`. The process
exits (`ENSURE(_writing)`, `CHECK_FALSE(_writing)`) or sends a mixed message.

`ConnectingEnds` has one exemption, `"dead"`: the io service runs out of work, so
that `run()` returns at once from then on (`tcp_queue.cpp:703`, no reset), the
keep-alive thread sees the queue disconnected and ends, and then `send()` connects
again. Nobody will handle that connect; the queue stays `connecting` for ever, the
pool takes it for live and messages pile up. The run reaches it.

`InOrder` says what the kernel is given, not what the peer gets: `async_write`
completes when the bytes are in the socket's buffer (`NetWrites`, also after the
peer has gone), `handle_write` pops the message, and nobody acknowledges it. Of the
messages of one connection the peer gets a first part; those written last before a
break are lost, and the next connection goes on behind them.

`TcpQueueProofs.tla` proves for any number of messages and answers:
`NothingIsStranded`, `ConnectingIsTransient`, `OneWriterUnlessRaced` and `WrittenInOrder`,
which are `Spec => []NothingStranded`, `[]ConnectingEnds`, `[]WritesAreExclusive` and
`InOrder`. The inductive invariant `IInv` joins the first two with

* `Typed` and `Threads`: nothing is connected before the run thread has queued its
  keep-alive; `_writing` is set only while a write is under way or about to
  be; a queue that is being destroyed stays disconnected.
* `Numbered`: `_out_queue` is a gapless run of the last numbers pushed, and
  everything before it has been written, and perhaps its first.
* `OneWrite`: at most one completion of a write is outstanding, and its message
  is still in the queue.
* `Calm`, true as long as neither race has happened: no contract has failed, and
  `Idle` (on a closed connection with no close to come nothing is left of the
  old one: this is where the second `close()` matters, since everything
  that was aborted is handled before it), `Opening` (while connecting only the
  connect is under way), `Up` (a connection that is up has a writer exactly if
  `_writing` says so) and `Once` (what was written on this connection is popped
  before the next write begins).

`Calm` cannot be weakened to the contracts alone: a stale completion left from the
connection before is harmless until the next one is up. TLC checked the invariant
on the run's instance before the proof, and its failure there for three
messages is how the second `close()` was noticed.

`ConnectionManager.tla` models `network/connection_manager.cpp`: the pool, `_out`,
the listening queue with what came in, the send thread in its sections under
`_mutex`, and the rotation of `receive()` over eight UDP turns, the listening
queue and the pool. `listen` is chosen at the start: the locator listens, a
client does not.

| run | question |
|---|---|
| `tcp_pool` | two slots, two addresses, three messages, two received, one incoming connection, breaks at any time: does a message go only to its address (`RightAddress`), does no pointer to an incoming socket outlive its owner (`NoDanglingSocket`), is a message given up only when every slot is busy (`GivesUpOnlyWhenBusy`), is TCP received however much comes over UDP (`TcpIsReceived`)? |

Three messages are the least for two slots: one each, and one more when the pool
is full. Fairness: the send thread, the thread that receives (`in_thread` of the
master post office, a loop) and the run thread of the listening queue go on
running; nothing is assumed of the network. Deadlock is not checked in either run,
because the bounds stop the models.

`tcp_listen.cfg` (`SocketComesWithData`) is violated: a connection that came in
pushes its data and then itself; `receive()` between the two finds data without a
socket and fails `CHECK(s)` (`connection_manager.cpp:353`). `_in_mutex`, which the
pushing side holds, is not taken by the side that pops. When the program
listens, moreover, `create_tcp_pool` fills every slot with a queue, which
`find_next_available` takes for used: every connect finds the pool full, tears
down the listening queue with everybody's connections, and still has no slot. The
locator does not connect to anybody, so it does not meet this. Messages that a
connection has received are lost when its address gets another slot before they
are read.

`ConnectionManagerProofs.tla` proves for any pool, any addresses and any number of
messages and connections:

* `MessagesGoToTheirAddress` (`[]RightAddress`) and `SocketsAreOwned`
  (`[]NoDanglingSocket`);
* `GivingUpMeansBusy` (`GivesUpOnlyWhenBusy`), a property of the steps;
* `ListenersOnlyAnswer`: a program that listens uses no slot for a connect, the
  statement behind the remark above;
* `OtherContractsHold`: `CHECK(s)` in `receive()` is the only contract that can fail.

`IInv` joins two halves that touch each other little. `PoolHalf`: besides
`RightAddress` and `ListenerOpensNone`, `SenderInProgress` says what the send
thread has in hand between its locked sections: the address of its message, a
fresh queue in the slot it was given until it assigns it, and after that a queue of
that address. Without it nothing is known when the next section begins, since
other threads have had the lock. `PoolShape`: an empty slot has no data and no
address left. `SocketHalf`: besides `NoDanglingSocket`, every connection that is
alive and every socket on its way is of the listening queue of now
(`SocketsOfNow`), so that what `receive()` puts into `_in_connections` is.
`TcpIsReceived` is liveness and stays with TLC.

## 8. The shared editor

`CrString.tla` has the operators of `util/vclock.hpp` and `util/crstring.cpp`:
clocks with their partial order and merge, and `cr_string::merge` with its four
outcomes. Texts are atoms, and dtl's three-way merge (vendored) is what it
does on atoms. `AppEditor.tla` models one editor of an app at every contact
(`gui/app/app_editor.cpp`, with the `new_app` message of `gui/app_area.cpp`):
`code[n]`, `data[n]`, the window with `_started`, `_run_state`, `_prev_code` and
what the backend was last given (`ran`, `ranData`).

| action | code |
|---|---|
| `TextTyped`, `CursorChanged` | `text_typed`, `cursor_changed` |
| `AddData`, `RemoveData` | `add_data`, `data_item::remove`, both with `data_updated` |
| `Update` | `update` with `init_update`, `ask_for_script`, `run_script` |
| `ReceivedNewApp`, `ReceivedScriptInit`, `ReceivedCode` | `add_new_app`, `received_script_init`, `received_code` |
| `ContactQuit` | `conversation::remove_contact` |

| run | question |
|---|---|
| `editor` | two editors, two edits of code or data (a text typed is empty, new, or one there was before), one more event (a message twice, a cursor move, a contact seen leaving): does a clock name one text (`SameVersionSameText`), does what is shown end up running (`LatestCodeRuns`), does a single author's text reach the other (`SoleAuthorPrevails`)? |
| `editor_converge` | violation: two concurrent edits leave the editors with each other's text |

Two edits are the least for concurrent versions; what merging concurrent
versions does needs no more than two editors. Fairness: the editor's timer keeps
firing and mail is delivered in the end (robust messages; `SoleAuthorPrevails`
would fail with lost mail, since a change is sent once). `Progress` is fair as
a whole, because each of its steps brings the editors closer to rest.

`LatestCodeRuns` names one exception, which the run reaches. `update` compares the
text with `_prev_code`, which is empty until its first tick: a starter whose text is
emptied before that tick, by a key or by a message, keeps the example running under
an empty editor (`EmptiedUnseen`). One more configuration, `editor_empty.cfg`
(`ShownCodeRuns`, without the exception), is violated by it with a single edit.

`editor_converge` is the finding: `cr_string` promises "eventual consistency",
but has no common ancestor to merge from. It passes the other side's text as both
descendants and its own as the ancestor, so both sides of a conflict take the
other's text, each under a new clock it does not send. The editors differ until
somebody types again. What `SameVersionSameText` adds is that they at least know
it: no clock ever stands for two texts.

`AppEditorProofs.tla` proves, for any number of editors, edits and messages,
`VersionsNameTexts` (`Spec => []SameVersionSameText`) and `EditorsAreTyped`. The
invariant speaks of every version anywhere, in an editor or on its way
(`Versions`), and needs one fact more than the claim: `OwnClockIsAhead`, that in every
version the component of an author is at most what that author has in its
own editor. So the clock of a new edit, or of a merge that increments its own
component, is equal to no clock anywhere, and a clock taken over comes with
its text. `LatestCodeRuns` and `SoleAuthorPrevails` are liveness and stay with
TLC.

## 9. Scripted apps

`LuaApp.tla` models an app with a Lua backend: `lua_api` and `backend_client` on
the backend's thread (a `service`), `qt_frontend_client` with its Qt signals,
`qt_frontend` and the windows on the GUI thread, and the reaper of closed apps.
`back[a]` holds the references the script has made, by number and kind, and
what the thread does or waits for; `inbox[a]` is its mailbox; `events` is Qt's
event queue of the GUI thread; `front[a]` are the widgets; `gui` and `reaper`
say where these threads are. A script is any sequence of the
calls the API offers: making a widget (`CallMake`), changing one (`CallSet`),
asking for a value (`CallGet`, which waits with a limit in `get_until`), opening a
file (`CallOpenFile`, which waits without one). The GUI thread runs slots
(`Slot`), passes events to the backend (`UserEvent`), runs an editor's script
again (`Rerun`), closes windows (`CloseApp`) and ends the program (`Quit`,
`DestroyApp`, `Exit`), waiting for the reaper and the backends as the
destructors do.

| run | question |
|---|---|
| `lua_app` | one app that is also an editor, two calls, two events, one rerun: does an event of the old script never reach a callback of the new (`LateEventsFindNoCallback`), does a stopped frontend stay empty though signals are still queued (`StoppedFrontStaysEmpty`), is a window deleted only after its backend's thread has ended (`CleanedAfterBackend`), and does everything stop at the end (`EverythingStops`)? |

Fairness: the GUI thread's event loop (which includes a user who closes a file
dialog in the end), every backend thread and the reaper run; nothing else is
assumed of the user. `EverythingStops` has one exception, named `Caught`: a backend
that waits in `open_file` when the program ends is waiting for a GUI thread that
waits for it, and the program hangs. `LateEventsFindNoCallback` rests on numbers
that `new_id` never gives twice: `reset_refs` forgets only some kinds of
references. For the others (drop-downs, drawings, microphones) the property says no
more than that the reference is the one the event came from: such a reference
outlives the script, and the callback it names is called in the new one
(`api.cpp:1261`, `api.cpp:1413`).

Every question has a promise of its own, so an answer that comes after the limit is
dropped even when the backend has asked something else since (`StillAsked`).

`AppProofs.tla` proves for any number of apps, calls, events and reruns
`CallbacksBelongToTheScript` (`[]LateEventsFindNoCallback`), `StoppedFrontendsStayEmpty`
(`[]StoppedFrontStaysEmpty`) and `CleanupComesLast` (`[]CleanedAfterBackend`). `AppInv` adds
to the three:

* `NumbersNameWidgets`: a number was given out before it is seen anywhere, and
  names one widget wherever it is: in the references, in the frontend, in
  signals and in events. So a number that survives `reset_refs` in a
  late event cannot mean a widget of the new script.
* `HandlerInProgress`: the references of the kinds that `reset_refs` clears are all
  of the script that runs, and no handler is under way between two messages.
* `ReaperHasClosed`: what the reaper has, in its queue or in hand, is no longer open.
* `CleanupsAfterEnd`: a queued cleanup is for a closed app whose backend has ended.

That everything stops (`EverythingStops`) stays with TLC.

## 10. App data on disk

`KeyValueStore.tla` states what the table of an app's data promises:
operations touch their own keys only; when one has ended its keys hold what was
asked for, and no later crash changes that, short of one that loses the whole
table (`Crash`) or a save over the whole table that breaks off (`BreakOff`); a key that a late read has spoilt fails. `DiskStore.tla` models
`util/disk_store.cpp` with the files: an operation holds the lock and goes through
its keys (`OpenFile`, `PutFile`, `DeleteFile`), then empties and writes the index
(`OpenIndex`, `SaveIndex`); `Crash` may come at any point; `SaveApp` is
`gui/app/app.cpp` replacing the data of an app that nobody has open, which exports
the copy's data only after the old ones are gone, and so loses them when the copy has
a spoilt key (`ExportThrows`); `Has` and
`Get` are `store_ref_get`, which takes the lock twice.

| run | question |
|---|---|
| `persist` | three keys, two values, any request: do the files implement the table (`ImplementsTable`), and does a free lock mean that the index on disk is the one in memory (`IdleMeansSaved`)? |

The refinement maps an entry with its file to the value it reads as, an open
object to `up`, the lock to `busy`, the request to `asked`, and to `unsettled` the
keys of the request and those that a failed import has left in memory. Three keys
are the least for an import that meets a spoilt key after one key and before
another.

What the table cannot promise, and the abstract specification says so: the index
file is emptied and rewritten by every change, so that a crash at that moment
loses all keys; a save over an app's data that fails on the copy leaves nothing
(`app.cpp:310-316`); and `get` of a key that was removed after `has` inserts an entry
without a name, on which later calls throw.

`AppProofs.tla` proves both properties for every set of keys and values, from
`StoreAssumption` alone (the values are not the marks `Absent`, `Blank`, `Broken`).
Neither is inductive: that the index on disk is right when the lock is freed
depends on what the operation did while it held it. The invariant `IInv` says what
is true in the middle, and each of its parts is needed by a step:

* `OpShape`: the index file is empty only between `OpenIndex` and `SaveIndex`, and
  the keys still to be done are among those asked for. `Crash` needs it to know
  that a lost table is the fault of a running operation.
* `OpKeys`: a request stores or removes, never both, and the file being written is
  the one the index names; only the wipe of `save_app` mixes them.
* `ClearsAll`: of the removals only `clear` has several keys, and it was asked for
  every entry there is. Without it the index that `clear` saves after each key
  could save an entry of somebody else, left over from a failed import.
* `KeysDone`: the keys already done hold what was asked for, which is what `Done`
  of `KeyValueStore` demands at the end.
* `Indexes`: the two indexes differ at most by entries not yet saved and by
  removals of the running operation whose file is already gone. `Crash` and `Close`
  need it, as they replace one index by the other.
* `LeftOver`: unsaved entries under a free lock come with a spoilt key.

One lemma per action shows that the action keeps `IInv` (`...Keeps`), and one that
it is a step of `KeyValueStore` or changes nothing there (`...Maps`); `NextKeeps` and
`NextMaps` join them. `SavedWhenIdle` is `Spec => []IdleMeansSaved`, and
`FilesImplementTable` is `Spec => ImplementsTable`, the refinement itself.

Not modelled: errors of writing; the app's code and metadata files; two objects
on one directory (the same app opened twice), each with an index of its own.

## 11. Users and the locator

`Greeter.tla` composes the user services of several users with the locator. Every
user is a contact of every other. `UserService` (section 4) is one process and one
contact in detail; here a contact is busy (connecting or connected) or offline,
and the subject is what each side knows of the other's address.

| state and actions | code |
|---|---|
| `listed`, `mail`, `busy`, `known` | the greeters in the user's file, a `register_with_greeter` in the mailbox, contacts that are not offline, `addresses()` of a contact |
| `users`, `channels`, `incoming` | the locator's map of users, its `encrypted_channels`, the connections it takes for connected |
| `reconnect`, `received_register_with_greeter` | the reconnect thread, `do_regiser_with_greeter`: a registration by TCP, the same by UDP, a question for every offline contact |
| `add_greeter`, `remove_greeter`, `received_greet_key_response` | the user's edits, and the key that comes back |
| `received_greet_find_response`, `received_connect_request` | a request to the local and to the external endpoint; the answer to one |
| `RegisterByTcp`, `RegisterByUdp`, `find_user`, `send_pub_key` | the loop of `firelocator.cpp` |
| `Move`, `Notice`, `NoticeIncoming`, `LoseRegistration`, `LoseRequest`, `Drop`, `Restart` | the network and the locator's process |

The network is external. An endpoint is a kind, a user and a number: local or
external at a place, or the end of a TCP connection. A NAT gives a user one UDP
endpoint per place, does not turn a datagram around, and lets in only what comes
from where the user has sent to (`hole`). The pings that keep a contact are not
messages: `Hears` says that they would arrive, and a contact that is not heard is
given up (`fire_contact_disconnected_event`).

| run | question |
|---|---|
| `greeter` | two users, at two places, one of whom moves to the other's place, or a datagram is lost, or the locator restarts or is removed and added: do they meet in the end and stay in touch (`TheyMeet`)? |

Bounds. A fault of each kind, one in a behaviour (`Faults`); a second of a
kind meets nothing that the first has not left behind, because each round of
`reconnect` starts the whole exchange anew. Two users are all that `find_user` has
to do with. One remembered address (`MAX_ADDRESSES`, three in the code) is the
hardest case, since nothing but the locator can tell of another. `MaxQueue` and
`MaxAnswers` bound what is on a connection, a round waits for the registration of
the last, and a user moves only when it has met the other and nothing is under
way. Deadlock is not checked: users without a locator are quiet.

Fairness: the threads and the locator's loop run, TCP delivers or the break is
noticed, and a datagram arrives that is not lost. It is strong in two places, where
a bound makes an action wait: the locator waits for room in two connections at
once, and a contact is given up only while no request is on its way. Nothing
is assumed of how registrations are ordered: the mutant of `update_address` that
takes the endpoint of the latest registration for the external one fails, since in
every round the one by TCP can come last and be given away.

Not modelled: several locators; `MAX_ADDRESSES` above one together with faults;
NATs that give each destination another endpoint, with which users at different
places do not meet through the locator.

## 12. Not modelled

* `slb`, `dtl` and the Lua interpreter under `slb/lua`: vendored, and most of the
  repository's lines. What the binding gives scripts is in `LuaApp`.
* Drawing, layout, sound and text widgets of the GUI; only what they do to the
  state of other components is modelled.
* Users' files (`user/user.cpp`): five files written in place one after the
  other; any mixture of old and new can be left by a crash, and the code neither
  detects nor repairs it. Some callers save without `_mutex`.
* Introductions: a contact passes two others' keys and addresses on, and the user
  confirms them. `UserService` has `confirm_contact`.
* STUN (`stun_gun`): one request and one answer of Qt's UDP socket.
* Encoders (`mencode`, `serialize`, `compress`): conversions. One oddity met on
  the way: `decode_key` returns early on a key of length zero and leaves the
  digits of the length in its buffer, so the empty key is read back as `"0"`
  (`util/mencode.cpp:476`).
* The main programs: command lines and wiring.

Liveness is only model-checked: fairness is out of the prover's reach. The
configurations named in sections 3, 4, 6 and 7 that show a violation are kept for
the reader and are not among the runs of PROJECT.json.
