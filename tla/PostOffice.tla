----------------------------- MODULE PostOffice -----------------------------
(***************************************************************************)
(* The tree of post offices (message/post_office, mailbox) that carries    *)
(* messages between the mailboxes of a process, and to the outside.        *)
(*                                                                         *)
(* Every office has a thread that takes messages from the outboxes of its  *)
(* mailboxes and calls send.  send calls send of a child while it holds    *)
(* _post_m, and send of the parent after it has released it; a call is a   *)
(* frame on the calling thread's stack, so that calls of several threads   *)
(* interleave and the locks are held for as long as the code holds them.   *)
(* The root's in_thread (master_post) is one more thread that calls send.  *)
(*                                                                         *)
(* An address is a sequence of names.  Offices and mailboxes have names of *)
(* their own.                                                              *)
(***************************************************************************)
EXTENDS Naturals, Sequences, FiniteSets

CONSTANTS
    Office,         \* the post offices
    Root,           \* the master post office
    Parent,         \* Parent[o]: the office that o was added to
    Box,            \* the mailboxes
    Home,           \* Home[b]: the office that b was added to
    Letters,        \* Letters[b]: the addresses that b's owner writes to
    Arrivals,       \* addresses (without the root's) of messages from outside
    Mortal,         \* the mailboxes that may be destroyed
    MaxRemovals,    \* bound: mailboxes destroyed
    None            \* no thread

ASSUME OfficeAssumption ==
    /\ IsFiniteSet(Office) /\ Root \in Office
    /\ Parent \in [Office \ {Root} -> Office]
    /\ Home \in [Box -> Office]
    /\ Office \intersect Box = {}
    /\ Mortal \subseteq Box
    /\ MaxRemovals \in Nat

InThread == "in_thread"
Thread == Office \union {InThread}
Outside == "outside"

ASSUME ThreadAssumption ==
    /\ None \notin Thread
    /\ InThread \notin Office
    /\ Outside \notin Office \union Box

\* Names are strings, and an address is any list of them.
ASSUME AddressAssumption ==
    /\ Office \union Box \union {Outside} \subseteq STRING
    /\ Letters \in [Box -> Seq(Seq(STRING))]
    /\ Arrivals \subseteq Seq(STRING)

\* No office is below itself ("organized as an n-ary tree", message/README.md):
\* post_office::add refuses the office itself and makes the other one its child.
ASSUME TreeAssumption ==
    \E depth \in [Office -> 0 .. Cardinality(Office)] :
        \A o \in Office \ {Root} : depth[Parent[o]] < depth[o]

VARIABLES
    open,           \* the mailboxes that exist
    outbox,         \* outbox[b]: messages b's owner has pushed
    inbox,          \* inbox[b]: messages delivered
    outside,        \* messages handed to send_outside
    arrivals,       \* messages from outside not yet received
    stack,          \* stack[t]: the calls of send that thread t is in
    result,         \* result[t]: what the call that just returned gave
    post_m,         \* post_m[o]: the thread that holds o's _post_m
    removals        \* what MaxRemovals counts

vars == <<open, outbox, inbox, outside, arrivals, stack, result, post_m, removals>>

\* A message: who wrote it (a mailbox, or outside), whether it is an answer,
\* and its two addresses.
Letter(w, a, to, from) == [writer |-> w, answer |-> a, to |-> to, from |-> from]

Top(t) == stack[t][Len(stack[t])]
Below(t) == SubSeq(stack[t], 1, Len(stack[t]) - 1)
Call(o, m) == [office |-> o, m |-> m, at |-> "enter"]

\* send drops the office's own name from the front of the address.
OwnDropped(o, m) ==
    IF Len(m.to) > 1 /\ Head(m.to) = o THEN [m EXCEPT !.to = Tail(@)] ELSE m

Children(o) == {c \in Office \ {Root} : Parent[c] = o}

\* Mutant: the address grows at the wrong end.
FromBack(o, m) == [m EXCEPT !.from = @ \o <<o>>]

\* The office's name goes to the front of the address to answer to.
From(o, m) == [m EXCEPT !.from = <<o>> \o @]

\* Thread t is at the start of a call of send.
Entered(t) == stack[t] # <<>> /\ result[t] = "none"

----------------------------------------------------------------------------
\* send_thread: the next message of a mailbox.
TakeOut(o, b) ==
    /\ stack[o] = <<>>
    /\ b \in open /\ Home[b] = o
    /\ outbox[b] # <<>>
    /\ outbox' = [outbox EXCEPT ![b] = Tail(@)]
    /\ stack' = [stack EXCEPT ![o] =
                    <<Call(o, [Head(outbox[b]) EXCEPT !.from = <<b>> \o @])>>]
    /\ UNCHANGED <<open, inbox, outside, arrivals, result, post_m, removals>>

\* in_thread: the next message from outside.
TakeIn(m) ==
    /\ stack[InThread] = <<>>
    /\ m \in arrivals
    /\ arrivals' = arrivals \ {m}
    /\ stack' = [stack EXCEPT ![InThread] = <<Call(Root, m)>>]
    /\ UNCHANGED <<open, outbox, inbox, outside, result, post_m, removals>>

\* send: one name is left, a mailbox of this office or nobody's.
ToMailbox(t, o, m) ==
    /\ Len(m.to) <= 1
    /\ IF m.to # <<>> /\ Head(m.to) \in open /\ Home[Head(m.to)] = o
       THEN /\ inbox' = [inbox EXCEPT ![Head(m.to)] = Append(@, m)]
            /\ result' = [result EXCEPT ![t] = "sent"]
       ELSE /\ UNCHANGED inbox
            /\ result' = [result EXCEPT ![t] = "failed"]
    /\ UNCHANGED <<open, outbox, outside, arrivals, stack, post_m, removals>>

\* send: the next name is a child; it is called with _post_m held.
ToChild(t, o, m) ==
    /\ Len(m.to) > 1
    /\ post_m[o] = None
    /\ Head(m.to) \in Children(o)
    /\ post_m' = [post_m EXCEPT ![o] = t]
    /\ LET cp == From(o, [m EXCEPT !.to = Tail(@)])
       IN  stack' = [stack EXCEPT ![t] =
                       Below(t) \o <<[office |-> o, m |-> m, at |-> "child"],
                                     Call(Head(m.to), cp)>>]
    /\ UNCHANGED <<open, outbox, inbox, outside, arrivals, result, removals>>

\* send, last lines: to the parent, or from the root to the outside.
Delegate(t, rest, o, m) ==
    IF o = Root
    THEN /\ outside' = outside \union {From(o, m)}
         /\ result' = [result EXCEPT ![t] = "sent"]
         /\ stack' = [stack EXCEPT ![t] = rest \o <<Call(o, m)>>]
    ELSE /\ stack' = [stack EXCEPT ![t] = rest \o <<Call(Parent[o], From(o, m))>>]
         /\ result' = [result EXCEPT ![t] = "none"]
         /\ UNCHANGED outside

\* Mutant: the lock is kept while the parent is called.
ToParentLocked(t, o, m) ==
    /\ Len(m.to) > 1
    /\ post_m[o] = None
    /\ Head(m.to) \notin Children(o)
    /\ post_m' = [post_m EXCEPT ![o] = t]
    /\ Delegate(t, Below(t), o, m)
    /\ UNCHANGED <<open, outbox, inbox, arrivals, removals>>

\* send: the next name is no child of this office.
ToParent(t, o, m) ==
    /\ Len(m.to) > 1
    /\ post_m[o] = None
    /\ Head(m.to) \notin Children(o)
    /\ Delegate(t, Below(t), o, m)
    /\ UNCHANGED <<open, outbox, inbox, arrivals, post_m, removals>>

\* Mutant: the lock is released only when the child has sent.
ReturnLocked(t) ==
    /\ result[t] # "none"
    /\ LET rest == Below(t)
           caller == rest[Len(rest)]
       IN  IF rest = <<>>
           THEN /\ stack' = [stack EXCEPT ![t] = <<>>]
                /\ result' = [result EXCEPT ![t] = "none"]
                /\ UNCHANGED <<post_m, outside>>
           ELSE /\ post_m' = [post_m EXCEPT ![caller.office] =
                              IF result[t] = "sent" THEN None ELSE @]
                /\ IF result[t] = "sent"
                   THEN /\ stack' = [stack EXCEPT ![t] =
                                       SubSeq(rest, 1, Len(rest) - 1)
                                         \o <<Call(caller.office, caller.m)>>]
                        /\ UNCHANGED <<result, outside>>
                   ELSE Delegate(t, SubSeq(rest, 1, Len(rest) - 1),
                                 caller.office, caller.m)
    /\ UNCHANGED <<open, outbox, inbox, arrivals, removals>>

\* A call returns: to a caller that holds its _post_m, or to the thread.
Return(t) ==
    /\ result[t] # "none"
    /\ LET rest == Below(t)
           caller == rest[Len(rest)]
       IN  IF rest = <<>>
           THEN /\ stack' = [stack EXCEPT ![t] = <<>>]
                /\ result' = [result EXCEPT ![t] = "none"]
                /\ UNCHANGED <<post_m, outside>>
           ELSE /\ post_m' = [post_m EXCEPT ![caller.office] = None]
                /\ IF result[t] = "sent"
                   THEN /\ stack' = [stack EXCEPT ![t] =
                                       SubSeq(rest, 1, Len(rest) - 1)
                                         \o <<Call(caller.office, caller.m)>>]
                        /\ UNCHANGED <<result, outside>>
                   ELSE Delegate(t, SubSeq(rest, 1, Len(rest) - 1),
                                 caller.office, caller.m)
    /\ UNCHANGED <<open, outbox, inbox, arrivals, removals>>

\* The owner of a mailbox answers a message to the address it came from.
Answer(b) ==
    /\ b \in open
    /\ inbox[b] # <<>>
    /\ inbox' = [inbox EXCEPT ![b] = Tail(@)]
    /\ LET m == Head(inbox[b])
       IN  outbox' = [outbox EXCEPT ![b] =
                        IF m.answer THEN @
                        ELSE Append(@, Letter(m.writer, TRUE, m.from, <<>>))]
    /\ UNCHANGED <<open, outside, arrivals, stack, result, post_m, removals>>

\* A mailbox is destroyed; the office's weak pointer to it expires.
Destroy(b) ==
    /\ removals < MaxRemovals
    /\ removals' = removals + 1
    /\ b \in Mortal /\ b \in open
    /\ open' = open \ {b}
    /\ outbox' = [outbox EXCEPT ![b] = <<>>]
    /\ inbox' = [inbox EXCEPT ![b] = <<>>]
    /\ UNCHANGED <<outside, arrivals, stack, result, post_m>>
----------------------------------------------------------------------------
Init ==
    /\ open = Box
    /\ outbox = [b \in Box |->
                    [i \in DOMAIN Letters[b] |-> Letter(b, FALSE, Letters[b][i], <<>>)]]
    /\ inbox = [b \in Box |-> <<>>]
    /\ outside = {}
    /\ arrivals = {Letter(Outside, TRUE, a, <<Outside>>) : a \in Arrivals}
    /\ stack = [t \in Thread |-> <<>>]
    /\ result = [t \in Thread |-> "none"]
    /\ post_m = [o \in Office |-> None]
    /\ removals = 0

send(t) ==
    \/ /\ Entered(t)
       /\ LET o == Top(t).office
              m == OwnDropped(o, Top(t).m)
          IN  ToMailbox(t, o, m) \/ ToChild(t, o, m) \/ ToParent(t, o, m)
    \/ Return(t)

Next ==
    \/ \E o \in Office, b \in Box : TakeOut(o, b)
    \/ \E m \in arrivals : TakeIn(m)
    \/ \E t \in Thread : send(t)
    \/ \E b \in Box : Answer(b) \/ Destroy(b)

Spec == Init /\ [][Next]_vars

\* Threads run as long as they can, and the owners of mailboxes read them.
FairSpec ==
    /\ Spec
    /\ \A o \in Office : WF_vars(\E b \in Box : TakeOut(o, b))
    /\ WF_vars(\E m \in arrivals : TakeIn(m))
    /\ \A t \in Thread : WF_vars(send(t))
    /\ \A b \in Box : WF_vars(Answer(b))
----------------------------------------------------------------------------
\* Thread t is about to lock _post_m of o.
Waits(t, o) ==
    /\ Entered(t)
    /\ Top(t).office = o /\ Len(OwnDropped(o, Top(t).m).to) > 1

WaitsFor(t, u) == \E o \in Office : Waits(t, o) /\ post_m[o] = u

\* o, in send with _post_m held, has called a child, and what the child cannot
\* send has come back to o (`_parent->send(m)`).
DelegatedBack(t, o) ==
    Len(stack[t]) > 1 /\ Top(t).office = o /\ stack[t][Len(stack[t]) - 1].office = o

(***************************************************************************)
(* A message that a child cannot send comes back to the parent, as         *)
(* message/README.md says, and if it is the parent who has called the      *)
(* child, its _post_m is held and not recursive: the thread waits for      *)
(* itself for ever, and so do others behind it.  Mail to a mailbox two     *)
(* levels down that has gone is enough.  That is the only deadlock: no     *)
(* thread waits for itself in any other way, and however calls of several  *)
(* threads go up and down the tree, none wait for each other in a circle.  *)
(***************************************************************************)
OnlyDelegationBackBlocks ==
    /\ \A t \in Thread, o \in Office :
          Waits(t, o) /\ post_m[o] = t => DelegatedBack(t, o)
    /\ \A S \in (SUBSET Thread) \ {{}} : \E t \in S : \A u \in S \ {t} : ~WaitsFor(t, u)

\* The address that send collects in from leads back to the writer: an answer
\* is only ever delivered to the mailbox that wrote the message, and leaves the
\* process only when that mailbox is gone.
AnswersReturn ==
    /\ \A b \in Box : \A i \in DOMAIN inbox[b] :
          inbox[b][i].answer /\ inbox[b][i].writer \in Box => inbox[b][i].writer = b
    /\ \A m \in outside : m.answer => m.writer \notin open

\* The threads that wait for themselves, and all who wait for one of them
Stuck == UNION {S \in SUBSET Thread :
                  \A t \in S : WaitsFor(t, t) \/ \E u \in S \ {t} : WaitsFor(t, u)}

(***************************************************************************)
(* Nothing else stays on the way: every message ends in a mailbox, outside *)
(* or with the caller that learns that it failed, except what is left to   *)
(* the threads that are stuck behind a delegation back to a parent.        *)
(***************************************************************************)
EverythingArrives ==
    <>[](/\ \A t \in Thread \ Stuck : stack[t] = <<>>
         /\ \A b \in open : inbox[b] = <<>> /\ (Home[b] \notin Stuck => outbox[b] = <<>>)
         /\ InThread \notin Stuck => arrivals = {})
=============================================================================
