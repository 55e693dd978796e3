-------------------------- MODULE PostOfficeProofs --------------------------
(***************************************************************************)
(* Proofs about PostOffice, for every tree of offices, all mailboxes, any  *)
(* letters and any mailboxes that are destroyed: an office's _post_m is    *)
(* held exactly by the threads that are in a call of one of its children,  *)
(* answers return, and no thread waits for ever for a lock except behind a *)
(* message that a child has delegated back to the parent that called it.   *)
(***************************************************************************)
EXTENDS PostOffice, SequenceTheorems, FiniteSetTheorems, WellFoundedInduction, TLAPS

-----------------------------------------------------------------------------
\* Addresses.

\* The name before the i-th of an address that is read at office o.
Stop(o, a, i) == IF i = 1 THEN o ELSE a[i - 1]

Last(a) == a[Len(a)]

Near(o, p) == p \in Children(o) \/ o \in Children(p)

\* Read at office o, the names of a are offices, each next to the one before,
\* and then a mailbox of the last of them.
Walk(o, a) ==
    /\ a # <<>>
    /\ \A i \in 1 .. Len(a) - 1 : a[i] \in Office /\ Near(Stop(o, a, i), a[i])
    /\ Last(a) \in Box
    /\ Home[Last(a)] = Stop(o, a, Len(a))

Leads(o, a, w) == Walk(o, a) /\ Last(a) = w

\* A message for w comes to office o: o's own name may still be in front.
Arriving(o, a, w) ==
    \/ Leads(o, a, w)
    \/ Len(a) > 1 /\ Head(a) = o /\ Leads(o, Tail(a), w)

Message == [writer : Box \union {Outside}, answer : BOOLEAN,
            to : Seq(STRING), from : Seq(STRING)]

Frame == [office : Office, m : Message, at : {"enter", "child"}]

TypeOK ==
    /\ open \subseteq Box
    /\ outbox \in [Box -> Seq(Message)]
    /\ inbox \in [Box -> Seq(Message)]
    /\ outside \subseteq Message
    /\ arrivals \subseteq Message
    /\ stack \in [Thread -> Seq(Frame)]
    /\ result \in [Thread -> {"none", "sent", "failed"}]
    /\ post_m \in [Office -> Thread \union {None}]
    /\ removals \in 0 .. MaxRemovals

-----------------------------------------------------------------------------
\* The invariant.  s is the stack of a thread: the calls that have called a
\* child, and then the call that runs or has just returned with x.

Callers(s) == 1 .. Len(s) - 1

Shaped(s, x) ==
    /\ s = <<>> => x = "none"
    /\ \A i \in Callers(s) : s[i].at = "child"
    /\ s # <<>> => s[Len(s)].at = "enter"

\* Of the locks p thread t holds those of its callers, each of them once.
Holding(t, s, p) ==
    /\ \A i \in Callers(s) : p[s[i].office] = t
    /\ \A i, j \in Callers(s) : s[i].office = s[j].office => i = j
    /\ \A o \in Office : p[o] = t => \E i \in Callers(s) : s[i].office = o

\* _post_m of an office is held exactly by the thread that is in a call of a
\* child of the office, and by no thread for two calls.
LocksHeldByCallers ==
    \A t \in Thread : Shaped(stack[t], result[t]) /\ Holding(t, stack[t], post_m)

IsAnswer(m) == m.answer /\ m.writer \in Box

\* All calls of a thread carry the same letter.
OneLetter(s) ==
    \A i \in DOMAIN s : /\ s[i].m.writer = s[1].m.writer
                        /\ s[i].m.answer = s[1].m.answer

\* What a call of office o carries: the address of a letter leads back to its
\* writer, that of an answer ends with the one it is for.
Carries(o, m) ==
    /\ ~m.answer => Leads(o, m.from, m.writer)
    /\ IsAnswer(m) => m.to # <<>> /\ Last(m.to) = m.writer

Carried(s) == \A i \in DOMAIN s : Carries(s[i].office, s[i].m)

\* An answer on the way still leads to the one it is for, if that one exists;
\* it fails only if it does not.
Returning(f, x, boxes) ==
    IsAnswer(f.m) /\ f.m.writer \in boxes =>
        /\ x = "none" => Arriving(f.office, f.m.to, f.m.writer)
        /\ x # "failed"

OnTheWay(s, x, boxes) ==
    /\ OneLetter(s)
    /\ Carried(s)
    /\ s # <<>> => Returning(s[Len(s)], x, boxes)

Delivered(b, m) ==
    /\ ~m.answer => Leads(Home[b], m.from, m.writer)
    /\ IsAnswer(m) => m.writer = b

Posted(b, m) ==
    /\ m.from = <<>>
    /\ ~m.answer => m.writer = b
    /\ IsAnswer(m) => Leads(Home[b], m.to, m.writer)

MailReturns ==
    /\ \A t \in Thread : OnTheWay(stack[t], result[t], open)
    /\ \A b \in Box : \A i \in DOMAIN inbox[b] : Delivered(b, inbox[b][i])
    /\ \A b \in Box : \A i \in DOMAIN outbox[b] : Posted(b, outbox[b][i])
    /\ \A m \in outside : IsAnswer(m) => m.writer \notin open
    /\ \A m \in arrivals : m.answer /\ m.writer = Outside

IInv == TypeOK /\ LocksHeldByCallers /\ MailReturns

-----------------------------------------------------------------------------
\* Sequences.

LEMMA OneOrMore == ASSUME NEW n \in Nat \ {0} PROVE n = 1 \/ n > 1
  OBVIOUS

LEMMA OneLess == ASSUME NEW n \in Nat, n > 1 PROVE (n - 1) + 1 = n /\ n - 1 # 0
  OBVIOUS

\* A new front.
LEMMA Fronted ==
    ASSUME NEW S, NEW a \in Seq(S), NEW x \in S
    PROVE  /\ <<x>> \o a \in Seq(S)
           /\ Len(<<x>> \o a) = Len(a) + 1
           /\ (<<x>> \o a)[1] = x
           /\ \A i \in 1 .. Len(a) : (<<x>> \o a)[i + 1] = a[i]
  OBVIOUS

LEMMA Single == ASSUME NEW S, NEW x \in S PROVE <<x>> \in Seq(S)
  OBVIOUS

\* A sequence without its front.
LEMMA Tailed ==
    ASSUME NEW S, NEW a \in Seq(S), a # <<>>
    PROVE  /\ Head(a) = a[1] /\ Head(a) \in S
           /\ Tail(a) \in Seq(S)
           /\ Len(Tail(a)) = Len(a) - 1
           /\ \A i \in 1 .. Len(a) - 1 : Tail(a)[i] = a[i + 1]
  OBVIOUS

\* q is s without its last element.
FrontOf(q, s) == /\ Len(q) = Len(s) - 1
                 /\ \A i \in 1 .. Len(s) - 1 : q[i] = s[i]

LEMMA Shorter ==
    ASSUME NEW S, NEW s \in Seq(S), s # <<>>
    PROVE  /\ SubSeq(s, 1, Len(s) - 1) \in Seq(S)
           /\ FrontOf(SubSeq(s, 1, Len(s) - 1), s)
           /\ SubSeq(s, 1, Len(s) - 1) = <<>> <=> Len(s) = 1
  <1>1. Len(s) \in Nat \ {0} BY EmptySeq
  <1>2. /\ Len(s) - 1 \in Nat /\ (Len(s) - 1) - 1 + 1 = Len(s) - 1
        /\ \A i \in 1 .. Len(s) - 1 : s[i] \in S
    BY <1>1
  <1> DEFINE q == SubSeq(s, 1, Len(s) - 1)
  <1>3. q \in Seq(S) BY <1>2, SubSeqProperties
  <1>4. Len(q) = Len(s) - 1 BY <1>2, SubSeqProperties
  <1>5. \A i \in 1 .. Len(s) - 1 : q[i] = s[i] BY <1>1
  <1> HIDE DEF q
  <1>6. q = <<>> <=> Len(q) = 0 BY <1>3, EmptySeq
  <1>7. q = <<>> <=> Len(s) = 1 BY <1>1, <1>4, <1>6
  <1> QED BY <1>3, <1>4, <1>5, <1>7 DEF FrontOf, q

LEMMA OneMore ==
    ASSUME NEW S, NEW q \in Seq(S), NEW x \in S
    PROVE  /\ q \o <<x>> \in Seq(S) /\ Len(q \o <<x>>) = Len(q) + 1
           /\ \A i \in 1 .. Len(q) : (q \o <<x>>)[i] = q[i]
           /\ (q \o <<x>>)[Len(q) + 1] = x
  OBVIOUS

LEMMA TwoMore ==
    ASSUME NEW S, NEW q \in Seq(S), NEW x \in S, NEW y \in S
    PROVE  /\ q \o <<x, y>> \in Seq(S) /\ Len(q \o <<x, y>>) = Len(q) + 2
           /\ \A i \in 1 .. Len(q) : (q \o <<x, y>>)[i] = q[i]
           /\ (q \o <<x, y>>)[Len(q) + 1] = x /\ (q \o <<x, y>>)[Len(q) + 2] = y
  OBVIOUS

\* The last element replaced by two.
LEMMA Pushed ==
    ASSUME NEW S, NEW s \in Seq(S), s # <<>>, NEW q \in Seq(S), FrontOf(q, s),
           NEW x \in S, NEW y \in S
    PROVE  /\ q \o <<x, y>> \in Seq(S)
           /\ Len(q \o <<x, y>>) = Len(s) + 1
           /\ \A i \in 1 .. Len(s) - 1 : (q \o <<x, y>>)[i] = s[i]
           /\ (q \o <<x, y>>)[Len(s)] = x
           /\ (q \o <<x, y>>)[Len(s) + 1] = y
  <1>1. Len(s) \in Nat \ {0} BY EmptySeq
  <1>2. Len(q) + 1 = Len(s) /\ Len(q) + 2 = Len(s) + 1 BY <1>1 DEF FrontOf
  <1> QED BY <1>1, <1>2, TwoMore DEF FrontOf

\* The last element replaced by another.
LEMMA Replaced ==
    ASSUME NEW S, NEW s \in Seq(S), s # <<>>, NEW q \in Seq(S), FrontOf(q, s), NEW x \in S
    PROVE  /\ q \o <<x>> \in Seq(S)
           /\ Len(q \o <<x>>) = Len(s)
           /\ \A i \in 1 .. Len(s) - 1 : (q \o <<x>>)[i] = s[i]
           /\ (q \o <<x>>)[Len(s)] = x
  <1>1. Len(s) \in Nat \ {0} BY EmptySeq
  <1>2. Len(q) + 1 = Len(s) BY <1>1 DEF FrontOf
  <1> QED BY <1>1, <1>2, OneMore DEF FrontOf

-----------------------------------------------------------------------------
\* Messages.

LEMMA DroppedIsMessage ==
    ASSUME NEW o \in Office, NEW m \in Message
    PROVE  /\ OwnDropped(o, m) \in Message
           /\ OwnDropped(o, m).writer = m.writer
           /\ OwnDropped(o, m).answer = m.answer
           /\ OwnDropped(o, m).from = m.from
           /\ OwnDropped(o, m).to = IF Len(m.to) > 1 /\ Head(m.to) = o THEN Tail(m.to) ELSE m.to
  <1>1. CASE Len(m.to) > 1 /\ Head(m.to) = o
    <2>1. Tail(m.to) \in Seq(STRING) BY <1>1, Tailed DEF Message
    <2> QED BY <1>1, <2>1 DEF OwnDropped, Message
  <1>2. CASE ~(Len(m.to) > 1 /\ Head(m.to) = o)
    BY <1>2 DEF OwnDropped
  <1> QED BY <1>1, <1>2

LEMMA FromIsMessage ==
    ASSUME NEW o \in Office, NEW m \in Message
    PROVE  /\ From(o, m) \in Message
           /\ From(o, m).writer = m.writer
           /\ From(o, m).answer = m.answer
           /\ From(o, m).to = m.to
           /\ From(o, m).from = <<o>> \o m.from
  BY AddressAssumption, Fronted DEF From, Message

LEMMA TailIsMessage ==
    ASSUME NEW m \in Message, m.to # <<>>, NEW d, d = [m EXCEPT !.to = Tail(@)]
    PROVE  /\ d \in Message
           /\ d.writer = m.writer /\ d.answer = m.answer /\ d.from = m.from
           /\ d.to = Tail(m.to)
  BY Tailed DEF Message

LEMMA CallIsFrame ==
    ASSUME NEW o \in Office, NEW m \in Message
    PROVE  /\ Call(o, m) \in Frame
           /\ Call(o, m).office = o /\ Call(o, m).m = m /\ Call(o, m).at = "enter"
           /\ [office |-> o, m |-> m, at |-> "child"] \in Frame
  BY DEF Call, Frame

-----------------------------------------------------------------------------
\* Walks.

LEMMA NotBelowItself ==
    ASSUME NEW o \in Office, NEW p \in Children(o) PROVE p # o /\ p \in Office \ {Root} /\ Parent[p] = o
  <1>1. PICK depth \in [Office -> 0 .. Cardinality(Office)] :
           \A c \in Office \ {Root} : depth[Parent[c]] < depth[c]
    BY TreeAssumption
  <1>2. p \in Office \ {Root} /\ Parent[p] = o BY DEF Children
  <1>3. depth[o] < depth[p] BY <1>1, <1>2
  <1>4. depth[o] \in 0 .. Cardinality(Office) /\ depth[p] \in 0 .. Cardinality(Office)
    BY <1>1, <1>2
  <1> QED BY <1>2, <1>3, <1>4

\* One more office in front of a walk.
LEMMA WalkLonger ==
    ASSUME NEW o \in Office, NEW p \in Office, Near(o, p), NEW a \in Seq(STRING),
           NEW w, Leads(o, a, w)
    PROVE  Leads(p, <<o>> \o a, w)
  <1> DEFINE c == <<o>> \o a
  <1>1. /\ c \in Seq(STRING) /\ Len(c) = Len(a) + 1 /\ c[1] = o
        /\ \A i \in 1 .. Len(a) : c[i + 1] = a[i]
    BY Fronted, AddressAssumption
  <1>2. Len(a) \in Nat \ {0} BY DEF Leads, Walk
  <1> HIDE DEF c
  <1>3. ASSUME NEW i \in 1 .. Len(c) - 1
        PROVE  c[i] \in Office /\ Near(Stop(p, c, i), c[i])
    <2>1. CASE i = 1 BY <1>1, <2>1 DEF Stop, Near
    <2>2. CASE i > 1
      <3>1. i - 1 \in 1 .. Len(a) - 1 BY <1>1, <1>2, <2>2
      <3>2. a[i - 1] \in Office /\ Near(Stop(o, a, i - 1), a[i - 1])
        BY <3>1 DEF Leads, Walk
      <3>3. c[i] = a[i - 1] BY <1>1, <3>1
      <3>4. Stop(p, c, i) = Stop(o, a, i - 1)
        <4>1. CASE i = 2 BY <4>1, <1>1 DEF Stop
        <4>2. CASE i > 2
          <5>1. i - 2 \in 1 .. Len(a) BY <4>2, <3>1
          <5>2. c[(i - 2) + 1] = a[i - 2] BY <5>1, <1>1
          <5> QED BY <5>2, <4>2 DEF Stop
        <4> QED BY <4>1, <4>2, <2>2
      <3> QED BY <3>2, <3>3, <3>4
    <2> QED BY <2>1, <2>2
  <1>4. Last(c) = Last(a) BY <1>1, <1>2 DEF Last
  <1>5. Stop(p, c, Len(c)) = Stop(o, a, Len(a))
    <2>1. CASE Len(a) = 1 BY <2>1, <1>1 DEF Stop
    <2>2. CASE Len(a) > 1
      <3>1. c[(Len(a) - 1) + 1] = a[Len(a) - 1] BY <1>1, <1>2, <2>2
      <3> QED BY <3>1, <2>2, <1>1, <1>2 DEF Stop
    <2>3. Len(a) = 1 \/ Len(a) > 1 BY <1>2, OneOrMore
    <2> QED BY <2>1, <2>2, <2>3
  <1>6. c # <<>> BY <1>1, <1>2
  <1> QED BY <1>3, <1>4, <1>5, <1>6 DEF Leads, Walk, c

\* A walk from its first office on.
LEMMA WalkShorter ==
    ASSUME NEW o \in Office, NEW a \in Seq(STRING), NEW w, Leads(o, a, w), Len(a) > 1
    PROVE  /\ Head(a) \in Office /\ Near(o, Head(a))
           /\ Leads(Head(a), Tail(a), w)
  <1> DEFINE c == Tail(a)
  <1>1. /\ c \in Seq(STRING) /\ Len(c) = Len(a) - 1 /\ Head(a) = a[1]
        /\ \A i \in 1 .. Len(a) - 1 : c[i] = a[i + 1]
    BY Tailed
  <1>2. Len(a) \in Nat BY DEF Leads, Walk
  <1> HIDE DEF c
  <1>3. a[1] \in Office /\ Near(o, a[1]) BY <1>2 DEF Leads, Walk, Stop
  <1>4. ASSUME NEW i \in 1 .. Len(c) - 1
        PROVE  c[i] \in Office /\ Near(Stop(Head(a), c, i), c[i])
    <2>1. i + 1 \in 1 .. Len(a) - 1 BY <1>1, <1>2
    <2>2. a[i + 1] \in Office /\ Near(Stop(o, a, i + 1), a[i + 1])
      BY <2>1 DEF Leads, Walk
    <2>3. c[i] = a[i + 1] BY <1>1, <2>1
    <2>4. Stop(Head(a), c, i) = Stop(o, a, i + 1)
      <3>1. CASE i = 1 BY <3>1, <1>1 DEF Stop
      <3>2. CASE i > 1
        <4>1. c[i - 1] = a[(i - 1) + 1] BY <3>2, <2>1, <1>1
        <4> QED BY <4>1, <3>2 DEF Stop
      <3> QED BY <3>1, <3>2
    <2> QED BY <2>2, <2>3, <2>4
  <1>5. Last(c) = Last(a) BY <1>1, <1>2 DEF Last
  <1>6. Stop(Head(a), c, Len(c)) = Stop(o, a, Len(a))
    <2>1. CASE Len(a) - 1 = 1 BY <2>1, <1>1 DEF Stop
    <2>2. CASE Len(a) - 1 > 1
      <3>1. c[Len(a) - 2] = a[(Len(a) - 2) + 1] BY <1>1, <1>2, <2>2
      <3> QED BY <3>1, <2>2, <1>1, <1>2 DEF Stop
    <2>3. Len(a) - 1 \in Nat \ {0} BY <1>2
    <2>4. Len(a) - 1 = 1 \/ Len(a) - 1 > 1 BY <2>3, OneOrMore
    <2> QED BY <2>1, <2>2, <2>4
  <1>7. c # <<>> BY <1>1, <1>2
  <1> QED BY <1>1, <1>3, <1>4, <1>5, <1>6, <1>7 DEF Leads, Walk, c

\* The own name in front is dropped, and the rest leads on.
LEMMA DroppedLeads ==
    ASSUME NEW o \in Office, NEW m \in Message, NEW w, Arriving(o, m.to, w)
    PROVE  Leads(o, OwnDropped(o, m).to, w)
  <1>1. CASE Leads(o, m.to, w)
    <2>1. ASSUME Len(m.to) > 1 PROVE Head(m.to) # o
      <3>1. Head(m.to) \in Office /\ Near(o, Head(m.to))
        BY <1>1, <2>1, WalkShorter DEF Message
      <3> QED BY <3>1, NotBelowItself DEF Near
    <2>2. OwnDropped(o, m).to = m.to BY <2>1, DroppedIsMessage
    <2> QED BY <1>1, <2>2
  <1>2. CASE Len(m.to) > 1 /\ Head(m.to) = o /\ Leads(o, Tail(m.to), w)
    BY <1>2, DroppedIsMessage
  <1> QED BY <1>1, <1>2 DEF Arriving

\* A name that is no child's is the parent's.
LEMMA LeadsUp ==
    ASSUME NEW o \in Office, NEW a \in Seq(STRING), NEW w, Leads(o, a, w),
           Len(a) > 1, Head(a) \notin Children(o)
    PROVE  o # Root /\ Parent[o] \in Office /\ Arriving(Parent[o], a, w)
  <1>1. Head(a) \in Office /\ Near(o, Head(a)) /\ Leads(Head(a), Tail(a), w)
    BY WalkShorter
  <1>2. o # Root /\ Parent[o] = Head(a) BY <1>1, NotBelowItself DEF Near
  <1> QED BY <1>1, <1>2, OfficeAssumption DEF Arriving

\* The last name of a shorter address.
LEMMA LastStays ==
    ASSUME NEW a \in Seq(STRING), Len(a) > 1
    PROVE  Tail(a) \in Seq(STRING) /\ Tail(a) # <<>> /\ Last(Tail(a)) = Last(a)
  <1>1. Len(a) \in Nat OBVIOUS
  <1>2. /\ Tail(a) \in Seq(STRING) /\ Len(Tail(a)) = Len(a) - 1
        /\ \A i \in 1 .. Len(a) - 1 : Tail(a)[i] = a[i + 1]
    BY Tailed
  <1>3. Tail(a)[Len(a) - 1] = a[(Len(a) - 1) + 1] BY <1>1, <1>2
  <1>4. (Len(a) - 1) + 1 = Len(a) /\ Len(a) - 1 # 0 BY <1>1, OneLess
  <1>5. Last(Tail(a)) = Last(a) BY <1>2, <1>3, <1>4 DEF Last
  <1>6. Tail(a) # <<>> BY <1>2, <1>4
  <1> QED BY <1>2, <1>5, <1>6

LEMMA DroppedEnds ==
    ASSUME NEW o \in Office, NEW m \in Message, m.to # <<>>
    PROVE  OwnDropped(o, m).to # <<>> /\ Last(OwnDropped(o, m).to) = Last(m.to)
  BY DroppedIsMessage, LastStays DEF Message

\* Dropping the own name changes nothing else.
LEMMA DroppedCarries ==
    ASSUME NEW o \in Office, NEW m \in Message, Carries(o, m)
    PROVE  Carries(o, OwnDropped(o, m))
  <1>1. /\ OwnDropped(o, m).writer = m.writer /\ OwnDropped(o, m).answer = m.answer
        /\ OwnDropped(o, m).from = m.from
    BY DroppedIsMessage
  <1>2. ASSUME IsAnswer(m) PROVE OwnDropped(o, m).to # <<>> /\ Last(OwnDropped(o, m).to) = m.writer
    BY <1>2, DroppedEnds DEF Carries
  <1> QED BY <1>1, <1>2 DEF Carries, IsAnswer

\* A call of a neighbour carries what the caller carried.
LEMMA PassedOn ==
    ASSUME NEW o \in Office, NEW p \in Office, Near(o, p), NEW m \in Message, Carries(o, m)
    PROVE  Carries(p, From(o, m))
  <1>1. /\ From(o, m).writer = m.writer /\ From(o, m).answer = m.answer
        /\ From(o, m).to = m.to /\ From(o, m).from = <<o>> \o m.from
    BY FromIsMessage
  <1>2. ASSUME ~m.answer PROVE Leads(p, <<o>> \o m.from, m.writer)
    BY <1>2, WalkLonger DEF Carries, Message
  <1> QED BY <1>1, <1>2 DEF Carries, IsAnswer

\* What is passed to child p of office o.
ToBelow(o, m) == From(o, [m EXCEPT !.to = Tail(@)])

LEMMA PassedDown ==
    ASSUME NEW o \in Office, NEW m \in Message, Carries(o, m), Len(m.to) > 1,
           Head(m.to) \in Children(o)
    PROVE  /\ ToBelow(o, m) \in Message
           /\ ToBelow(o, m).writer = m.writer /\ ToBelow(o, m).answer = m.answer
           /\ ToBelow(o, m).to = Tail(m.to) /\ ToBelow(o, m).from = <<o>> \o m.from
           /\ Carries(Head(m.to), ToBelow(o, m))
  <1> DEFINE d == [m EXCEPT !.to = Tail(@)]
  <1>1. /\ Tail(m.to) \in Seq(STRING) /\ Tail(m.to) # <<>>
        /\ Last(Tail(m.to)) = Last(m.to)
    BY LastStays DEF Message
  <1>2. m.to # <<>> OBVIOUS
  <1>3. /\ d \in Message /\ d.writer = m.writer /\ d.answer = m.answer
        /\ d.from = m.from /\ d.to = Tail(m.to)
    BY <1>2, TailIsMessage
  <1>4. ToBelow(o, m) = From(o, d) BY DEF ToBelow
  <1> HIDE DEF d
  <1>5. Carries(o, d) BY <1>1, <1>3 DEF Carries, IsAnswer
  <1>6. Head(m.to) \in Office /\ Near(o, Head(m.to)) BY DEF Near, Children
  <1>7. Carries(Head(m.to), From(o, d)) BY <1>3, <1>5, <1>6, PassedOn
  <1>8. /\ From(o, d) \in Message /\ From(o, d).writer = d.writer
        /\ From(o, d).answer = d.answer /\ From(o, d).to = d.to
        /\ From(o, d).from = <<o>> \o d.from
    BY <1>3, FromIsMessage
  <1> QED BY <1>3, <1>4, <1>7, <1>8

-----------------------------------------------------------------------------
\* Locks.

LEMMA CallIsTyped ==
    ASSUME NEW s \in Seq(Frame), NEW i \in 1 .. Len(s)
    PROVE  /\ s[i] \in Frame /\ s[i].office \in Office /\ s[i].m \in Message
           /\ s[i].at \in {"enter", "child"}
  <1>1. s[i] \in Frame OBVIOUS
  <1> QED BY <1>1 DEF Frame

LEMMA CallersAreTyped ==
    ASSUME NEW s \in Seq(Frame), NEW i \in Callers(s)
    PROVE  i \in 1 .. Len(s) /\ s[i] \in Frame /\ s[i].office \in Office
  <1>1. Len(s) \in Nat OBVIOUS
  <1>2. i \in 1 .. Len(s) BY <1>1 DEF Callers
  <1> QED BY <1>2, CallIsTyped

LEMMA FirstCall ==
    ASSUME NEW f \in Frame, f.at = "enter", NEW t, NEW p, Holding(t, <<>>, p)
    PROVE  Shaped(<<f>>, "none") /\ Holding(t, <<f>>, p)
  <1>1. Len(<<f>>) = 1 /\ <<f>>[1] = f /\ <<f>> # <<>> OBVIOUS
  <1>2. Callers(<<f>>) = {} /\ Callers(<<>>) = {} BY <1>1 DEF Callers
  <1> QED BY <1>1, <1>2 DEF Shaped, Holding

\* The last call is replaced: none of the callers is concerned.
LEMMA LastReplaced ==
    ASSUME NEW s \in Seq(Frame), s # <<>>, NEW q \in Seq(Frame), FrontOf(q, s),
           NEW f \in Frame, f.at = "enter", NEW t, NEW p, Holding(t, s, p),
           \A i \in Callers(s) : s[i].at = "child", NEW x
    PROVE  /\ q \o <<f>> \in Seq(Frame)
           /\ Shaped(q \o <<f>>, x)
           /\ Holding(t, q \o <<f>>, p)
  <1> DEFINE r == q \o <<f>>
  <1>1. /\ r \in Seq(Frame) /\ Len(r) = Len(s)
        /\ \A i \in 1 .. Len(s) - 1 : r[i] = s[i]
        /\ r[Len(s)] = f
    BY Replaced
  <1>2. Len(s) \in Nat \ {0} BY EmptySeq
  <1> HIDE DEF r
  <1>3. Callers(r) = Callers(s) /\ \A i \in Callers(s) : r[i] = s[i]
    BY <1>1 DEF Callers
  <1>4. r # <<>> BY <1>1, <1>2
  <1>5. Shaped(r, x) BY <1>1, <1>3, <1>4 DEF Shaped
  <1>6. Holding(t, r, p) BY <1>3 DEF Holding
  <1> QED BY <1>1, <1>5, <1>6 DEF r

\* The last call takes the lock of its office and calls a child.
LEMMA LockTaken ==
    ASSUME NEW s \in Seq(Frame), s # <<>>, NEW q \in Seq(Frame), FrontOf(q, s),
           NEW c \in Frame, c.at = "child", NEW f \in Frame, f.at = "enter",
           NEW t \in Thread, NEW p, p \in [Office -> Thread \union {None}], Holding(t, s, p),
           \A i \in Callers(s) : s[i].at = "child", NEW x,
           p[c.office] = None
    PROVE  /\ q \o <<c, f>> \in Seq(Frame)
           /\ Shaped(q \o <<c, f>>, x)
           /\ Holding(t, q \o <<c, f>>, [p EXCEPT ![c.office] = t])
  <1> DEFINE r == q \o <<c, f>>
  <1> DEFINE p2 == [p EXCEPT ![c.office] = t]
  <1>1. /\ r \in Seq(Frame) /\ Len(r) = Len(s) + 1
        /\ \A i \in 1 .. Len(s) - 1 : r[i] = s[i]
        /\ r[Len(s)] = c /\ r[Len(s) + 1] = f
    BY Pushed
  <1>2. Len(s) \in Nat \ {0} BY EmptySeq
  <1>3. /\ \A o \in Office : p2[o] = IF o = c.office THEN t ELSE p[o]
        /\ c.office \in Office /\ t # None
    BY ThreadAssumption DEF Frame
  <1>4. \A i \in Callers(s) : s[i].office \in Office
    BY CallersAreTyped
  <1> HIDE DEF r, p2
  <1>5. Callers(r) = Callers(s) \union {Len(s)} /\ Len(s) \notin Callers(s)
    BY <1>1, <1>2 DEF Callers
  <1>6. \A i \in Callers(s) : r[i] = s[i] BY <1>1 DEF Callers
  <1>7. r # <<>> BY <1>1, <1>2
  <1>8. \A i \in Callers(s) : s[i].office # c.office BY <1>3 DEF Holding
  <1>9. Shaped(r, x) BY <1>1, <1>5, <1>6, <1>7 DEF Shaped
  <1>10. Holding(t, r, p2)
    <2>1. \A i \in Callers(r) : p2[r[i].office] = t
      BY <1>1, <1>3, <1>4, <1>5, <1>6 DEF Holding
    <2>2. \A i, j \in Callers(r) : r[i].office = r[j].office => i = j
      BY <1>1, <1>5, <1>6, <1>8 DEF Holding
    <2>3. \A o \in Office : p2[o] = t => \E i \in Callers(r) : r[i].office = o
      BY <1>1, <1>3, <1>5, <1>6 DEF Holding
    <2> QED BY <2>1, <2>2, <2>3 DEF Holding
  <1> QED BY <1>1, <1>9, <1>10 DEF r, p2

\* The last call has returned: its caller gives the lock back.
LEMMA LockGiven ==
    ASSUME NEW s \in Seq(Frame), NEW q \in Seq(Frame), FrontOf(q, s), q # <<>>,
           NEW t \in Thread, NEW p, p \in [Office -> Thread \union {None}], Holding(t, s, p)
    PROVE  Holding(t, q, [p EXCEPT ![q[Len(q)].office] = None])
  <1> DEFINE n == Len(q)
  <1> DEFINE p2 == [p EXCEPT ![q[n].office] = None]
  <1>1. n \in Nat \ {0} /\ n = Len(s) - 1 /\ Len(s) \in Nat BY EmptySeq DEF FrontOf
  <1>2. \A i \in 1 .. n : q[i] = s[i] /\ q[i].office \in Office
    BY <1>1, CallIsTyped DEF FrontOf
  <1>3. \A o \in Office : p2[o] = IF o = q[n].office THEN None ELSE p[o] OBVIOUS
  <1>4. t # None BY ThreadAssumption
  <1>5. Callers(q) \union {n} = Callers(s) /\ n \notin Callers(q) /\ Callers(q) \subseteq 1 .. n
        /\ n \in 1 .. n
    BY <1>1 DEF Callers
  <1> HIDE DEF n, p2
  <1>6. ASSUME NEW i \in Callers(q) PROVE q[i].office # q[n].office
    BY <1>2, <1>5 DEF Holding
  <1>7. \A i \in Callers(q) : p2[q[i].office] = t
    BY <1>2, <1>3, <1>5, <1>6 DEF Holding
  <1>8. \A i, j \in Callers(q) : q[i].office = q[j].office => i = j
    BY <1>2, <1>5 DEF Holding
  <1>9. \A o \in Office : p2[o] = t => \E i \in Callers(q) : q[i].office = o
    BY <1>2, <1>3, <1>4, <1>5 DEF Holding
  <1> QED BY <1>7, <1>8, <1>9 DEF Holding, n, p2

\* What thread t does with a lock that it takes or holds does not concern
\* thread u.
LEMMA OthersHold ==
    ASSUME NEW t \in Thread, NEW u \in Thread, u # t, NEW s \in Seq(Frame),
           NEW p, p \in [Office -> Thread \union {None}], Holding(u, s, p),
           NEW o \in Office, p[o] \in {t, None}, NEW x \in {t, None}
    PROVE  Holding(u, s, [p EXCEPT ![o] = x])
  <1>1. u # None BY ThreadAssumption
  <1>2. \A i \in Callers(s) : s[i].office \in Office BY CallersAreTyped
  <1>3. \A c \in Office : [p EXCEPT ![o] = x][c] = u <=> p[c] = u BY <1>1
  <1> QED BY <1>2, <1>3 DEF Holding

-----------------------------------------------------------------------------
\* Letters on the way.

\* Two calls carry the same letter.
SameLetter(f, g) == f.m.writer = g.m.writer /\ f.m.answer = g.m.answer

LEMMA FirstLetter ==
    ASSUME NEW f \in Frame, Carries(f.office, f.m), NEW boxes, Returning(f, "none", boxes)
    PROVE  <<f>> \in Seq(Frame) /\ OnTheWay(<<f>>, "none", boxes)
  <1>1. /\ <<f>> \in Seq(Frame) /\ Len(<<f>>) = 1 /\ <<f>>[1] = f
        /\ DOMAIN <<f>> = {1}
    OBVIOUS
  <1> QED BY <1>1 DEF OnTheWay, OneLetter, Carried

LEMMA LetterReplaced ==
    ASSUME NEW s \in Seq(Frame), s # <<>>, NEW q \in Seq(Frame), FrontOf(q, s),
           OneLetter(s), Carried(s),
           NEW f \in Frame, SameLetter(f, s[Len(s)]), Carries(f.office, f.m),
           NEW x, NEW boxes, Returning(f, x, boxes)
    PROVE  OnTheWay(q \o <<f>>, x, boxes)
  <1> DEFINE r == q \o <<f>>
  <1>1. /\ r \in Seq(Frame) /\ Len(r) = Len(s)
        /\ \A i \in 1 .. Len(s) - 1 : r[i] = s[i]
        /\ r[Len(s)] = f
    BY Replaced
  <1>2. Len(s) \in Nat \ {0} BY EmptySeq
  <1> HIDE DEF r
  <1>3. DOMAIN r = 1 .. Len(s) /\ DOMAIN s = 1 .. Len(s) BY <1>1
  <1>4. ASSUME NEW i \in 1 .. Len(s) PROVE i = Len(s) \/ r[i] = s[i] BY <1>1, <1>2
  <1>5. ASSUME NEW i \in 1 .. Len(s)
        PROVE  r[i].m.writer = s[1].m.writer /\ r[i].m.answer = s[1].m.answer
    BY <1>1, <1>2, <1>3, <1>4 DEF OneLetter, SameLetter
  <1>6. OneLetter(r)
    <2>1. 1 \in 1 .. Len(s) BY <1>2
    <2> QED BY <1>3, <1>5, <2>1 DEF OneLetter
  <1>7. Carried(r) BY <1>1, <1>3, <1>4 DEF Carried
  <1> QED BY <1>1, <1>6, <1>7 DEF OnTheWay, r

LEMMA LetterPassed ==
    ASSUME NEW s \in Seq(Frame), s # <<>>, NEW q \in Seq(Frame), FrontOf(q, s),
           OneLetter(s), Carried(s),
           NEW c \in Frame, SameLetter(c, s[Len(s)]), Carries(c.office, c.m),
           NEW f \in Frame, SameLetter(f, s[Len(s)]), Carries(f.office, f.m),
           NEW x, NEW boxes, Returning(f, x, boxes)
    PROVE  OnTheWay(q \o <<c, f>>, x, boxes)
  <1> DEFINE r == q \o <<c, f>>
  <1>1. /\ r \in Seq(Frame) /\ Len(r) = Len(s) + 1
        /\ \A i \in 1 .. Len(s) - 1 : r[i] = s[i]
        /\ r[Len(s)] = c /\ r[Len(s) + 1] = f
    BY Pushed
  <1>2. Len(s) \in Nat \ {0} BY EmptySeq
  <1> HIDE DEF r
  <1>3. DOMAIN r = 1 .. Len(s) + 1 /\ DOMAIN s = 1 .. Len(s) BY <1>1
  <1>4. ASSUME NEW i \in 1 .. Len(s) + 1
        PROVE  \/ i = Len(s) /\ r[i] = c
               \/ i = Len(s) + 1 /\ r[i] = f
               \/ i \in 1 .. Len(s) /\ r[i] = s[i]
    BY <1>1, <1>2
  <1>5. Len(s) \in 1 .. Len(s) /\ 1 \in 1 .. Len(s) + 1 BY <1>2
  <1>6. ASSUME NEW i \in 1 .. Len(s) + 1
        PROVE  r[i].m.writer = s[1].m.writer /\ r[i].m.answer = s[1].m.answer
    BY <1>3, <1>4, <1>5 DEF OneLetter, SameLetter
  <1>7. OneLetter(r) BY <1>3, <1>5, <1>6 DEF OneLetter
  <1>8. Carried(r) BY <1>3, <1>4 DEF Carried
  <1>9. r[Len(r)] = f BY <1>1
  <1> QED BY <1>7, <1>8, <1>9 DEF OnTheWay, r

\* The callers carry the letter of the call that returns.
LEMMA CallersCarry ==
    ASSUME NEW s \in Seq(Frame), NEW q \in Seq(Frame), FrontOf(q, s), q # <<>>,
           OneLetter(s), Carried(s)
    PROVE  /\ OneLetter(q) /\ Carried(q)
           /\ q[Len(q)] \in Frame
           /\ SameLetter(q[Len(q)], s[Len(s)])
           /\ Carries(q[Len(q)].office, q[Len(q)].m)
  <1>1. Len(q) \in Nat \ {0} /\ Len(q) = Len(s) - 1 /\ Len(s) \in Nat \ {0}
    BY EmptySeq DEF FrontOf
  <1>2. \A i \in 1 .. Len(q) : q[i] = s[i] /\ i \in 1 .. Len(s) BY <1>1 DEF FrontOf
  <1>3. DOMAIN q = 1 .. Len(q) /\ DOMAIN s = 1 .. Len(s) OBVIOUS
  <1>4. 1 \in 1 .. Len(q) /\ Len(q) \in 1 .. Len(q) /\ Len(s) \in 1 .. Len(s) BY <1>1
  <1>5. OneLetter(q) BY <1>2, <1>3, <1>4 DEF OneLetter
  <1>6. Carried(q) BY <1>2, <1>3 DEF Carried
  <1>7. q[Len(q)] \in Frame BY <1>4
  <1>8. SameLetter(q[Len(q)], s[Len(s)]) BY <1>2, <1>3, <1>4 DEF OneLetter, SameLetter
  <1>9. Carries(q[Len(q)].office, q[Len(q)].m) BY <1>3, <1>4, <1>6 DEF Carried
  <1> QED BY <1>5, <1>6, <1>7, <1>8, <1>9

\* The call that runs: its letter is what the thread is about.
LEMMA LastCall ==
    ASSUME NEW s \in Seq(Frame), s # <<>>, NEW x, NEW boxes, OnTheWay(s, x, boxes)
    PROVE  /\ s[Len(s)] \in Frame /\ s[Len(s)].office \in Office /\ s[Len(s)].m \in Message
           /\ Carries(s[Len(s)].office, s[Len(s)].m)
           /\ Returning(s[Len(s)], x, boxes)
           /\ OneLetter(s) /\ Carried(s)
  <1>1. Len(s) \in 1 .. Len(s) BY EmptySeq
  <1> QED BY <1>1, CallIsTyped DEF OnTheWay, Carried

LEMMA FewerBoxes ==
    ASSUME NEW s \in Seq(Frame), NEW x, NEW boxes, OnTheWay(s, x, boxes),
           NEW fewer, fewer \subseteq boxes
    PROVE  OnTheWay(s, x, fewer)
  BY DEF OnTheWay, Returning

-----------------------------------------------------------------------------
\* Steps of a thread.

Outcome == {"none", "sent", "failed"}

\* A step gives thread t the stack r and the result x.
Moves(t, r, x) ==
    /\ stack' \in [Thread -> Seq(Frame)] /\ stack'[t] = r
    /\ result' \in [Thread -> Outcome] /\ result'[t] = x
    /\ \A u \in Thread \ {t} : stack'[u] = stack[u] /\ result'[u] = result[u]

LEMMA StackMoves ==
    ASSUME TypeOK, NEW t \in Thread, NEW r \in Seq(Frame), NEW x \in Outcome,
           stack' = [stack EXCEPT ![t] = r], result' = [result EXCEPT ![t] = x]
    PROVE  Moves(t, r, x)
  BY DEF TypeOK, Moves, Outcome

LEMMA StackStays ==
    ASSUME TypeOK, NEW t \in Thread, NEW x \in Outcome,
           stack' = stack, result' = [result EXCEPT ![t] = x]
    PROVE  Moves(t, stack[t], x)
  BY DEF TypeOK, Moves, Outcome

LEMMA ResultStays ==
    ASSUME TypeOK, NEW t \in Thread, NEW r \in Seq(Frame),
           stack' = [stack EXCEPT ![t] = r], result' = result
    PROVE  Moves(t, r, result[t])
  BY DEF TypeOK, Moves, Outcome

LEMMA MovesMail ==
    ASSUME IInv, NEW t \in Thread, NEW r, NEW x, Moves(t, r, x), open' = open,
           OnTheWay(r, x, open), NEW u \in Thread
    PROVE  OnTheWay(stack[u], result[u], open)'
  BY DEF IInv, MailReturns, Moves

LEMMA MovesLocks ==
    ASSUME IInv, NEW t \in Thread, NEW r, NEW x, Moves(t, r, x),
           Shaped(r, x), Holding(t, r, post_m'),
           \A u \in Thread \ {t} : Holding(u, stack[u], post_m')
    PROVE  LocksHeldByCallers'
  BY DEF IInv, LocksHeldByCallers, Moves

\* Nothing but the stack and the result of a thread changes for its locks.
LEMMA MovesFree ==
    ASSUME IInv, NEW t \in Thread, NEW r, NEW x, Moves(t, r, x),
           Shaped(r, x), Holding(t, r, post_m), post_m' = post_m
    PROVE  LocksHeldByCallers'
  BY MovesLocks DEF IInv, LocksHeldByCallers

-----------------------------------------------------------------------------
LEMMA InitHolds == Init => IInv
  <1> SUFFICES ASSUME Init PROVE IInv OBVIOUS
  <1>1. TypeOK
    <2>1. outbox \in [Box -> Seq(Message)]
      <3>1. ASSUME NEW b \in Box PROVE outbox[b] \in Seq(Message)
        <4>1. Letters[b] \in Seq(Seq(STRING)) BY AddressAssumption
        <4> DEFINE l == Letters[b]
        <4> DEFINE n == Len(l)
        <4>2. n \in Nat /\ DOMAIN l = 1 .. n /\ \A i \in 1 .. n : l[i] \in Seq(STRING)
          BY <4>1
        <4>3. outbox[b] = [i \in DOMAIN l |-> Letter(b, FALSE, l[i], <<>>)]
          BY DEF Init
        <4> HIDE DEF n, l
        <4>4. ASSUME NEW i \in 1 .. n PROVE Letter(b, FALSE, l[i], <<>>) \in Message
          <5>1. l[i] \in Seq(STRING) /\ <<>> \in Seq(STRING) BY <4>2
          <5> QED BY <5>1 DEF Letter, Message
        <4>5. outbox[b] \in [1 .. n -> Message] BY <4>2, <4>3, <4>4
        <4> QED BY <4>2, <4>5, SeqDef
      <3> QED BY <3>1 DEF Init
    <2>2. arrivals \subseteq Message
      <3>1. <<Outside>> \in Seq(STRING)
        <4>1. Outside \in STRING BY AddressAssumption
        <4> HIDE DEF Outside
        <4> QED BY <4>1, Single
      <3>2. ASSUME NEW a \in Arrivals PROVE Letter(Outside, TRUE, a, <<Outside>>) \in Message
        BY <3>1, AddressAssumption DEF Letter, Message
      <3> QED BY <3>2 DEF Init
    <2>3. inbox \in [Box -> Seq(Message)] BY DEF Init
    <2>4. stack \in [Thread -> Seq(Frame)] BY DEF Init
    <2>5. /\ result \in [Thread -> {"none", "sent", "failed"}]
          /\ post_m \in [Office -> Thread \union {None}]
      BY DEF Init
    <2>6. open \subseteq Box /\ outside \subseteq Message /\ removals \in 0 .. MaxRemovals
      BY OfficeAssumption DEF Init
    <2> QED BY <2>1, <2>2, <2>3, <2>4, <2>5, <2>6 DEF TypeOK
  <1>2. LocksHeldByCallers
    <2>1. ASSUME NEW t \in Thread
          PROVE  Shaped(stack[t], result[t]) /\ Holding(t, stack[t], post_m)
      <3>1. stack[t] = <<>> /\ result[t] = "none" /\ Len(<<>>) = 0 BY DEF Init
      <3>2. Callers(<<>>) = {} BY <3>1 DEF Callers
      <3>3. \A o \in Office : post_m[o] # t BY ThreadAssumption DEF Init
      <3> QED BY <3>1, <3>2, <3>3 DEF Shaped, Holding
    <2> QED BY <2>1 DEF LocksHeldByCallers
  <1>3. MailReturns
    <2>1. \A t \in Thread : OnTheWay(stack[t], result[t], open)
      BY DEF Init, OnTheWay, OneLetter, Carried
    <2>2. ASSUME NEW b \in Box, NEW i \in DOMAIN outbox[b] PROVE Posted(b, outbox[b][i])
      <3>1. outbox[b][i] = Letter(b, FALSE, Letters[b][i], <<>>) BY DEF Init
      <3> QED BY <3>1 DEF Letter, Posted, IsAnswer
    <2>3. \A b \in Box : \A i \in DOMAIN inbox[b] : Delivered(b, inbox[b][i])
      BY DEF Init
    <2>4. outside = {} BY DEF Init
    <2>5. \A m \in arrivals : m.answer /\ m.writer = Outside BY DEF Init, Letter
    <2> QED BY <2>1, <2>2, <2>3, <2>4, <2>5 DEF MailReturns
  <1> QED BY <1>1, <1>2, <1>3 DEF IInv

-----------------------------------------------------------------------------
\* A thread takes the next message.

LEMMA Starts ==
    ASSUME IInv, NEW t \in Thread, stack[t] = <<>>, NEW o \in Office, NEW m \in Message,
           stack' = [stack EXCEPT ![t] = <<Call(o, m)>>],
           UNCHANGED <<open, result, post_m>>,
           Carries(o, m), Returning(Call(o, m), "none", open)
    PROVE  /\ stack' \in [Thread -> Seq(Frame)] /\ result' \in [Thread -> Outcome]
           /\ LocksHeldByCallers'
           /\ \A u \in Thread : OnTheWay(stack[u], result[u], open)'
  <1> DEFINE f == Call(o, m)
  <1>1. f \in Frame /\ f.office = o /\ f.m = m /\ f.at = "enter" BY CallIsFrame
  <1>2. result[t] = "none" /\ Holding(t, <<>>, post_m)
    BY DEF IInv, LocksHeldByCallers, Shaped
  <1> HIDE DEF f
  <1>3. <<f>> \in Seq(Frame) /\ OnTheWay(<<f>>, "none", open)
    BY <1>1, FirstLetter DEF f
  <1>4. Shaped(<<f>>, "none") /\ Holding(t, <<f>>, post_m) BY <1>1, <1>2, FirstCall
  <1>5. Moves(t, <<f>>, "none") BY <1>2, <1>3, ResultStays DEF IInv, f
  <1>6. LocksHeldByCallers' BY <1>4, <1>5, MovesFree
  <1>7. \A u \in Thread : OnTheWay(stack[u], result[u], open)'
    BY <1>3, <1>5, MovesMail
  <1> QED BY <1>5, <1>6, <1>7 DEF Moves

\* What a mailbox holds after its first message has been taken, or one more
\* has been pushed.
LEMMA TakenFirst ==
    ASSUME NEW l \in Seq(Message), l # <<>>
    PROVE  /\ Tail(l) \in Seq(Message) /\ Head(l) \in Message /\ 1 \in DOMAIN l /\ Head(l) = l[1]
           /\ \A i \in DOMAIN Tail(l) : i + 1 \in DOMAIN l /\ Tail(l)[i] = l[i + 1]
  <1>1. Len(l) \in Nat \ {0} BY EmptySeq
  <1>2. /\ Head(l) = l[1] /\ Head(l) \in Message
        /\ Tail(l) \in Seq(Message) /\ Len(Tail(l)) = Len(l) - 1
        /\ \A i \in 1 .. Len(l) - 1 : Tail(l)[i] = l[i + 1]
    BY Tailed
  <1>3. DOMAIN l = 1 .. Len(l) /\ DOMAIN Tail(l) = 1 .. Len(l) - 1 BY <1>2
  <1> QED BY <1>1, <1>2, <1>3

LEMMA OnePushed ==
    ASSUME NEW l \in Seq(Message), NEW m \in Message
    PROVE  /\ Append(l, m) \in Seq(Message)
           /\ \A i \in DOMAIN Append(l, m) :
                 \/ i \in DOMAIN l /\ Append(l, m)[i] = l[i]
                 \/ Append(l, m)[i] = m
  <1>1. /\ Append(l, m) \in Seq(Message) /\ Len(Append(l, m)) = Len(l) + 1
        /\ \A i \in 1 .. Len(l) : Append(l, m)[i] = l[i]
        /\ Append(l, m)[Len(l) + 1] = m
    BY AppendProperties
  <1>2. /\ DOMAIN l = 1 .. Len(l) /\ DOMAIN Append(l, m) = 1 .. Len(l) + 1
        /\ Len(l) \in Nat
    BY <1>1
  <1> QED BY <1>1, <1>2

LEMMA TakeOutKeeps ==
    ASSUME IInv, NEW o \in Office, NEW b \in Box, TakeOut(o, b) PROVE IInv'
  <1> DEFINE l == outbox[b]
  <1> DEFINE h == Head(l)
  <1> DEFINE m == [h EXCEPT !.from = <<b>> \o @]
  <1>1. l \in Seq(Message) /\ l # <<>> /\ Home[b] = o /\ b \in open
    BY DEF IInv, TypeOK, TakeOut
  <1>2. /\ Tail(l) \in Seq(Message) /\ h \in Message /\ h = l[1] /\ 1 \in DOMAIN l
        /\ \A i \in DOMAIN Tail(l) : i + 1 \in DOMAIN l /\ Tail(l)[i] = l[i + 1]
    BY <1>1, TakenFirst
  <1>3. Posted(b, h) BY <1>2 DEF IInv, MailReturns
  <1>4. /\ m \in Message /\ m.writer = h.writer /\ m.answer = h.answer
        /\ m.to = h.to /\ m.from = <<b>>
    <2>1. h.from = <<>> BY <1>3 DEF Posted
    <2>2. <<b>> \o <<>> = <<b>> /\ <<b>> \in Seq(STRING) BY AddressAssumption, Single
    <2> QED BY <1>2, <2>1, <2>2 DEF Message
  <1>5. Carries(o, m) /\ Returning(Call(o, m), "none", open)
    <2>1. Leads(o, <<b>>, b)
      BY <1>1 DEF Leads, Walk, Last, Stop
    <2>2. ASSUME IsAnswer(m) PROVE Leads(o, m.to, m.writer)
      BY <1>1, <1>3, <1>4, <2>2 DEF Posted, IsAnswer
    <2>3. ~m.answer => m.writer = b BY <1>3, <1>4 DEF Posted
    <2>4. Carries(o, m) BY <1>4, <2>1, <2>2, <2>3 DEF Carries, Leads, Walk
    <2>5. Call(o, m).m = m /\ Call(o, m).office = o BY <1>4, CallIsFrame
    <2> HIDE DEF m
    <2> QED BY <2>2, <2>4, <2>5 DEF Returning, Arriving
  <1>6. /\ stack[o] = <<>> /\ stack' = [stack EXCEPT ![o] = <<Call(o, m)>>]
        /\ outbox' = [outbox EXCEPT ![b] = Tail(l)]
        /\ UNCHANGED <<open, inbox, outside, arrivals, result, post_m, removals>>
    BY DEF TakeOut
  <1> HIDE DEF l, h, m
  <1>7. /\ stack' \in [Thread -> Seq(Frame)] /\ result' \in [Thread -> Outcome]
        /\ LocksHeldByCallers'
        /\ \A u \in Thread : OnTheWay(stack[u], result[u], open)'
    BY <1>4, <1>5, <1>6, Starts DEF Thread
  <1>8. TypeOK' BY <1>2, <1>6, <1>7 DEF IInv, TypeOK, Outcome
  <1>9. \A c \in Box : outbox'[c] = IF c = b THEN Tail(l) ELSE outbox[c]
    BY <1>6 DEF IInv, TypeOK
  <1>10. ASSUME NEW c \in Box, NEW i \in DOMAIN outbox'[c] PROVE Posted(c, outbox'[c][i])
    BY <1>2, <1>9 DEF IInv, MailReturns, l
  <1>11. MailReturns' BY <1>6, <1>7, <1>10 DEF IInv, MailReturns
  <1> QED BY <1>7, <1>8, <1>11 DEF IInv

LEMMA TakeInKeeps ==
    ASSUME IInv, NEW m \in arrivals, TakeIn(m) PROVE IInv'
  <1>1. m \in Message /\ m.answer /\ m.writer = Outside
    BY DEF IInv, TypeOK, MailReturns
  <1>2. ~IsAnswer(m) BY <1>1, ThreadAssumption DEF IsAnswer
  <1>3. Carries(Root, m) /\ Returning(Call(Root, m), "none", open)
    BY <1>1, <1>2, OfficeAssumption, CallIsFrame DEF Carries, Returning
  <1>4. /\ stack[InThread] = <<>> /\ stack' = [stack EXCEPT ![InThread] = <<Call(Root, m)>>]
        /\ arrivals' = arrivals \ {m}
        /\ UNCHANGED <<open, outbox, inbox, outside, result, post_m, removals>>
    BY DEF TakeIn
  <1>5. /\ stack' \in [Thread -> Seq(Frame)] /\ result' \in [Thread -> Outcome]
        /\ LocksHeldByCallers'
        /\ \A u \in Thread : OnTheWay(stack[u], result[u], open)'
    BY <1>1, <1>3, <1>4, Starts, OfficeAssumption DEF Thread
  <1>6. TypeOK' BY <1>4, <1>5 DEF IInv, TypeOK, Outcome
  <1>7. MailReturns' BY <1>4, <1>5 DEF IInv, MailReturns
  <1> QED BY <1>5, <1>6, <1>7 DEF IInv

-----------------------------------------------------------------------------
\* The call that runs.

\* What the invariant says of it, once its own name has been dropped.
LEMMA Running ==
    ASSUME IInv, NEW t \in Thread, Entered(t), NEW o, o = Top(t).office,
           NEW m, m = OwnDropped(o, Top(t).m)
    PROVE  /\ stack[t] \in Seq(Frame) /\ stack[t] # <<>> /\ result[t] = "none"
           /\ o \in Office /\ m \in Message
           /\ m.writer = Top(t).m.writer /\ m.answer = Top(t).m.answer
           /\ Carries(o, m)
           /\ IsAnswer(m) /\ m.writer \in open => Leads(o, m.to, m.writer)
           /\ OneLetter(stack[t]) /\ Carried(stack[t])
  <1> DEFINE s == stack[t]
  <1> DEFINE f == Top(t)
  <1>1. /\ s \in Seq(Frame) /\ s # <<>> /\ result[t] = "none" /\ f = s[Len(s)]
        /\ OnTheWay(s, "none", open)
    BY DEF Entered, IInv, TypeOK, MailReturns, Top
  <1> HIDE DEF s, f
  <1>2. /\ f \in Frame /\ f.office \in Office /\ f.m \in Message
        /\ Carries(f.office, f.m) /\ Returning(f, "none", open)
        /\ OneLetter(s) /\ Carried(s)
    BY <1>1, LastCall
  <1>3. o = f.office /\ m = OwnDropped(o, f.m) BY DEF f
  <1>4. m \in Message /\ m.writer = f.m.writer /\ m.answer = f.m.answer
    BY <1>2, <1>3, DroppedIsMessage
  <1>5. Carries(o, m) BY <1>2, <1>3, DroppedCarries
  <1>6. ASSUME IsAnswer(m), m.writer \in open PROVE Leads(o, m.to, m.writer)
    <2>1. Arriving(o, f.m.to, m.writer)
      BY <1>2, <1>3, <1>4, <1>6 DEF Returning, IsAnswer
    <2> QED BY <2>1, <1>2, <1>3, DroppedLeads
  <1> QED BY <1>1, <1>2, <1>3, <1>4, <1>5, <1>6 DEF s, f

LEMMA ToMailboxKeeps ==
    ASSUME IInv, NEW t \in Thread, Entered(t), NEW o, o = Top(t).office,
           NEW m, m = OwnDropped(o, Top(t).m), ToMailbox(t, o, m)
    PROVE  IInv'
  <1> DEFINE h == Head(m.to)
  <1> DEFINE Found == m.to # <<>> /\ h \in open /\ Home[h] = o
  <1> DEFINE x == IF Found THEN "sent" ELSE "failed"
  <1>1. /\ stack[t] \in Seq(Frame) /\ stack[t] # <<>> /\ result[t] = "none"
        /\ o \in Office /\ m \in Message
        /\ m.writer = Top(t).m.writer /\ m.answer = Top(t).m.answer
        /\ Carries(o, m)
        /\ IsAnswer(m) /\ m.writer \in open => Leads(o, m.to, m.writer)
        /\ OneLetter(stack[t]) /\ Carried(stack[t])
    BY Running
  <1>2. m.to \in Seq(STRING) /\ (m.to # <<>> => h = m.to[1]) BY <1>1, Tailed DEF Message
  <1>3. m.to # <<>> => Len(m.to) = 1 /\ Last(m.to) = h
    <2>1. ASSUME m.to # <<>> PROVE Len(m.to) = 1
      <3>1. Len(m.to) \in Nat \ {0} BY <1>2, <2>1, EmptySeq
      <3>2. ~(Len(m.to) > 1) BY <3>1 DEF ToMailbox
      <3> QED BY <3>1, <3>2, OneOrMore
    <2> QED BY <2>1, <1>2 DEF Last
  <1>4. /\ result' = [result EXCEPT ![t] = x]
        /\ inbox' = IF Found THEN [inbox EXCEPT ![h] = Append(@, m)] ELSE inbox
        /\ UNCHANGED <<open, outbox, outside, arrivals, stack, post_m, removals>>
    BY DEF ToMailbox
  <1> HIDE DEF h
  <1>5. open \subseteq Box /\ inbox \in [Box -> Seq(Message)] BY DEF IInv, TypeOK
  <1>6. Moves(t, stack[t], x) BY <1>4, StackStays DEF IInv, Outcome
  <1>7. ASSUME IsAnswer(m), m.writer \in open PROVE Found
    <2>1. Walk(o, m.to) /\ Last(m.to) = m.writer BY <1>1, <1>7 DEF Leads
    <2>2. Home[Last(m.to)] = o BY <1>3, <2>1 DEF Walk, Stop
    <2> QED BY <1>3, <1>7, <2>1, <2>2 DEF Walk
  <1>8. OnTheWay(stack[t], x, open)
    <2>1. Top(t) = stack[t][Len(stack[t])] BY DEF Top
    <2>2. Returning(Top(t), x, open)
      BY <1>1, <1>7 DEF Returning, IsAnswer
    <2> QED BY <1>1, <2>1, <2>2 DEF OnTheWay
  <1>9. /\ Holding(t, stack[t], post_m) /\ Shaped(stack[t], x)
    BY <1>1 DEF IInv, LocksHeldByCallers, Shaped
  <1> HIDE DEF x
  <1>10. LocksHeldByCallers' BY <1>4, <1>6, <1>9, MovesFree
  <1>11. \A u \in Thread : OnTheWay(stack[u], result[u], open)'
    BY <1>4, <1>6, <1>8, MovesMail
  <1>12. ASSUME NEW b \in Box
         PROVE  /\ inbox'[b] \in Seq(Message)
                /\ \A i \in DOMAIN inbox'[b] : Delivered(b, inbox'[b][i])
    <2>1. CASE Found /\ b = h
      <3>1. inbox'[b] = Append(inbox[b], m) BY <1>4, <1>5, <2>1
      <3>2. Delivered(b, m)
        BY <1>1, <1>3, <2>1 DEF Delivered, Carries
      <3>3. inbox[b] \in Seq(Message) /\ \A i \in DOMAIN inbox[b] : Delivered(b, inbox[b][i])
        BY <1>5 DEF IInv, MailReturns
      <3> QED BY <1>1, <3>1, <3>2, <3>3, OnePushed
    <2>2. CASE ~(Found /\ b = h)
      <3>1. inbox'[b] = inbox[b] BY <1>4, <1>5, <2>2
      <3> QED BY <3>1, <1>5 DEF IInv, MailReturns
    <2> QED BY <2>1, <2>2
  <1>13. inbox' \in [Box -> Seq(Message)]
    <2>1. DOMAIN inbox' = Box /\ inbox' = [b \in DOMAIN inbox' |-> inbox'[b]]
      BY <1>4, <1>5
    <2> QED BY <1>12, <2>1
  <1>14. TypeOK' BY <1>4, <1>6, <1>13 DEF IInv, TypeOK, Moves, Outcome
  <1>15. MailReturns' BY <1>4, <1>11, <1>12 DEF IInv, MailReturns
  <1> QED BY <1>10, <1>14, <1>15 DEF IInv

LEMMA ToChildKeeps ==
    ASSUME IInv, NEW t \in Thread, Entered(t), NEW o, o = Top(t).office,
           NEW m, m = OwnDropped(o, Top(t).m), ToChild(t, o, m)
    PROVE  IInv'
  <1> DEFINE s == stack[t]
  <1> DEFINE q == Below(t)
  <1> DEFINE c == [office |-> o, m |-> m, at |-> "child"]
  <1> DEFINE f == Call(Head(m.to), ToBelow(o, m))
  <1>1. /\ s \in Seq(Frame) /\ s # <<>> /\ result[t] = "none"
        /\ o \in Office /\ m \in Message
        /\ m.writer = Top(t).m.writer /\ m.answer = Top(t).m.answer
        /\ Carries(o, m)
        /\ IsAnswer(m) /\ m.writer \in open => Leads(o, m.to, m.writer)
        /\ OneLetter(s) /\ Carried(s)
    BY Running
  <1>2. q \in Seq(Frame) /\ FrontOf(q, s) BY <1>1, Shorter DEF Below
  <1>3. /\ Len(m.to) > 1 /\ Head(m.to) \in Children(o) /\ post_m[o] = None
        /\ post_m' = [post_m EXCEPT ![o] = t]
        /\ stack' = [stack EXCEPT ![t] = q \o <<c, f>>]
        /\ UNCHANGED <<open, outbox, inbox, outside, arrivals, result, removals>>
    BY DEF ToChild, ToBelow
  <1>4. Head(m.to) \in Office BY <1>3 DEF Children
  <1>5. /\ ToBelow(o, m) \in Message
        /\ ToBelow(o, m).writer = m.writer /\ ToBelow(o, m).answer = m.answer
        /\ ToBelow(o, m).to = Tail(m.to)
        /\ Carries(Head(m.to), ToBelow(o, m))
    BY <1>1, <1>3, PassedDown
  <1>6. /\ c \in Frame /\ c.office = o /\ c.m = m /\ c.at = "child"
        /\ f \in Frame /\ f.office = Head(m.to) /\ f.m = ToBelow(o, m) /\ f.at = "enter"
    BY <1>1, <1>4, <1>5, CallIsFrame
  <1>7. Top(t) = s[Len(s)] BY DEF Top
  <1>8. /\ post_m \in [Office -> Thread \union {None}]
        /\ Holding(t, s, post_m) /\ \A i \in Callers(s) : s[i].at = "child"
        /\ stack \in [Thread -> Seq(Frame)]
    BY DEF IInv, TypeOK, LocksHeldByCallers, Shaped
  <1> HIDE DEF s, q, c, f
  <1>9. Returning(f, "none", open)
    <2>1. ASSUME IsAnswer(f.m), f.m.writer \in open
          PROVE  Arriving(f.office, f.m.to, f.m.writer)
      <3>1. Leads(o, m.to, m.writer) BY <1>1, <1>5, <1>6, <2>1 DEF IsAnswer
      <3>2. Leads(Head(m.to), Tail(m.to), m.writer)
        BY <1>1, <1>3, <3>1, WalkShorter DEF Message
      <3> QED BY <1>5, <1>6, <3>2 DEF Arriving
    <2> QED BY <2>1 DEF Returning
  <1>10. SameLetter(c, s[Len(s)]) /\ SameLetter(f, s[Len(s)])
    BY <1>1, <1>5, <1>6, <1>7 DEF SameLetter
  <1>11. OnTheWay(q \o <<c, f>>, "none", open)
    BY <1>1, <1>2, <1>5, <1>6, <1>9, <1>10, LetterPassed
  <1>12. /\ q \o <<c, f>> \in Seq(Frame)
         /\ Shaped(q \o <<c, f>>, "none")
         /\ Holding(t, q \o <<c, f>>, post_m')
    BY <1>1, <1>2, <1>3, <1>6, <1>8, LockTaken
  <1>13. Moves(t, q \o <<c, f>>, "none")
    BY <1>1, <1>3, <1>12, ResultStays DEF IInv
  <1>14. ASSUME NEW u \in Thread \ {t} PROVE Holding(u, stack[u], post_m')
    <2>1. Holding(u, stack[u], post_m) /\ stack[u] \in Seq(Frame)
      BY <1>8 DEF IInv, LocksHeldByCallers
    <2>2. post_m[o] \in {t, None} /\ t \in {t, None} BY <1>3
    <2> QED BY <1>1, <1>3, <1>8, <2>1, <2>2, OthersHold
  <1>15. LocksHeldByCallers' BY <1>12, <1>13, <1>14, MovesLocks
  <1>16. \A u \in Thread : OnTheWay(stack[u], result[u], open)'
    BY <1>3, <1>11, <1>13, MovesMail
  <1>17. post_m' \in [Office -> Thread \union {None}] BY <1>3, <1>8
  <1>18. TypeOK' BY <1>3, <1>13, <1>17 DEF IInv, TypeOK, Moves, Outcome
  <1>19. MailReturns' BY <1>3, <1>16 DEF IInv, MailReturns
  <1> QED BY <1>15, <1>18, <1>19 DEF IInv

\* The last call of stack s hands the message to the parent, or outside.
LEMMA DelegateMoves ==
    ASSUME IInv, NEW t \in Thread,
           NEW s \in Seq(Frame), s # <<>>, NEW q \in Seq(Frame), FrontOf(q, s),
           OneLetter(s), Carried(s),
           NEW o \in Office, NEW m \in Message, Carries(o, m),
           m.writer = s[Len(s)].m.writer, m.answer = s[Len(s)].m.answer,
           IsAnswer(m) /\ m.writer \in open =>
               o # Root /\ Arriving(Parent[o], m.to, m.writer),
           Delegate(t, q, o, m),
           o = Root \/ result' = [result EXCEPT ![t] = "none"]
    PROVE  /\ outside' \subseteq Message
           /\ \A l \in outside' : IsAnswer(l) => l.writer \notin open
           /\ \E f \in Frame, x \in Outcome :
                 /\ f.at = "enter"
                 /\ Moves(t, q \o <<f>>, x)
                 /\ OnTheWay(q \o <<f>>, x, open)
  <1>1. /\ outside \subseteq Message /\ \A l \in outside : IsAnswer(l) => l.writer \notin open
        /\ TypeOK
    BY DEF IInv, TypeOK, MailReturns
  <1>2. /\ From(o, m) \in Message /\ From(o, m).writer = m.writer
        /\ From(o, m).answer = m.answer /\ From(o, m).to = m.to
    BY FromIsMessage
  <1>3. CASE o = Root
    <2> DEFINE f == Call(o, m)
    <2>1. f \in Frame /\ f.office = o /\ f.m = m /\ f.at = "enter" BY CallIsFrame
    <2>2. /\ outside' = outside \union {From(o, m)}
          /\ result' = [result EXCEPT ![t] = "sent"]
          /\ stack' = [stack EXCEPT ![t] = q \o <<f>>]
      BY <1>3 DEF Delegate
    <2> HIDE DEF f
    <2>3. q \o <<f>> \in Seq(Frame) BY <2>1, OneMore
    <2>4. Moves(t, q \o <<f>>, "sent") BY <1>1, <2>2, <2>3, StackMoves DEF Outcome
    <2>5. SameLetter(f, s[Len(s)]) /\ Returning(f, "sent", open)
      BY <1>3, <2>1 DEF SameLetter, Returning
    <2>6. OnTheWay(q \o <<f>>, "sent", open) BY <2>1, <2>5, LetterReplaced
    <2>7. IsAnswer(From(o, m)) => From(o, m).writer \notin open
      BY <1>2, <1>3 DEF IsAnswer
    <2> QED BY <1>1, <1>2, <2>1, <2>2, <2>4, <2>6, <2>7 DEF Outcome
  <1>4. CASE o # Root
    <2> DEFINE f == Call(Parent[o], From(o, m))
    <2>1. Parent[o] \in Office /\ Near(o, Parent[o])
      BY <1>4, OfficeAssumption DEF Near, Children
    <2>2. f \in Frame /\ f.office = Parent[o] /\ f.m = From(o, m) /\ f.at = "enter"
      BY <1>2, <2>1, CallIsFrame
    <2>3. /\ outside' = outside
          /\ result' = [result EXCEPT ![t] = "none"]
          /\ stack' = [stack EXCEPT ![t] = q \o <<f>>]
      BY <1>4 DEF Delegate
    <2> HIDE DEF f
    <2>4. q \o <<f>> \in Seq(Frame) BY <2>2, OneMore
    <2>5. Moves(t, q \o <<f>>, "none") BY <1>1, <2>3, <2>4, StackMoves DEF Outcome
    <2>6. Carries(Parent[o], From(o, m)) BY <2>1, PassedOn
    <2>7. SameLetter(f, s[Len(s)]) /\ Returning(f, "none", open)
      BY <1>2, <2>2 DEF SameLetter, Returning, IsAnswer
    <2>8. OnTheWay(q \o <<f>>, "none", open) BY <2>2, <2>6, <2>7, LetterReplaced
    <2> QED BY <1>1, <2>2, <2>3, <2>5, <2>8 DEF Outcome
  <1> QED BY <1>3, <1>4

LEMMA ToParentKeeps ==
    ASSUME IInv, NEW t \in Thread, Entered(t), NEW o, o = Top(t).office,
           NEW m, m = OwnDropped(o, Top(t).m), ToParent(t, o, m)
    PROVE  IInv'
  <1> DEFINE s == stack[t]
  <1> DEFINE q == Below(t)
  <1>1. /\ s \in Seq(Frame) /\ s # <<>> /\ result[t] = "none"
        /\ o \in Office /\ m \in Message
        /\ m.writer = Top(t).m.writer /\ m.answer = Top(t).m.answer
        /\ Carries(o, m)
        /\ IsAnswer(m) /\ m.writer \in open => Leads(o, m.to, m.writer)
        /\ OneLetter(s) /\ Carried(s)
    BY Running
  <1>2. q \in Seq(Frame) /\ FrontOf(q, s) BY <1>1, Shorter DEF Below
  <1>3. /\ Len(m.to) > 1 /\ Head(m.to) \notin Children(o)
        /\ Delegate(t, q, o, m)
        /\ UNCHANGED <<open, outbox, inbox, arrivals, post_m, removals>>
    BY DEF ToParent
  <1>4. o = Root \/ result' = [result EXCEPT ![t] = "none"] BY <1>3 DEF Delegate
  <1>5. Top(t) = s[Len(s)] BY DEF Top
  <1>6. /\ Holding(t, s, post_m) /\ \A i \in Callers(s) : s[i].at = "child"
    BY DEF IInv, LocksHeldByCallers, Shaped
  <1> HIDE DEF s, q
  <1>7. IsAnswer(m) /\ m.writer \in open =>
            o # Root /\ Arriving(Parent[o], m.to, m.writer)
    BY <1>1, <1>3, LeadsUp DEF Message
  <1>8. /\ outside' \subseteq Message
        /\ \A l \in outside' : IsAnswer(l) => l.writer \notin open
        /\ \E f \in Frame, x \in Outcome :
              /\ f.at = "enter"
              /\ Moves(t, q \o <<f>>, x)
              /\ OnTheWay(q \o <<f>>, x, open)
    BY <1>1, <1>2, <1>3, <1>4, <1>5, <1>7, DelegateMoves
  <1>9. PICK f \in Frame, x \in Outcome :
              /\ f.at = "enter"
              /\ Moves(t, q \o <<f>>, x)
              /\ OnTheWay(q \o <<f>>, x, open)
    BY <1>8
  <1>10. Shaped(q \o <<f>>, x) /\ Holding(t, q \o <<f>>, post_m)
    BY <1>1, <1>2, <1>6, <1>9, LastReplaced
  <1>11. LocksHeldByCallers' BY <1>3, <1>9, <1>10, MovesFree
  <1>12. \A u \in Thread : OnTheWay(stack[u], result[u], open)'
    BY <1>3, <1>9, MovesMail
  <1>13. TypeOK' BY <1>3, <1>8, <1>9 DEF IInv, TypeOK, Moves, Outcome
  <1>14. MailReturns' BY <1>3, <1>8, <1>12 DEF IInv, MailReturns
  <1> QED BY <1>11, <1>13, <1>14 DEF IInv

-----------------------------------------------------------------------------
\* A call returns.

LEMMA NoneBelow == ASSUME NEW n \in 0 .. 1 PROVE 1 .. n - 1 = {} /\ Len(<<>>) \in 0 .. 1
  OBVIOUS

LEMMA LastReturnKeeps ==
    ASSUME IInv, NEW t \in Thread, Return(t), Below(t) = <<>> PROVE IInv'
  <1>1. /\ stack' = [stack EXCEPT ![t] = <<>>]
        /\ result' = [result EXCEPT ![t] = "none"]
        /\ UNCHANGED <<open, outbox, inbox, outside, arrivals, post_m, removals>>
    BY DEF Return
  <1>2. /\ stack[t] \in Seq(Frame) /\ Holding(t, stack[t], post_m)
        /\ <<>> \in Seq(Frame)
    BY DEF IInv, TypeOK, LocksHeldByCallers
  <1>3. Len(stack[t]) \in 0 .. 1
    <2>1. CASE stack[t] = <<>> BY <2>1
    <2>2. CASE stack[t] # <<>> BY <1>2, <2>2, Shorter DEF Below
    <2> QED BY <2>1, <2>2
  <1>4. Callers(stack[t]) = {} /\ Callers(<<>>) = {} BY <1>3, NoneBelow DEF Callers
  <1>5. Shaped(<<>>, "none") /\ Holding(t, <<>>, post_m)
    BY <1>2, <1>4 DEF Shaped, Holding
  <1>6. Moves(t, <<>>, "none") BY <1>1, <1>2, StackMoves DEF IInv, Outcome
  <1>7. OnTheWay(<<>>, "none", open) BY DEF OnTheWay, OneLetter, Carried
  <1>8. LocksHeldByCallers' BY <1>1, <1>5, <1>6, MovesFree
  <1>9. \A u \in Thread : OnTheWay(stack[u], result[u], open)'
    BY <1>1, <1>6, <1>7, MovesMail
  <1>10. TypeOK' BY <1>1, <1>6 DEF IInv, TypeOK, Moves, Outcome
  <1>11. MailReturns' BY <1>1, <1>9 DEF IInv, MailReturns
  <1> QED BY <1>8, <1>10, <1>11 DEF IInv

\* The caller of the call that returns.
LEMMA Caller ==
    ASSUME IInv, NEW t \in Thread, Return(t), Below(t) # <<>>,
           NEW q, q = Below(t), NEW c, c = q[Len(q)]
    PROVE  /\ stack[t] \in Seq(Frame) /\ stack[t] # <<>> /\ q \in Seq(Frame)
           /\ FrontOf(q, stack[t])
           /\ c \in Frame /\ c.office \in Office /\ c.m \in Message
           /\ OneLetter(q) /\ Carried(q) /\ Carries(c.office, c.m)
           /\ SameLetter(c, Top(t))
           /\ \A i \in Callers(q) : q[i].at = "child"
           /\ post_m' = [post_m EXCEPT ![c.office] = None]
           /\ Holding(t, q, post_m')
           /\ \A u \in Thread \ {t} : Holding(u, stack[u], post_m')
           /\ post_m' \in [Office -> Thread \union {None}]
  <1> DEFINE s == stack[t]
  <1>1. /\ s \in Seq(Frame) /\ s # <<>> /\ Holding(t, s, post_m)
        /\ \A i \in Callers(s) : s[i].at = "child"
        /\ post_m \in [Office -> Thread \union {None}] /\ stack \in [Thread -> Seq(Frame)]
        /\ OnTheWay(s, result[t], open)
    BY DEF IInv, TypeOK, LocksHeldByCallers, Shaped, Return, MailReturns
  <1>2. q \in Seq(Frame) /\ FrontOf(q, s) BY <1>1, Shorter DEF Below
  <1>3. Top(t) = s[Len(s)] BY DEF Top
  <1>4. /\ c = q[Len(q)] /\ q # <<>>
        /\ post_m' = [post_m EXCEPT ![c.office] = None]
    BY DEF Return
  <1> HIDE DEF s
  <1>5. /\ OneLetter(q) /\ Carried(q) /\ c \in Frame
        /\ SameLetter(c, s[Len(s)]) /\ Carries(c.office, c.m)
    BY <1>1, <1>2, <1>4, CallersCarry DEF OnTheWay
  <1>6. Len(q) \in Nat \ {0} /\ Len(q) = Len(s) - 1 /\ Len(s) \in Nat
    BY <1>1, <1>2, <1>4, EmptySeq DEF FrontOf
  <1>7. c.office \in Office /\ c.m \in Message BY <1>5 DEF Frame
  <1>8. \A i \in Callers(q) : q[i].at = "child"
    <2>1. \A i \in Callers(q) : i \in Callers(s) /\ q[i] = s[i]
      BY <1>2, <1>6 DEF Callers, FrontOf
    <2> QED BY <1>1, <2>1
  <1>9. Holding(t, q, post_m') BY <1>1, <1>2, <1>4, LockGiven
  <1>10. post_m[c.office] = t
    <2>1. Len(q) \in Callers(s) /\ c = s[Len(q)] BY <1>2, <1>4, <1>6 DEF Callers, FrontOf
    <2> QED BY <1>1, <2>1 DEF Holding
  <1>11. ASSUME NEW u \in Thread \ {t} PROVE Holding(u, stack[u], post_m')
    <2>1. Holding(u, stack[u], post_m) /\ stack[u] \in Seq(Frame)
      BY <1>1 DEF IInv, LocksHeldByCallers
    <2>2. post_m[c.office] \in {t, None} /\ None \in {t, None} BY <1>10
    <2> QED BY <1>1, <1>4, <1>7, <2>1, <2>2, OthersHold
  <1>12. post_m' \in [Office -> Thread \union {None}] BY <1>1, <1>4
  <1> QED BY <1>1, <1>2, <1>3, <1>4, <1>5, <1>7, <1>8, <1>9, <1>11, <1>12 DEF s

\* After the step the caller is the call that runs or has returned.
LEMMA CallerGoesOn ==
    ASSUME IInv, NEW t \in Thread, Return(t), Below(t) # <<>>,
           NEW q, q = Below(t), NEW r, r = SubSeq(q, 1, Len(q) - 1),
           NEW f \in Frame, f.at = "enter", NEW x \in Outcome,
           Moves(t, r \o <<f>>, x), OnTheWay(r \o <<f>>, x, open),
           outside' \subseteq Message,
           \A l \in outside' : IsAnswer(l) => l.writer \notin open
    PROVE  IInv'
  <1>1. UNCHANGED <<open, outbox, inbox, arrivals, removals>> BY DEF Return
  <1>2. /\ q \in Seq(Frame) /\ q # <<>> /\ \A i \in Callers(q) : q[i].at = "child"
        /\ Holding(t, q, post_m')
        /\ \A u \in Thread \ {t} : Holding(u, stack[u], post_m')
        /\ post_m' \in [Office -> Thread \union {None}]
    BY Caller
  <1>3. r \in Seq(Frame) /\ FrontOf(r, q) BY <1>2, Shorter
  <1>4. Shaped(r \o <<f>>, x) /\ Holding(t, r \o <<f>>, post_m')
    BY <1>2, <1>3, LastReplaced
  <1>5. LocksHeldByCallers' BY <1>2, <1>4, MovesLocks
  <1>6. \A u \in Thread : OnTheWay(stack[u], result[u], open)' BY <1>1, MovesMail
  <1>7. TypeOK' BY <1>1, <1>2 DEF IInv, TypeOK, Moves, Outcome
  <1>8. MailReturns' BY <1>1, <1>6 DEF IInv, MailReturns
  <1> QED BY <1>5, <1>7, <1>8 DEF IInv

LEMMA ReturnKeeps ==
    ASSUME IInv, NEW t \in Thread, Return(t) PROVE IInv'
  <1>1. CASE Below(t) = <<>> BY <1>1, LastReturnKeeps
  <1>2. CASE Below(t) # <<>>
    <2> DEFINE s == stack[t]
    <2> DEFINE q == Below(t)
    <2> DEFINE c == q[Len(q)]
    <2> DEFINE r == SubSeq(q, 1, Len(q) - 1)
    <2>1. /\ s \in Seq(Frame) /\ s # <<>> /\ q \in Seq(Frame) /\ q # <<>>
          /\ c \in Frame /\ c.office \in Office /\ c.m \in Message
          /\ OneLetter(q) /\ Carried(q) /\ Carries(c.office, c.m)
          /\ SameLetter(c, Top(t))
      BY <1>2, Caller
    <2>2. r \in Seq(Frame) /\ FrontOf(r, q) BY <2>1, Shorter
    <2>3. /\ outside \subseteq Message /\ result[t] \in Outcome /\ result[t] # "none"
          /\ \A l \in outside : IsAnswer(l) => l.writer \notin open
          /\ OnTheWay(s, result[t], open) /\ TypeOK
          /\ Top(t) = s[Len(s)]
      BY DEF IInv, TypeOK, MailReturns, Return, Outcome, Top
    <2>4. CASE result[t] = "sent"
      <3> DEFINE f == Call(c.office, c.m)
      <3>1. /\ stack' = [stack EXCEPT ![t] = r \o <<f>>]
            /\ result' = result /\ outside' = outside
        BY <1>2, <2>4 DEF Return
      <3> HIDE DEF s, q, c, r
      <3>2. f \in Frame /\ f.office = c.office /\ f.m = c.m /\ f.at = "enter"
        BY <2>1, CallIsFrame
      <3> HIDE DEF f
      <3>3. r \o <<f>> \in Seq(Frame) BY <2>2, <3>2, OneMore
      <3>4. Moves(t, r \o <<f>>, "sent") BY <2>3, <2>4, <3>1, <3>3, ResultStays
      <3>5. Returning(f, "sent", open) /\ SameLetter(f, q[Len(q)])
        BY <3>2 DEF Returning, SameLetter, c
      <3>6. OnTheWay(r \o <<f>>, "sent", open)
        BY <2>1, <2>2, <3>2, <3>5, LetterReplaced
      <3> QED BY <1>2, <2>3, <3>1, <3>2, <3>4, <3>6, CallerGoesOn DEF q, r, Outcome
    <2>5. CASE result[t] = "failed"
      <3>1. Delegate(t, r, c.office, c.m) BY <1>2, <2>5 DEF Return
      <3>2. c.office = Root \/ result' = [result EXCEPT ![t] = "none"]
        BY <3>1 DEF Delegate
      <3>3. c.m.writer = q[Len(q)].m.writer /\ c.m.answer = q[Len(q)].m.answer OBVIOUS
      <3> HIDE DEF s, q, c, r
      <3>4. IsAnswer(c.m) => c.m.writer \notin open
        BY <2>1, <2>3, <2>5 DEF SameLetter, IsAnswer, OnTheWay, Returning
      <3>5. /\ outside' \subseteq Message
            /\ \A l \in outside' : IsAnswer(l) => l.writer \notin open
            /\ \E f \in Frame, x \in Outcome :
                  /\ f.at = "enter"
                  /\ Moves(t, r \o <<f>>, x)
                  /\ OnTheWay(r \o <<f>>, x, open)
        BY <2>1, <2>2, <3>1, <3>2, <3>3, <3>4, DelegateMoves
      <3> QED BY <1>2, <3>5, CallerGoesOn DEF q, r
    <2> QED BY <2>3, <2>4, <2>5 DEF Outcome
  <1> QED BY <1>1, <1>2

-----------------------------------------------------------------------------
\* The owners of mailboxes.

LEMMA AnswerKeeps ==
    ASSUME IInv, NEW b \in Box, Answer(b) PROVE IInv'
  <1> DEFINE l == inbox[b]
  <1> DEFINE h == Head(l)
  <1> DEFINE a == Letter(h.writer, TRUE, h.from, <<>>)
  <1>1. l \in Seq(Message) /\ l # <<>> /\ outbox[b] \in Seq(Message)
        /\ inbox \in [Box -> Seq(Message)] /\ outbox \in [Box -> Seq(Message)]
    BY DEF IInv, TypeOK, Answer
  <1>2. /\ Tail(l) \in Seq(Message) /\ h \in Message /\ h = l[1] /\ 1 \in DOMAIN l
        /\ \A i \in DOMAIN Tail(l) : i + 1 \in DOMAIN l /\ Tail(l)[i] = l[i + 1]
    BY <1>1, TakenFirst
  <1>3. \A i \in DOMAIN l : Delivered(b, l[i]) BY DEF IInv, MailReturns
  <1>4. /\ inbox' = [inbox EXCEPT ![b] = Tail(l)]
        /\ outbox' = [outbox EXCEPT ![b] = IF h.answer THEN @ ELSE Append(@, a)]
        /\ UNCHANGED <<open, outside, arrivals, stack, result, post_m, removals>>
    BY DEF Answer
  <1>5. a \in Message
    <2>1. <<>> \in Seq(STRING) OBVIOUS
    <2> QED BY <1>2, <2>1 DEF Letter, Message
  <1>6. ~h.answer => Posted(b, a)
    BY <1>2, <1>3 DEF Posted, Delivered, Letter, IsAnswer
  <1> HIDE DEF l, h, a
  <1>7. ASSUME NEW c \in Box
        PROVE  /\ inbox'[c] \in Seq(Message)
               /\ \A i \in DOMAIN inbox'[c] : Delivered(c, inbox'[c][i])
    <2>1. CASE c = b
      <3>1. inbox'[c] = Tail(l) BY <1>1, <1>4, <2>1
      <3> QED BY <1>2, <1>3, <2>1, <3>1
    <2>2. CASE c # b
      <3>1. inbox'[c] = inbox[c] BY <1>4, <2>2, <1>1
      <3> QED BY <3>1, <1>1 DEF IInv, MailReturns
    <2> QED BY <2>1, <2>2
  <1>8. ASSUME NEW c \in Box
        PROVE  /\ outbox'[c] \in Seq(Message)
               /\ \A i \in DOMAIN outbox'[c] : Posted(c, outbox'[c][i])
    <2>1. outbox[c] \in Seq(Message) /\ \A i \in DOMAIN outbox[c] : Posted(c, outbox[c][i])
      BY <1>1 DEF IInv, MailReturns
    <2>2. CASE c = b /\ ~h.answer
      <3>1. outbox'[c] = Append(outbox[c], a) BY <1>1, <1>4, <2>2
      <3> QED BY <1>5, <1>6, <2>1, <2>2, <3>1, OnePushed
    <2>3. CASE ~(c = b /\ ~h.answer)
      <3>1. outbox'[c] = outbox[c] BY <1>1, <1>4, <2>3
      <3> QED BY <2>1, <3>1
    <2> QED BY <2>2, <2>3
  <1>9. inbox' \in [Box -> Seq(Message)] /\ outbox' \in [Box -> Seq(Message)]
    <2>1. /\ DOMAIN inbox' = Box /\ inbox' = [c \in DOMAIN inbox' |-> inbox'[c]]
          /\ DOMAIN outbox' = Box /\ outbox' = [c \in DOMAIN outbox' |-> outbox'[c]]
      BY <1>1, <1>4
    <2> QED BY <1>7, <1>8, <2>1
  <1>10. TypeOK' BY <1>4, <1>9 DEF IInv, TypeOK
  <1>11. LocksHeldByCallers' BY <1>4 DEF IInv, LocksHeldByCallers
  <1>12. MailReturns' BY <1>4, <1>7, <1>8 DEF IInv, MailReturns
  <1> QED BY <1>10, <1>11, <1>12 DEF IInv

LEMMA DestroyKeeps ==
    ASSUME IInv, NEW b \in Box, Destroy(b) PROVE IInv'
  <1>1. /\ removals < MaxRemovals /\ removals' = removals + 1
        /\ open' = open \ {b}
        /\ outbox' = [outbox EXCEPT ![b] = <<>>]
        /\ inbox' = [inbox EXCEPT ![b] = <<>>]
        /\ UNCHANGED <<outside, arrivals, stack, result, post_m>>
    BY DEF Destroy
  <1>2. <<>> \in Seq(Message) /\ DOMAIN <<>> = {} OBVIOUS
  <1>3. removals' \in 0 .. MaxRemovals BY <1>1, OfficeAssumption DEF IInv, TypeOK
  <1>4. TypeOK' BY <1>1, <1>2, <1>3 DEF IInv, TypeOK
  <1>5. LocksHeldByCallers' BY <1>1 DEF IInv, LocksHeldByCallers
  <1>6. ASSUME NEW u \in Thread PROVE OnTheWay(stack[u], result[u], open)'
    <2>1. OnTheWay(stack[u], result[u], open) /\ stack[u] \in Seq(Frame)
      BY DEF IInv, TypeOK, MailReturns
    <2>2. OnTheWay(stack[u], result[u], open') BY <1>1, <2>1, FewerBoxes
    <2> QED BY <1>1, <2>2
  <1>7. ASSUME NEW c \in Box
        PROVE  /\ \A i \in DOMAIN inbox'[c] : Delivered(c, inbox'[c][i])
               /\ \A i \in DOMAIN outbox'[c] : Posted(c, outbox'[c][i])
    <2>1. CASE c = b BY <1>1, <1>2, <2>1 DEF IInv, TypeOK
    <2>2. CASE c # b BY <1>1, <2>2 DEF IInv, TypeOK, MailReturns
    <2> QED BY <2>1, <2>2
  <1>8. MailReturns' BY <1>1, <1>6, <1>7 DEF IInv, MailReturns
  <1> QED BY <1>4, <1>5, <1>8 DEF IInv

-----------------------------------------------------------------------------
LEMMA SendKeeps ==
    ASSUME IInv, NEW t \in Thread, send(t) PROVE IInv'
  <1> DEFINE o == Top(t).office
  <1> DEFINE m == OwnDropped(o, Top(t).m)
  <1>1. CASE Entered(t) /\ ToMailbox(t, o, m) BY <1>1, ToMailboxKeeps
  <1>2. CASE Entered(t) /\ ToChild(t, o, m) BY <1>2, ToChildKeeps
  <1>3. CASE Entered(t) /\ ToParent(t, o, m) BY <1>3, ToParentKeeps
  <1>4. CASE Return(t) BY <1>4, ReturnKeeps
  <1> QED BY <1>1, <1>2, <1>3, <1>4 DEF send

LEMMA NextKeeps == IInv /\ [Next]_vars => IInv'
  <1> SUFFICES ASSUME IInv, [Next]_vars PROVE IInv' OBVIOUS
  <1>1. CASE \E o \in Office, b \in Box : TakeOut(o, b) BY <1>1, TakeOutKeeps
  <1>2. CASE \E m \in arrivals : TakeIn(m) BY <1>2, TakeInKeeps
  <1>3. CASE \E t \in Thread : send(t) BY <1>3, SendKeeps
  <1>4. CASE \E b \in Box : Answer(b) \/ Destroy(b) BY <1>4, AnswerKeeps, DestroyKeeps
  <1>5. CASE UNCHANGED vars
    BY <1>5 DEF vars, IInv, TypeOK, LocksHeldByCallers, MailReturns
  <1> QED BY <1>1, <1>2, <1>3, <1>4, <1>5 DEF Next

THEOREM Invariance == Spec => []IInv
  <1> QED BY InitHolds, NextKeeps, PTL DEF Spec

\* An answer is only ever delivered to the mailbox that wrote the letter, and
\* leaves the process only when that mailbox is gone, whatever tree the
\* offices form, whatever is written and whatever is destroyed: the address
\* that post_office::send collects in from leads back.
THEOREM AnswersAlwaysReturn == Spec => []AnswersReturn
  <1>1. IInv => AnswersReturn
    <2> SUFFICES ASSUME IInv PROVE AnswersReturn OBVIOUS
    <2>1. \A b \in Box : \A i \in DOMAIN inbox[b] :
              inbox[b][i].answer /\ inbox[b][i].writer \in Box => inbox[b][i].writer = b
      BY DEF IInv, MailReturns, Delivered, IsAnswer
    <2>2. \A m \in outside : m.answer => m.writer \notin open
      BY DEF IInv, TypeOK, MailReturns, IsAnswer
    <2> QED BY <2>1, <2>2 DEF AnswersReturn
  <1> QED BY <1>1, Invariance, PTL

\* post_office::send holds _post_m of an office exactly as long as it is in a
\* call of a child of the office: what is locked is released on every path,
\* also when the child cannot send, and no office is entered twice with the
\* lock held.
THEOREM LocksAreHeldByCallers == Spec => []LocksHeldByCallers
  <1>1. IInv => LocksHeldByCallers BY DEF IInv
  <1> QED BY <1>1, Invariance, PTL

-----------------------------------------------------------------------------
(***************************************************************************)
(* Who waits for whom.                                                     *)
(***************************************************************************)

Depth == CHOOSE d \in [Office -> 0 .. Cardinality(Office)] :
            \A o \in Office \ {Root} : d[Parent[o]] < d[o]

\* The offices that a thread has locked are deeper and deeper, each a child of
\* the one before, and what runs is a call of a child of the last of them or,
\* delegated back, of the last of them itself.
Descends(s) ==
    /\ \A i, j \in Callers(s) : i < j => Depth[s[i].office] < Depth[s[j].office]
    /\ \A i \in Callers(s) :
          \/ s[i + 1].office \in Children(s[i].office)
          \/ i = Len(s) - 1 /\ s[i + 1].office = s[i].office

Descending == \A t \in Thread : Descends(stack[t])

\* The call that runs has not been delegated back.
EndsBelow(s) == Len(s) > 1 => s[Len(s)].office \in Children(s[Len(s) - 1].office)

-----------------------------------------------------------------------------
LEMMA DepthGrows ==
    ASSUME NEW o \in Office, NEW p \in Children(o)
    PROVE  Depth[o] \in Nat /\ Depth[p] \in Nat /\ Depth[o] < Depth[p]
  <1>1. /\ Depth \in [Office -> 0 .. Cardinality(Office)]
        /\ \A c \in Office \ {Root} : Depth[Parent[c]] < Depth[c]
    BY TreeAssumption DEF Depth
  <1>2. p \in Office \ {Root} /\ Parent[p] = o BY DEF Children
  <1>3. Depth[o] \in 0 .. Cardinality(Office) /\ Depth[p] \in 0 .. Cardinality(Office)
    BY <1>1, <1>2
  <1> QED BY <1>1, <1>2, <1>3

LEMMA DepthIsNumber ==
    ASSUME NEW o \in Office
    PROVE  Cardinality(Office) \in Nat /\ Depth[o] \in Nat /\ Depth[o] <= Cardinality(Office)
  <1>1. Cardinality(Office) \in Nat BY OfficeAssumption, FS_CardinalityType
  <1>2. Depth \in [Office -> 0 .. Cardinality(Office)]
    BY TreeAssumption DEF Depth
  <1>3. Depth[o] \in 0 .. Cardinality(Office) BY <1>2
  <1> QED BY <1>1, <1>3

\* A new stack of one call.
LEMMA DescendsOne ==
    ASSUME NEW f \in Frame PROVE Descends(<<f>>) /\ Descends(<<>>)
  <1>1. Len(<<f>>) = 1 /\ Len(<<>>) = 0 OBVIOUS
  <1>2. Callers(<<f>>) = {} /\ Callers(<<>>) = {} BY <1>1 DEF Callers
  <1> QED BY <1>2 DEF Descends

\* The last call is replaced.
LEMMA DescendsReplaced ==
    ASSUME NEW s \in Seq(Frame), s # <<>>, NEW q \in Seq(Frame), FrontOf(q, s),
           Descends(s), NEW f \in Frame,
           Len(s) > 1 => \/ f.office \in Children(s[Len(s) - 1].office)
                         \/ f.office = s[Len(s) - 1].office
    PROVE  q \o <<f>> \in Seq(Frame) /\ Descends(q \o <<f>>)
  <1> DEFINE r == q \o <<f>>
  <1> DEFINE n == Len(s)
  <1>1. /\ r \in Seq(Frame) /\ Len(r) = n
        /\ \A i \in 1 .. n - 1 : r[i] = s[i]
        /\ r[n] = f
    BY Replaced
  <1>2. n \in Nat \ {0} BY EmptySeq
  <1> HIDE DEF r
  <1>3. Callers(r) = Callers(s) /\ Callers(s) = 1 .. n - 1 BY <1>1 DEF Callers
  <1>4. \A i, j \in Callers(r) : i < j => Depth[r[i].office] < Depth[r[j].office]
    BY <1>1, <1>3 DEF Descends
  <1>5. ASSUME NEW i \in Callers(r)
        PROVE  \/ r[i + 1].office \in Children(r[i].office)
               \/ i = Len(r) - 1 /\ r[i + 1].office = r[i].office
    <2> HIDE DEF n
    <2>1. CASE i = n - 1
      <3>1. n > 1 /\ i + 1 = n BY <1>2, <1>3, <1>5, <2>1
      <3> QED BY <1>1, <1>3, <2>1, <3>1 DEF n
    <2>2. CASE i # n - 1
      <3>1. i + 1 \in 1 .. n - 1 BY <1>2, <1>3, <1>5, <2>2
      <3>2. s[i + 1].office \in Children(s[i].office) BY <1>3, <2>2 DEF Descends, n
      <3> QED BY <1>1, <1>3, <3>1, <3>2
    <2> QED BY <2>1, <2>2
  <1> QED BY <1>1, <1>4, <1>5 DEF Descends, r

\* The last call, which nobody has delegated back, calls a child.
LEMMA DescendsPushed ==
    ASSUME NEW s \in Seq(Frame), s # <<>>, NEW q \in Seq(Frame), FrontOf(q, s),
           Descends(s), EndsBelow(s),
           NEW c \in Frame, c.office = s[Len(s)].office,
           NEW f \in Frame, f.office \in Children(c.office)
    PROVE  q \o <<c, f>> \in Seq(Frame) /\ Descends(q \o <<c, f>>)
  <1> DEFINE r == q \o <<c, f>>
  <1> DEFINE n == Len(s)
  <1>1. /\ r \in Seq(Frame) /\ Len(r) = n + 1
        /\ \A i \in 1 .. n - 1 : r[i] = s[i]
        /\ r[n] = c /\ r[n + 1] = f
    BY Pushed
  <1>2. n \in Nat \ {0} BY EmptySeq
  <1>3. \A i \in 1 .. n : s[i].office \in Office BY CallIsTyped
  <1> HIDE DEF r
  <1>4. Callers(r) = 1 .. n /\ Callers(s) = 1 .. n - 1 BY <1>1, <1>2 DEF Callers
  <1>5. \A i \in 1 .. n : r[i].office = s[i].office
    <2>1. \A i \in 1 .. n : i = n \/ i \in 1 .. n - 1 BY <1>2
    <2> QED BY <1>1, <2>1
  <1>6. ASSUME n > 1 PROVE s[n].office \in Children(s[n - 1].office)
    BY <1>6 DEF EndsBelow
  <1>7. ASSUME NEW i \in 1 .. n - 1 PROVE Depth[s[i].office] < Depth[s[n].office]
    <2> HIDE DEF n
    <2>1. n > 1 /\ n - 1 \in 1 .. n - 1 /\ n - 1 \in 1 .. n /\ i \in 1 .. n BY <1>2, <1>7
    <2>2. /\ Depth[s[n - 1].office] \in Nat /\ Depth[s[n].office] \in Nat
          /\ Depth[s[n - 1].office] < Depth[s[n].office]
      BY <1>3, <1>6, <2>1, DepthGrows
    <2>3. CASE i = n - 1 BY <2>2, <2>3
    <2>4. CASE i # n - 1
      <3>1. i < n - 1 BY <1>2, <1>7, <2>4
      <3>2. Depth[s[i].office] < Depth[s[n - 1].office]
        BY <1>4, <1>7, <2>1, <3>1 DEF Descends
      <3>3. Depth[s[i].office] \in Nat BY <1>3, <2>1, DepthIsNumber
      <3> QED BY <2>2, <3>2, <3>3
    <2> QED BY <2>3, <2>4
  <1>8. ASSUME NEW i \in Callers(r), NEW j \in Callers(r), i < j
        PROVE  Depth[r[i].office] < Depth[r[j].office]
    <2> HIDE DEF n
    <2>1. i \in 1 .. n - 1 /\ i \in 1 .. n /\ j \in 1 .. n BY <1>2, <1>4, <1>8
    <2>2. CASE j = n BY <1>5, <1>7, <2>1, <2>2
    <2>3. CASE j # n
      <3>1. j \in 1 .. n - 1 BY <1>2, <2>1, <2>3
      <3> QED BY <1>4, <1>5, <1>8, <2>1, <3>1 DEF Descends
    <2> QED BY <2>2, <2>3
  <1>9. ASSUME NEW i \in Callers(r) PROVE r[i + 1].office \in Children(r[i].office)
    <2> HIDE DEF n
    <2>1. CASE i = n BY <1>1, <2>1
    <2>2. CASE i # n
      <3>1. i \in 1 .. n /\ i \in 1 .. n - 1 /\ i + 1 \in 1 .. n BY <1>2, <1>4, <1>9, <2>2
      <3>2. r[i].office = s[i].office /\ r[i + 1].office = s[i + 1].office
        BY <1>5, <3>1
      <3>3. CASE i = n - 1
        <4>1. n > 1 /\ i + 1 = n BY <1>2, <3>1, <3>3
        <4> QED BY <1>6, <3>2, <3>3, <4>1
      <3>4. CASE i # n - 1
        <4> QED BY <1>4, <3>1, <3>2, <3>4 DEF Descends, n
      <3> QED BY <3>3, <3>4
    <2> QED BY <2>1, <2>2
  <1> QED BY <1>1, <1>8, <1>9 DEF Descends, r

\* The last call has returned.
LEMMA DescendsBack ==
    ASSUME NEW s \in Seq(Frame), NEW q \in Seq(Frame), FrontOf(q, s), q # <<>>, Descends(s)
    PROVE  Descends(q) /\ EndsBelow(q)
  <1> DEFINE n == Len(q)
  <1>1. n \in Nat \ {0} /\ Len(s) \in Nat /\ n = Len(s) - 1 BY EmptySeq DEF FrontOf
  <1>2. \A i \in 1 .. n : q[i] = s[i] BY <1>1 DEF FrontOf
  <1>3. Callers(q) = 1 .. n - 1 /\ Callers(s) = 1 .. n BY <1>1 DEF Callers
  <1> HIDE DEF n
  <1>4. \A i \in 1 .. n - 1 : i \in 1 .. n /\ i + 1 \in 1 .. n /\ i # n BY <1>1
  <1>5. \A i, j \in Callers(q) : i < j => Depth[q[i].office] < Depth[q[j].office]
    BY <1>2, <1>3, <1>4 DEF Descends
  <1>6. \A i \in Callers(q) : q[i + 1].office \in Children(q[i].office)
    BY <1>1, <1>2, <1>3, <1>4 DEF Descends
  <1>7. ASSUME n > 1 PROVE q[n].office \in Children(q[n - 1].office)
    <2>1. n - 1 \in 1 .. n - 1 /\ (n - 1) + 1 = n BY <1>1, <1>7
    <2> QED BY <1>3, <1>6, <2>1
  <1> QED BY <1>5, <1>6, <1>7 DEF Descends, EndsBelow, n

\* The last call, which nobody has delegated back, hands the message on.
LEMMA DescendsDelegated ==
    ASSUME TypeOK, NEW t \in Thread,
           NEW s \in Seq(Frame), s # <<>>, NEW q \in Seq(Frame), FrontOf(q, s),
           Descends(s), EndsBelow(s),
           NEW o \in Office, o = s[Len(s)].office, NEW m \in Message,
           Delegate(t, q, o, m)
    PROVE  \E r \in Seq(Frame), x \in Outcome : Moves(t, r, x) /\ Descends(r)
  <1>1. o \in Children(s[Len(s) - 1].office) => o # Root /\ Parent[o] = s[Len(s) - 1].office
    BY DEF Children
  <1>2. CASE o = Root
    <2> DEFINE f == Call(o, m)
    <2>1. f \in Frame BY CallIsFrame
    <2>2. /\ result' = [result EXCEPT ![t] = "sent"]
          /\ stack' = [stack EXCEPT ![t] = q \o <<f>>]
      BY <1>2 DEF Delegate
    <2> HIDE DEF f
    <2>3. ~(Len(s) > 1) BY <1>1, <1>2 DEF EndsBelow
    <2>4. q \o <<f>> \in Seq(Frame) /\ Descends(q \o <<f>>)
      BY <2>1, <2>3, DescendsReplaced
    <2>5. Moves(t, q \o <<f>>, "sent") BY <2>2, <2>4, StackMoves DEF Outcome
    <2> QED BY <2>4, <2>5 DEF Outcome
  <1>3. CASE o # Root
    <2> DEFINE f == Call(Parent[o], From(o, m))
    <2>1. Parent[o] \in Office /\ From(o, m) \in Message
      BY <1>3, OfficeAssumption, FromIsMessage
    <2>2. f \in Frame /\ f.office = Parent[o] BY <2>1, CallIsFrame
    <2>3. /\ result' = [result EXCEPT ![t] = "none"]
          /\ stack' = [stack EXCEPT ![t] = q \o <<f>>]
      BY <1>3 DEF Delegate
    <2> HIDE DEF f
    <2>4. Len(s) > 1 => f.office = s[Len(s) - 1].office
      BY <1>1, <2>2 DEF EndsBelow
    <2>5. q \o <<f>> \in Seq(Frame) /\ Descends(q \o <<f>>)
      BY <2>2, <2>4, DescendsReplaced
    <2>6. Moves(t, q \o <<f>>, "none") BY <2>3, <2>5, StackMoves DEF Outcome
    <2> QED BY <2>5, <2>6 DEF Outcome
  <1> QED BY <1>2, <1>3

\* A thread that gets on has not been called back to an office it has locked.
LEMMA FreeEndsBelow ==
    ASSUME NEW t \in Thread, NEW s \in Seq(Frame), s # <<>>,
           NEW p, Holding(t, s, p), Descends(s), p[s[Len(s)].office] # t
    PROVE  EndsBelow(s)
  <1> SUFFICES ASSUME Len(s) > 1
               PROVE  s[Len(s)].office \in Children(s[Len(s) - 1].office)
    BY DEF EndsBelow
  <1> DEFINE k == Len(s) - 1
  <1>1. k \in Callers(s) /\ k + 1 = Len(s)
    <2>1. Len(s) \in Nat OBVIOUS
    <2> QED BY <2>1 DEF Callers
  <1>2. p[s[k].office] = t BY <1>1 DEF Holding
  <1>3. s[k + 1].office # s[k].office BY <1>1, <1>2
  <1> HIDE DEF k
  <1>4. s[k + 1].office \in Children(s[k].office) BY <1>1, <1>3 DEF Descends
  <1> QED BY <1>1, <1>4 DEF k

-----------------------------------------------------------------------------
\* Steps.

LEMMA MovesDescend ==
    ASSUME Descending, NEW t \in Thread, NEW r, NEW x, Moves(t, r, x), Descends(r)
    PROVE  Descending'
  BY DEF Descending, Moves

LEMMA StartsDescend ==
    ASSUME IInv, Descending, NEW t \in Thread, NEW o \in Office, NEW m \in Message,
           stack' = [stack EXCEPT ![t] = <<Call(o, m)>>], result' = result
    PROVE  Descending'
  <1>1. Call(o, m) \in Frame BY CallIsFrame
  <1>2. <<Call(o, m)>> \in Seq(Frame) /\ Descends(<<Call(o, m)>>)
    BY <1>1, DescendsOne, Single
  <1>3. Moves(t, <<Call(o, m)>>, result[t]) BY <1>2, ResultStays DEF IInv
  <1> QED BY <1>2, <1>3, MovesDescend

LEMMA TakeOutDescends ==
    ASSUME IInv, Descending, NEW o \in Office, NEW b \in Box, TakeOut(o, b) PROVE Descending'
  <1> DEFINE h == Head(outbox[b])
  <1>1. outbox[b] \in Seq(Message) /\ outbox[b] # <<>> BY DEF IInv, TypeOK, TakeOut
  <1>2. h \in Message BY <1>1, TakenFirst
  <1>3. [h EXCEPT !.from = <<b>> \o @] \in Message
    BY <1>2, AddressAssumption, Fronted DEF Message
  <1>4. /\ stack' = [stack EXCEPT ![o] = <<Call(o, [h EXCEPT !.from = <<b>> \o @])>>]
        /\ result' = result
    BY DEF TakeOut
  <1> QED BY <1>3, <1>4, StartsDescend DEF Thread

LEMMA TakeInDescends ==
    ASSUME IInv, Descending, NEW m \in arrivals, TakeIn(m) PROVE Descending'
  <1>1. m \in Message BY DEF IInv, TypeOK
  <1>2. stack' = [stack EXCEPT ![InThread] = <<Call(Root, m)>>] /\ result' = result
    BY DEF TakeIn
  <1> QED BY <1>1, <1>2, StartsDescend, OfficeAssumption DEF Thread

\* The call that finds _post_m of its office free.
LEMMA RunningFree ==
    ASSUME IInv, Descending, NEW t \in Thread, Entered(t), post_m[Top(t).office] = None
    PROVE  /\ stack[t] \in Seq(Frame) /\ stack[t] # <<>>
           /\ Top(t).office = stack[t][Len(stack[t])].office
           /\ Below(t) \in Seq(Frame) /\ FrontOf(Below(t), stack[t])
           /\ Descends(stack[t]) /\ EndsBelow(stack[t])
  <1>1. /\ stack[t] \in Seq(Frame) /\ stack[t] # <<>>
        /\ Holding(t, stack[t], post_m) /\ Descends(stack[t])
        /\ Top(t) = stack[t][Len(stack[t])]
    BY DEF IInv, TypeOK, LocksHeldByCallers, Descending, Entered, Top
  <1>2. Below(t) \in Seq(Frame) /\ FrontOf(Below(t), stack[t]) BY <1>1, Shorter DEF Below
  <1>3. t # None BY ThreadAssumption
  <1> QED BY <1>1, <1>2, <1>3, FreeEndsBelow

LEMMA ToChildDescends ==
    ASSUME IInv, Descending, NEW t \in Thread, Entered(t), NEW o, o = Top(t).office,
           NEW m, m = OwnDropped(o, Top(t).m), ToChild(t, o, m)
    PROVE  Descending'
  <1> DEFINE c == [office |-> o, m |-> m, at |-> "child"]
  <1> DEFINE d == ToBelow(o, m)
  <1> DEFINE f == Call(Head(m.to), d)
  <1>1. o \in Office /\ m \in Message /\ Carries(o, m) BY Running
  <1>2. /\ Len(m.to) > 1 /\ Head(m.to) \in Children(o) /\ post_m[o] = None
        /\ stack' = [stack EXCEPT ![t] = Below(t) \o <<c, f>>] /\ result' = result
    BY DEF ToChild, ToBelow
  <1>3. d \in Message BY <1>1, <1>2, PassedDown
  <1>4. c \in Frame /\ c.office = o /\ f \in Frame /\ f.office = Head(m.to)
    BY <1>1, <1>2, <1>3, CallIsFrame DEF Children
  <1> HIDE DEF c, f, d
  <1>5. /\ stack[t] \in Seq(Frame) /\ stack[t] # <<>>
        /\ o = stack[t][Len(stack[t])].office
        /\ Below(t) \in Seq(Frame) /\ FrontOf(Below(t), stack[t])
        /\ Descends(stack[t]) /\ EndsBelow(stack[t])
    BY <1>2, RunningFree
  <1>6. Below(t) \o <<c, f>> \in Seq(Frame) /\ Descends(Below(t) \o <<c, f>>)
    BY <1>2, <1>4, <1>5, DescendsPushed
  <1>7. Moves(t, Below(t) \o <<c, f>>, result[t]) BY <1>2, <1>6, ResultStays DEF IInv
  <1> QED BY <1>6, <1>7, MovesDescend

LEMMA ToParentDescends ==
    ASSUME IInv, Descending, NEW t \in Thread, Entered(t), NEW o, o = Top(t).office,
           NEW m, m = OwnDropped(o, Top(t).m), ToParent(t, o, m)
    PROVE  Descending'
  <1>1. o \in Office /\ m \in Message BY Running
  <1>2. post_m[o] = None /\ Delegate(t, Below(t), o, m) BY DEF ToParent
  <1>3. /\ stack[t] \in Seq(Frame) /\ stack[t] # <<>>
        /\ o = stack[t][Len(stack[t])].office
        /\ Below(t) \in Seq(Frame) /\ FrontOf(Below(t), stack[t])
        /\ Descends(stack[t]) /\ EndsBelow(stack[t])
    BY <1>2, RunningFree
  <1>4. \E r \in Seq(Frame), x \in Outcome : Moves(t, r, x) /\ Descends(r)
    BY <1>1, <1>2, <1>3, DescendsDelegated DEF IInv
  <1> QED BY <1>4, MovesDescend

LEMMA ReturnDescends ==
    ASSUME IInv, Descending, NEW t \in Thread, Return(t) PROVE Descending'
  <1> DEFINE s == stack[t]
  <1> DEFINE q == Below(t)
  <1>1. TypeOK /\ Descends(s) /\ result[t] \in Outcome /\ result[t] # "none"
    BY DEF IInv, TypeOK, Descending, Return, Outcome
  <1>2. CASE q = <<>>
    <2>1. stack' = [stack EXCEPT ![t] = <<>>] /\ result' = [result EXCEPT ![t] = "none"]
      BY <1>2 DEF Return
    <2>2. Callers(<<>>) = {} /\ <<>> \in Seq(Frame) BY DEF Callers
    <2>3. Descends(<<>>) BY <2>2 DEF Descends
    <2>4. Moves(t, <<>>, "none") BY <1>1, <2>2, <2>1, StackMoves DEF Outcome
    <2> QED BY <2>3, <2>4, MovesDescend
  <1>3. CASE q # <<>>
    <2> DEFINE c == q[Len(q)]
    <2> DEFINE r == SubSeq(q, 1, Len(q) - 1)
    <2>1. /\ s \in Seq(Frame) /\ q \in Seq(Frame) /\ FrontOf(q, s)
          /\ c.office \in Office /\ c.m \in Message
      BY <1>3, Caller
    <2>2. r \in Seq(Frame) /\ FrontOf(r, q) BY <1>3, <2>1, Shorter
    <2>3. Descends(q) /\ EndsBelow(q) BY <1>1, <1>3, <2>1, DescendsBack
    <2>4. CASE result[t] = "sent"
      <3> DEFINE f == Call(c.office, c.m)
      <3>1. stack' = [stack EXCEPT ![t] = r \o <<f>>] /\ result' = result
        BY <1>3, <2>4 DEF Return
      <3>2. f \in Frame /\ f.office = q[Len(q)].office BY <2>1, CallIsFrame
      <3> HIDE DEF f, r, q, s, c
      <3>3. Len(q) > 1 => f.office \in Children(q[Len(q) - 1].office)
        BY <2>3, <3>2 DEF EndsBelow
      <3>4. r \o <<f>> \in Seq(Frame) /\ Descends(r \o <<f>>)
        BY <1>3, <2>1, <2>2, <2>3, <3>2, <3>3, DescendsReplaced
      <3>5. Moves(t, r \o <<f>>, result[t]) BY <1>1, <3>1, <3>4, ResultStays
      <3> QED BY <3>4, <3>5, MovesDescend
    <2>5. CASE result[t] = "failed"
      <3>1. Delegate(t, r, c.office, c.m) BY <1>3, <2>5 DEF Return
      <3>2. c.office = q[Len(q)].office OBVIOUS
      <3> HIDE DEF r, q, s, c
      <3>3. \E w \in Seq(Frame), x \in Outcome : Moves(t, w, x) /\ Descends(w)
        BY <1>1, <1>3, <2>1, <2>2, <2>3, <3>1, <3>2, DescendsDelegated
      <3> QED BY <3>3, MovesDescend
    <2> QED BY <1>1, <2>4, <2>5 DEF Outcome
  <1> QED BY <1>2, <1>3

LEMMA NextDescends == IInv /\ Descending /\ [Next]_vars => Descending'
  <1> SUFFICES ASSUME IInv, Descending, [Next]_vars PROVE Descending' OBVIOUS
  <1>1. CASE \E o \in Office, b \in Box : TakeOut(o, b) BY <1>1, TakeOutDescends
  <1>2. CASE \E m \in arrivals : TakeIn(m) BY <1>2, TakeInDescends
  <1>3. ASSUME NEW t \in Thread, send(t) PROVE Descending'
    <2> DEFINE o == Top(t).office
    <2> DEFINE m == OwnDropped(o, Top(t).m)
    <2>1. CASE Entered(t) /\ ToMailbox(t, o, m) BY <2>1 DEF ToMailbox, Descending
    <2>2. CASE Entered(t) /\ ToChild(t, o, m) BY <2>2, ToChildDescends
    <2>3. CASE Entered(t) /\ ToParent(t, o, m) BY <2>3, ToParentDescends
    <2>4. CASE Return(t) BY <2>4, ReturnDescends
    <2> QED BY <1>3, <2>1, <2>2, <2>3, <2>4 DEF send
  <1>4. CASE \E b \in Box : Answer(b) \/ Destroy(b)
    BY <1>4 DEF Answer, Destroy, Descending
  <1>5. CASE UNCHANGED vars BY <1>5 DEF vars, Descending
  <1> QED BY <1>1, <1>2, <1>3, <1>4, <1>5 DEF Next

LEMMA InitDescends == Init => Descending
  <1> SUFFICES ASSUME Init, NEW t \in Thread PROVE Descends(stack[t]) BY DEF Descending
  <1>1. stack[t] = <<>> BY DEF Init
  <1>2. Callers(<<>>) = {} BY DEF Callers
  <1> QED BY <1>1, <1>2 DEF Descends

-----------------------------------------------------------------------------
\* What a thread that waits has locked.
LEMMA Waiting ==
    ASSUME IInv, Descending, NEW t \in Thread, NEW o, Waits(t, o)
    PROVE  /\ stack[t] \in Seq(Frame) /\ stack[t] # <<>>
           /\ o = stack[t][Len(stack[t])].office /\ o = Top(t).office /\ o \in Office
           /\ Holding(t, stack[t], post_m) /\ Descends(stack[t])
  <1>1. /\ stack[t] \in Seq(Frame) /\ stack[t] # <<>>
        /\ Holding(t, stack[t], post_m) /\ Descends(stack[t])
        /\ o = stack[t][Len(stack[t])].office /\ o = Top(t).office
    BY DEF IInv, TypeOK, LocksHeldByCallers, Descending, Waits, Entered, Top
  <1>2. Len(stack[t]) \in 1 .. Len(stack[t])
    <2>1. Len(stack[t]) \in Nat \ {0} BY <1>1, EmptySeq
    <2> QED BY <2>1
  <1>3. o \in Office BY <1>1, <1>2, CallIsTyped
  <1> QED BY <1>1, <1>3

\* A thread that waits for another waits for an office that is deeper than all
\* that it has locked.
LEMMA WaitsDeeper ==
    ASSUME IInv, Descending, NEW t \in Thread, NEW o, Waits(t, o), post_m[o] # t,
           NEW c \in Office, post_m[c] = t
    PROVE  Depth[c] < Depth[o]
  <1> DEFINE s == stack[t]
  <1>1. /\ s \in Seq(Frame) /\ s # <<>> /\ o = s[Len(s)].office /\ o \in Office
        /\ Holding(t, s, post_m) /\ Descends(s)
    BY Waiting
  <1> HIDE DEF s
  <1>2. PICK i \in Callers(s) : s[i].office = c BY <1>1 DEF Holding
  <1>3. EndsBelow(s) BY <1>1, FreeEndsBelow
  <1> DEFINE k == Len(s) - 1
  <1>4. Len(s) > 1 /\ k \in Callers(s) /\ (i = k \/ i < k)
    <2>1. Len(s) \in Nat BY <1>1
    <2> QED BY <1>2, <2>1 DEF Callers
  <1>5. s[k].office \in Office /\ o \in Children(s[k].office)
    BY <1>1, <1>3, <1>4, CallersAreTyped DEF EndsBelow
  <1> HIDE DEF k
  <1>6. /\ Depth[s[k].office] \in Nat /\ Depth[o] \in Nat /\ Depth[c] \in Nat
        /\ Depth[s[k].office] < Depth[o]
    BY <1>5, DepthGrows, DepthIsNumber
  <1>7. CASE i = k BY <1>2, <1>6, <1>7
  <1>8. CASE i < k
    <2>1. Depth[c] < Depth[s[k].office] BY <1>1, <1>2, <1>4, <1>8 DEF Descends
    <2> QED BY <1>6, <2>1
  <1> QED BY <1>4, <1>7, <1>8

\* A thread that waits for itself has been called back by a child.
LEMMA SelfWaits ==
    ASSUME IInv, Descending, NEW t \in Thread, NEW o \in Office, Waits(t, o), post_m[o] = t
    PROVE  DelegatedBack(t, o)
  <1> DEFINE s == stack[t]
  <1>1. /\ s \in Seq(Frame) /\ s # <<>> /\ o = s[Len(s)].office /\ o = Top(t).office
        /\ Holding(t, s, post_m) /\ Descends(s)
    BY Waiting
  <1> HIDE DEF s
  <1>2. PICK i \in Callers(s) : s[i].office = o BY <1>1 DEF Holding
  <1> DEFINE k == Len(s) - 1
  <1>3. Len(s) > 1 /\ k \in Callers(s) /\ k + 1 = Len(s) /\ (i = k \/ i < k)
    <2>1. Len(s) \in Nat BY <1>1
    <2> QED BY <1>2, <2>1 DEF Callers
  <1>4. s[k].office = o
    <2>1. SUFFICES ASSUME s[k].office # o PROVE FALSE OBVIOUS
    <2>2. i < k BY <1>2, <1>3, <2>1
    <2> HIDE DEF k
    <2>3. s[k].office \in Office BY <1>1, <1>3, CallersAreTyped
    <2>4. s[k + 1].office \in Children(s[k].office) BY <1>1, <1>3, <2>1 DEF Descends
    <2>5. Depth[s[k].office] \in Nat /\ Depth[o] \in Nat /\ Depth[s[k].office] < Depth[o]
      BY <1>1, <1>3, <2>3, <2>4, DepthGrows
    <2>6. Depth[o] < Depth[s[k].office] BY <1>1, <1>2, <1>3, <2>2 DEF Descends
    <2> QED BY <2>5, <2>6
  <1> QED BY <1>1, <1>3, <1>4 DEF DelegatedBack, s

\* In a set of threads the one that waits for the deepest office waits for none
\* of the others.
LEMMA NoCircle ==
    ASSUME IInv, Descending, NEW S \in SUBSET Thread, S # {}
    PROVE  \E t \in S : \A u \in S \ {t} : ~WaitsFor(t, u)
  <1> SUFFICES ASSUME \A t \in S : \E u \in S \ {t} : WaitsFor(t, u) PROVE FALSE
    OBVIOUS
  <1> DEFINE C == Cardinality(Office)
  <1> DEFINE Height(t) == C - Depth[Top(t).office]
  <1>1. ASSUME NEW t \in S
        PROVE  /\ Waits(t, Top(t).office) /\ Top(t).office \in Office
               /\ \E u \in S \ {t} : post_m[Top(t).office] = u
    <2>1. PICK u \in S \ {t}, o \in Office : Waits(t, o) /\ post_m[o] = u
      BY <1>1 DEF WaitsFor
    <2>2. o = Top(t).office BY <2>1 DEF Waits
    <2> QED BY <2>1, <2>2
  <1>2. ASSUME NEW t \in S PROVE Height(t) \in Nat
    <2>1. Top(t).office \in Office BY <1>1
    <2> QED BY <2>1, DepthIsNumber
  <1>3. ASSUME NEW t \in S PROVE \E u \in S : Height(u) < Height(t)
    <2> DEFINE o == Top(t).office
    <2>1. o \in Office BY <1>1
    <2>2. PICK u \in S \ {t} : post_m[o] = u BY <1>1
    <2> DEFINE p == Top(u).office
    <2>3. Waits(u, p) /\ p \in Office BY <1>1
    <2>4. PICK v \in S \ {u} : post_m[p] = v BY <1>1
    <2>5. Depth[o] < Depth[p] BY <2>1, <2>2, <2>3, <2>4, WaitsDeeper
    <2>6. C \in Nat /\ Depth[o] \in Nat /\ Depth[p] \in Nat BY <2>1, <2>3, DepthIsNumber
    <2> HIDE DEF o, p, C
    <2>7. C - Depth[p] < C - Depth[o] BY <2>5, <2>6
    <2> QED BY <2>2, <2>7 DEF o, p
  <1> DEFINE T == {Height(t) : t \in S}
  <1> HIDE DEF Height
  <1>4. T \subseteq Nat /\ T # {} BY <1>2
  <1>5. \A x \in T : \E y \in T : y < x BY <1>3
  <1> HIDE DEF T
  <1>6. PICK x \in T : \A y \in T : ~(<<y, x>> \in OpToRel(<, Nat))
    BY <1>4, NatLessThanWellFounded, WFMin
  <1>7. PICK y \in T : y < x BY <1>5
  <1>8. x \in Nat /\ y \in Nat BY <1>4
  <1>9. <<y, x>> \in OpToRel(<, Nat) BY <1>7, <1>8 DEF OpToRel
  <1> QED BY <1>6, <1>9

\* Whatever tree the offices form, whatever is written and whatever is
\* destroyed: a thread in post_office::send that waits for a _post_m it holds
\* itself has been called back by a child of that office, and no threads wait
\* for each other in a circle.
THEOREM OnlyDelegationsBackBlock == Spec => []OnlyDelegationBackBlocks
  <1>1. IInv /\ Descending => OnlyDelegationBackBlocks
    BY SelfWaits, NoCircle DEF OnlyDelegationBackBlocks
  <1> QED BY <1>1, InitDescends, NextDescends, Invariance, PTL DEF Spec
=============================================================================
