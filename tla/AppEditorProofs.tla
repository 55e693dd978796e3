-------------------------- MODULE AppEditorProofs ---------------------------
(***************************************************************************)
(* Proofs about AppEditor and the replicated string of CrString, for any   *)
(* contacts, any keys and every bound.                                     *)
(***************************************************************************)
EXTENDS AppEditor, TLAPS

(***************************************************************************)
(* No version anywhere is ahead of a node in that node's own component:    *)
(* only n ticks it, and n's editor keeps every tick it made.               *)
(***************************************************************************)
OwnClockIsAhead ==
    \A v \in Versions, n \in Node : v.clock[n] <= code[n].clock[n]

\* The inductive invariant.
IInv ==
    /\ TypeOK
    /\ OwnClockIsAhead
    /\ SameVersionSameText

-----------------------------------------------------------------------------
(***************************************************************************)
(* The clocks and the merge of CrString.                                   *)
(***************************************************************************)
LEMMA ClockTypes ==
    /\ \A n \in Node : NewClock(n) \in Clock
    /\ \A c, d \in Clock : MergeClocks(c, d) \in Clock
    /\ \A c \in Clock, n \in Node : Tick(c, n) \in Clock
BY DEF Clock, NewClock, MergeClocks, Tick

\* What merge does is one of three things: keep the own string, take the
\* other one, or make a version whose own component was never used before.
Kept(s, o, n) == Merge(s, o, n) = s

Taken(s, o, n) == /\ Merge(s, o, n) = o
                  /\ o.clock[n] >= s.clock[n]

Fresh(s, o, n) ==
    LET c == Merge(s, o, n)
    IN  /\ c.clock[n] = s.clock[n] + 1
        /\ \A k \in Node \ {n} : \/ c.clock[k] = s.clock[k]
                                 \/ c.clock[k] = o.clock[k]

\* The merge with the other side's text on both sides never conflicts.
LEMMA NeverConflicts ==
    \A s, o : MergeResult(s, o) \in {"NO_CHANGE", "UPDATED", "MERGED"}
BY DEF MergeResult, Merge3

\* compare tells when one clock is below the other, entry by entry.
LEMMA CompareIsPointwise ==
    ASSUME NEW c \in Clock, NEW d \in Clock
    PROVE  /\ Compare(c, d) = "less" => \A k \in Node : c[k] <= d[k]
           /\ Compare(c, d) = "greater" => \A k \in Node : c[k] >= d[k]
BY DEF Compare, Less, Clock

LEMMA JoinOfOrdered ==
    ASSUME NEW c \in Clock, NEW d \in Clock
    PROVE  /\ (\A k \in Node : d[k] <= c[k]) => MergeClocks(c, d) = c
           /\ (\A k \in Node : d[k] >= c[k]) => MergeClocks(c, d) = d
<1>1. /\ \A k \in Node : c[k] \in Nat /\ d[k] \in Nat
      /\ c = [k \in Node |-> c[k]]
      /\ d = [k \in Node |-> d[k]]
  BY DEF Clock
<1>2. ASSUME \A k \in Node : d[k] <= c[k] PROVE MergeClocks(c, d) = c
  <2>1. \A k \in Node : (IF c[k] >= d[k] THEN c[k] ELSE d[k]) = c[k]
    BY <1>1, <1>2
  <2>2. MergeClocks(c, d) = [k \in Node |-> c[k]]
    BY <2>1 DEF MergeClocks
  <2> QED BY <1>1, <2>2
<1>3. ASSUME \A k \in Node : d[k] >= c[k] PROVE MergeClocks(c, d) = d
  <2>1. \A k \in Node : (IF c[k] >= d[k] THEN c[k] ELSE d[k]) = d[k]
    <3> TAKE k \in Node
    <3>1. c[k] \in Nat /\ d[k] \in Nat /\ d[k] >= c[k] BY <1>1, <1>3
    <3> QED BY <3>1
  <2>2. MergeClocks(c, d) = [k \in Node |-> d[k]]
    BY <2>1 DEF MergeClocks
  <2> QED BY <1>1, <2>2
<1> QED BY <1>2, <1>3

LEMMA MergeCases ==
    ASSUME NEW s \in CrStr, NEW o \in CrStr, NEW n \in Node,
           o.clock[n] <= s.clock[n]
    PROVE  /\ Merge(s, o, n) \in CrStr
           /\ Kept(s, o, n) \/ Taken(s, o, n) \/ Fresh(s, o, n)
<1> DEFINE r == MergeResult(s, o)
           m == Merge3(o.text, s.text, o.text)
<1>1. s.clock \in Clock /\ o.clock \in Clock /\ s.text \in Text /\ o.text \in Text
  BY DEF CrStr
<1>2. \A v \in CrStr : v = [clock |-> v.clock, text |-> v.text]
  BY DEF CrStr
<1>3. m.text = o.text BY DEF Merge3
<1>4. CASE r = "NO_CHANGE"
  <2>1. \A k \in Node : o.clock[k] <= s.clock[k]
    BY <1>1, <1>4, CompareIsPointwise DEF MergeResult, Clock
  <2>2. Merge(s, o, n) = [clock |-> MergeClocks(s.clock, o.clock), text |-> s.text]
    BY <1>4 DEF Merge
  <2> QED BY <1>1, <1>2, <2>1, <2>2, JoinOfOrdered DEF Kept
<1>5. CASE r = "UPDATED"
  <2>1. Compare(o.clock, s.clock) = "greater"
    BY <1>5 DEF MergeResult
  <2>2. \A k \in Node : o.clock[k] >= s.clock[k]
    BY <1>1, <2>1, CompareIsPointwise
  <2>3. Merge(s, o, n) = [clock |-> MergeClocks(s.clock, o.clock), text |-> o.text]
    BY <1>5 DEF Merge
  <2> QED BY <1>1, <1>2, <2>2, <2>3, JoinOfOrdered DEF Taken
<1>6. CASE r = "MERGED"
  <2> DEFINE t == Tick(s.clock, n)
  <2>1. Merge(s, o, n) = [clock |-> MergeClocks(t, o.clock), text |-> o.text]
    BY <1>3, <1>6 DEF Merge
  <2>2. t \in Clock /\ MergeClocks(t, o.clock) \in Clock
    BY <1>1, ClockTypes
  <2>3. t[n] = s.clock[n] + 1 /\ \A k \in Node \ {n} : t[k] = s.clock[k]
    BY <1>1 DEF Tick, Clock
  <2>4. \A k \in Node : MergeClocks(t, o.clock)[k]
                          = IF t[k] >= o.clock[k] THEN t[k] ELSE o.clock[k]
    BY DEF MergeClocks
  <2>5. MergeClocks(t, o.clock)[n] = s.clock[n] + 1
    BY <1>1, <2>3, <2>4 DEF Clock
  <2> QED BY <1>1, <2>1, <2>2, <2>3, <2>4, <2>5 DEF Fresh, CrStr
<1> QED BY <1>4, <1>5, <1>6, NeverConflicts

-----------------------------------------------------------------------------
(***************************************************************************)
(* Where versions come from.                                               *)
(***************************************************************************)

\* A string that may stand in n's editor next: one that exists already and
\* is not behind in n's component, or one that n alone can have made.
MayBecome(n, c) ==
    /\ c \in CrStr
    /\ \/ c \in Versions /\ c.clock[n] >= code[n].clock[n]
       \/ /\ c.clock[n] > code[n].clock[n]
          /\ \A k \in Node \ {n} : c.clock[k] <= code[k].clock[k]

LEMMA VersionTypes ==
    ASSUME TypeOK
    PROVE  Versions \subseteq CrStr /\ \A n \in Node : code[n] \in Versions
<1>1. \A m \in Message : m.type = "text_script" => m.code \in CrStr
  BY DEF Message
<1> QED BY <1>1 DEF TypeOK, Versions

LEMMA OwnVersionStays ==
    ASSUME IInv, NEW n \in Node
    PROVE  MayBecome(n, code[n])
<1>1. code[n] \in Versions /\ code[n] \in CrStr
  BY VersionTypes DEF IInv
<1>2. code[n].clock[n] \in Nat
  BY <1>1 DEF CrStr, Clock
<1> QED BY <1>1, <1>2 DEF MayBecome

\* A tick by n, with any text, makes a version that n alone can have made.
LEMMA TickIsNew ==
    ASSUME IInv, NEW n \in Node, NEW t \in Text
    PROVE  MayBecome(n, [clock |-> Tick(code[n].clock, n), text |-> t])
<1> DEFINE c == Tick(code[n].clock, n)
           v == [clock |-> c, text |-> t]
<1>1. \A k \in Node : code[k] \in CrStr /\ code[k].clock \in Clock
  BY DEF IInv, TypeOK, CrStr
<1>2. c \in Clock BY <1>1, ClockTypes
<1>3. c[n] = code[n].clock[n] + 1 /\ \A k \in Node \ {n} : c[k] = code[n].clock[k]
  BY <1>1 DEF Tick, Clock
<1>4. \A k \in Node : code[n].clock[k] <= code[k].clock[k]
  BY VersionTypes DEF IInv, OwnClockIsAhead
<1>5. c[n] > code[n].clock[n]
  BY <1>1, <1>3 DEF Clock
<1>6. v \in CrStr /\ v.clock = c BY <1>2 DEF CrStr
<1>7. \A k \in Node \ {n} : c[k] <= code[k].clock[k] BY <1>3, <1>4
<1> HIDE DEF c, v
<1>8. MayBecome(n, v) BY <1>5, <1>6, <1>7 DEF MayBecome
<1> QED BY <1>8 DEF v, c

\* So is what n makes of a version it receives.
LEMMA MergeIsKnownOrNew ==
    ASSUME IInv, NEW n \in Node, NEW o \in Versions
    PROVE  MayBecome(n, Merge(code[n], o, n))
<1> DEFINE s == code[n]
           c == Merge(s, o, n)
<1>1. Versions \subseteq CrStr /\ s \in Versions
  BY VersionTypes DEF IInv
<1>2. \A v \in Versions, k \in Node : v.clock[k] <= code[k].clock[k]
  BY DEF IInv, OwnClockIsAhead
<1>3. s \in CrStr /\ o \in CrStr /\ o.clock[n] <= s.clock[n]
  BY <1>1, <1>2
<1>4. c \in CrStr /\ (Kept(s, o, n) \/ Taken(s, o, n) \/ Fresh(s, o, n))
  BY <1>3, MergeCases
<1>5. s.clock[n] \in Nat
  BY <1>3 DEF CrStr, Clock
<1>6. CASE Kept(s, o, n)
  BY <1>6, OwnVersionStays DEF Kept
<1>7. CASE Taken(s, o, n)
  BY <1>4, <1>7 DEF Taken, MayBecome
<1>8. CASE Fresh(s, o, n)
  <2>1. c.clock[n] > s.clock[n] BY <1>5, <1>8 DEF Fresh
  <2>2. \A k \in Node \ {n} : c.clock[k] <= code[k].clock[k]
    BY <1>1, <1>2, <1>8 DEF Fresh
  <2> QED BY <1>4, <2>1, <2>2 DEF MayBecome
<1> QED BY <1>4, <1>6, <1>7, <1>8

\* The step every action takes, as far as versions go: one editor gets a
\* string it may become, and mail carries only that one and known ones.
LEMMA VersionsKeep ==
    ASSUME IInv, NEW n \in Node, NEW c, MayBecome(n, c),
           code' = [code EXCEPT ![n] = c],
           \A m \in net' : m.type = "text_script"
                             => m.code \in Versions \cup {c}
    PROVE  OwnClockIsAhead' /\ SameVersionSameText'
<1>1. Versions \subseteq CrStr /\ \A k \in Node : code[k] \in Versions
  BY VersionTypes DEF IInv
<1>2. code' = [k \in Node |-> IF k = n THEN c ELSE code[k]]
  BY DEF IInv, TypeOK
<1>3. \A k \in Node : code'[k] \in Versions \cup {c}
  BY <1>1, <1>2
<1>4. Versions' \subseteq Versions \cup {c}
  BY <1>3 DEF Versions
<1>5. \A v \in Versions \cup {c} : v \in CrStr /\ \A k \in Node : v.clock[k] \in Nat
  BY <1>1 DEF MayBecome, CrStr, Clock
<1>6. \A v \in Versions, k \in Node : v.clock[k] <= code[k].clock[k]
  BY DEF IInv, OwnClockIsAhead
<1>7. c.clock[n] >= code[n].clock[n]
  BY <1>1, <1>5 DEF MayBecome
<1>8. \A k \in Node : k # n => c.clock[k] <= code[k].clock[k]
  BY <1>6 DEF MayBecome
<1>9. OwnClockIsAhead'
  <2> SUFFICES ASSUME NEW v \in Versions \cup {c}, NEW k \in Node
               PROVE  v.clock[k] <= code'[k].clock[k]
    BY <1>4 DEF OwnClockIsAhead
  <2>1. CASE k # n
    BY <1>2, <1>6, <1>8, <2>1
  <2>2. CASE k = n
    <3>1. code'[k] = c BY <1>2, <2>2
    <3>2. CASE v = c BY <1>5, <3>1, <3>2
    <3>3. CASE v \in Versions
      <4>1. v.clock[n] <= code[n].clock[n] BY <1>6, <3>3
      <4>2. v.clock[n] \in Nat /\ code[n].clock[n] \in Nat /\ c.clock[n] \in Nat
        BY <1>1, <1>5
      <4> QED BY <1>7, <2>2, <3>1, <4>1, <4>2
    <3> QED BY <3>2, <3>3
  <2> QED BY <2>1, <2>2
<1>10. \A v, w \in Versions : v.clock = w.clock => v.text = w.text
  BY DEF IInv, SameVersionSameText
<1>11. c \in Versions \/ \A v \in Versions : v.clock # c.clock
  <2> SUFFICES ASSUME c \notin Versions, NEW v \in Versions PROVE v.clock # c.clock
    OBVIOUS
  <2>1. c.clock[n] > code[n].clock[n] BY DEF MayBecome
  <2>2. v.clock[n] <= code[n].clock[n] BY <1>6
  <2>3. v.clock[n] \in Nat /\ code[n].clock[n] \in Nat /\ c.clock[n] \in Nat
    BY <1>1, <1>5
  <2> QED BY <2>1, <2>2, <2>3
<1>12. SameVersionSameText'
  BY <1>4, <1>10, <1>11 DEF SameVersionSameText
<1> QED BY <1>9, <1>12

-----------------------------------------------------------------------------
(***************************************************************************)
(* Messages, data and windows are well formed.                             *)
(***************************************************************************)
Window == [open : BOOLEAN, started : {"GET_CODE", "DONE_START"},
           run : {"READY", "CODE_CHANGED", "DONE_TYPING"},
           prev : Text, moved : BOOLEAN, ran : Text, ranData : Data]

LEMMA TextFacts ==
    /\ Empty \in Text /\ Example \in Text /\ NoData \in Data
    /\ \A i \in Nat : i < MaxEdits => 2 + i \in Edit /\ 2 + i \in Text
BY EditorAssumption DEF Text, Edit, Data, NoData

LEMMA MessagesAreTyped ==
    ASSUME NEW n \in Node, NEW k \in Node
    PROVE  /\ NewApp(n, k) \in Message
           /\ ScriptInit(n, k) \in Message
           /\ \A c \in CrStr, d \in Data, full \in BOOLEAN :
                 TextScript(n, k, c, d, full) \in Message
BY TextFacts DEF NewApp, ScriptInit, TextScript, Message

LEMMA MessageParts ==
    ASSUME NEW m \in Message
    PROVE  /\ m.from \in Node /\ m.to \in Node
           /\ m.type = "text_script" => m.code \in CrStr /\ m.data \in Data
BY DEF Message

LEMMA SentScripts ==
    ASSUME TypeOK, NEW n \in Node, NEW c \in CrStr, NEW d \in Data,
           NEW full \in BOOLEAN, NEW m \in SendScript(n, c, d, full)
    PROVE  m \in Message /\ m.code = c
<1>1. PICK k \in contacts[n] : m = TextScript(n, k, c, d, full)
  BY DEF SendScript
<1>2. k \in Node BY DEF TypeOK
<1> QED BY <1>1, <1>2, MessagesAreTyped DEF TextScript

UsedSet == [edits : 0..MaxEdits, events : 0..MaxEvents, authors : SUBSET Node]

LEMMA AnEditIsUsed ==
    ASSUME used \in UsedSet, used.edits < MaxEdits, NEW n \in Node,
           used' = [used EXCEPT !.edits = @ + 1, !.authors = @ \cup {n}]
    PROVE  used' \in UsedSet /\ used.edits \in Nat
<1>1. used.edits \in Nat /\ used.edits + 1 \in 0..MaxEdits
  BY EditorAssumption DEF UsedSet
<1>2. used' = [edits |-> used.edits + 1, events |-> used.events,
               authors |-> used.authors \cup {n}]
  BY DEF UsedSet
<1>3. used.authors \cup {n} \in SUBSET Node /\ used.events \in 0..MaxEvents
  BY DEF UsedSet
<1> QED BY <1>1, <1>2, <1>3 DEF UsedSet

LEMMA AnEventIsUsed ==
    ASSUME used \in UsedSet, NEW keep \in BOOLEAN, keep => used.events < MaxEvents,
           used' = [used EXCEPT !.events = @ + (IF keep THEN 1 ELSE 0)]
    PROVE  used' \in UsedSet
<1>1. used.events + (IF keep THEN 1 ELSE 0) \in 0..MaxEvents
  BY EditorAssumption DEF UsedSet
<1> QED BY <1>1 DEF UsedSet

LEMMA TypesUnfolded ==
    TypeOK <=> /\ code \in [Node -> CrStr]
               /\ data \in [Node -> Data]
               /\ ui \in [Node -> Window]
               /\ contacts \in [Node -> SUBSET Node]
               /\ net \subseteq Message
               /\ used \in UsedSet
BY DEF TypeOK, Window, UsedSet

LEMMA InitHolds == Init => IInv
<1> SUFFICES ASSUME Init PROVE IInv OBVIOUS
<1>1. code \in [Node -> CrStr]
  BY ClockTypes, TextFacts DEF Init, CrStr
<1>2. data \in [Node -> Data]
  BY TextFacts DEF Init
<1>3. ui \in [Node -> Window]
  BY TextFacts DEF Init, NewWindow, Window
<1>4. contacts \in [Node -> SUBSET Node]
  BY DEF Init
<1>5. net \subseteq Message /\ \A m \in net : m.type = "new_app"
  BY MessagesAreTyped, EditorAssumption DEF Init, NewApp
<1>6. used \in [edits : 0..MaxEdits, events : 0..MaxEvents, authors : SUBSET Node]
  BY EditorAssumption DEF Init
<1>7. TypeOK
  BY <1>1, <1>2, <1>3, <1>4, <1>5, <1>6 DEF TypeOK, Window
<1>8. \A v \in Versions : \E k \in Node : v = code[k]
  BY <1>5 DEF Versions
<1>9. \A n, k \in Node : code[n].clock[k] = IF k = n THEN 1 ELSE 0
  BY DEF Init, NewClock
<1>10. OwnClockIsAhead
  <2> SUFFICES ASSUME NEW v \in Versions, NEW n \in Node
               PROVE  v.clock[n] <= code[n].clock[n]
    BY DEF OwnClockIsAhead
  <2>1. PICK k \in Node : v = code[k] BY <1>8
  <2> QED BY <1>9, <2>1
<1>11. SameVersionSameText
  <2> SUFFICES ASSUME NEW v \in Versions, NEW w \in Versions, v.clock = w.clock
               PROVE  v.text = w.text
    BY DEF SameVersionSameText
  <2>1. PICK i \in Node, j \in Node : v = code[i] /\ w = code[j] BY <1>8
  <2>2. i = j BY <1>9, <2>1
  <2> QED BY <2>1, <2>2
<1> QED BY <1>7, <1>10, <1>11 DEF IInv

-----------------------------------------------------------------------------
(***************************************************************************)
(* Every action keeps the invariant.                                       *)
(***************************************************************************)

\* Actions that touch no code and put no version in the mail.
LEMMA CodeUntouched ==
    ASSUME IInv, UNCHANGED code,
           \A m \in net' : m.type = "text_script" => m.code \in Versions
    PROVE  OwnClockIsAhead' /\ SameVersionSameText'
<1>1. Versions' \subseteq Versions
  BY DEF Versions
<1> QED BY <1>1 DEF IInv, OwnClockIsAhead, SameVersionSameText

LEMMA KnownVersions ==
    \A m \in net : m.type = "text_script" => m.code \in Versions
BY DEF Versions

LEMMA TextTypedKeeps ==
    ASSUME IInv, NEW n \in Node, NEW text \in Text, TextTyped(n, text)
    PROVE  IInv'
<1> DEFINE c == Set(code[n], n, text)
<1>1. /\ code' = [code EXCEPT ![n] = c]
      /\ net' = net \cup SendScript(n, c, data[n], FALSE)
      /\ UNCHANGED <<data, ui, contacts>>
  BY DEF TextTyped
<1>2. used.edits \in Nat /\ used.edits < MaxEdits /\ used' \in UsedSet
  BY TypesUnfolded, AnEditIsUsed DEF IInv, TextTyped
<1>3. MayBecome(n, c)
  BY TickIsNew DEF Set
<1>4. c \in CrStr /\ data[n] \in Data
  BY <1>3 DEF MayBecome, IInv, TypeOK
<1> HIDE DEF c
<1>5. net' \subseteq Message /\ \A m \in net' : m \in net \/ m.code = c
  BY <1>1, <1>4, SentScripts DEF IInv, TypeOK
<1>6. OwnClockIsAhead' /\ SameVersionSameText'
  BY <1>1, <1>3, <1>5, KnownVersions, VersionsKeep
<1>7. TypeOK'
  BY <1>1, <1>2, <1>4, <1>5 DEF IInv, TypeOK, UsedSet
<1> QED BY <1>6, <1>7 DEF IInv

\* add_data and data_item::remove differ in the data they leave.
LEMMA DataUpdatedKeeps ==
    ASSUME IInv, NEW n \in Node, NEW d \in Data, DataUpdated(n, d),
           used.edits < MaxEdits, UNCHANGED contacts,
           used' = [used EXCEPT !.edits = @ + 1, !.authors = @ \cup {n}]
    PROVE  IInv'
<1> DEFINE c == [code[n] EXCEPT !.clock = Tick(@, n)]
<1>1. /\ code' = [code EXCEPT ![n] = c]
      /\ net' = net \cup SendScript(n, c, d, TRUE)
  BY DEF DataUpdated
<1>2. code[n] \in CrStr /\ code[n].text \in Text
  BY DEF IInv, TypeOK, CrStr
<1>3. c = [clock |-> Tick(code[n].clock, n), text |-> code[n].text]
  BY <1>2 DEF CrStr
<1>4. MayBecome(n, c)
  BY <1>2, <1>3, TickIsNew
<1>5. c \in CrStr
  BY <1>4 DEF MayBecome
<1> HIDE DEF c
<1>6. net' \subseteq Message /\ \A m \in net' : m \in net \/ m.code = c
  BY <1>1, <1>5, SentScripts DEF IInv, TypeOK
<1>7. OwnClockIsAhead' /\ SameVersionSameText'
  BY <1>1, <1>4, <1>6, KnownVersions, VersionsKeep
<1>8. used' \in UsedSet
  BY TypesUnfolded, AnEditIsUsed DEF IInv
<1>9. ui' \in [Node -> Window] /\ data' \in [Node -> Data]
  BY TypesUnfolded DEF IInv, DataUpdated, Window
<1>10. TypeOK'
  BY <1>1, <1>5, <1>6, <1>8, <1>9 DEF IInv, TypeOK, UsedSet, Window
<1> QED BY <1>7, <1>10 DEF IInv

LEMMA AddDataKeeps ==
    ASSUME IInv, NEW n \in Node, NEW k \in Key, AddData(n, k)
    PROVE  IInv'
<1> DEFINE d == [data[n] EXCEPT ![k] = 2 + used.edits]
<1>1. used.edits \in Nat /\ used.edits < MaxEdits
  BY TypesUnfolded DEF IInv, AddData, UsedSet
<1>2. 2 + used.edits \in Edit /\ data[n] \in Data
  BY <1>1, TextFacts DEF IInv, TypeOK
<1>3. d \in Data BY <1>2 DEF Data
<1>4. /\ DataUpdated(n, d) /\ UNCHANGED contacts
      /\ used' = [used EXCEPT !.edits = @ + 1, !.authors = @ \cup {n}]
  BY DEF AddData
<1> HIDE DEF d
<1> QED BY <1>1, <1>3, <1>4, DataUpdatedKeeps

LEMMA RemoveDataKeeps ==
    ASSUME IInv, NEW n \in Node, NEW k \in Key, RemoveData(n, k)
    PROVE  IInv'
<1> DEFINE d == [data[n] EXCEPT ![k] = 0]
<1>1. data[n] \in Data BY DEF IInv, TypeOK
<1>2. d \in Data BY <1>1 DEF Data
<1>3. /\ DataUpdated(n, d) /\ UNCHANGED contacts /\ used.edits < MaxEdits
      /\ used' = [used EXCEPT !.edits = @ + 1, !.authors = @ \cup {n}]
  BY DEF RemoveData
<1> HIDE DEF d
<1> QED BY <1>2, <1>3, DataUpdatedKeeps

LEMMA CursorChangedKeeps ==
    ASSUME IInv, NEW n \in Node, CursorChanged(n)
    PROVE  IInv'
<1>1. used' = [used EXCEPT !.events = @ + (IF TRUE THEN 1 ELSE 0)]
  BY DEF CursorChanged
<1>2. used' \in UsedSet
  BY <1>1, TypesUnfolded, AnEventIsUsed DEF IInv, CursorChanged
<1>3. ui' \in [Node -> Window]
  BY TypesUnfolded DEF IInv, CursorChanged, Window
<1>4. UNCHANGED <<code, data, contacts, net>>
  BY DEF CursorChanged
<1>5. TypeOK'
  BY <1>2, <1>3, <1>4 DEF IInv, TypeOK, UsedSet, Window
<1> QED BY <1>4, <1>5, KnownVersions, CodeUntouched DEF IInv

LEMMA ContactQuitKeeps ==
    ASSUME IInv, NEW n \in Node, NEW k \in Node, ContactQuit(n, k)
    PROVE  IInv'
<1>1. used' = [used EXCEPT !.events = @ + (IF TRUE THEN 1 ELSE 0)]
  BY DEF ContactQuit
<1>2. used' \in UsedSet
  BY <1>1, TypesUnfolded, AnEventIsUsed DEF IInv, ContactQuit
<1>3. contacts' \in [Node -> SUBSET Node]
  BY DEF IInv, TypeOK, ContactQuit
<1>4. UNCHANGED <<code, data, ui, net>>
  BY DEF ContactQuit
<1>5. TypeOK'
  BY <1>2, <1>3, <1>4 DEF IInv, TypeOK, UsedSet
<1> QED BY <1>4, <1>5, KnownVersions, CodeUntouched DEF IInv

\* A window with another run state, and one that has run the app.
LEMMA WindowChanges ==
    ASSUME NEW w \in Window, NEW t \in Text, NEW d \in Data
    PROVE  /\ RunScript(w, t, d) \in Window
           /\ ReceivedData(w, t, d) \in Window
           /\ [w EXCEPT !.open = TRUE] \in Window
           /\ NextRunState(w, t) \in {"READY", "CODE_CHANGED", "DONE_TYPING", "RUN"}
<1>1. \A v \in Window : RunScript(v, t, d) \in Window
  BY DEF RunScript, Window
<1>2. [w EXCEPT !.prev = t] \in Window /\ [w EXCEPT !.open = TRUE] \in Window
  BY DEF Window
<1>3. w.run \in {"READY", "CODE_CHANGED", "DONE_TYPING"} BY DEF Window
<1>4. NextRunState(w, t) \in {"READY", "CODE_CHANGED", "DONE_TYPING", "RUN"}
  BY <1>3 DEF NextRunState
<1> QED BY <1>1, <1>2, <1>4 DEF ReceivedData

LEMMA TickedWindow ==
    ASSUME NEW w \in Window, NEW t \in Text
    PROVE  [w EXCEPT !.started = "DONE_START", !.prev = t, !.moved = FALSE] \in Window
<1>1. [w EXCEPT !.started = "DONE_START"] \in Window BY DEF Window
<1>2. \A v \in Window : [v EXCEPT !.prev = t] \in Window BY DEF Window
<1>3. \A v \in Window : [v EXCEPT !.moved = FALSE] \in Window BY DEF Window
<1> QED BY <1>1, <1>2, <1>3

LEMMA UpdateKeeps ==
    ASSUME IInv, NEW n \in Node, Update(n)
    PROVE  IInv'
<1> DEFINE w == ui[n]
           t == code[n].text
           r == NextRunState(w, t)
           v == [w EXCEPT !.started = "DONE_START", !.prev = t, !.moved = FALSE]
           new == IF r = "RUN" THEN RunScript(v, t, data[n]) ELSE [v EXCEPT !.run = r]
<1>1. ui' = [ui EXCEPT ![n] = new] /\ net' = net \cup Ask(n)
      /\ UNCHANGED <<code, data, contacts, used>>
  BY DEF Update
<1>2. w \in Window /\ t \in Text /\ data[n] \in Data
  BY TypesUnfolded DEF IInv, CrStr
<1>4. v \in Window BY <1>2, TickedWindow
<1>5. new \in Window
  <2>1. CASE r = "RUN" BY <1>2, <1>4, <2>1, WindowChanges
  <2>2. CASE r # "RUN"
    <3>1. r \in {"READY", "CODE_CHANGED", "DONE_TYPING"}
      BY <1>2, <2>2, WindowChanges
    <3> HIDE DEF v, r
    <3>2. [v EXCEPT !.run = r] \in Window BY <1>4, <3>1 DEF Window
    <3> QED BY <2>2, <3>2
  <2> QED BY <2>1, <2>2
<1> HIDE DEF new
<1>6. ui' \in [Node -> Window]
  BY <1>1, <1>5, TypesUnfolded DEF IInv
<1>7. Ask(n) \subseteq Message /\ \A m \in Ask(n) : m.type = "script_init"
  BY EditorAssumption, MessagesAreTyped DEF Ask, ScriptInit
<1>8. TypeOK'
  BY <1>1, <1>6, <1>7 DEF IInv, TypeOK, Window
<1> QED BY <1>1, <1>7, <1>8, KnownVersions, CodeUntouched DEF IInv

LEMMA ReceiveKeeps ==
    ASSUME IInv, NEW m \in net, NEW keep \in BOOLEAN, Receive(m, keep)
    PROVE  IInv'
<1> DEFINE n == m.to
<1>1. m \in Message /\ m.from \in Node /\ n \in Node
  BY MessageParts DEF IInv, TypeOK
<1>2. Take(m, keep)
  BY DEF Receive, ReceivedNewApp, ReceivedScriptInit, ReceivedCode
<1>3. used' \in UsedSet
  BY <1>2, TypesUnfolded, AnEventIsUsed DEF IInv, Take
<1>4. Rest(m, keep) \subseteq net
  BY DEF Rest
<1>5. CASE ReceivedNewApp(m, keep)
  <2>1. net' \subseteq net /\ UNCHANGED <<code, data, contacts>>
    BY <1>4, <1>5 DEF ReceivedNewApp
  <2>2. ui' \in [Node -> Window]
    BY <1>1, <1>5, TypesUnfolded, WindowChanges, TextFacts DEF IInv, ReceivedNewApp, Window
  <2>3. TypeOK'
    BY <1>3, <2>1, <2>2 DEF IInv, TypeOK, UsedSet, Window
  <2> QED BY <2>1, <2>3, KnownVersions, CodeUntouched DEF IInv
<1>6. CASE ReceivedScriptInit(m, keep)
  <2> DEFINE s == TextScript(n, m.from, code[n], data[n], TRUE)
  <2>1. UNCHANGED <<code, data, ui, contacts>>
    BY <1>6 DEF ReceivedScriptInit
  <2>2. net' \subseteq net \cup {s}
    BY <1>4, <1>6 DEF ReceivedScriptInit
  <2>3. code[n] \in CrStr /\ data[n] \in Data /\ code[n] \in Versions
    BY <1>1, VersionTypes DEF IInv, TypeOK
  <2>4. s \in Message /\ s.code \in Versions
    BY <1>1, <2>3, MessagesAreTyped DEF TextScript
  <2> HIDE DEF s
  <2>5. TypeOK'
    BY <1>3, <2>1, <2>2, <2>4 DEF IInv, TypeOK, UsedSet
  <2> QED BY <2>1, <2>2, <2>4, <2>5, KnownVersions, CodeUntouched DEF IInv
<1>7. CASE ReceivedCode(m, keep)
  <2> DEFINE c == Merge(code[n], m.code, n)
             d == Import(data[n], m.data, MergeResult(code[n], m.code))
             seen == ui[n].open /\ m.from \in contacts[n]
  <2>1. m.code \in Versions /\ m.code \in CrStr /\ m.data \in Data
    BY <1>1, <1>7, KnownVersions, MessageParts DEF ReceivedCode
  <2>2. MayBecome(n, c) /\ c \in CrStr /\ c.text \in Text
    BY <1>1, <2>1, MergeIsKnownOrNew DEF MayBecome, CrStr
  <2>3. data[n] \in Data BY <1>1 DEF IInv, TypeOK
  <2>4. d \in Data BY <2>1, <2>3 DEF Import, Data
  <2>5. net' \subseteq net /\ UNCHANGED contacts
    BY <1>4, <1>7 DEF ReceivedCode
  <2>6. CASE ~seen
    <3>1. UNCHANGED <<code, data, ui>> BY <1>7, <2>6 DEF ReceivedCode
    <3>2. TypeOK' BY <1>3, <2>5, <3>1 DEF IInv, TypeOK, UsedSet
    <3> QED BY <2>5, <3>1, <3>2, KnownVersions, CodeUntouched DEF IInv
  <2>7. CASE seen
    <3>1. /\ code' = [code EXCEPT ![n] = c]
          /\ data' = IF m.full THEN [data EXCEPT ![n] = d] ELSE data
          /\ ui' = IF m.full THEN [ui EXCEPT ![n] = ReceivedData(@, c.text, d)] ELSE ui
      BY <1>7, <2>7 DEF ReceivedCode
    <3>2. OwnClockIsAhead' /\ SameVersionSameText'
      BY <1>1, <2>2, <2>5, <3>1, KnownVersions, VersionsKeep
    <3>3. ui[n] \in Window BY <1>1, TypesUnfolded DEF IInv
    <3>4. ReceivedData(ui[n], c.text, d) \in Window BY <2>2, <2>4, <3>3, WindowChanges
    <3> HIDE DEF c, d
    <3>5. ui' \in [Node -> Window] BY <3>1, <3>4, TypesUnfolded DEF IInv
    <3>6. data' \in [Node -> Data] BY <2>4, <3>1 DEF IInv, TypeOK
    <3>7. code' \in [Node -> CrStr] BY <2>2, <3>1 DEF IInv, TypeOK
    <3>8. TypeOK'
      BY <1>3, <2>5, <3>5, <3>6, <3>7 DEF IInv, TypeOK, UsedSet, Window
    <3> QED BY <3>2, <3>8 DEF IInv
  <2> QED BY <2>6, <2>7
<1> QED BY <1>5, <1>6, <1>7 DEF Receive

LEMMA NextKeeps == IInv /\ [Next]_vars => IInv'
<1> SUFFICES ASSUME IInv, [Next]_vars PROVE IInv' OBVIOUS
<1>1. CASE \/ \E n \in Node, text \in Text : TextTyped(n, text)
           \/ \E n \in Node : CursorChanged(n) \/ Update(n)
  BY <1>1, TextTypedKeeps, CursorChangedKeeps, UpdateKeeps
<1>2. CASE \E n \in Node, k \in Key : AddData(n, k) \/ RemoveData(n, k)
  BY <1>2, AddDataKeeps, RemoveDataKeeps
<1>3. CASE \E n \in Node, k \in Node : ContactQuit(n, k)
  BY <1>3, ContactQuitKeeps
<1>4. CASE \E m \in net, keep \in BOOLEAN : Receive(m, keep)
  BY <1>4, ReceiveKeeps
<1>5. CASE UNCHANGED vars
  <2>1. UNCHANGED Versions BY <1>5 DEF vars, Versions
  <2> QED
    BY <1>5, <2>1 DEF IInv, TypeOK, OwnClockIsAhead, SameVersionSameText, vars
<1> QED BY <1>1, <1>2, <1>3, <1>4, <1>5 DEF Next

THEOREM Invariance == Spec => []IInv
<1> QED BY InitHolds, NextKeeps, PTL DEF Spec

(***************************************************************************)
(* Every editor, window and message has its type, for every number of      *)
(* contacts: texts are those somebody wrote, and the state machine of      *)
(* app_editor::update stays in its three states.                           *)
(***************************************************************************)
THEOREM EditorsAreTyped == Spec => []TypeOK
<1>1. IInv => TypeOK BY DEF IInv
<1> QED BY <1>1, Invariance, PTL

(***************************************************************************)
(* cr_string::merge never gives one clock two texts: a node that answers   *)
(* NO_CHANGE to a clock it knows has not missed a text, whoever edits,     *)
(* however the mail is reordered or repeated.                              *)
(***************************************************************************)
THEOREM VersionsNameTexts == Spec => []SameVersionSameText
<1>1. IInv => SameVersionSameText BY DEF IInv
<1> QED BY <1>1, Invariance, PTL

=============================================================================
