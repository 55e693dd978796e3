--------------------------- MODULE KeyValueStore ----------------------------
(***************************************************************************)
(* What the table of an app's data promises to the app that uses it: the   *)
(* abstract specification that DiskStore implements.                       *)
(*                                                                         *)
(* An operation names the keys it touches and what they shall hold.  Until *)
(* it is done these keys, and no others, may change; when it is done they  *)
(* hold what was asked for, and a crash that comes later changes nothing.  *)
(* A crash that comes before it is done may leave any of its keys as they  *)
(* were, empty, or gone; it may also cost the whole table, and so may a    *)
(* save of the whole table that breaks off without one.  A key can be      *)
(* spoilt by a read that comes too late; operations on it fail, and such a *)
(* failure leaves the other keys of the operation unsettled.               *)
(***************************************************************************)
CONSTANTS Key, Value,
          Absent,     \* the key is not in the table
          Blank,      \* the key is in the table and has no value
          Broken      \* the key is in the table and cannot be used

VARIABLES store,      \* store[k]: what the table holds for k
          up,         \* somebody has the table open
          busy,       \* an operation is running
          asked,      \* what the running operation shall make of its keys
          unsettled   \* the keys whose content may not survive a crash

vars == <<store, up, busy, asked, unsettled>>

Content == Value \cup {Absent, Blank, Broken}
Nothing == [k \in {} |-> Absent]
Requests == UNION {[K -> Value \cup {Absent}] : K \in SUBSET Key}

Init ==
    /\ store = [k \in Key |-> Absent]
    /\ up = FALSE
    /\ busy = FALSE
    /\ asked = Nothing
    /\ unsettled = {}

\* The table is opened
Open ==
    /\ up' = TRUE
    /\ UNCHANGED <<store, busy, asked, unsettled>>

\* An operation starts; it has changed nothing yet
Begin(r) ==
    /\ ~busy
    /\ busy' = TRUE
    /\ asked' = r
    /\ unsettled' = unsettled \cup DOMAIN r
    /\ UNCHANGED <<store, up>>

\* The running operation works on some of its keys
Work ==
    /\ busy
    /\ store' \in [Key -> Content]
    /\ \A k \in Key :
         \/ store'[k] = store[k]
         \/ k \in DOMAIN asked /\ store'[k] \in {asked[k], Blank, Absent}
    /\ UNCHANGED <<up, busy, asked, unsettled>>

\* It ends, having done what it was asked to do
Done ==
    /\ busy /\ up
    /\ \A k \in DOMAIN asked : store[k] = asked[k]
    /\ busy' = FALSE /\ asked' = Nothing
    /\ unsettled' = {}
    /\ UNCHANGED <<store, up>>

\* It ends early, because one of its keys is spoilt
Fail ==
    /\ busy
    /\ \E k \in DOMAIN asked : store[k] = Broken
    /\ busy' = FALSE /\ asked' = Nothing
    /\ unsettled' \in SUBSET unsettled
    /\ UNCHANGED <<store, up>>

\* A save over the whole table, which nobody has open, breaks off after the old
\* content is gone
BreakOff ==
    /\ busy /\ ~up
    /\ DOMAIN asked = Key
    /\ store = [k \in Key |-> Absent]
    /\ busy' = FALSE /\ asked' = Nothing
    /\ unsettled' = {}
    /\ UNCHANGED <<store, up>>

\* A key that is not there is spoilt
Spoil(k) ==
    /\ ~busy
    /\ store[k] = Absent
    /\ store' = [store EXCEPT ![k] = Broken]
    /\ UNCHANGED <<up, busy, asked, unsettled>>

\* The table in memory is lost
Crash ==
    /\ up' = FALSE
    /\ \/ /\ busy
          /\ store' = [k \in Key |-> Absent]
       \/ /\ store' \in [Key -> Content]
          /\ \A k \in Key :
               \/ store'[k] = store[k]
               \/ store'[k] = Absent /\ store[k] = Broken
               \/ store'[k] \in {Absent, Blank} /\ k \in unsettled
    /\ busy' = FALSE /\ asked' = Nothing
    /\ unsettled' = {}

Next ==
    \/ \E r \in Requests : Begin(r)
    \/ Open \/ Work \/ Done \/ Fail \/ BreakOff \/ Crash
    \/ \E k \in Key : Spoil(k)

Spec == Init /\ [][Next]_vars

=============================================================================
