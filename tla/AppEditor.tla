----------------------------- MODULE AppEditor ------------------------------
(***************************************************************************)
(* The shared code editor of a conversation (gui/app/app_editor).  One     *)
(* contact, Starter, opens an editor; the new_app message opens one at     *)
(* every other contact (gui/app_area).  Each editor keeps the code as a    *)
(* cr_string and the app's data as a table, sends the code to all on every *)
(* key and code and data on every change of the data, merges what it       *)
(* receives, and runs the code when a timer has twice seen it unchanged.   *)
(* Mail may be reordered and delivered more than once (see UdpQueue); mail *)
(* for an editor that is not open yet finds no mailbox and is dropped.     *)
(***************************************************************************)
EXTENDS CrString, FiniteSets

CONSTANTS Starter,      \* the contact who opened the editor first
          Key,          \* keys of the app's data
          MaxEdits,     \* bound: edits of code or data, over all contacts
          MaxEvents     \* bound: mail delivered twice, cursor moves and
                        \* contacts seen leaving, all together

ASSUME EditorAssumption ==
    /\ Starter \in Node
    /\ MaxEdits \in Nat /\ MaxEvents \in Nat

VARIABLES code,     \* code[n]: the cr_string of n's editor
          data,     \* data[n]: the app's data at n, 0 where a key is absent
          ui,       \* ui[n]: the state of n's editor window, see TypeOK
          contacts, \* contacts[n]: the contacts n sees in the conversation
          net,      \* mail in flight
          used      \* how much of each bound has been used, and who edited

vars == <<code, data, ui, contacts, net, used>>

Empty == 0          \* the text of an app just created
Example == 1        \* EXAMPLE_APP
Edit == 2..(1 + MaxEdits)   \* what the edits write, a fresh value each
Text == {Empty, Example} \cup Edit
Data == [Key -> {0} \cup Edit]
NoData == [k \in Key |-> 0]
CrStr == [clock : Clock, text : Text]

NewApp(from, to) == [type |-> "new_app", from |-> from, to |-> to]
ScriptInit(from, to) == [type |-> "script_init", from |-> from, to |-> to]
TextScript(from, to, c, d, full) ==
    [type |-> "text_script", from |-> from, to |-> to,
     code |-> c, data |-> IF full THEN d ELSE NoData, full |-> full]

Message ==
    [type : {"new_app", "script_init"}, from : Node, to : Node]
      \cup [type : {"text_script"}, from : Node, to : Node,
            code : CrStr, data : Data, full : BOOLEAN]

\* The window before it is opened: constructor and init_code_tab
NewWindow(open, text) ==
    [open |-> open, started |-> IF text = Empty THEN "GET_CODE" ELSE "DONE_START",
     run |-> "READY", prev |-> Empty, moved |-> FALSE,
     ran |-> text, ranData |-> NoData]

-----------------------------------------------------------------------------
\* app_area::add_app_editor at the starter, whose new_app is on its way
Init ==
    /\ code = [n \in Node |-> [clock |-> NewClock(n),
                               text |-> IF n = Starter THEN Example ELSE Empty]]
    /\ data = [n \in Node |-> NoData]
    /\ ui = [n \in Node |-> NewWindow(n = Starter,
                                      IF n = Starter THEN Example ELSE Empty)]
    /\ contacts = [n \in Node |-> Node \ {n}]
    /\ net = {NewApp(Starter, n) : n \in Node \ {Starter}}
    /\ used = [edits |-> 0, events |-> 0, authors |-> {}]

\* app_editor::send_script: to everybody in the conversation, as this node sees it
SendScript(n, c, d, full) == {TextScript(n, k, c, d, full) : k \in contacts[n]}

\* app_editor::text_typed: a key was pressed in the editor, which now shows
\* nothing, a text there was before, or a new one
TextTyped(n, text) ==
    /\ ui[n].open
    /\ used.edits < MaxEdits
    /\ text <= 2 + used.edits
    /\ LET c == Set(code[n], n, text)
       IN  /\ code' = [code EXCEPT ![n] = c]
           /\ net' = net \cup SendScript(n, c, data[n], FALSE)
    /\ used' = [used EXCEPT !.edits = @ + 1, !.authors = @ \cup {n}]
    /\ UNCHANGED <<data, ui, contacts>>

\* app_editor::data_updated, after the data of n became d
DataUpdated(n, d) ==
    LET c == [code[n] EXCEPT !.clock = Tick(@, n)]
    IN  /\ data' = [data EXCEPT ![n] = d]
        /\ ui' = [ui EXCEPT ![n].run = "CODE_CHANGED"]
        /\ code' = [code EXCEPT ![n] = c]
        /\ net' = net \cup SendScript(n, c, d, TRUE)

\* app_editor::add_data: a key is given a value
AddData(n, k) ==
    /\ ui[n].open
    /\ used.edits < MaxEdits
    /\ DataUpdated(n, [data[n] EXCEPT ![k] = 2 + used.edits])
    /\ used' = [used EXCEPT !.edits = @ + 1, !.authors = @ \cup {n}]
    /\ UNCHANGED contacts

\* data_item::remove: a key is removed
RemoveData(n, k) ==
    /\ ui[n].open
    /\ data[n][k] # 0
    /\ used.edits < MaxEdits
    /\ DataUpdated(n, [data[n] EXCEPT ![k] = 0])
    /\ used' = [used EXCEPT !.edits = @ + 1, !.authors = @ \cup {n}]
    /\ UNCHANGED contacts

\* app_editor::cursor_changed: the timer will see another position; the
\* message to the others only moves a coloured selection
CursorChanged(n) ==
    /\ ui[n].open /\ ~ui[n].moved
    /\ used.events < MaxEvents
    /\ ui' = [ui EXCEPT ![n].moved = TRUE]
    /\ used' = [used EXCEPT !.events = @ + 1]
    /\ UNCHANGED <<code, data, contacts, net>>

-----------------------------------------------------------------------------
\* Mutant: an editor that has no code does not ask for it
AskNobody(n) == {}

\* app_editor::init_update and ask_for_script
Ask(n) == IF ui[n].started = "GET_CODE" /\ n # Starter
          THEN {ScriptInit(n, Starter)} ELSE {}

\* The switch of app_editor::update; "RUN" is READY after run_script
NextRunState(w, text) ==
    LET same == text = w.prev
    IN  CASE w.run = "READY" -> IF same THEN "READY" ELSE "CODE_CHANGED"
          [] w.run = "CODE_CHANGED" ->
               IF same /\ ~w.moved THEN "DONE_TYPING" ELSE "CODE_CHANGED"
          [] w.run = "DONE_TYPING" ->
               IF same THEN IF w.moved THEN "DONE_TYPING" ELSE "RUN"
                       ELSE "CODE_CHANGED"

\* app_editor::run_script: the backend is reset and given the code, and the
\* app reads the data of this moment
RunScript(w, text, d) == [w EXCEPT !.run = "READY", !.ran = text, !.ranData = d]

\* app_editor::update: the timer of the editor
Update(n) ==
    /\ ui[n].open
    /\ LET w == ui[n]
           t == code[n].text
           r == NextRunState(w, t)
           v == [w EXCEPT !.started = "DONE_START", !.prev = t, !.moved = FALSE]
       IN  ui' = [ui EXCEPT ![n] = IF r = "RUN" THEN RunScript(v, t, data[n])
                                   ELSE [v EXCEPT !.run = r]]
    /\ net' = net \cup Ask(n)
    /\ UNCHANGED <<code, data, contacts, used>>

-----------------------------------------------------------------------------
\* Taking m from the net, with or without a copy left behind
Take(m, keep) ==
    /\ m \in net
    /\ keep => used.events < MaxEvents
    /\ used' = [used EXCEPT !.events = @ + (IF keep THEN 1 ELSE 0)]

Rest(m, keep) == IF keep THEN net ELSE net \ {m}

\* app_area::add_new_app: an app that is already there is not opened again
ReceivedNewApp(m, keep) ==
    /\ m.type = "new_app"
    /\ Take(m, keep)
    /\ net' = Rest(m, keep)
    /\ ui' = IF ui[m.to].open THEN ui ELSE [ui EXCEPT ![m.to].open = TRUE]
    /\ UNCHANGED <<code, data, contacts>>

\* app_editor::received_script_init and send_script_to
ReceivedScriptInit(m, keep) ==
    /\ m.type = "script_init"
    /\ Take(m, keep)
    /\ net' = IF ui[m.to].open /\ m.from \in contacts[m.to]
              THEN Rest(m, keep) \cup {TextScript(m.to, m.from, code[m.to],
                                                  data[m.to], TRUE)}
              ELSE Rest(m, keep)
    /\ UNCHANGED <<code, data, ui, contacts>>

\* disk_store::import_from over the data of n, cleared first when the code
\* was replaced by a newer one
Import(d, o, r) ==
    [k \in Key |-> IF o[k] # 0 THEN o[k] ELSE IF r = "UPDATED" THEN 0 ELSE d[k]]

\* Mutant: the new data is stored but not run
ReceivedDataQuietly(w, text, d) == [w EXCEPT !.prev = text, !.run = "READY"]

\* The end of app_editor::received_code when the message carried data
ReceivedData(w, text, d) == RunScript([w EXCEPT !.prev = text], text, d)

\* app_editor::received_code
ReceivedCode(m, keep) ==
    /\ m.type = "text_script"
    /\ Take(m, keep)
    /\ net' = Rest(m, keep)
    /\ UNCHANGED contacts
    /\ LET n == m.to
           c == Merge(code[n], m.code, n)
           d == Import(data[n], m.data, MergeResult(code[n], m.code))
       IN  IF ui[n].open /\ m.from \in contacts[n]
           THEN /\ code' = [code EXCEPT ![n] = c]
                /\ data' = IF m.full THEN [data EXCEPT ![n] = d] ELSE data
                /\ ui' = IF m.full
                         THEN [ui EXCEPT ![n] = ReceivedData(@, c.text, d)]
                         ELSE ui
           ELSE UNCHANGED <<code, data, ui>>

\* conversation::remove_contact at n: k has left (see Conversation)
ContactQuit(n, k) ==
    /\ used.events < MaxEvents
    /\ k \in contacts[n]
    /\ contacts' = [contacts EXCEPT ![n] = @ \ {k}]
    /\ used' = [used EXCEPT !.events = @ + 1]
    /\ UNCHANGED <<code, data, ui, net>>

Receive(m, keep) == \/ ReceivedNewApp(m, keep)
                    \/ ReceivedScriptInit(m, keep)
                    \/ ReceivedCode(m, keep)

Next ==
    \/ \E n \in Node, text \in Text : TextTyped(n, text)
    \/ \E n \in Node : CursorChanged(n) \/ Update(n)
    \/ \E n \in Node, k \in Key : AddData(n, k) \/ RemoveData(n, k)
    \/ \E n \in Node, k \in Node : ContactQuit(n, k)
    \/ \E m \in net, keep \in BOOLEAN : Receive(m, keep)

Spec == Init /\ [][Next]_vars

\* The timer keeps firing and mail that was sent is delivered.  Each such step
\* that changes something brings the editors closer to rest, so that it is
\* enough to ask that these steps, taken together, do not stop.
Progress == \/ \E n \in Node : Update(n)
            \/ \E m \in net : Receive(m, FALSE)

FairSpec == Spec /\ WF_vars(Progress)

-----------------------------------------------------------------------------
TypeOK ==
    /\ code \in [Node -> CrStr]
    /\ data \in [Node -> Data]
    /\ ui \in [Node -> [open : BOOLEAN, started : {"GET_CODE", "DONE_START"},
                        run : {"READY", "CODE_CHANGED", "DONE_TYPING"},
                        prev : Text, moved : BOOLEAN, ran : Text, ranData : Data]]
    /\ contacts \in [Node -> SUBSET Node]
    /\ net \subseteq Message
    /\ used \in [edits : 0..MaxEdits, events : 0..MaxEvents,
                 authors : SUBSET Node]

\* The versions of the code that exist: in an editor or on their way to one
Versions == {code[n] : n \in Node}
              \cup {m.code : m \in {x \in net : x.type = "text_script"}}

(***************************************************************************)
(* Two copies of the code with the same clock hold the same text, wherever *)
(* they are: cr_string::merge never gives one version two contents, so a   *)
(* node that answers NO_CHANGE to a clock it knows has not missed a text.  *)
(***************************************************************************)
SameVersionSameText ==
    \A v, w \in Versions : v.clock = w.clock => v.text = w.text

(***************************************************************************)
(* The text was emptied before the first tick of app_editor::update, which *)
(* compares it with _prev_code, still empty as well, and sees no change:   *)
(* the example keeps running.                                              *)
(***************************************************************************)
EmptiedUnseen(n) ==
    /\ n = Starter /\ ui[n].ran = Example
    /\ code[n].text = Empty
    /\ ui[n].prev = Empty /\ ui[n].run = "READY"

(***************************************************************************)
(* What runs is what is shown: once nobody edits any more, every open      *)
(* editor ends up running the code and the data it holds, whatever was     *)
(* typed, and whatever mail arrived, between two ticks of                  *)
(* app_editor::update.  The one exception is named: EmptiedUnseen.         *)
(***************************************************************************)
LatestCodeRuns ==
    <>[](\A n \in Node : ui[n].open =>
            /\ ui[n].ran = code[n].text \/ EmptiedUnseen(n)
            /\ ui[n].ranData = data[n])

(***************************************************************************)
(* When only the starter edits and nobody leaves, every editor ends up     *)
(* with the starter's text, although edits made before a contact's editor  *)
(* opened were dropped and later ones may overtake each other.             *)
(***************************************************************************)
SoleAuthorPrevails ==
    \/ <>(~(used.authors \subseteq {Starter}))
    \/ <>(\E n \in Node : contacts[n] # Node \ {n})
    \/ <>[](\A n \in Node : code[n].text = code[Starter].text)

(***************************************************************************)
(* "a version vector and three way merge for attaining eventual            *)
(* consistency" (util/crstring.hpp): when no mail is left and every editor *)
(* has asked for the code, they show the same text.                        *)
(***************************************************************************)
QuiescentReplicasAgree ==
    (net = {} /\ \A n \in Node : ui[n].open /\ ui[n].started = "DONE_START")
      => \A n, k \in Node : code[n].text = code[k].text

=============================================================================
