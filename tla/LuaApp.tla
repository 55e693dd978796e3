------------------------------- MODULE LuaApp -------------------------------
(***************************************************************************)
(* A scripted app and its three threads.  The backend (gui/lua) is a       *)
(* service: one thread takes messages from its mailbox and runs Lua.  What *)
(* the script does to its window goes through the frontend client          *)
(* (gui/qtw/frontend_client), which emits a signal that Qt queues for the  *)
(* GUI thread; a question waits for the answer, one second at most, except *)
(* for the choice of a file, which waits for ever.  What the user does to  *)
(* the window goes back as a message with the number of the widget.  A     *)
(* window that closes is handed to the reaper (gui/app/app_reaper), whose  *)
(* thread stops the backend; at exit the GUI thread waits for the reaper   *)
(* and stops the backends that are left itself.                            *)
(*                                                                         *)
(* Widgets are told apart by how the code treats their kind; what is drawn *)
(* and written in them is left out.                                        *)
(***************************************************************************)
EXTENDS Naturals, Sequences, FiniteSets

CONSTANTS App,
          Editor,      \* the apps that are editors; the others run one script
          MaxCalls,    \* bound: calls of the frontend by scripts, over all apps
          MaxEvents,   \* bound: user events, over all apps
          MaxReruns    \* bound: times an editor runs its script again

ASSUME LuaAppAssumption ==
    /\ Editor \subseteq App
    /\ {MaxCalls, MaxEvents, MaxReruns} \subseteq Nat

(***************************************************************************)
(* Kinds of widget.  button stands for the kinds whose handler runs a Lua  *)
(* function at once and whose references reset_refs clears (button, timer, *)
(* grid, list, image); edit for those whose handler first asks the window  *)
(* for the text (edit, text_edit); dropdown for those that reset_refs      *)
(* forgets (dropdown, label, draw); mic for the microphone and the speaker *)
(* which neither reset_refs nor the reset of the frontend removes.         *)
(***************************************************************************)
Kind == {"button", "edit", "dropdown", "mic"}

\* lua_api::reset_refs: the kinds whose tables it clears
Cleared == {"button", "edit"}

\* qt_frontend::reset: the kinds whose widgets survive it
Lasting == {"mic"}

Widget == [id : 1..MaxCalls, kind : Kind, run : 0..MaxReruns]
None == [id |-> 0, kind |-> "none", run |-> 0]

VARIABLES front,   \* front[a]: [done, widgets] of the frontend, on the GUI thread
          back,    \* back[a]: the backend and its thread, see AppTypeOK
          inbox,   \* inbox[a]: messages for the backend
          events,  \* signals queued for the GUI thread
          gui,     \* [pc, app]: what the GUI thread is doing
          windows, \* apps whose window is open
          reaper,  \* [queue, done, pc, app]: the reaper and its thread
          cleaned, \* apps whose hidden window has been deleted
          used     \* how much of each bound has been used

appVars == <<front, back, inbox, events, gui, windows, reaper, cleaned, used>>

Run == [type |-> "run"]
Reset == [type |-> "reset"]
Event(w) == [type |-> "event", widget |-> w]

\* signals: what is done to widget w of app a
Signal(a, op, w) == [app |-> a, op |-> op, widget |-> w]
Cleanup(a) == Signal(a, "cleanup", None)

\* A script app has been started: script_app::start
AppInit ==
    /\ front = [a \in App |-> [done |-> FALSE, widgets |-> {}]]
    /\ back = [a \in App |-> [pc |-> "pop", refs |-> {}, ids |-> 0, run |-> 0,
                              stop |-> FALSE, event |-> None, ref |-> None,
                              answered |-> FALSE]]
    /\ inbox = [a \in App |-> <<Run>>]
    /\ events = <<>>
    /\ gui = [pc |-> "loop", app |-> CHOOSE a \in App : TRUE]
    /\ windows = App
    /\ reaper = [queue |-> <<>>, done |-> FALSE, pc |-> "pop",
                 app |-> CHOOSE a \in App : TRUE]
    /\ cleaned = {}
    /\ used = [calls |-> 0, events |-> 0, reruns |-> 0]

-----------------------------------------------------------------------------
\* The backend thread: service_thread and the handlers of backend_client.

\* service_thread leaves its loop; nothing more is taken from the mailbox
BackendEnds(a) ==
    /\ back[a].pc = "pop" /\ back[a].stop
    /\ back' = [back EXCEPT ![a].pc = "ended"]
    /\ UNCHANGED <<front, inbox, events, gui, windows, reaper, cleaned, used>>

Pops(a, type) ==
    /\ back[a].pc = "pop" /\ ~back[a].stop
    /\ inbox[a] # <<>> /\ Head(inbox[a]).type = type
    /\ inbox' = [inbox EXCEPT ![a] = Tail(@)]
    /\ UNCHANGED <<front, events, gui, windows, reaper, cleaned, used>>

\* RUN_CODE: lua_api::run executes the script
HandleRun(a) ==
    /\ Pops(a, "run")
    /\ back' = [back EXCEPT ![a].pc = "lua"]

\* Mutant: the numbers of the widgets start again with the script
ResetRefsAndIds(b) == [b EXCEPT !.refs = {r \in @ : r.kind \notin Cleared},
                                !.run = @ + 1, !.ids = 0]

\* lua_api::reset: reset_refs and a new Lua state.  ids goes on counting.
ResetRefs(b) == [b EXCEPT !.refs = {r \in @ : r.kind \notin Cleared}, !.run = @ + 1]

\* RESET_BACKEND
HandleReset(a) ==
    /\ Pops(a, "reset")
    /\ back' = [back EXCEPT ![a] = ResetRefs(@)]

\* The reference an event finds under the number it carries
RefOf(a, w) == {r \in back[a].refs : r.id = w.id /\ r.kind = w.kind}

\* BUTTON_CLICKED, TIMER_TRIGGERED, DROPDOWN_SELECTED, GOT_SOUND, DRAW_*: the
\* callback is called; an unknown number is ignored.  edit_edited and
\* text_edit_edited first ask the window for the text.
HandleEvent(a) ==
    /\ Pops(a, "event")
    /\ LET w == Head(inbox[a]).widget
       IN  \/ /\ RefOf(a, w) = {}
              /\ back' = back
           \/ \E r \in RefOf(a, w) :
                 back' = [back EXCEPT ![a].pc = IF r.kind = "edit" THEN "text" ELSE "lua",
                                      ![a].event = w, ![a].ref = r]

\* The handler returns to the loop of service_thread
HandlerReturns(a) ==
    /\ back[a].pc = "lua"
    /\ back' = [back EXCEPT ![a].pc = "pop", ![a].event = None, ![a].ref = None]
    /\ UNCHANGED <<front, inbox, events, gui, windows, reaper, cleaned, used>>

-----------------------------------------------------------------------------
\* What a script calls while it runs.

\* Every method of qt_frontend_client: nothing is emitted once it is done
Emit(a, op, w) == IF front[a].done THEN events
                  ELSE Append(events, Signal(a, op, w))

\* lua_api::make_button and its like: a new number, a reference, a widget
CallMake(a, k) ==
    /\ back[a].pc = "lua"
    /\ used.calls < MaxCalls
    /\ LET w == [id |-> back[a].ids + 1, kind |-> k, run |-> back[a].run]
       IN  /\ back' = [back EXCEPT ![a].ids = @ + 1, ![a].refs = @ \cup {w}]
           /\ events' = Emit(a, "add", w)
    /\ used' = [used EXCEPT !.calls = @ + 1]
    /\ UNCHANGED <<front, inbox, gui, windows, reaper, cleaned>>

\* set_text, place, clear, start, stop, ...: something is done to a widget
CallSet(a, w) ==
    /\ back[a].pc = "lua" /\ w \in back[a].refs
    /\ used.calls < MaxCalls
    /\ events' = Emit(a, "set", w)
    /\ used' = [used EXCEPT !.calls = @ + 1]
    /\ UNCHANGED <<front, back, inbox, gui, windows, reaper, cleaned>>

\* get_text, size, running, ...: the thread waits for the answer, or has the
\* default at once when the frontend is done
Asks(a, op, w, pc) ==
    /\ back' = [back EXCEPT ![a].pc = IF front[a].done THEN "lua" ELSE pc,
                            ![a].answered = FALSE]
    /\ events' = Emit(a, op, w)
    /\ UNCHANGED <<front, inbox, gui, windows, reaper, cleaned>>

CallGet(a, w) ==
    /\ back[a].pc = "lua" /\ w \in back[a].refs
    /\ used.calls < MaxCalls
    /\ Asks(a, "get", w, "wait")
    /\ used' = [used EXCEPT !.calls = @ + 1]

\* open_file, open_bin_file
CallOpenFile(a) ==
    /\ back[a].pc = "lua"
    /\ used.calls < MaxCalls
    /\ Asks(a, "file", None, "file")
    /\ used' = [used EXCEPT !.calls = @ + 1]

\* edit_edited: the text of the edit is asked for before the callback is called
AskText(a) ==
    /\ back[a].pc = "text"
    /\ Asks(a, "get", back[a].ref, "wait")
    /\ UNCHANGED used

\* get_until: the answer came
Answered(a) ==
    /\ back[a].pc \in {"wait", "file"} /\ back[a].answered
    /\ back' = [back EXCEPT ![a].pc = "lua"]
    /\ UNCHANGED <<front, inbox, events, gui, windows, reaper, cleaned, used>>

\* Mutant: the future is waited for without a limit
WaitsOn(a) == FALSE /\ UNCHANGED appVars

\* get_until: TIMEOUT has passed, the default is returned
TimedOut(a) ==
    /\ back[a].pc = "wait"
    /\ back' = [back EXCEPT ![a].pc = "lua"]
    /\ UNCHANGED <<front, inbox, events, gui, windows, reaper, cleaned, used>>

-----------------------------------------------------------------------------
\* The GUI thread.

\* Mutant: a slot that does not look at _done
AddAnyway(f, w) == [f EXCEPT !.widgets = @ \cup {w}]

\* do_add_*: nothing is added to a frontend that is done
Add(f, w) == IF f.done THEN f ELSE [f EXCEPT !.widgets = @ \cup {w}]

Question == {"get", "file"}

\* Every question has a promise of its own: an answer to one the backend no
\* longer waits for is dropped, even when the backend has asked another since
StillAsked(a, queue) ==
    \A i \in DOMAIN queue : queue[i].app = a => queue[i].op \notin Question

\* A queued signal reaches its slot.  A question is answered, with the default
\* when the frontend is done or has no such widget; app_reaper::do_cleanup
\* deletes the window.
Slot ==
    /\ gui.pc = "loop" /\ events # <<>>
    /\ events' = Tail(events)
    /\ LET e == Head(events)
       IN  /\ front' = IF e.op = "add" THEN [front EXCEPT ![e.app] = Add(@, e.widget)]
                       ELSE front
           /\ back' = IF e.op \in Question /\ StillAsked(e.app, Tail(events))
                      THEN [back EXCEPT ![e.app].answered = TRUE]
                      ELSE back
           /\ cleaned' = IF e.op = "cleanup" THEN cleaned \cup {e.app} ELSE cleaned
    /\ UNCHANGED <<inbox, gui, windows, reaper, used>>

\* The user, a timer or the microphone: the message is pushed whatever state
\* the frontend client is in
UserEvent(a, w) ==
    /\ gui.pc = "loop" /\ w \in front[a].widgets
    /\ a \notin cleaned
    /\ used.events < MaxEvents
    /\ inbox' = [inbox EXCEPT ![a] = Append(@, Event(w))]
    /\ used' = [used EXCEPT !.events = @ + 1]
    /\ UNCHANGED <<front, back, events, gui, windows, reaper, cleaned>>

\* qt_frontend::reset: what is left in the window
ResetFront(f) == [f EXCEPT !.widgets = {w \in @ : w.kind \in Lasting}]

\* app_editor::run_script; the reset of the frontend is a direct call
Rerun(a) ==
    /\ gui.pc = "loop" /\ a \in windows \cap Editor
    /\ used.reruns < MaxReruns
    /\ inbox' = [inbox EXCEPT ![a] = @ \o <<Reset, Run>>]
    /\ front' = [front EXCEPT ![a] = ResetFront(@)]
    /\ used' = [used EXCEPT !.reruns = @ + 1]
    /\ UNCHANGED <<back, events, gui, windows, reaper, cleaned>>

\* qt_frontend_client::stop
StopFront(f) == [ResetFront(f) EXCEPT !.done = TRUE]

\* ~script_app, ~app_editor and app_reaper::reap: the window is closed
CloseApp(a) ==
    /\ gui.pc = "loop" /\ a \in windows
    /\ windows' = windows \ {a}
    /\ front' = [front EXCEPT ![a] = StopFront(@)]
    /\ reaper' = [reaper EXCEPT !.queue = Append(@, a)]
    /\ UNCHANGED <<back, inbox, events, gui, cleaned, used>>

\* ~main_window: the event loop is over; app_reaper::stop
Quit ==
    /\ gui.pc = "loop"
    /\ gui' = [gui EXCEPT !.pc = "join_reaper"]
    /\ reaper' = [reaper EXCEPT !.done = TRUE]
    /\ UNCHANGED <<front, back, inbox, events, windows, cleaned, used>>

ReaperJoined ==
    /\ gui.pc = "join_reaper" /\ reaper.pc = "ended"
    /\ gui' = [gui EXCEPT !.pc = "closing"]
    /\ UNCHANGED <<front, back, inbox, events, windows, reaper, cleaned, used>>

\* A window that was still open, or an app the reaper left in its queue, is
\* destroyed: reap refuses it, and ~service stops the backend and joins it
DestroyApp(a) ==
    /\ gui.pc = "closing" /\ ~back[a].stop
    /\ windows' = windows \ {a}
    /\ back' = [back EXCEPT ![a].stop = TRUE]
    /\ gui' = [pc |-> "join", app |-> a]
    /\ UNCHANGED <<front, inbox, events, reaper, cleaned, used>>

\* The members go in the reverse of their order: ~qt_frontend_client stops the
\* frontend only after the backend is gone
AppJoined ==
    /\ gui.pc = "join" /\ back[gui.app].pc = "ended"
    /\ gui' = [gui EXCEPT !.pc = "closing"]
    /\ front' = [front EXCEPT ![gui.app] = StopFront(@)]
    /\ UNCHANGED <<back, inbox, events, windows, reaper, cleaned, used>>

Exit ==
    /\ gui.pc = "closing" /\ \A a \in App : back[a].stop
    /\ gui' = [gui EXCEPT !.pc = "exited"]
    /\ UNCHANGED <<front, back, inbox, events, windows, reaper, cleaned, used>>

-----------------------------------------------------------------------------
\* reap_thread.

\* queue::pop with wait: an item is taken only while the queue is not done
ReaperPops ==
    /\ reaper.pc = "pop" /\ ~reaper.done /\ reaper.queue # <<>>
    /\ LET a == Head(reaper.queue)
       IN  /\ reaper' = [reaper EXCEPT !.queue = Tail(@), !.pc = "join", !.app = a]
           /\ back' = [back EXCEPT ![a].stop = TRUE]
    /\ UNCHANGED <<front, inbox, events, gui, windows, cleaned, used>>

\* Mutant: the window is cleaned up without waiting for the backend
ReaperHurries ==
    /\ reaper.pc = "join"
    /\ reaper' = [reaper EXCEPT !.pc = "pop"]
    /\ events' = Append(events, Cleanup(reaper.app))
    /\ UNCHANGED <<front, back, inbox, gui, windows, cleaned, used>>

\* service::stop has joined the thread; emit_cleanup
ReaperJoins ==
    /\ reaper.pc = "join" /\ back[reaper.app].pc = "ended"
    /\ reaper' = [reaper EXCEPT !.pc = "pop"]
    /\ events' = Append(events, Cleanup(reaper.app))
    /\ UNCHANGED <<front, back, inbox, gui, windows, cleaned, used>>

\* A done queue ends the thread, whatever is left in it
ReaperEnds ==
    /\ reaper.pc = "pop" /\ reaper.done
    /\ reaper' = [reaper EXCEPT !.pc = "ended"]
    /\ UNCHANGED <<front, back, inbox, events, gui, windows, cleaned, used>>

-----------------------------------------------------------------------------
Script(a) == \/ \E k \in Kind : CallMake(a, k)
             \/ \E w \in back[a].refs : CallSet(a, w) \/ CallGet(a, w)
             \/ CallOpenFile(a)

\* The steps of the backend thread that do not depend on the script's wishes
BackendThread(a) == \/ BackendEnds(a) \/ HandleRun(a) \/ HandleReset(a)
                    \/ HandleEvent(a) \/ HandlerReturns(a) \/ AskText(a)
                    \/ Answered(a) \/ TimedOut(a)

GuiThread == \/ Slot \/ ReaperJoined \/ AppJoined \/ Exit
             \/ \E a \in App : DestroyApp(a)

ReapThread == ReaperPops \/ ReaperJoins \/ ReaperEnds

User == \/ \E a \in App : CloseApp(a) \/ Rerun(a)
        \/ \E a \in App : \E w \in front[a].widgets : UserEvent(a, w)
        \/ Quit

AppNext == \/ \E a \in App : Script(a) \/ BackendThread(a)
           \/ GuiThread \/ ReapThread \/ User

AppSpec == AppInit /\ [][AppNext]_appVars

\* The threads run; scripts return; the user may do nothing more
FairSpec == /\ AppSpec
            /\ \A a \in App : WF_appVars(BackendThread(a))
            /\ WF_appVars(GuiThread)
            /\ WF_appVars(ReapThread)

-----------------------------------------------------------------------------
AppTypeOK ==
    /\ front \in [App -> [done : BOOLEAN, widgets : SUBSET Widget]]
    /\ back \in [App -> [pc : {"pop", "lua", "text", "wait", "file", "ended"},
                         refs : SUBSET Widget, ids : 0..MaxCalls,
                         run : 0..MaxReruns, stop : BOOLEAN,
                         event : Widget \cup {None}, ref : Widget \cup {None},
                         answered : BOOLEAN]]
    /\ inbox \in [App -> Seq({Run, Reset} \cup {Event(w) : w \in Widget})]
    /\ events \in Seq([app : App, op : {"add", "set", "get", "file", "cleanup"},
                       widget : Widget \cup {None}])
    /\ gui \in [pc : {"loop", "join_reaper", "closing", "join", "exited"}, app : App]
    /\ windows \subseteq App /\ cleaned \subseteq App
    /\ reaper \in [queue : Seq(App), done : BOOLEAN,
                   pc : {"pop", "join", "ended"}, app : App]
    /\ used \in [calls : 0..MaxCalls, events : 0..MaxEvents, reruns : 0..MaxReruns]

(***************************************************************************)
(* An event that was on its way when the script was run again calls        *)
(* nothing of the new script: the callback that runs belongs to the widget *)
(* the event came from, and, for the kinds reset_refs clears, to the       *)
(* script that is running (lua_api::new_id, reset_refs, button_clicked).   *)
(* A reference of another kind outlives its script.                        *)
(***************************************************************************)
LateEventsFindNoCallback ==
    \A a \in App :
        back[a].ref # None =>
            /\ back[a].ref = back[a].event
            /\ back[a].ref.kind \in Cleared => back[a].ref.run = back[a].run

(***************************************************************************)
(* A frontend that was stopped stays empty, although the backend goes on   *)
(* until the reaper has stopped it and signals it sent before are still    *)
(* queued (qt_frontend_client::stop and the do_add slots).                 *)
(***************************************************************************)
StoppedFrontStaysEmpty ==
    \A a \in App : front[a].done => \A w \in front[a].widgets : w.kind \in Lasting

(***************************************************************************)
(* The hidden window of a closed app is deleted only after its backend has *)
(* ended, when nothing can be emitted for it any more (reap_thread).       *)
(***************************************************************************)
CleanedAfterBackend == \A a \in cleaned : back[a].pc = "ended" /\ a \notin windows

\* The program is exiting while a backend waits for the user to choose a file
Caught == gui.pc # "loop" /\ \E a \in App : back[a].pc = "file"

(***************************************************************************)
(* Closing a window ends its backend and quitting ends the program, for    *)
(* every order in which the GUI thread, the reaper and the backends wait   *)
(* for each other, because a question waits one second only (get_until).   *)
(* The choice of a file has no such limit (open_file, open_bin_file): a    *)
(* backend the exit catches in it is never answered, and then everybody    *)
(* waits for it for ever.                                                  *)
(***************************************************************************)
EverythingStops ==
    /\ \A a \in App : (a \notin windows) ~> (back[a].pc = "ended" \/ []Caught)
    /\ (gui.pc # "loop") ~> (gui.pc = "exited" \/ []Caught)

=============================================================================
