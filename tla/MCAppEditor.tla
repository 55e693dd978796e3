---------------------------- MODULE MCAppEditor -----------------------------
(* Instances of AppEditor for TLC. *)
EXTENDS AppEditor

CONSTANTS a, b

\* As LatestCodeRuns without the exception: update() does not see a text that
\* is emptied before its first tick (editor_empty.cfg).
ShownCodeRuns ==
    <>[](\A n \in Node : ui[n].open => ui[n].ran = code[n].text)

=============================================================================
