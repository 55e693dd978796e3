------------------------------ MODULE CrString ------------------------------
(***************************************************************************)
(* The replicated string of the code editor (util/crstring) and the vector *)
(* clocks it carries (util/vclock).  A clock is a function from node       *)
(* identifiers to naturals; an identifier the C++ map does not hold reads  *)
(* as 0, which is how compare reads it, and no entry of a running program  *)
(* is ever 0, so that equality of functions is `identical'.  Texts are     *)
(* atoms: only whether two of them are the same matters.                   *)
(***************************************************************************)
EXTENDS Naturals

CONSTANT Node

Clock == [Node -> Nat]

\* tracked_vclock{id}: the clock of a node that has made its first version
NewClock(n) == [k \in Node |-> IF k = n THEN 1 ELSE 0]

\* vclock::operator+=: the larger of the two entries, node by node
MergeClocks(c, d) == [k \in Node |-> IF c[k] >= d[k] THEN c[k] ELSE d[k]]

\* tracked_vclock::operator++ of the clock of node n
Tick(c, n) == [c EXCEPT ![n] = @ + 1]

Less(c, d) == \E k \in Node : c[k] < d[k]

\* vclock::compare: both 0 when concurrent and 0 when equal
Compare(c, d) ==
    CASE Less(c, d) /\ Less(d, c)   -> "concurrent"
      [] Less(c, d) /\ ~Less(d, c)  -> "less"
      [] ~Less(c, d) /\ Less(d, c)  -> "greater"
      [] OTHER                      -> "concurrent"

-----------------------------------------------------------------------------
\* cr_string::set of the string s of node n
Set(s, n, text) == [clock |-> Tick(s.clock, n), text |-> text]

(***************************************************************************)
(* util::merge: dtl's Diff3 with b as the common ancestor of a and c, over *)
(* atoms.  cr_string::merge passes the other side's text as both a and c,  *)
(* so the case that conflicts is never reached from it.                    *)
(***************************************************************************)
Merge3(a, b, c) ==
    CASE a = b -> [good |-> TRUE, text |-> c]
      [] b = c -> [good |-> TRUE, text |-> a]
      [] a = c -> [good |-> TRUE, text |-> a]
      [] OTHER -> [good |-> FALSE, text |-> b]

\* The outcome of cr_string::merge at node n, as a merge_result
MergeResult(s, o) ==
    CASE Compare(o.clock, s.clock) = "less"    -> "NO_CHANGE"
      [] Compare(o.clock, s.clock) = "greater" -> "UPDATED"
      [] OTHER -> IF s.clock = o.clock THEN "NO_CHANGE"
                  ELSE IF Merge3(o.text, s.text, o.text).good THEN "MERGED"
                  ELSE "CONFLICT"

\* Mutant: a merged text keeps the plain join of the two clocks, which the
\* other side may reach as well, for another text
MergeSilently(s, o, n) ==
    LET r == MergeResult(s, o)
        m == Merge3(o.text, s.text, o.text)
    IN  [clock |-> MergeClocks(s.clock, o.clock),
         text  |-> CASE r = "UPDATED" -> o.text
                     [] r = "MERGED"  -> m.text
                     [] OTHER         -> s.text]

\* cr_string::merge of the string o that node n received into its own s
Merge(s, o, n) ==
    LET r == MergeResult(s, o)
        m == Merge3(o.text, s.text, o.text)
    IN  [clock |-> MergeClocks(IF r = "MERGED" THEN Tick(s.clock, n)
                                               ELSE s.clock, o.clock),
         text  |-> CASE r = "UPDATED" -> o.text
                     [] r = "MERGED"  -> m.text
                     [] OTHER         -> s.text]

=============================================================================
