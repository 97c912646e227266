---------------------------- MODULE ContentMerge ----------------------------
(***************************************************************************)
(* The merge of a whole content, as the three domains compose it           *)
(* (mergeWorkspaceContent, mergeJournalContent, mergeTodoContent), with    *)
(* the data of a domain reduced to its merge units: a content maps every   *)
(* unit (a note, the tree, a Journal entry, a Todo completion ...) to a    *)
(* value, and one unit, Syntax, is the grammar.  What the units of one     *)
(* domain mean to each other is left out.  A grammar is never absent in a  *)
(* domain; Missing at Syntax stands for one more grammar.                  *)
(***************************************************************************)
EXTENDS ThreeWayMerge

CONSTANTS
  Unit,       \* merge units of one repository
  Value,      \* values a present unit can have
  Syntax      \* the unit that holds the grammar

ASSUME SyntaxAssumption == Syntax \in Unit

Slot == Value \cup {Missing}
Content == [Unit -> Slot]

Body(c) == [u \in Unit \ {Syntax} |-> c[u]]

CrossesBarrier(b, l, r) ==
  CrossesSyntaxMergeBarrier(b[Syntax], l[Syntax], r[Syntax],
                            Body(b), Body(l), Body(r))

\* unitIds of a merge without a preference; empty when the merge succeeded.
ConflictUnits(b, l, r) ==
  IF CrossesBarrier(b, l, r) THEN {Syntax} ELSE MapConflicts(b, l, r, "none")

\* status = "merged"
Merges(b, l, r) == ConflictUnits(b, l, r) = {}

\* The content of a merge that is not a conflict.  Behind the barrier a
\* preference selects one side whole.
MergedContent(b, l, r, preference) ==
  IF CrossesBarrier(b, l, r)
  THEN IF preference = "local" THEN l ELSE r
  ELSE MergeThreeWayMapValues(b, l, r, preference)
=============================================================================
