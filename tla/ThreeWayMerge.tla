--------------------------- MODULE ThreeWayMerge ----------------------------
(***************************************************************************)
(* The building blocks of every three-way merge                            *)
(* (src/application/persistence/threeWayMerge.ts): the merge of one value, *)
(* of a map of values, and the barrier that a change of grammar raises.    *)
(* A key that a map does not have is mapped to Missing, as the "missing"   *)
(* symbol does in mergeThreeWayMapValues.  Values are compared by their    *)
(* structure, which is TLA+ equality (areMergeValuesEqual).                *)
(***************************************************************************)
CONSTANT Missing    \* the value of a key that is absent

\* conflictPreference of a merge; "none" is the undefined preference.
Preference == {"none", "local", "remote"}

\* Mutant: the preference is consulted before the base.
MergePreferenceFirst(b, l, r, preference) ==
  IF l = r THEN l
  ELSE IF preference = "remote" THEN r
  ELSE IF preference = "local" THEN l
  ELSE IF l = b THEN r ELSE l

\* The value mergeThreeWayValue returns, its branches in their order.
MergeThreeWayValue(b, l, r, preference) ==
  IF l = r THEN l
  ELSE IF l = b THEN r
  ELSE IF r = b THEN l
  ELSE IF preference = "remote" THEN r ELSE l

\* Mutants: equal edits conflict; a deletion never does; the local side need
\* not have changed.
ConflictOnAgreement(b, l, r, preference) ==
  l # b /\ r # b /\ preference = "none"
ConflictUnlessDeleted(b, l, r, preference) ==
  l # r /\ l # b /\ r # b /\ Missing \notin {l, r} /\ preference = "none"
ConflictIfRemoteChanged(b, l, r, preference) ==
  l # r /\ r # b /\ preference = "none"

\* The last branch of mergeThreeWayValue, which reports the unit unless a
\* preference resolves it.
ValueConflicts(b, l, r, preference) ==
  l # r /\ l # b /\ r # b /\ preference = "none"

MergeThreeWayMapValues(b, l, r, preference) ==
  [k \in DOMAIN b |-> MergeThreeWayValue(b[k], l[k], r[k], preference)]

MapConflicts(b, l, r, preference) ==
  {k \in DOMAIN b : ValueConflicts(b[k], l[k], r[k], preference)}

\* Mutant: the remote grammar raises no barrier.
CrossesLocalSyntaxBarrier(bSyntax, lSyntax, rSyntax, bBody, lBody, rBody) ==
  lSyntax # bSyntax /\ rBody # bBody

\* One side changed the grammar while the other changed what it governs.
CrossesSyntaxMergeBarrier(bSyntax, lSyntax, rSyntax, bBody, lBody, rBody) ==
  \/ lSyntax # bSyntax /\ rBody # bBody
  \/ rSyntax # bSyntax /\ lBody # bBody
=============================================================================
