------------------------ MODULE ContentMerge_proofs -------------------------
(***************************************************************************)
(* The merge, for every set of units and of values and every grammar unit. *)
(* First what the merge of a value and of a content do: the lemmas that    *)
(* SnapshotSync_proofs and LocalFirstRepository_proofs rest on, too (the   *)
(* variables of MCContentMerge mean nothing to them).  Then what           *)
(* MCContentMerge evaluates on three units: the merge loses no edit, and   *)
(* the server and the browser decide alike.                                *)
(***************************************************************************)
EXTENDS MCContentMerge, TLAPS

\* Of two changes of one value that do not conflict, the merged value has
\* both (mergeThreeWayValue).
LEMMA MergedValueHasBothEdits ==
  ASSUME NEW b, NEW l, NEW r, ~ValueConflicts(b, l, r, "none")
  PROVE  LET v == MergeThreeWayValue(b, l, r, "none") IN
         /\ l # b => v = l
         /\ r # b => v = r
         /\ l = b => v = r
BY DEF ValueConflicts, MergeThreeWayValue

\* A preference decides a conflict and nothing else (mergeThreeWayValue).
LEMMA PreferredValue ==
  ASSUME NEW b, NEW l, NEW r, NEW p \in {"local", "remote"}
  PROVE  MergeThreeWayValue(b, l, r, p)
           = LET chosen == IF p = "local" THEN l ELSE r
                 other  == IF p = "local" THEN r ELSE l
             IN IF chosen # b THEN chosen ELSE other
BY DEF MergeThreeWayValue

\* Without a conflict a merge is the map of the merged values, and no value
\* conflicts (mergeWorkspaceContent).
LEMMA MergedUnits ==
  ASSUME NEW b \in Content, NEW l \in Content, NEW r \in Content,
         Merges(b, l, r)
  PROVE  /\ ~CrossesBarrier(b, l, r)
         /\ \A u \in Unit : ~ValueConflicts(b[u], l[u], r[u], "none")
         /\ MergedContent(b, l, r, "none")
              = [u \in Unit |-> MergeThreeWayValue(b[u], l[u], r[u], "none")]
<1>1. ~CrossesBarrier(b, l, r)
  BY DEF Merges, ConflictUnits
<1>2. DOMAIN b = Unit
  BY DEF Content
<1>3. \A u \in Unit : ~ValueConflicts(b[u], l[u], r[u], "none")
  BY <1>1, <1>2 DEF Merges, ConflictUnits, MapConflicts
<1>4. MergedContent(b, l, r, "none")
        = [u \in Unit |-> MergeThreeWayValue(b[u], l[u], r[u], "none")]
  BY <1>1, <1>2 DEF MergedContent, MergeThreeWayMapValues
<1> QED
  BY <1>1, <1>3, <1>4

\* A merge of contents is a content.
LEMMA MergedContentType ==
  ASSUME NEW b \in Content, NEW l \in Content, NEW r \in Content, NEW p
  PROVE  MergedContent(b, l, r, p) \in Content
<1>1. DOMAIN b = Unit
  BY DEF Content
<1>2. \A u \in Unit : MergeThreeWayValue(b[u], l[u], r[u], p) \in Slot
  BY DEF MergeThreeWayValue, Content
<1>3. MergeThreeWayMapValues(b, l, r, p) \in Content
  BY <1>1, <1>2 DEF MergeThreeWayMapValues, Content
<1> QED
  BY <1>3 DEF MergedContent

\* A successful merge applies exactly the local edit to the remote content.
LEMMA MergeAppliesTheEdit ==
  ASSUME NEW b \in Content, NEW l \in Content, NEW r \in Content,
         Merges(b, l, r)
  PROVE  MergedContent(b, l, r, "none")
           = [u \in Unit |-> IF l[u] # b[u] THEN l[u] ELSE r[u]]
<1>1. \A u \in Unit : MergeThreeWayValue(b[u], l[u], r[u], "none")
                        = IF l[u] # b[u] THEN l[u] ELSE r[u]
  BY MergedUnits, MergedValueHasBothEdits
<1> QED
  BY <1>1, MergedUnits

\* The barrier does not ask which side is the local one
\* (crossesSyntaxMergeBarrier).
LEMMA BarrierIsSymmetric ==
  ASSUME NEW b, NEW l, NEW r
  PROVE  CrossesBarrier(b, l, r) = CrossesBarrier(b, r, l)
BY DEF CrossesBarrier, CrossesSyntaxMergeBarrier

\* Nor do the conflicts of the units.
LEMMA ConflictsAreSymmetric ==
  ASSUME NEW b, NEW l, NEW r
  PROVE  ConflictUnits(b, l, r) = ConflictUnits(b, r, l)
<1>1. MapConflicts(b, l, r, "none") = MapConflicts(b, r, l, "none")
  BY DEF MapConflicts, ValueConflicts
<1> QED
  BY <1>1, BarrierIsSymmetric DEF ConflictUnits

\* Two contents have one body when they agree on every unit but the grammar.
LEMMA BodiesAgree ==
  ASSUME NEW c, NEW d
  PROVE  Body(c) = Body(d) <=> \A u \in Unit \ {Syntax} : c[u] = d[u]
BY DEF Body

\* The barrier, unit by unit (crossesSyntaxMergeBarrier).
LEMMA BarrierByUnits ==
  ASSUME NEW b, NEW l, NEW r
  PROVE  ~CrossesBarrier(b, l, r) <=>
           /\ l[Syntax] # b[Syntax] => \A u \in Unit \ {Syntax} : r[u] = b[u]
           /\ r[Syntax] # b[Syntax] => \A u \in Unit \ {Syntax} : l[u] = b[u]
BY BodiesAgree DEF CrossesBarrier, CrossesSyntaxMergeBarrier

\* A merge succeeds when neither the barrier nor a unit is in its way.
LEMMA MergesByUnits ==
  ASSUME NEW b \in Content, NEW l \in Content, NEW r \in Content
  PROVE  Merges(b, l, r) <=>
           /\ ~CrossesBarrier(b, l, r)
           /\ \A u \in Unit : l[u] = r[u] \/ l[u] = b[u] \/ r[u] = b[u]
<1>1. DOMAIN b = Unit
  BY DEF Content
<1>2. MapConflicts(b, l, r, "none") = {} <=>
        \A u \in Unit : l[u] = r[u] \/ l[u] = b[u] \/ r[u] = b[u]
  BY <1>1 DEF MapConflicts, ValueConflicts
<1> QED
  BY <1>2 DEF Merges, ConflictUnits

-----------------------------------------------------------------------------
(* The evaluation of a merge *)

\* What the arguments are and when a merge is reported as done.
Evaluated ==
  /\ base \in Content /\ local \in Content /\ remote \in Content
  /\ preference \in Preference
  /\ result \in {"none", "merged", "conflict"}
  /\ result = "merged" =>
       preference # "none" \/ Merges(base, local, remote)
  /\ result = "conflict" =>
       preference = "none" /\ ~Merges(base, local, remote)

\* A merge is reported as done only without conflicts or with a preference
\* (createThreeWayContentMergeResult).
LEMMA AlwaysEvaluated == MergeSpec => []Evaluated
<1>1. MergeInit => Evaluated
  BY DEF MergeInit, Evaluated, Preference
<1>2. Evaluated /\ [MergeNext]_mergeVars => Evaluated'
  <2> SUFFICES ASSUME Evaluated, [MergeNext]_mergeVars PROVE Evaluated'
    OBVIOUS
  <2>1. CASE MergeNext
    BY <2>1 DEF Evaluated, MergeNext, Merge
  <2>2. CASE UNCHANGED mergeVars
    BY <2>2 DEF Evaluated, mergeVars
  <2> QED
    BY <2>1, <2>2
<1> QED
  BY <1>1, <1>2, PTL DEF MergeSpec

\* For any units and values: a merge without a preference that succeeds keeps
\* the edits of both sides.
THEOREM NoEditDropped == MergeSpec => []NoEditIsDropped
<1>1. Evaluated => NoEditIsDropped
  <2> SUFFICES ASSUME Evaluated, result = "merged", preference = "none",
                      NEW u \in Unit
               PROVE  /\ local[u] # base[u] => Merged[u] = local[u]
                      /\ remote[u] # base[u] => Merged[u] = remote[u]
    BY DEF NoEditIsDropped
  <2>1. Merges(base, local, remote)
    BY DEF Evaluated
  <2>2. /\ ~ValueConflicts(base[u], local[u], remote[u], "none")
        /\ Merged[u] = MergeThreeWayValue(base[u], local[u], remote[u], "none")
    BY <2>1, MergedUnits DEF Evaluated, Merged
  <2> QED
    BY <2>2, MergedValueHasBothEdits
<1> QED
  BY <1>1, AlwaysEvaluated, PTL

\* For any units and values: a preference changes nothing but the units that
\* overlap.
THEOREM PreferenceIsLocal == MergeSpec => []PreferenceDecidesOnlyOverlap
<1>1. Evaluated => PreferenceDecidesOnlyOverlap
  <2> SUFFICES ASSUME Evaluated, preference # "none",
                      ~CrossesBarrier(base, local, remote), NEW u \in Unit
               PROVE  Merged[u] = LET chosen == IF preference = "local"
                                                THEN local ELSE remote
                                      other  == IF preference = "local"
                                                THEN remote ELSE local
                                  IN IF chosen[u] # base[u] THEN chosen[u]
                                                            ELSE other[u]
    BY DEF PreferenceDecidesOnlyOverlap
  <2>1. preference \in {"local", "remote"}
    BY DEF Evaluated, Preference
  <2>2. Merged[u]
          = MergeThreeWayValue(base[u], local[u], remote[u], preference)
    BY DEF Evaluated, Content, Merged, MergedContent, MergeThreeWayMapValues
  <2> QED
    BY <2>1, <2>2, PreferredValue
<1> QED
  BY <1>1, AlwaysEvaluated, PTL

\* For any units and values: it does not matter which side of a merge is
\* called local, so the server and the browser agree.
THEOREM SidesInterchangeable == MergeSpec => []SidesAreInterchangeable
<1>1. Evaluated => SidesAreInterchangeable
  <2> SUFFICES ASSUME Evaluated PROVE SidesAreInterchangeable
    OBVIOUS
  <2>1. ConflictUnits(base, local, remote) = ConflictUnits(base, remote, local)
    BY ConflictsAreSymmetric
  <2>2. ASSUME Merges(base, local, remote)
        PROVE  MergedContent(base, local, remote, "none")
                 = MergedContent(base, remote, local, "none")
    <3>1. Merges(base, remote, local)
      BY <2>1, <2>2 DEF Merges
    <3>2. \A u \in Unit :
            MergeThreeWayValue(base[u], local[u], remote[u], "none")
              = MergeThreeWayValue(base[u], remote[u], local[u], "none")
      BY <2>2, MergedUnits DEF Evaluated, ValueConflicts, MergeThreeWayValue
    <3> QED
      BY <2>2, <3>1, <3>2, MergedUnits DEF Evaluated
  <2> QED
    BY <2>1, <2>2 DEF SidesAreInterchangeable
<1> QED
  BY <1>1, AlwaysEvaluated, PTL

\* For any units and values: a merged request that is sent again merges, and
\* nothing is left to write.
THEOREM ResendHarmless == MergeSpec => []ResendIsHarmless
<1>1. Evaluated => ResendIsHarmless
  <2> SUFFICES ASSUME Evaluated, result = "merged", preference = "none",
                      ~ChangesSyntaxAndBody(base, local)
               PROVE  /\ Merges(base, local, Merged)
                      /\ MergedContent(base, local, Merged, "none") = Merged
    BY DEF ResendIsHarmless
  <2>1. Merges(base, local, remote)
    BY DEF Evaluated
  <2>2. Merged = [u \in Unit |-> IF local[u] # base[u] THEN local[u]
                                                       ELSE remote[u]]
    BY <2>1, MergeAppliesTheEdit DEF Evaluated, Merged
  <2>3. Merged \in Content
    BY MergedContentType DEF Evaluated, Merged
  <2>4. local[Syntax] # base[Syntax] =>
          \A u \in Unit \ {Syntax} : local[u] = base[u]
    BY BodiesAgree DEF ChangesSyntaxAndBody
  <2>5. ~CrossesBarrier(base, local, remote)
    BY <2>1, MergesByUnits DEF Evaluated
  <2>6. ~CrossesBarrier(base, local, Merged)
    <3>1. ASSUME local[Syntax] # base[Syntax], NEW u \in Unit \ {Syntax}
          PROVE  Merged[u] = base[u]
      BY <2>2, <2>4, <2>5, <3>1, BarrierByUnits
    <3>2. ASSUME Merged[Syntax] # base[Syntax], NEW u \in Unit \ {Syntax}
          PROVE  local[u] = base[u]
      BY <2>2, <2>4, <2>5, <3>2, BarrierByUnits, SyntaxAssumption
    <3> QED
      BY <3>1, <3>2, BarrierByUnits
  <2>7. Merges(base, local, Merged)
    BY <2>2, <2>3, <2>6, MergesByUnits DEF Evaluated
  <2>8. MergedContent(base, local, Merged, "none")
          = [u \in Unit |-> IF local[u] # base[u] THEN local[u] ELSE Merged[u]]
    BY <2>3, <2>7, MergeAppliesTheEdit DEF Evaluated
  <2> QED
    BY <2>2, <2>7, <2>8
<1> QED
  BY <1>1, AlwaysEvaluated, PTL

\* For any units and values: taking the reported edits back ends the conflict.
THEOREM RevertClears == MergeSpec => []RevertClearsConflict
<1>1. Evaluated => RevertClearsConflict
  <2> DEFINE reverted == [u \in Unit |->
               IF u \in ConflictUnits(base, local, remote)
               THEN base[u] ELSE local[u]]
  <2> SUFFICES ASSUME Evaluated, ~CrossesBarrier(base, local, remote)
               PROVE  Merges(base, reverted, remote)
    BY DEF RevertClearsConflict
  <2>1. reverted \in Content
    BY DEF Evaluated, Content
  <2>2. \A u \in Unit : reverted[u] \in {base[u], local[u]}
    OBVIOUS
  <2>3. ~CrossesBarrier(base, reverted, remote)
    BY <2>2, BarrierByUnits, SyntaxAssumption
  <2>4. ASSUME NEW u \in Unit
        PROVE  \/ reverted[u] = remote[u]
               \/ reverted[u] = base[u]
               \/ remote[u] = base[u]
    <3>1. DOMAIN base = Unit
      BY DEF Evaluated, Content
    <3> QED
      BY <3>1 DEF ConflictUnits, MapConflicts, ValueConflicts
  <2> HIDE DEF reverted
  <2> QED
    BY <2>1, <2>3, <2>4, MergesByUnits DEF Evaluated
<1> QED
  BY <1>1, AlwaysEvaluated, PTL

\* For any units and values: an edit that would have merged merges also after
\* an earlier edit was sent, and keeps what the remote side wrote.
THEOREM InFlightEditMerges == MergeSpec => []InFlightEditKeepsMerging
<1>1. Evaluated => InFlightEditKeepsMerging
  <2> SUFFICES ASSUME Evaluated, result = "merged", preference = "none",
                      NEW edited \in Content, Merges(base, edited, remote)
               PROVE  /\ Merges(local, edited, Merged)
                      /\ \A u \in Unit :
                           remote[u] # base[u] /\ local[u] = edited[u] =>
                             MergedContent(local, edited, Merged, "none")[u]
                               = remote[u]
    BY DEF InFlightEditKeepsMerging
  <2>1. Merges(base, local, remote)
    BY DEF Evaluated
  <2>2. Merged = [u \in Unit |-> IF local[u] # base[u] THEN local[u]
                                                       ELSE remote[u]]
    BY <2>1, MergeAppliesTheEdit DEF Evaluated, Merged
  <2>3. Merged \in Content
    BY MergedContentType DEF Evaluated, Merged
  <2>4. /\ ~CrossesBarrier(base, local, remote)
        /\ ~CrossesBarrier(base, edited, remote)
    BY <2>1, MergesByUnits DEF Evaluated
  <2>5. \A u \in Unit :
          /\ local[u] = remote[u] \/ local[u] = base[u] \/ remote[u] = base[u]
          /\ edited[u] = remote[u] \/ edited[u] = base[u] \/ remote[u] = base[u]
    BY <2>1, MergesByUnits DEF Evaluated
  <2>6. ~CrossesBarrier(local, edited, Merged)
    <3>1. ASSUME edited[Syntax] # local[Syntax], NEW u \in Unit \ {Syntax}
          PROVE  Merged[u] = local[u]
      <4>1. edited[Syntax] # base[Syntax] \/ local[Syntax] # base[Syntax]
        BY <3>1
      <4>2. remote[u] = base[u]
        BY <2>4, <4>1, BarrierByUnits
      <4> QED
        BY <2>2, <4>2
    <3>2. ASSUME Merged[Syntax] # local[Syntax], NEW u \in Unit \ {Syntax}
          PROVE  edited[u] = local[u]
      <4>1. remote[Syntax] # base[Syntax]
        BY <2>2, <3>2, SyntaxAssumption
      <4> QED
        BY <2>4, <4>1, BarrierByUnits
    <3> QED
      BY <3>1, <3>2, BarrierByUnits
  <2>7. Merges(local, edited, Merged)
    BY <2>2, <2>3, <2>5, <2>6, MergesByUnits DEF Evaluated
  <2>8. MergedContent(local, edited, Merged, "none")
          = [u \in Unit |-> IF edited[u] # local[u] THEN edited[u]
                                                    ELSE Merged[u]]
    BY <2>3, <2>7, MergeAppliesTheEdit DEF Evaluated
  <2> QED
    BY <2>2, <2>5, <2>7, <2>8
<1> QED
  BY <1>1, AlwaysEvaluated, PTL
=============================================================================
