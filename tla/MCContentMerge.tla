--------------------------- MODULE MCContentMerge ---------------------------
(***************************************************************************)
(* Evaluates the merge on every triple of contents over a small set of     *)
(* units and every preference, one merge per behaviour.  Its names are its *)
(* own, so that a module may extend it next to another system.             *)
(***************************************************************************)
EXTENDS ContentMerge

VARIABLES
  base, local, remote,  \* the arguments of the merge
  preference,           \* its conflictPreference
  result                \* "none" before the merge, then its status

mergeVars == <<base, local, remote, preference, result>>

MergeInit ==
  /\ base \in Content /\ local \in Content /\ remote \in Content
  /\ preference = "none"
  /\ result = "none"

\* createThreeWayContentMergeResult: without a preference a unit in conflict
\* means that there is no merged content.
Merge(p) ==
  /\ result = "none"
  /\ preference' = p
  /\ result' = IF p # "none" \/ Merges(base, local, remote)
               THEN "merged" ELSE "conflict"
  /\ UNCHANGED <<base, local, remote>>

MergeNext == \E p \in Preference : Merge(p)

MergeSpec == MergeInit /\ [][MergeNext]_mergeVars

\* A request that changes the grammar together with what it governs.
ChangesSyntaxAndBody(b, c) == c[Syntax] # b[Syntax] /\ Body(c) # Body(b)

Merged == MergedContent(base, local, remote, preference)

\* A merge that succeeds without a preference loses no edit: every unit the
\* local side changed has its local value in the result, and every unit the
\* remote side changed has its remote value
\* (mergeThreeWayValue and crossesSyntaxMergeBarrier).
NoEditIsDropped ==
  result = "merged" /\ preference = "none" =>
    \A u \in Unit :
      /\ local[u] # base[u] => Merged[u] = local[u]
      /\ remote[u] # base[u] => Merged[u] = remote[u]

\* A preference decides the overlapping units and no others: outside the
\* barrier the preferred side's edits all survive, and so does every edit of
\* the other side to a unit that the preferred side left alone.
PreferenceDecidesOnlyOverlap ==
  result = "merged" /\ preference # "none"
  /\ ~CrossesBarrier(base, local, remote) =>
    LET chosen == IF preference = "local" THEN local ELSE remote
        other  == IF preference = "local" THEN remote ELSE local
    IN \A u \in Unit : Merged[u] = IF chosen[u] # base[u] THEN chosen[u]
                                                         ELSE other[u]

\* Both replicas that merge the same three contents decide alike, whichever
\* of them calls itself local: the server merges (base, request, current) and
\* the browser merges (base, pending, remote).
SidesAreInterchangeable ==
  /\ ConflictUnits(base, local, remote) = ConflictUnits(base, remote, local)
  /\ Merges(base, local, remote) =>
       MergedContent(base, local, remote, "none")
         = MergedContent(base, remote, local, "none")

\* Sending a merged request again, after its answer was lost, merges again
\* and changes nothing: executeSnapshotSync then answers "unchanged".  It
\* holds of a request that does not change the grammar together with other
\* units; such a request meets itself behind the barrier.
ResendIsHarmless ==
  result = "merged" /\ preference = "none"
  /\ ~ChangesSyntaxAndBody(base, local) =>
    /\ Merges(base, local, Merged)
    /\ MergedContent(base, local, Merged, "none") = Merged

\* Editing the reported units back to their base values clears the conflict,
\* as docs/content-consistency.md:84 promises, except behind the barrier.
RevertClearsConflict ==
  result = "conflict" /\ ~CrossesBarrier(base, local, remote) =>
    Merges(base, [u \in Unit |-> IF u \in ConflictUnits(base, local, remote)
                                 THEN base[u] ELSE local[u]], remote)

\* An edit made while a request is in flight is merged onto its answer,
\* merge(L, L2, S).  Whenever L2 would have merged with the remote content
\* directly, it merges with the answer too, and loses nothing that the remote
\* side wrote: sending early never creates a conflict.
InFlightEditKeepsMerging ==
  result = "merged" /\ preference = "none" =>
    \A edited \in Content :
      Merges(base, edited, remote) =>
        /\ Merges(local, edited, Merged)
        /\ \A u \in Unit : remote[u] # base[u] /\ local[u] = edited[u] =>
             MergedContent(local, edited, Merged, "none")[u] = remote[u]
=============================================================================
