-------------------- MODULE LocalFirstRepository_proofs ---------------------
(***************************************************************************)
(* Proofs about the local-first repository, for every set of units and     *)
(* values, every bound on edits, writes and loads, and a cache that lets   *)
(* other calls run or not: its types, that conflicts are whole and bases   *)
(* known, that conflicts are visible, that only the user's edits are sent, *)
(* and that no remote result overwrites a pending edit.                    *)
(*                                                                         *)
(* The invariant has two parts. Structure holds in every reachable state:  *)
(* each call has what its phase needs, and a reader whose local revision   *)
(* is still the cache's knows the content of the cache (Readers), so what  *)
(* it writes is coherent. Followed holds until something goes astray: no   *)
(* conflict exists while a synchronisation runs and the submitted edits    *)
(* are in the answer (Undisturbed), the session's authority knows the      *)
(* cache (Tracks), a load knows the pending base (Reloading), and every    *)
(* difference between two contents goes back to an edit of the user        *)
(* (CacheEdited, SyncEdited, StageEdited). A synchronisation starts only   *)
(* when the session shows no conflict; Tracks and ConflictIsVisible need   *)
(* each other for this.                                                    *)
(*                                                                         *)
(* Each action has a lemma for Structure and one for Followed. The lemmas  *)
(* about the cache entries that are written (...Fields) and about the ways *)
(* to publish them (...Type, ...Tracks) come before the actions that       *)
(* write.                                                                  *)
(***************************************************************************)
EXTENDS LocalFirstRepository, ContentMerge_proofs

\* Phases of a synchronisation that has read nothing yet.
Quiet == {"idle", "load"}

\* Phases that come after the base content was read.
Sending == {"send", "install", "write", "fetch", "record", "reconcile"}

\* What a stage has computed by each of its phases.
StageData ==
  /\ stage.pc # "idle" => stage.before \in Content /\ stage.after \in Content
  /\ stage.pc \in {"context", "write"} => stage.next \in Content

\* What a synchronisation has read and was answered by each of its phases; a
\* merge_conflict was about contents that do not merge.
SyncData ==
  /\ sync.pc \notin Quiet => sync.local \in Content /\ sync.revision \in Content
  /\ sync.pc \in Sending => sync.base \in Content
  /\ sync.pc \in Sending \ {"send"} =>
       sync.base = sync.revision /\ sync.remote \in Content
  /\ sync.pc = "write" => sync.seen \in Content
  /\ (sync.pc = "record" \/ (sync.pc = "fetch" /\ sync.reply = "merge_conflict")) =>
       ~Merges(sync.base, sync.local, sync.remote)

\* What a load has read by each of its phases.
LoadData ==
  /\ load.pc \in {"reload", "context", "rebase", "replace"} =>
       load.remote \in Content
  /\ load.pc \in {"context", "rebase"} => load.seen \in Content
  /\ load.pc = "rebase" => load.base \in Content
  /\ load.pc = "return" => load.result \in Snapshots
  /\ load.pc = "await" => load.final

\* What a recovery has read by each of its phases.
RecoveryData ==
  /\ recovery.pc = "wait" => recovery.kind \in {"proof", "fetch"}
  /\ recovery.pc = "replace" => recovery.remote \in Content

\* A recovery that has waited runs without a stage, and without a
\* synchronisation until it starts its own.
Exclusive ==
  /\ recovery.pc \notin {"idle", "wait"} => stage.pc = "idle"
  /\ recovery.pc \in {"proof", "resolve", "fetch", "replace"} => sync.pc = "idle"

\* Every call has the data its phase needs.
Phases == StageData /\ SyncData /\ LoadData /\ RecoveryData /\ Exclusive

\* What a reader whose local revision is still the cache's knows of the cache:
\* the content it computed from is the cache's, a load that will replace the
\* content has no pending edit to lose, and the conflict a stage has seen can
\* only have ended.
Readers ==
  /\ "sync" \in fresh /\ sync.pc \notin Quiet =>
       cache.content = sync.local
  /\ "install" \in fresh /\ sync.pc = "write" =>
       /\ cache.content = sync.seen
       /\ sync.same => sync.seen = sync.local
  /\ "load" \in fresh /\ load.pc \in {"context", "rebase"} =>
       cache.content = load.seen
  /\ "load" \in fresh /\ load.pc = "replace" => cache.pendingBase = None
  /\ "stage" \in fresh /\ stage.pc = "write" =>
       cache.conflict \in {stage.conflict, None}

\* The part of the invariant that holds whatever went wrong.
Structure ==
  TypeOK /\ Phases /\ Readers /\ ConflictIsWhole /\ BaseIsKnown

\* Two contents differ at most where the user edited.
DiffersWhereEdited(c, d) == \A u \in Unit : c[u] # d[u] => u \in edited

\* ConflictIsVisible without its condition.
Visible == (cache.conflict # None) = HasConflictRevision(cache)

\* No conflict exists while a synchronisation runs, the pending edits are still
\* the ones it took its revision from, and the answer it installs has the
\* submitted edits.
Undisturbed ==
  /\ sync.pc # "idle" => cache.conflict = None
  /\ sync.pc \notin Quiet => cache.pendingBase = sync.revision
  /\ sync.pc \in Sending => sync.base = sync.revision
  /\ sync.pc \in {"install", "write"} =>
       \A u \in Unit : sync.local[u] # sync.base[u] =>
                         sync.remote[u] = sync.local[u]

\* What the authority and the session know of the cache, as long as no
\* transition was lost.
Tracks ==
  /\ "view" \in fresh => /\ "authority" \in fresh /\ view.held = None
                         /\ view.content = cache.content
  /\ view.held # None => sync.pc # "idle"
  /\ "authority" \in fresh =>
       IF view.held = None THEN view.conflicted = HasConflictRevision(cache)
                           ELSE view.held = Snapshot(cache)

\* What a load, and a stage about to write, know beyond Readers: the pending
\* edits and their base, the snapshot that the load will return, and the
\* conflict of the cache.
Reloading ==
  /\ "load" \in fresh /\ load.pc \in {"context", "rebase"} =>
       cache.pendingBase # None /\ load.remote # cache.remote
  /\ "load" \in fresh /\ load.pc = "rebase" => load.base = cache.base
  /\ "load" \in fresh /\ load.pc = "return" => load.result = Snapshot(cache)
  /\ "stage" \in fresh /\ stage.pc = "write" => cache.conflict = stage.conflict

\* The pending content differs from its base where the user edited.
CacheEdited == DiffersWhereEdited(cache.content, cache.base)

\* What is sent differs from its base, and the cache from what is sent, where
\* the user edited.
SyncEdited ==
  sync.pc \notin Quiet =>
    /\ DiffersWhereEdited(sync.local, sync.revision)
    /\ DiffersWhereEdited(cache.content, sync.local)

\* An edit on its way to the cache changes what the user edited: against the
\* snapshot it was made on, and once computed against the cache.
StageEdited ==
  /\ stage.pc # "idle" =>
       /\ DiffersWhereEdited(stage.after, stage.before)
       /\ view.head = stage.after
       /\ "change" \in fresh => cache.content = stage.before
  /\ "stage" \in fresh /\ stage.pc \in {"context", "write"} =>
       DiffersWhereEdited(stage.next, cache.content)
  /\ view.head # None => DiffersWhereEdited(view.head, view.content)

\* The part of the invariant that needs the authority to follow the cache.
Followed ==
  /\ Visible /\ Undisturbed /\ Tracks /\ Reloading
  /\ CacheEdited /\ SyncEdited /\ StageEdited

\* What goes astray is recorded.
Marked == Astray => astray

\* The inductive invariant.
IInv == Structure /\ Marked /\ (~astray => Followed)

\* The parts of a cache entry have their types.
LEMMA CacheFields ==
  ASSUME NEW c \in Caches
  PROVE  /\ c.content \in Content /\ c.remote \in Content /\ c.base \in Content
         /\ c.pendingBase \in Content \cup {None}
         /\ c.conflict # None =>
              /\ c.conflict \in Conflicts
              /\ c.conflict.base \in Content /\ c.conflict.local \in Content
              /\ c.conflict.remote \in Content
              /\ c.conflict.unitIds \in (SUBSET Unit) \ {{}}
BY DEF Caches, Conflicts

\* A conflict names units.
LEMMA ConflictUnitsType ==
  ASSUME NEW b \in Content, NEW l \in Content, NEW r \in Content
  PROVE  ConflictUnits(b, l, r) \in SUBSET Unit
BY SyntaxAssumption DEF ConflictUnits, MapConflicts, Content

\* A merge with a remote content that is the base succeeds: there is nothing to
\* merge with.
LEMMA NothingNew ==
  ASSUME NEW b \in Content, NEW l \in Content
  PROVE  Merges(b, l, b)
<1>1. ~CrossesBarrier(b, l, b)
  BY BarrierByUnits
<1> QED
  BY <1>1, MergesByUnits

\* rebaseFromRemote: the entry it makes, part by part; it is never in conflict.
LEMMA RebasedFields ==
  ASSUME NEW content \in Content, NEW snapshot \in Content
  PROVE  /\ Rebased(content, snapshot) \in Caches
         /\ Rebased(content, snapshot).content = content
         /\ Rebased(content, snapshot).remote = snapshot
         /\ Rebased(content, snapshot).base = snapshot
         /\ Rebased(content, snapshot).conflict = None
         /\ Rebased(content, snapshot).pendingBase \in {None, snapshot}
         /\ Rebased(content, snapshot).pendingBase = None <=> content = snapshot
         /\ ~HasConflictRevision(Rebased(content, snapshot))
BY NoneAssumption DEF Rebased, Caches, HasConflictRevision

\* recordConflict: the entry it makes, part by part.
LEMMA WithConflictFields ==
  ASSUME NEW c \in Caches, NEW b \in Content, NEW l \in Content, NEW r \in Content,
         NEW units \in (SUBSET Unit) \ {{}}
  PROVE  LET d == WithConflict(c, b, l, r, units) IN
         /\ d \in Caches
         /\ d.content = c.content /\ d.pendingBase = c.pendingBase
         /\ d.base = b /\ d.remote = r
         /\ d.conflict # None
         /\ d.conflict = [base |-> b, local |-> l, remote |-> r, unitIds |-> units]
<1> DEFINE k == [base |-> b, local |-> l, remote |-> r, unitIds |-> units]
           d == WithConflict(c, b, l, r, units)
<1>1. k \in Conflicts /\ k # None
  <2>1. k \in Conflicts
    BY DEF Conflicts
  <2> QED
    BY <2>1, NoneAssumption
<1>2. d = [c EXCEPT !.remote = r, !.base = b, !.conflict = k]
  BY DEF WithConflict
<1> HIDE DEF k, d
<1>3. /\ d \in Caches /\ d.content = c.content /\ d.pendingBase = c.pendingBase
      /\ d.base = b /\ d.remote = r /\ d.conflict = k
  BY <1>1, <1>2 DEF Caches
<1> QED
  BY <1>1, <1>3 DEF d, k

\* A conflict that follows an edit is a conflict.
LEMMA ConflictFollows ==
  ASSUME NEW k \in Conflicts, NEW content \in Content,
         NEW units \in (SUBSET Unit) \ {{}}
  PROVE  LET d == [base |-> k.base, local |-> content, remote |-> k.remote,
                   unitIds |-> units] IN
         d \in Conflicts /\ d # None
<1> DEFINE d == [base |-> k.base, local |-> content, remote |-> k.remote,
                 unitIds |-> units]
<1>1. k.base \in Content /\ k.remote \in Content
  BY DEF Conflicts
<1>2. d \in Conflicts
  BY <1>1 DEF Conflicts
<1> QED
  BY <1>2, NoneAssumption

\* stage: the entry it makes, part by part.
LEMMA StagedFields ==
  ASSUME NEW c \in Caches, NEW content \in Content, NEW units,
         c.conflict # None => units \in (SUBSET Unit) \ {{}}
  PROVE  LET d == Staged(c, content, units) IN
         /\ d \in Caches
         /\ d.content = content /\ d.base = c.base /\ d.remote = c.remote
         /\ d.pendingBase = IF c.pendingBase = None THEN c.remote ELSE c.pendingBase
         /\ c.conflict = None => d.conflict = None
         /\ c.conflict # None =>
              /\ d.conflict # None
              /\ d.conflict = [base |-> c.conflict.base, local |-> content,
                               remote |-> c.conflict.remote, unitIds |-> units]
<1> DEFINE d == Staged(c, content, units)
<1>1. CASE c.conflict = None
  BY <1>1 DEF Staged, Caches
<1>2. CASE c.conflict # None
  <2> DEFINE k == [base |-> c.conflict.base, local |-> content,
                   remote |-> c.conflict.remote, unitIds |-> units]
  <2>1. c.conflict \in Conflicts
    BY <1>2 DEF Caches
  <2>2. units \in (SUBSET Unit) \ {{}}
    BY <1>2
  <2>3. k \in Conflicts /\ k # None
    BY <2>1, <2>2, ConflictFollows
  <2>4. d = [c EXCEPT !.content = content,
                      !.pendingBase = IF @ = None THEN c.remote ELSE @,
                      !.conflict = k]
    BY <1>2 DEF Staged
  <2> HIDE DEF k
  <2> HIDE DEF d
  <2>5. QED
    BY <1>2, <2>3, <2>4 DEF Caches, d, k
<1> QED
  BY <1>1, <1>2

\* ConflictIsWhole and BaseIsKnown of any cache entry.
Coherent(c) ==
  /\ c.conflict # None =>
       /\ c.conflict.local = c.content /\ c.conflict.base = c.base
       /\ c.conflict.remote = c.remote
       /\ c.conflict.unitIds
            = ConflictUnits(c.conflict.base, c.conflict.local, c.conflict.remote)
  /\ c.conflict = None =>
       /\ c.base = c.remote
       /\ c.pendingBase \in {None, c.base}
       /\ c.pendingBase = None => c.content = c.base

\* Coherent says of the cache, before and after a step, what the two invariants
\* say.
LEMMA CoherentCache ==
  /\ Coherent(cache) <=> ConflictIsWhole /\ BaseIsKnown
  /\ Coherent(cache') <=> ConflictIsWhole' /\ BaseIsKnown'
BY DEF Coherent, ConflictIsWhole, BaseIsKnown

\* rebaseFromRemote makes a coherent entry.
LEMMA RebasedIsCoherent ==
  ASSUME NEW content \in Content, NEW snapshot \in Content
  PROVE  Coherent(Rebased(content, snapshot))
<1> DEFINE c == Rebased(content, snapshot)
<1>1. /\ c.content = content /\ c.remote = snapshot /\ c.base = snapshot
      /\ c.conflict = None /\ c.pendingBase \in {None, snapshot}
      /\ c.pendingBase = None <=> content = snapshot
  BY RebasedFields
<1> HIDE DEF c
<1>2. Coherent(c)
  BY <1>1 DEF Coherent
<1> QED
  BY <1>2 DEF c

\* The remote content with the local edits.
Edited(b, l, r) == [u \in Unit |-> IF l[u] # b[u] THEN l[u] ELSE r[u]]

\* Reconciling a pending content with a remote one makes a coherent entry: the
\* remote content with the local edits when they merge, otherwise a conflict
\* that keeps content and pendingBaseRevision.
LEMMA ReconciledFields ==
  ASSUME NEW c \in Caches, NEW b \in Content, NEW l \in Content, NEW r \in Content,
         c.content = l
  PROVE  LET d == Reconciled(c, b, l, r) IN
         /\ d \in Caches /\ Coherent(d) /\ d.remote = r
         /\ Merges(b, l, r) =>
              /\ d.conflict = None /\ d.base = r /\ d.pendingBase \in {None, r}
              /\ ~HasConflictRevision(d)
              /\ d.content = Edited(b, l, r)
         /\ ~Merges(b, l, r) =>
              /\ d.conflict # None /\ d.base = b /\ d.content = l
              /\ d.pendingBase = c.pendingBase
<1> DEFINE d == Reconciled(c, b, l, r)
<1>1. CASE Merges(b, l, r)
  <2> DEFINE m == MergedContent(b, l, r, "none")
  <2>1. m \in Content /\ m = Edited(b, l, r)
    BY <1>1, MergedContentType, MergeAppliesTheEdit DEF Edited
  <2>2. d = Rebased(m, r)
    BY <1>1 DEF Reconciled
  <2> HIDE DEF m, d
  <2>3. d \in Caches /\ Coherent(d) /\ d.remote = r /\ d.conflict = None /\ d.base = r
        /\ d.pendingBase \in {None, r} /\ ~HasConflictRevision(d) /\ d.content = m
    BY <2>1, <2>2, RebasedFields, RebasedIsCoherent
  <2> QED
    BY <1>1, <2>1, <2>3 DEF d
<1>2. CASE ~Merges(b, l, r)
  <2> DEFINE units == ConflictUnits(b, l, r)
  <2>1. units \in (SUBSET Unit) \ {{}}
    <3>1. units # {}
      BY <1>2 DEF Merges
    <3>2. units \in SUBSET Unit
      BY ConflictUnitsType
    <3> QED
      BY <3>1, <3>2
  <2>2. d = WithConflict(c, b, l, r, units)
    BY <1>2 DEF Reconciled
  <2> HIDE DEF units, d
  <2>3. /\ d \in Caches /\ d.content = l /\ d.pendingBase = c.pendingBase
        /\ d.base = b /\ d.remote = r /\ d.conflict # None
        /\ d.conflict = [base |-> b, local |-> l, remote |-> r, unitIds |-> units]
    BY <2>1, <2>2, WithConflictFields
  <2>4. Coherent(d)
    BY <2>3 DEF Coherent, units
  <2> QED
    BY <1>2, <2>3, <2>4 DEF d
<1> QED
  BY <1>1, <1>2

\* Staging on a coherent entry, with the overlapping units of its conflict
\* computed again, makes a coherent entry and keeps the base.
LEMMA StagedIsCoherent ==
  ASSUME NEW c \in Caches, NEW content \in Content, NEW units, Coherent(c),
         c.conflict # None =>
           /\ units = ConflictUnits(c.conflict.base, content, c.conflict.remote)
           /\ units # {}
  PROVE  LET d == Staged(c, content, units) IN
         /\ d \in Caches /\ Coherent(d)
         /\ d.content = content /\ d.base = c.base
         /\ d.conflict = None <=> c.conflict = None
         /\ d.remote = c.remote
         /\ d.pendingBase # None
         /\ c.pendingBase # None => d.pendingBase = c.pendingBase
<1> DEFINE d == Staged(c, content, units)
<1>1. ASSUME c.conflict # None PROVE units \in (SUBSET Unit) \ {{}}
  <2>1. c.conflict.base \in Content /\ c.conflict.remote \in Content
    BY <1>1, CacheFields
  <2>2. units # {} /\ units = ConflictUnits(c.conflict.base, content, c.conflict.remote)
    BY <1>1
  <2>3. units \in SUBSET Unit
    BY <2>1, <2>2, ConflictUnitsType
  <2> QED
    BY <2>2, <2>3
<1>2. /\ d \in Caches
      /\ d.content = content /\ d.base = c.base /\ d.remote = c.remote
      /\ d.pendingBase = IF c.pendingBase = None THEN c.remote ELSE c.pendingBase
      /\ c.conflict = None => d.conflict = None
      /\ c.conflict # None =>
           /\ d.conflict # None
           /\ d.conflict = [base |-> c.conflict.base, local |-> content,
                            remote |-> c.conflict.remote, unitIds |-> units]
  BY <1>1, StagedFields
<1>3. c.remote \in Content /\ c.remote # None
  BY CacheFields, NoneAssumption
<1> HIDE DEF d
<1>4. Coherent(d)
  BY <1>2, <1>3 DEF Coherent
<1> QED
  BY <1>2, <1>3, <1>4 DEF d

\* What a stage writes: the edited content while its conflict lasts or when
\* there is none, and the remote content with the local edits when the last
\* overlap has gone away.
LEMMA StageResultFields ==
  ASSUME Structure, stage.pc = "write", "stage" \in fresh
  PROVE  LET d == StageResult
             k == stage.conflict IN
         /\ d \in Caches /\ Coherent(d)
         /\ k = None =>
              /\ cache.conflict = None /\ d.conflict = None
              /\ d.content = stage.next /\ d.base = cache.base
              /\ cache.pendingBase # None => d.pendingBase = cache.pendingBase
         /\ k # None /\ cache.conflict = k /\ d.conflict = None =>
              /\ d.base = cache.remote
              /\ d.content = Edited(cache.base, stage.next, cache.remote)
         /\ k # None /\ cache.conflict = k /\ d.conflict # None =>
              /\ d.content = stage.next /\ d.base = cache.base
              /\ d.remote = cache.remote
              /\ cache.pendingBase # None => d.pendingBase = cache.pendingBase
<1> DEFINE d == StageResult
           k == stage.conflict
<1>1. /\ cache \in Caches /\ stage.next \in Content /\ cache.conflict \in {k, None}
      /\ k \in Conflicts \cup {None}
  BY DEF Structure, TypeOK, Phases, StageData, Readers, Stages
<1>2. Coherent(cache)
  BY CoherentCache DEF Structure
<1>3. CASE k = None
  <2>1. d = Staged(cache, stage.next, {}) /\ cache.conflict = None
    BY <1>1, <1>3 DEF StageResult
  <2> HIDE DEF d, k
  <2> QED
    BY <1>1, <1>2, <1>3, <2>1, StagedIsCoherent DEF d, k
<1>4. CASE k # None
  <2>1. k.base \in Content /\ k.remote \in Content
    BY <1>1, <1>4 DEF Conflicts
  <2>2. cache.conflict = k => k.base = cache.base /\ k.remote = cache.remote
    BY <1>2, <1>4 DEF Coherent
  <2>3. CASE Merges(k.base, stage.next, k.remote)
    <3> DEFINE m == MergedContent(k.base, stage.next, k.remote, "none")
    <3>1. m \in Content
      BY <1>1, <2>1, MergedContentType
    <3>2. m = Edited(k.base, stage.next, k.remote)
      BY <1>1, <2>1, <2>3, MergeAppliesTheEdit DEF Edited
    <3>3. d = Rebased(m, k.remote)
      BY <1>4, <2>3 DEF StageResult
    <3> HIDE DEF m, d, k
    <3>4. d \in Caches /\ Coherent(d) /\ d.conflict = None /\ d.base = k.remote
          /\ d.content = m
      BY <2>1, <3>1, <3>3, RebasedFields, RebasedIsCoherent
    <3> QED
      BY <1>4, <2>2, <3>2, <3>4 DEF d, k
  <2>4. CASE ~Merges(k.base, stage.next, k.remote)
    <3> DEFINE units == ConflictUnits(k.base, stage.next, k.remote)
    <3>1. units # {}
      BY <2>4 DEF Merges
    <3>2. d = Staged(cache, stage.next, units)
      BY <1>4, <2>4 DEF StageResult
    <3> HIDE DEF d
    <3>3. cache.conflict # None =>
            units = ConflictUnits(cache.conflict.base, stage.next, cache.conflict.remote)
      BY <1>1, <1>4
    <3> HIDE DEF units, k
    <3>4. /\ d \in Caches /\ Coherent(d)
          /\ d.content = stage.next /\ d.base = cache.base
          /\ d.conflict = None <=> cache.conflict = None
          /\ d.remote = cache.remote
          /\ cache.pendingBase # None => d.pendingBase = cache.pendingBase
      BY <1>1, <1>2, <3>1, <3>2, <3>3, StagedIsCoherent
    <3> QED
      BY <1>4, <3>4 DEF d, k
  <2> QED
    BY <2>3, <2>4
<1> QED
  BY <1>3, <1>4

\* The idle stage has its type.
LEMMA IdleStageType == IdleStage \in Stages
BY DEF IdleStage, Stages, MaybeContent, MaxTries

\* The idle synchronisation has its type.
LEMMA IdleSyncType == IdleSync \in Syncs
BY DEF IdleSync, Syncs, MaybeContent, MaxTries

\* The idle load has its type.
LEMMA IdleLoadType == IdleLoad \in Loads
BY DEF IdleLoad, Loads, MaybeContent, MaxTries

\* Another attempt has its type.
LEMMA AttemptType ==
  ASSUME TypeOK, Attempts
  PROVE  Attempt \in Syncs /\ Attempt.pc = "load"
<1>1. sync.attempt \in 0..MaxTries - 1 /\ sync.attempt + 1 < MaxTries
  BY DEF TypeOK, Syncs, Attempts
<1>2. sync.attempt + 1 \in 0..MaxTries - 1
  BY <1>1 DEF MaxTries
<1> QED
  BY <1>2, IdleSyncType DEF Attempt, Syncs

\* The snapshot of a cache entry, part by part.
LEMMA SnapshotType ==
  ASSUME NEW c \in Caches
  PROVE  /\ Snapshot(c) \in Snapshots /\ Snapshot(c) # None
         /\ Snapshot(c).content = c.content
         /\ Snapshot(c).conflicted = HasConflictRevision(c)
<1>1. c.content \in Content /\ HasConflictRevision(c) \in BOOLEAN
  BY CacheFields DEF HasConflictRevision
<1>2. Snapshot(c) \in Snapshots
  BY <1>1 DEF Snapshot, Snapshots
<1> QED
  BY <1>2, NoneAssumption DEF Snapshot

\* What the session shows once the authority accepts a snapshot: the edit it
\* was about to stage stays.
LEMMA AcceptsType ==
  ASSUME view \in Views, NEW s \in Snapshots, NEW mayShow, Accepts(s, mayShow)
  PROVE  /\ view' \in Views /\ view'.held = None
         /\ view'.conflicted = s.conflicted
         /\ mayShow => view'.head = None /\ view'.content = s.content
         /\ ~mayShow => view'.head = view.head /\ view'.content = view.content
<1>1. s.content \in Content /\ s.conflicted \in BOOLEAN
  BY DEF Snapshots
<1>2. CASE mayShow
  BY <1>1, <1>2 DEF Accepts, Shown, Views, MaybeContent
<1>3. CASE ~mayShow
  <2>1. view' = [view EXCEPT !.conflicted = s.conflicted, !.held = None]
    BY <1>3 DEF Accepts
  <2> QED
    BY <1>1, <1>3, <2>1 DEF Views
<1> QED
  BY <1>2, <1>3

\* Handing over keeps the types and lets at most the session read.
LEMMA HandOverType ==
  ASSUME TypeOK, HandOver
  PROVE  view' \in Views /\ fresh' \subseteq fresh \cup {"view"}
<1>1. view \in Views /\ fresh \subseteq Holder
  BY DEF TypeOK
<1>2. CASE view.held = None
  BY <1>1, <1>2 DEF HandOver
<1>3. CASE view.held # None
  <2>1. view.held \in Snapshots /\ Accepts(view.held, MayShow)
    BY <1>1, <1>3 DEF HandOver, Views
  <2>2. fresh' \subseteq fresh \cup {"view"}
    BY <1>3 DEF HandOver
  <2> QED
    BY <1>1, <2>1, <2>2, AcceptsType
<1> QED
  BY <1>2, <1>3

\* Throwing keeps the types and lets nobody read.
LEMMA ThrowType ==
  ASSUME TypeOK, Throw
  PROVE  view' \in Views /\ fresh' \subseteq fresh
<1>1. view \in Views /\ view' = [view EXCEPT !.held = None]
  BY DEF TypeOK, Throw
<1>2. view' \in Views
  BY <1>1 DEF Views
<1> QED
  BY <1>2 DEF Throw

\* An attempt that did not write tries again or ends the call.
LEMMA NextAttemptType ==
  ASSUME TypeOK, NextAttempt
  PROVE  /\ view' \in Views /\ fresh' \subseteq fresh
         /\ sync' \in Syncs /\ sync'.pc \in Quiet
<1>1. CASE Attempts
  BY <1>1, AttemptType DEF NextAttempt, TypeOK, Quiet
<1>2. CASE ~Attempts
  <2>1. Throw /\ sync' = IdleSync
    BY <1>2 DEF NextAttempt, Throws, SyncEnds
  <2> QED
    BY <2>1, ThrowType, IdleSyncType DEF IdleSync, Quiet
<1> QED
  BY <1>1, <1>2

\* What the server commits is a content.
LEMMA CommittedType ==
  ASSUME Structure, sync.pc = "send"
  PROVE  Committed \in Content
<1>1. sync.local \in Content /\ sync.base \in Content /\ server \in Content
  BY DEF Structure, TypeOK, Phases, SyncData, Sending, Quiet
<1> QED
  BY <1>1, MergedContentType DEF Committed

\* Readers is kept while the cache is, if no other reader captures its revision
\* and the readers do not move on.
LEMMA ReadersKept ==
  ASSUME Readers, UNCHANGED cache,
         fresh' \subseteq fresh \cup {"view", "authority", "observed", "change",
                                      "recovery"},
         UNCHANGED stage \/ stage'.pc # "write",
         UNCHANGED sync \/ sync'.pc \in Quiet,
         UNCHANGED load \/ load'.pc \notin {"context", "rebase", "replace"}
  PROVE  Readers'
<1>1. \A x \in {"sync", "install", "load", "stage"} : x \in fresh' => x \in fresh
  OBVIOUS
<1> QED
  BY <1>1 DEF Readers, Quiet

\* The counters of the bounds.
Budgets == [edits : 0..MaxEdits, writes : 0..MaxWrites, loads : 0..MaxLoads]

\* An edit of the user keeps Structure.
LEMMA EditStructure ==
  ASSUME Structure, NEW u \in Editable, NEW v \in Slot, Edit(u, v), astray' \in BOOLEAN
  PROVE  Structure'
<1>1. TypeOK /\ Phases /\ Readers /\ ConflictIsWhole /\ BaseIsKnown
  BY DEF Structure
<1>2. stage' \in Stages /\ StageData'
  <2> DEFINE visible == IF view.head = None THEN view.content ELSE view.head
             after == [visible EXCEPT ![u] = v]
             before == IF stage.pc = "blocked" THEN stage.before ELSE view.content
  <2>1. stage' = [IdleStage EXCEPT !.pc = "load", !.after = after,
                                   !.before = before]
    BY DEF Edit
  <2>2. after \in Content /\ before \in Content
    BY <1>1, EditedUnits DEF TypeOK, Views, Phases, StageData, Content,
       MaybeContent, Edit
  <2> HIDE DEF after, before
  <2> QED
    BY <2>1, <2>2, IdleStageType DEF Stages, StageData, MaybeContent
<1>3. view' \in Views
  BY <1>1, NoneAssumption DEF TypeOK, Views, MaybeContent, Edit, Content
<1>4. fresh' \subseteq Holder
  BY <1>1 DEF TypeOK, Holder, Edit
<1>5. edited' \subseteq Unit
  BY <1>1, EditedUnits DEF TypeOK, Edit
<1>6. budget' \in Budgets
  BY <1>1, Bounds DEF TypeOK, Budgets, Edit
<1>7. UNCHANGED <<server, cache, sync, load, recovery>>
  BY DEF Edit
<1>8. TypeOK'
  BY <1>1, <1>2, <1>3, <1>4, <1>5, <1>6, <1>7 DEF TypeOK, Budgets
<1>9. Exclusive'
  BY <1>1, <1>7 DEF Exclusive, Edit, Quiesced
<1>10. Phases'
  BY <1>1, <1>2, <1>3, <1>4, <1>5, <1>6, <1>7, <1>9 DEF Phases, StageData,
     SyncData, LoadData, RecoveryData
<1>11. Readers'
  BY <1>1, <1>7 DEF Readers, Edit
<1>12. ConflictIsWhole' /\ BaseIsKnown'
  BY <1>1, <1>7 DEF ConflictIsWhole, BaseIsKnown
<1> QED
  BY <1>8, <1>10, <1>11, <1>12 DEF Structure

\* Staging a refused edit again keeps Structure.
LEMMA StageFlushStructure ==
  ASSUME Structure, StageFlush, astray' \in BOOLEAN
  PROVE  Structure'
<1>1. TypeOK /\ Phases /\ Readers /\ ConflictIsWhole /\ BaseIsKnown
  BY DEF Structure
<1>2. stage' \in Stages /\ StageData'
  BY <1>1, NoneAssumption DEF TypeOK, Phases, StageData, Stages, StageFlush
<1>3. UNCHANGED <<server, cache, fresh, view, sync, load, recovery, edited, budget>>
  BY DEF StageFlush, history
<1>4. TypeOK'
  BY <1>1, <1>2, <1>3 DEF TypeOK, Budgets
<1>5. Exclusive'
  BY <1>1, <1>3 DEF Phases, Exclusive, StageFlush
<1>6. Phases'
  BY <1>1, <1>2, <1>3, <1>5 DEF Phases, StageData, SyncData, LoadData,
     RecoveryData
<1>7. Readers'
  BY <1>1, <1>3 DEF Readers, StageFlush
<1>8. ConflictIsWhole' /\ BaseIsKnown'
  BY <1>1, <1>3 DEF ConflictIsWhole, BaseIsKnown
<1> QED
  BY <1>4, <1>6, <1>7, <1>8 DEF Structure

\* Reading the cache for a stage keeps Structure.
LEMMA StageLoadStructure ==
  ASSUME Structure, StageLoad, astray' \in BOOLEAN
  PROVE  Structure'
<1>1. TypeOK /\ Phases /\ Readers /\ ConflictIsWhole /\ BaseIsKnown
  BY DEF Structure
<1>2. stage' \in Stages /\ StageData'
  <2>1. /\ stage \in Stages /\ stage.before \in Content
        /\ stage.after \in Content /\ cache.content \in Content
    BY <1>1 DEF TypeOK, Caches, Phases, StageData, StageLoad
  <2>2. CASE RejectStage
    <3>1. stage' = [IdleStage EXCEPT !.pc = "blocked", !.before = stage.before,
                                     !.after = stage.after]
      BY <2>2 DEF RejectStage
    <3> QED
      BY <2>1, <3>1, IdleStageType DEF Stages, StageData, MaybeContent
  <2>3. CASE ~RejectStage
    <3>1. PICK next \in Content :
            stage' = [stage EXCEPT !.pc = "context", !.next = next]
      BY <2>1, <2>3, MergedContentType DEF StageLoad
    <3> QED
      BY <2>1, <3>1 DEF Stages, StageData, MaybeContent
  <2> QED
    BY <2>2, <2>3
<1>3. fresh' \subseteq Holder
  BY <1>1 DEF TypeOK, Holder, StageLoad, Capture
<1>4. UNCHANGED <<server, cache, view, sync, load, recovery, edited, budget>>
  BY DEF StageLoad, history
<1>5. TypeOK'
  BY <1>1, <1>2, <1>3, <1>4 DEF TypeOK, Budgets
<1>6. Exclusive'
  BY <1>1, <1>4 DEF Phases, Exclusive, StageLoad
<1>7. Phases'
  BY <1>1, <1>2, <1>3, <1>4, <1>6 DEF Phases, StageData, SyncData, LoadData,
     RecoveryData
<1>8. Readers'
  <2>1. stage'.pc # "write"
    BY <1>1, IdleStageType DEF StageLoad, RejectStage, TypeOK, Stages
  <2>2. \A x \in {"sync", "install", "load"} : x \in fresh' => x \in fresh
    BY DEF StageLoad, Capture
  <2> QED
    BY <1>1, <1>4, <2>1, <2>2 DEF Readers, Quiet
<1>9. ConflictIsWhole' /\ BaseIsKnown'
  BY <1>1, <1>4 DEF ConflictIsWhole, BaseIsKnown
<1> QED
  BY <1>5, <1>7, <1>8, <1>9 DEF Structure

\* Reading the conflict for a stage keeps Structure.
LEMMA StageContextStructure ==
  ASSUME Structure, StageContext, astray' \in BOOLEAN
  PROVE  Structure'
<1>1. TypeOK /\ Phases /\ Readers /\ ConflictIsWhole /\ BaseIsKnown
  BY DEF Structure
<1>2. stage' \in Stages /\ StageData'
  BY <1>1, NoneAssumption DEF TypeOK, Phases, StageData, Stages, StageContext,
     Caches
<1>3. UNCHANGED <<server, cache, fresh, view, sync, load, recovery, edited, budget>>
  BY DEF StageContext, history
<1>4. TypeOK'
  BY <1>1, <1>2, <1>3 DEF TypeOK, Budgets
<1>5. Exclusive'
  BY <1>1, <1>3 DEF Phases, Exclusive, StageContext
<1>6. Phases'
  BY <1>1, <1>2, <1>3, <1>5 DEF Phases, StageData, SyncData, LoadData,
     RecoveryData
<1>7. Readers'
  BY <1>1, <1>3 DEF Readers, StageContext
<1>8. ConflictIsWhole' /\ BaseIsKnown'
  BY <1>1, <1>3 DEF ConflictIsWhole, BaseIsKnown
<1> QED
  BY <1>4, <1>6, <1>7, <1>8 DEF Structure

\* A stage that another write overtook keeps Structure.
LEMMA StageRetryStructure ==
  ASSUME Structure, StageRetry, astray' \in BOOLEAN
  PROVE  Structure'
<1>1. TypeOK /\ Phases /\ Readers /\ ConflictIsWhole /\ BaseIsKnown
  BY DEF Structure
<1>2. stage' \in Stages /\ StageData'
  <2>1. /\ stage \in Stages /\ stage.pc = "write" /\ stage.before \in Content
        /\ stage.after \in Content /\ stage.try \in 0..MaxTries - 1
    BY <1>1 DEF TypeOK, Phases, StageData, Stages, StageRetry
  <2>2. CASE RejectStage
    <3>1. stage' = [IdleStage EXCEPT !.pc = "blocked", !.before = stage.before,
                                     !.after = stage.after]
      BY <2>2 DEF RejectStage
    <3> QED
      BY <2>1, <3>1, IdleStageType DEF Stages, StageData, MaybeContent
  <2>3. CASE ~RejectStage
    <3>1. stage' = [stage EXCEPT !.pc = "load", !.try = stage.try + 1,
                                 !.next = None, !.conflict = None]
      BY <2>3 DEF StageRetry
    <3>2. stage.try + 1 \in 0..MaxTries - 1
      BY <2>1, <2>3 DEF StageRetry, MaxTries
    <3> QED
      BY <2>1, <3>1, <3>2 DEF Stages, StageData, MaybeContent
  <2> QED
    BY <2>2, <2>3
<1>3. UNCHANGED <<server, cache, fresh, view, sync, load, recovery, edited, budget>>
  BY DEF StageRetry, history
<1>4. TypeOK'
  BY <1>1, <1>2, <1>3 DEF TypeOK, Budgets
<1>5. Exclusive'
  BY <1>1, <1>3 DEF Phases, Exclusive, StageRetry
<1>6. Phases'
  BY <1>1, <1>2, <1>3, <1>5 DEF Phases, StageData, SyncData, LoadData,
     RecoveryData
<1>7. Readers'
  BY <1>1, <1>3 DEF Readers, StageRetry
<1>8. ConflictIsWhole' /\ BaseIsKnown'
  BY <1>1, <1>3 DEF ConflictIsWhole, BaseIsKnown
<1> QED
  BY <1>4, <1>6, <1>7, <1>8 DEF Structure

\* Starting a synchronisation keeps Structure.
LEMMA SyncStartStructure ==
  ASSUME Structure, SyncStart, astray' \in BOOLEAN
  PROVE  Structure'
<1>1. TypeOK /\ Phases /\ Readers /\ ConflictIsWhole /\ BaseIsKnown
  BY DEF Structure
<1>2. sync' \in Syncs /\ SyncData'
  <2>1. sync' = [IdleSync EXCEPT !.pc = "load"]
    BY DEF SyncStart
  <2> QED
    BY <2>1, IdleSyncType DEF Syncs, SyncData, Quiet, Sending
<1>3. UNCHANGED <<server, cache, fresh, view, stage, load, recovery, edited, budget>>
  BY DEF SyncStart, history
<1>4. TypeOK'
  BY <1>1, <1>2, <1>3 DEF TypeOK, Budgets
<1>5. Exclusive'
  BY <1>1, <1>3 DEF Exclusive, SyncStart, Quiesced
<1>6. Phases'
  BY <1>1, <1>2, <1>3, <1>5 DEF Phases, StageData, SyncData, LoadData,
     RecoveryData
<1>7. Readers'
  BY <1>1, <1>3 DEF Readers, Quiet, SyncStart
<1>8. ConflictIsWhole' /\ BaseIsKnown'
  BY <1>1, <1>3 DEF ConflictIsWhole, BaseIsKnown
<1> QED
  BY <1>4, <1>6, <1>7, <1>8 DEF Structure

\* Reading what to send keeps Structure.
LEMMA SyncLoadStructure ==
  ASSUME Structure, SyncLoad, astray' \in BOOLEAN
  PROVE  Structure'
<1>1. TypeOK /\ Phases /\ Readers /\ ConflictIsWhole /\ BaseIsKnown
  BY DEF Structure
<1>2. sync' \in Syncs /\ SyncData'
  <2>1. CASE Returns
    <3>1. sync' = IdleSync
      BY <2>1 DEF Returns, Throws, SyncEnds
    <3> QED
      BY <3>1, IdleSyncType DEF IdleSync, SyncData, Quiet, Sending
  <2>2. CASE ~Returns
    <3>1. /\ sync' = [sync EXCEPT !.pc = "context", !.local = cache.content,
                                   !.revision = cache.pendingBase]
          /\ cache.pendingBase # None
      BY <2>2 DEF SyncLoad
    <3>2. /\ sync \in Syncs /\ cache.content \in Content
          /\ cache.pendingBase \in Content
      BY <1>1, <3>1 DEF TypeOK, Caches
    <3> QED
      BY <3>1, <3>2 DEF Syncs, SyncData, Quiet, Sending, MaybeContent
  <2> QED
    BY <2>1, <2>2
<1>3. view' \in Views
  BY <1>1, HandOverType DEF SyncLoad, Returns, TypeOK
<1>4. fresh' \subseteq Holder
  BY <1>1, HandOverType DEF SyncLoad, Returns, Capture, TypeOK, Holder
<1>5. UNCHANGED <<server, cache, stage, load, recovery, edited, budget>>
  BY DEF SyncLoad, history
<1>6. TypeOK'
  BY <1>1, <1>2, <1>3, <1>4, <1>5 DEF TypeOK, Budgets
<1>7. Exclusive'
  BY <1>1, <1>5 DEF Phases, Exclusive, SyncLoad
<1>8. Phases'
  BY <1>1, <1>2, <1>3, <1>4, <1>5, <1>7 DEF Phases, StageData, SyncData,
     LoadData, RecoveryData
<1>9. Readers'
  <2>1. CASE Returns
    BY <1>1, <1>5, <2>1, HandOverType, ReadersKept DEF Returns, SyncEnds,
       IdleSync, Quiet
  <2>2. CASE ~Returns
    <3>1. /\ sync' = [sync EXCEPT !.pc = "context", !.local = cache.content,
                                   !.revision = cache.pendingBase]
          /\ fresh' = fresh \cup {"sync"}
      BY <2>2 DEF SyncLoad, Capture
    <3>2. sync'.pc = "context" /\ sync'.local = cache.content
      BY <1>1, <3>1 DEF TypeOK, Syncs
    <3> QED
      BY <1>1, <1>5, <3>1, <3>2 DEF Readers
  <2> QED
    BY <2>1, <2>2
<1>10. ConflictIsWhole' /\ BaseIsKnown'
  BY <1>1, <1>5 DEF ConflictIsWhole, BaseIsKnown
<1> QED
  BY <1>6, <1>8, <1>9, <1>10 DEF Structure

\* Reading the base to send keeps Structure.
LEMMA SyncContextStructure ==
  ASSUME Structure, SyncContext, astray' \in BOOLEAN
  PROVE  Structure'
<1>1. TypeOK /\ Phases /\ Readers /\ ConflictIsWhole /\ BaseIsKnown
  BY DEF Structure
<1>2. sync' \in Syncs /\ SyncData'
  BY <1>1, NoneAssumption, NothingNew DEF TypeOK, Phases, SyncData, Syncs,
     MaybeContent, Quiet, SyncContext, Caches
<1>3. UNCHANGED <<server, cache, fresh, view, stage, load, recovery, edited, budget>>
  BY DEF SyncContext, history
<1>4. TypeOK'
  BY <1>1, <1>2, <1>3 DEF TypeOK, Budgets
<1>5. Exclusive'
  BY <1>1, <1>3 DEF Phases, Exclusive, SyncContext
<1>6. Phases'
  BY <1>1, <1>2, <1>3, <1>5 DEF Phases, StageData, SyncData, LoadData,
     RecoveryData
<1>7. Readers'
  BY <1>1, <1>3 DEF Readers, Quiet, SyncContext
<1>8. ConflictIsWhole' /\ BaseIsKnown'
  BY <1>1, <1>3 DEF ConflictIsWhole, BaseIsKnown
<1> QED
  BY <1>4, <1>6, <1>7, <1>8 DEF Structure

\* An accepted request keeps Structure.
LEMMA SyncServedStructure ==
  ASSUME Structure, SyncServed, astray' \in BOOLEAN
  PROVE  Structure'
<1>1. TypeOK /\ Phases /\ Readers /\ ConflictIsWhole /\ BaseIsKnown
  BY DEF Structure
<1>2. server' \in Content
  BY <1>1, CommittedType DEF SyncServed
<1>3. sync' \in Syncs /\ SyncData'
  <2>1. /\ sync.pc = "send" /\ sync.base = sync.revision
        /\ sync' = [sync EXCEPT !.pc = "install", !.remote = Committed]
    BY DEF SyncServed, Accepted
  <2>2. sync \in Syncs /\ SyncData /\ Committed \in Content
    BY <1>1, <2>1, CommittedType DEF TypeOK, Phases
  <2> HIDE DEF Committed
  <2> QED
    BY <2>1, <2>2 DEF Syncs, SyncData, Quiet, Sending, MaybeContent
<1>4. UNCHANGED <<cache, fresh, view, stage, load, recovery, edited, budget>>
  BY DEF SyncServed, history
<1>5. TypeOK'
  BY <1>1, <1>2, <1>3, <1>4 DEF TypeOK, Budgets
<1>6. Exclusive'
  BY <1>1, <1>4 DEF Phases, Exclusive, SyncServed
<1>7. Phases'
  BY <1>1, <1>2, <1>3, <1>4, <1>6 DEF Phases, StageData, SyncData, LoadData,
     RecoveryData
<1>8. Readers'
  BY <1>1, <1>4 DEF Readers, Quiet, SyncServed
<1>9. ConflictIsWhole' /\ BaseIsKnown'
  BY <1>1, <1>4 DEF ConflictIsWhole, BaseIsKnown
<1> QED
  BY <1>5, <1>7, <1>8, <1>9 DEF Structure

\* A refused request keeps Structure.
LEMMA SyncRefusedStructure ==
  ASSUME Structure, NEW reply \in {"merge_conflict", "resource_conflict"},
         SyncRefused(reply), astray' \in BOOLEAN
  PROVE  Structure'
<1>1. TypeOK /\ Phases /\ Readers /\ ConflictIsWhole /\ BaseIsKnown
  BY DEF Structure
<1>2. sync' \in Syncs /\ SyncData'
  BY <1>1, NoneAssumption, NothingNew DEF TypeOK, Phases, SyncData, Syncs,
     MaybeContent, Quiet, SyncRefused, Accepted
<1>3. UNCHANGED <<server, cache, fresh, view, stage, load, recovery, edited, budget>>
  BY DEF SyncRefused, history
<1>4. TypeOK'
  BY <1>1, <1>2, <1>3 DEF TypeOK, Budgets
<1>5. Exclusive'
  BY <1>1, <1>3 DEF Phases, Exclusive, SyncRefused
<1>6. Phases'
  BY <1>1, <1>2, <1>3, <1>5 DEF Phases, StageData, SyncData, LoadData,
     RecoveryData
<1>7. Readers'
  BY <1>1, <1>3 DEF Readers, Quiet, SyncRefused
<1>8. ConflictIsWhole' /\ BaseIsKnown'
  BY <1>1, <1>3 DEF ConflictIsWhole, BaseIsKnown
<1> QED
  BY <1>4, <1>6, <1>7, <1>8 DEF Structure

\* A synchronisation that fails keeps Structure.
LEMMA SyncFailsStructure ==
  ASSUME Structure, SyncFails, astray' \in BOOLEAN
  PROVE  Structure'
<1>1. TypeOK /\ Phases /\ Readers /\ ConflictIsWhole /\ BaseIsKnown
  BY DEF Structure
<1>2. server' \in Content
  BY <1>1, CommittedType DEF SyncFails, TypeOK
<1>3. sync' \in Syncs /\ SyncData'
  <2>1. sync' = IdleSync
    BY DEF SyncFails, Returns, Throws, SyncEnds
  <2> QED
    BY <2>1, IdleSyncType DEF IdleSync, SyncData, Quiet, Sending
<1>4. view' \in Views
  BY <1>1, HandOverType, ThrowType DEF SyncFails, Returns, Throws
<1>5. fresh' \subseteq Holder
  BY <1>1, HandOverType, ThrowType DEF SyncFails, Returns, Throws, TypeOK,
     Holder
<1>6. UNCHANGED <<cache, stage, load, recovery, edited, budget>>
  BY DEF SyncFails, history
<1>7. TypeOK'
  BY <1>1, <1>2, <1>3, <1>4, <1>5, <1>6 DEF TypeOK, Budgets
<1>8. Exclusive'
  BY <1>1, <1>6 DEF Phases, Exclusive, SyncFails
<1>9. Phases'
  BY <1>1, <1>2, <1>3, <1>4, <1>5, <1>6, <1>8 DEF Phases, StageData, SyncData,
     LoadData, RecoveryData
<1>10. Readers'
  <2>1. sync'.pc \in Quiet
    BY DEF SyncFails, Returns, Throws, SyncEnds, IdleSync, Quiet
  <2>2. fresh' \subseteq fresh \cup {"view"}
    BY <1>1, HandOverType, ThrowType DEF SyncFails, Returns, Throws
  <2> QED
    BY <1>1, <1>6, <2>1, <2>2, ReadersKept
<1>11. ConflictIsWhole' /\ BaseIsKnown'
  BY <1>1, <1>6 DEF ConflictIsWhole, BaseIsKnown
<1> QED
  BY <1>7, <1>9, <1>10, <1>11 DEF Structure

\* Fetching the content of a refusal keeps Structure.
LEMMA SyncFetchedStructure ==
  ASSUME Structure, SyncFetched, astray' \in BOOLEAN
  PROVE  Structure'
<1>1. TypeOK /\ Phases /\ Readers /\ ConflictIsWhole /\ BaseIsKnown
  BY DEF Structure
<1>2. sync' \in Syncs /\ SyncData'
  <2>1. CASE NextAttempt
    BY <1>1, <2>1, NextAttemptType DEF SyncData, Quiet, Sending
  <2>2. CASE ~NextAttempt
    <3>1. PICK pc \in {"record", "reconcile"} :
            /\ sync' = [sync EXCEPT !.pc = pc]
            /\ pc = "record" <=> sync.reply = "merge_conflict"
      BY <2>2 DEF SyncFetched
    <3>2. sync \in Syncs /\ SyncData /\ sync.pc = "fetch"
      BY <1>1 DEF TypeOK, Phases, SyncFetched
    <3> QED
      BY <3>1, <3>2 DEF Syncs, SyncData, Quiet, Sending
  <2> QED
    BY <2>1, <2>2
<1>3. view' \in Views
  BY <1>1, NextAttemptType DEF SyncFetched, TypeOK
<1>4. fresh' \subseteq Holder
  BY <1>1, NextAttemptType DEF SyncFetched, TypeOK, Holder
<1>5. UNCHANGED <<server, cache, stage, load, recovery, edited, budget>>
  BY DEF SyncFetched, history
<1>6. TypeOK'
  BY <1>1, <1>2, <1>3, <1>4, <1>5 DEF TypeOK, Budgets
<1>7. Exclusive'
  BY <1>1, <1>5 DEF Phases, Exclusive, SyncFetched
<1>8. Phases'
  BY <1>1, <1>2, <1>3, <1>4, <1>5, <1>7 DEF Phases, StageData, SyncData,
     LoadData, RecoveryData
<1>9. Readers'
  <2>1. CASE NextAttempt
    BY <1>1, <1>5, <2>1, NextAttemptType, ReadersKept
  <2>2. CASE ~NextAttempt
    <3>1. PICK pc \in {"record", "reconcile"} :
            sync' = [sync EXCEPT !.pc = pc] /\ fresh' = fresh
      BY <2>2 DEF SyncFetched
    <3>2. sync'.pc = pc /\ sync'.local = sync.local /\ sync.pc = "fetch"
      BY <1>1, <3>1 DEF TypeOK, Syncs, SyncFetched
    <3> QED
      BY <1>1, <1>5, <3>1, <3>2 DEF Readers, Quiet
  <2> QED
    BY <2>1, <2>2
<1>10. ConflictIsWhole' /\ BaseIsKnown'
  BY <1>1, <1>5 DEF ConflictIsWhole, BaseIsKnown
<1> QED
  BY <1>6, <1>8, <1>9, <1>10 DEF Structure

\* Reading the cache for an answer keeps Structure.
LEMMA InstallLoadStructure ==
  ASSUME Structure, InstallLoad, astray' \in BOOLEAN
  PROVE  Structure'
<1>1. TypeOK /\ Phases /\ Readers /\ ConflictIsWhole /\ BaseIsKnown
  BY DEF Structure
<1>2. sync' \in Syncs /\ SyncData'
  <2>1. sync' = [sync EXCEPT !.pc = "write", !.seen = cache.content,
                             !.same = "sync" \in fresh]
    BY DEF InstallLoad
  <2>2. sync \in Syncs /\ cache.content \in Content /\ SyncData
        /\ sync.pc = "install"
    BY <1>1 DEF TypeOK, Caches, Phases, InstallLoad
  <2>3. ("sync" \in fresh) \in BOOLEAN
    OBVIOUS
  <2>4. sync' \in Syncs
    BY <2>1, <2>2, <2>3 DEF Syncs, MaybeContent
  <2>5. SyncData'
    BY <2>1, <2>2 DEF Syncs, SyncData, Quiet, Sending
  <2> QED
    BY <2>4, <2>5
<1>3. fresh' \subseteq Holder
  BY <1>1 DEF TypeOK, Holder, InstallLoad, Capture
<1>4. UNCHANGED <<server, cache, view, stage, load, recovery, edited, budget>>
  BY DEF InstallLoad, history
<1>5. TypeOK'
  BY <1>1, <1>2, <1>3, <1>4 DEF TypeOK, Budgets
<1>6. Exclusive'
  BY <1>1, <1>4 DEF Phases, Exclusive, InstallLoad
<1>7. Phases'
  BY <1>1, <1>2, <1>3, <1>4, <1>6 DEF Phases, StageData, SyncData, LoadData,
     RecoveryData
<1>8. Readers'
  BY <1>1, <1>4 DEF TypeOK, Readers, Quiet, Syncs, InstallLoad, Capture
<1>9. ConflictIsWhole' /\ BaseIsKnown'
  BY <1>1, <1>4 DEF ConflictIsWhole, BaseIsKnown
<1> QED
  BY <1>5, <1>7, <1>8, <1>9 DEF Structure

\* An answer that another write overtook keeps Structure.
LEMMA InstallRetryStructure ==
  ASSUME Structure, InstallRetry, astray' \in BOOLEAN
  PROVE  Structure'
<1>1. TypeOK /\ Phases /\ Readers /\ ConflictIsWhole /\ BaseIsKnown
  BY DEF Structure
<1>2. sync' \in Syncs /\ SyncData'
  <2>1. CASE Returns
    <3>1. sync' = IdleSync
      BY <2>1 DEF Returns, Throws, SyncEnds
    <3> QED
      BY <3>1, IdleSyncType DEF IdleSync, SyncData, Quiet, Sending
  <2>2. CASE ~Returns
    <3>1. sync' = [sync EXCEPT !.pc = "install", !.try = sync.try + 1]
      BY <2>2 DEF InstallRetry
    <3>2. /\ sync \in Syncs /\ SyncData /\ sync.pc = "write"
          /\ sync.try + 1 \in 0..MaxTries - 1
      BY <1>1, <2>2 DEF TypeOK, Phases, Syncs, InstallRetry, MaxTries
    <3> QED
      BY <3>1, <3>2 DEF Syncs, SyncData, Quiet, Sending
  <2> QED
    BY <2>1, <2>2
<1>3. view' \in Views
  BY <1>1, HandOverType DEF InstallRetry, Returns, TypeOK
<1>4. fresh' \subseteq Holder
  BY <1>1, HandOverType DEF InstallRetry, Returns, TypeOK, Holder
<1>5. UNCHANGED <<server, cache, stage, load, recovery, edited, budget>>
  BY DEF InstallRetry, history
<1>6. TypeOK'
  BY <1>1, <1>2, <1>3, <1>4, <1>5 DEF TypeOK, Budgets
<1>7. Exclusive'
  BY <1>1, <1>5 DEF Phases, Exclusive, InstallRetry
<1>8. Phases'
  BY <1>1, <1>2, <1>3, <1>4, <1>5, <1>7 DEF Phases, StageData, SyncData,
     LoadData, RecoveryData
<1>9. Readers'
  <2>1. CASE Returns
    BY <1>1, <1>5, <2>1, HandOverType, ReadersKept DEF Returns, SyncEnds,
       IdleSync, Quiet
  <2>2. CASE ~Returns
    <3>1. sync' = [sync EXCEPT !.pc = "install", !.try = sync.try + 1]
          /\ fresh' = fresh
      BY <2>2 DEF InstallRetry
    <3>2. sync'.pc = "install" /\ sync'.local = sync.local /\ sync.pc = "write"
          /\ "install" \notin fresh
      BY <1>1, <3>1 DEF TypeOK, Syncs, InstallRetry
    <3> QED
      BY <1>1, <1>5, <3>1, <3>2 DEF Readers, Quiet
  <2> QED
    BY <2>1, <2>2
<1>10. ConflictIsWhole' /\ BaseIsKnown'
  BY <1>1, <1>5 DEF ConflictIsWhole, BaseIsKnown
<1> QED
  BY <1>6, <1>8, <1>9, <1>10 DEF Structure

\* Starting a reload keeps Structure.
LEMMA LoadStartStructure ==
  ASSUME Structure, LoadStart, astray' \in BOOLEAN
  PROVE  Structure'
<1>1. TypeOK /\ Phases /\ Readers /\ ConflictIsWhole /\ BaseIsKnown
  BY DEF Structure
<1>2. load' \in Loads /\ LoadData'
  <2>1. \/ load' = [IdleLoad EXCEPT !.pc = "fetch"]
        \/ load' = [IdleLoad EXCEPT !.pc = "await", !.final = TRUE]
    BY DEF LoadStart
  <2> QED
    BY <2>1, IdleLoadType DEF Loads, LoadData
<1>3. fresh' \subseteq Holder
  BY <1>1 DEF TypeOK, Holder, LoadStart, Capture
<1>4. budget' \in Budgets
  BY <1>1, Bounds DEF TypeOK, Budgets, LoadStart
<1>5. UNCHANGED <<server, cache, view, stage, sync, recovery, edited>>
  BY DEF LoadStart
<1>6. TypeOK'
  BY <1>1, <1>2, <1>3, <1>4, <1>5 DEF TypeOK, Budgets
<1>7. Exclusive'
  BY <1>1, <1>5 DEF Phases, Exclusive, LoadStart
<1>8. Phases'
  BY <1>1, <1>2, <1>3, <1>4, <1>5, <1>7 DEF Phases, StageData, SyncData,
     LoadData, RecoveryData
<1>9. Readers'
  BY <1>1, <1>5 DEF Readers, Quiet, LoadStart, Quiesced, IdleLoad, Capture
<1>10. ConflictIsWhole' /\ BaseIsKnown'
  BY <1>1, <1>5 DEF ConflictIsWhole, BaseIsKnown
<1> QED
  BY <1>6, <1>8, <1>9, <1>10 DEF Structure

\* A reload that waited for a synchronisation keeps Structure.
LEMMA LoadAwaitedStructure ==
  ASSUME Structure, LoadAwaited, astray' \in BOOLEAN
  PROVE  Structure'
<1>1. TypeOK /\ Phases /\ Readers /\ ConflictIsWhole /\ BaseIsKnown
  BY DEF Structure
<1>2. load' \in Loads /\ LoadData'
  BY <1>1, NoneAssumption DEF TypeOK, LoadData, Loads, LoadAwaited
<1>3. UNCHANGED <<server, cache, fresh, view, stage, sync, recovery, edited, budget>>
  BY DEF LoadAwaited, history
<1>4. TypeOK'
  BY <1>1, <1>2, <1>3 DEF TypeOK, Budgets
<1>5. Exclusive'
  BY <1>1, <1>3 DEF Phases, Exclusive, LoadAwaited
<1>6. Phases'
  BY <1>1, <1>2, <1>3, <1>5 DEF Phases, StageData, SyncData, LoadData,
     RecoveryData
<1>7. Readers'
  BY <1>1, <1>3 DEF Readers, LoadAwaited
<1>8. ConflictIsWhole' /\ BaseIsKnown'
  BY <1>1, <1>3 DEF ConflictIsWhole, BaseIsKnown
<1> QED
  BY <1>4, <1>6, <1>7, <1>8 DEF Structure

\* A load that has the server's content keeps Structure.
LEMMA LoadFetchedStructure ==
  ASSUME Structure, LoadFetched, astray' \in BOOLEAN
  PROVE  Structure'
<1>1. TypeOK /\ Phases /\ Readers /\ ConflictIsWhole /\ BaseIsKnown
  BY DEF Structure
<1>2. load' \in Loads /\ LoadData'
  BY <1>1, NoneAssumption DEF TypeOK, LoadData, Loads, MaybeContent,
     LoadFetched
<1>3. UNCHANGED <<server, cache, fresh, view, stage, sync, recovery, edited, budget>>
  BY DEF LoadFetched, history
<1>4. TypeOK'
  BY <1>1, <1>2, <1>3 DEF TypeOK, Budgets
<1>5. Exclusive'
  BY <1>1, <1>3 DEF Phases, Exclusive, LoadFetched
<1>6. Phases'
  BY <1>1, <1>2, <1>3, <1>5 DEF Phases, StageData, SyncData, LoadData,
     RecoveryData
<1>7. Readers'
  BY <1>1, <1>3 DEF Readers, LoadFetched
<1>8. ConflictIsWhole' /\ BaseIsKnown'
  BY <1>1, <1>3 DEF ConflictIsWhole, BaseIsKnown
<1> QED
  BY <1>4, <1>6, <1>7, <1>8 DEF Structure

\* A load that falls back on the cache keeps Structure.
LEMMA LoadFallsBackStructure ==
  ASSUME Structure, LoadFallsBack, astray' \in BOOLEAN
  PROVE  Structure'
<1>1. TypeOK /\ Phases /\ Readers /\ ConflictIsWhole /\ BaseIsKnown
  BY DEF Structure
<1>2. load' \in Loads /\ LoadData'
  BY <1>1, NoneAssumption DEF TypeOK, LoadData, Loads, MaybeContent, MaxTries,
     LoadFallsBack, LoadReturns, Snapshot, Snapshots, HasConflictRevision,
     Caches, history
<1>3. fresh' \subseteq Holder
  BY <1>1 DEF TypeOK, Holder, LoadFallsBack, Capture
<1>4. UNCHANGED <<server, cache, view, stage, sync, recovery, edited, budget>>
  BY DEF LoadFallsBack, history
<1>5. TypeOK'
  BY <1>1, <1>2, <1>3, <1>4 DEF TypeOK, Budgets
<1>6. Exclusive'
  BY <1>1, <1>4 DEF Phases, Exclusive, LoadFallsBack
<1>7. Phases'
  BY <1>1, <1>2, <1>3, <1>4, <1>6 DEF Phases, StageData, SyncData, LoadData,
     RecoveryData
<1>8. Readers'
  BY <1>1, <1>4 DEF Readers, LoadFallsBack, LoadReturns, Capture
<1>9. ConflictIsWhole' /\ BaseIsKnown'
  BY <1>1, <1>4 DEF ConflictIsWhole, BaseIsKnown
<1> QED
  BY <1>5, <1>7, <1>8, <1>9 DEF Structure

\* A load that fails keeps Structure.
LEMMA LoadFailsStructure ==
  ASSUME Structure, LoadFails, astray' \in BOOLEAN
  PROVE  Structure'
<1>1. TypeOK /\ Phases /\ Readers /\ ConflictIsWhole /\ BaseIsKnown
  BY DEF Structure
<1>2. load' \in Loads /\ LoadData'
  BY <1>1, NoneAssumption DEF LoadData, Loads, MaybeContent, MaxTries,
     LoadFails, LoadThrows, IdleLoad
<1>3. fresh' \subseteq Holder
  BY <1>1 DEF TypeOK, Holder, LoadFails, LoadThrows, RestoreQueue
<1>4. UNCHANGED <<server, cache, view, stage, sync, recovery, edited, budget>>
  BY DEF LoadFails, history
<1>5. TypeOK'
  BY <1>1, <1>2, <1>3, <1>4 DEF TypeOK, Budgets
<1>6. Exclusive'
  BY <1>1, <1>4 DEF Phases, Exclusive, LoadFails
<1>7. Phases'
  BY <1>1, <1>2, <1>3, <1>4, <1>6 DEF Phases, StageData, SyncData, LoadData,
     RecoveryData
<1>8. Readers'
  BY <1>1, <1>4 DEF Readers, LoadFails, LoadThrows, RestoreQueue, IdleLoad
<1>9. ConflictIsWhole' /\ BaseIsKnown'
  BY <1>1, <1>4 DEF ConflictIsWhole, BaseIsKnown
<1> QED
  BY <1>5, <1>7, <1>8, <1>9 DEF Structure

\* A load that compares keeps Structure.
LEMMA LoadReloadStructure ==
  ASSUME Structure, LoadReload, astray' \in BOOLEAN
  PROVE  Structure'
<1>1. TypeOK /\ Phases /\ Readers /\ ConflictIsWhole /\ BaseIsKnown
  BY DEF Structure
<1>2. load' \in Loads /\ LoadData'
  BY <1>1, NoneAssumption DEF TypeOK, Phases, LoadData, Loads, MaybeContent,
     LoadReload, LoadReturns, Snapshot, Snapshots, HasConflictRevision, Caches
<1>3. fresh' \subseteq Holder
  BY <1>1 DEF TypeOK, Holder, LoadReload, Capture
<1>4. UNCHANGED <<server, cache, view, stage, sync, recovery, edited, budget>>
  BY DEF LoadReload, history
<1>5. TypeOK'
  BY <1>1, <1>2, <1>3, <1>4 DEF TypeOK, Budgets
<1>6. Exclusive'
  BY <1>1, <1>4 DEF Phases, Exclusive, LoadReload
<1>7. Phases'
  BY <1>1, <1>2, <1>3, <1>4, <1>6 DEF Phases, StageData, SyncData, LoadData,
     RecoveryData
<1>8. Readers'
  BY <1>1, <1>4 DEF Readers, LoadReload, LoadReturns, Capture
<1>9. ConflictIsWhole' /\ BaseIsKnown'
  BY <1>1, <1>4 DEF ConflictIsWhole, BaseIsKnown
<1> QED
  BY <1>5, <1>7, <1>8, <1>9 DEF Structure

\* Reading the base for a load keeps Structure.
LEMMA LoadContextStructure ==
  ASSUME Structure, LoadContext, astray' \in BOOLEAN
  PROVE  Structure'
<1>1. TypeOK /\ Phases /\ Readers /\ ConflictIsWhole /\ BaseIsKnown
  BY DEF Structure
<1>2. load' \in Loads /\ LoadData'
  BY <1>1, NoneAssumption DEF TypeOK, Phases, LoadData, Loads, MaybeContent,
     LoadContext, Caches
<1>3. UNCHANGED <<server, cache, fresh, view, stage, sync, recovery, edited, budget>>
  BY DEF LoadContext, history
<1>4. TypeOK'
  BY <1>1, <1>2, <1>3 DEF TypeOK, Budgets
<1>5. Exclusive'
  BY <1>1, <1>3 DEF Phases, Exclusive, LoadContext
<1>6. Phases'
  BY <1>1, <1>2, <1>3, <1>5 DEF Phases, StageData, SyncData, LoadData,
     RecoveryData
<1>7. Readers'
  BY <1>1, <1>3 DEF Readers, LoadContext
<1>8. ConflictIsWhole' /\ BaseIsKnown'
  BY <1>1, <1>3 DEF ConflictIsWhole, BaseIsKnown
<1> QED
  BY <1>4, <1>6, <1>7, <1>8 DEF Structure

\* A load that another write overtook keeps Structure.
LEMMA LoadRetryStructure ==
  ASSUME Structure, LoadRetry, astray' \in BOOLEAN
  PROVE  Structure'
<1>1. TypeOK /\ Phases /\ Readers /\ ConflictIsWhole /\ BaseIsKnown
  BY DEF Structure
<1>2. load' \in Loads /\ LoadData'
  <2>1. CASE LoadThrows
    <3>1. load' = IdleLoad
      BY <2>1 DEF LoadThrows
    <3> QED
      BY <3>1, IdleLoadType DEF IdleLoad, LoadData
  <2>2. CASE ~LoadThrows
    <3>1. load' = [load EXCEPT !.pc = "reload", !.try = load.try + 1,
                               !.seen = None, !.base = None]
      BY <2>2 DEF LoadRetry
    <3>2. /\ load \in Loads /\ load.remote \in Content
          /\ load.try + 1 \in 0..MaxTries - 1
      BY <1>1, <2>2 DEF TypeOK, Phases, LoadData, Loads, LoadRetry, MaxTries
    <3> QED
      BY <3>1, <3>2 DEF Loads, LoadData, MaybeContent
  <2> QED
    BY <2>1, <2>2
<1>3. fresh' \subseteq Holder
  BY <1>1 DEF TypeOK, Holder, LoadRetry, LoadThrows, RestoreQueue
<1>4. UNCHANGED <<server, cache, view, stage, sync, recovery, edited, budget>>
  BY DEF LoadRetry, history
<1>5. TypeOK'
  BY <1>1, <1>2, <1>3, <1>4 DEF TypeOK, Budgets
<1>6. Exclusive'
  BY <1>1, <1>4 DEF Phases, Exclusive, LoadRetry
<1>7. Phases'
  BY <1>1, <1>2, <1>3, <1>4, <1>6 DEF Phases, StageData, SyncData, LoadData,
     RecoveryData
<1>8. Readers'
  BY <1>1, <1>4 DEF Readers, LoadRetry, LoadThrows, RestoreQueue
<1>9. ConflictIsWhole' /\ BaseIsKnown'
  BY <1>1, <1>4 DEF ConflictIsWhole, BaseIsKnown
<1> QED
  BY <1>5, <1>7, <1>8, <1>9 DEF Structure

\* A load that returns keeps Structure.
LEMMA LoadReturnStructure ==
  ASSUME Structure, LoadReturn, astray' \in BOOLEAN
  PROVE  Structure'
<1>1. TypeOK /\ Phases /\ Readers /\ ConflictIsWhole /\ BaseIsKnown
  BY DEF Structure
<1>2. load' \in Loads /\ LoadData'
  <2>1. \/ load' = IdleLoad
        \/ load' = [IdleLoad EXCEPT !.pc = "fetch"]
        \/ load' = [IdleLoad EXCEPT !.pc = "await", !.final = TRUE]
    BY DEF LoadReturn, LoadThrows
  <2>2. load' \in Loads
    BY <2>1, IdleLoadType DEF Loads
  <2>3. LoadData'
    BY <2>1, IdleLoadType DEF IdleLoad, Loads, LoadData
  <2> QED
    BY <2>2, <2>3
<1>3. view' \in Views
  <2>1. load.result \in Snapshots
    BY <1>1 DEF Phases, LoadData, LoadReturn
  <2>2. load.result.content \in Content /\ load.result.conflicted \in BOOLEAN
    BY <2>1 DEF Snapshots
  <2>3. Shown(load.result) \in Views
    BY <2>2 DEF Shown, Views, MaybeContent
  <2> QED
    BY <1>1, <2>3 DEF LoadReturn, TypeOK
<1>4. fresh' \subseteq Holder
  BY <1>1 DEF TypeOK, Holder, LoadReturn, LoadThrows, RestoreQueue, Capture
<1>5. UNCHANGED <<server, cache, stage, sync, recovery, edited, budget>>
  BY DEF LoadReturn, history
<1>6. TypeOK'
  BY <1>1, <1>2, <1>3, <1>4, <1>5 DEF TypeOK, Budgets
<1>7. Exclusive'
  BY <1>1, <1>5 DEF Phases, Exclusive, LoadReturn
<1>8. Phases'
  BY <1>1, <1>2, <1>3, <1>4, <1>5, <1>7 DEF Phases, StageData, SyncData,
     LoadData, RecoveryData
<1>9. Readers'
  <2>1. load'.pc \in {"idle", "fetch", "await"}
    BY IdleLoadType DEF LoadReturn, LoadThrows, IdleLoad, Loads
  <2>2. fresh' \subseteq fresh \cup {"view", "authority", "observed"}
    BY DEF LoadReturn, LoadThrows, RestoreQueue, Capture
  <2> QED
    BY <1>1, <1>5, <2>1, <2>2, ReadersKept
<1>10. ConflictIsWhole' /\ BaseIsKnown'
  BY <1>1, <1>5 DEF ConflictIsWhole, BaseIsKnown
<1> QED
  BY <1>6, <1>8, <1>9, <1>10 DEF Structure

\* Starting a recovery keeps Structure.
LEMMA RecoveryStartStructure ==
  ASSUME Structure, NEW kind \in {"proof", "fetch"}, RecoveryStart(kind),
         astray' \in BOOLEAN
  PROVE  Structure'
<1>1. TypeOK /\ Phases /\ Readers /\ ConflictIsWhole /\ BaseIsKnown
  BY DEF Structure
<1>2. load' \in Loads /\ LoadData'
  BY <1>1, NoneAssumption DEF TypeOK, Phases, LoadData, Loads, RecoveryStart
<1>3. recovery' \in Recoveries /\ RecoveryData'
  BY <1>1 DEF RecoveryData, Recoveries, MaybeContent, RecoveryStart,
     IdleRecovery
<1>4. UNCHANGED <<server, cache, fresh, view, stage, sync, edited, budget>>
  BY DEF RecoveryStart, history
<1>5. TypeOK'
  BY <1>1, <1>2, <1>3, <1>4 DEF TypeOK, Budgets
<1>6. Exclusive'
  BY <1>1, <1>4 DEF Exclusive, RecoveryStart
<1>7. Phases'
  BY <1>1, <1>2, <1>3, <1>4, <1>6 DEF Phases, StageData, SyncData, LoadData,
     RecoveryData
<1>8. Readers'
  BY <1>1, <1>4 DEF Readers, RecoveryStart
<1>9. ConflictIsWhole' /\ BaseIsKnown'
  BY <1>1, <1>4 DEF ConflictIsWhole, BaseIsKnown
<1> QED
  BY <1>5, <1>7, <1>8, <1>9 DEF Structure

\* A recovery that has waited keeps Structure.
LEMMA RecoveryWaitedStructure ==
  ASSUME Structure, RecoveryWaited, astray' \in BOOLEAN
  PROVE  Structure'
<1>1. TypeOK /\ Phases /\ Readers /\ ConflictIsWhole /\ BaseIsKnown
  BY DEF Structure
<1>2. recovery' \in Recoveries /\ RecoveryData'
  BY <1>1 DEF TypeOK, Phases, RecoveryData, Recoveries, MaybeContent,
     RecoveryWaited, RecoveryEnds, IdleRecovery
<1>3. fresh' \subseteq Holder
  BY <1>1 DEF TypeOK, Holder, RecoveryWaited, Capture
<1>4. UNCHANGED <<server, cache, view, stage, sync, load, edited, budget>>
  BY DEF RecoveryWaited, history
<1>5. TypeOK'
  BY <1>1, <1>2, <1>3, <1>4 DEF TypeOK, Budgets
<1>6. Exclusive'
  BY <1>1, <1>4 DEF Exclusive, RecoveryWaited, RecoveryEnds, IdleRecovery
<1>7. Phases'
  BY <1>1, <1>2, <1>3, <1>4, <1>6 DEF Phases, StageData, SyncData, LoadData,
     RecoveryData
<1>8. Readers'
  BY <1>1, <1>4 DEF Readers, RecoveryWaited, Capture
<1>9. ConflictIsWhole' /\ BaseIsKnown'
  BY <1>1, <1>4 DEF ConflictIsWhole, BaseIsKnown
<1> QED
  BY <1>5, <1>7, <1>8, <1>9 DEF Structure

\* Reading the conflict to resolve keeps Structure.
LEMMA ResolveProofStructure ==
  ASSUME Structure, ResolveProof, astray' \in BOOLEAN
  PROVE  Structure'
<1>1. TypeOK /\ Phases /\ Readers /\ ConflictIsWhole /\ BaseIsKnown
  BY DEF Structure
<1>2. recovery' \in Recoveries /\ RecoveryData'
  <2>1. CASE cache.conflict = None
    BY <1>1, <2>1 DEF ResolveProof, RecoveryEnds, IdleRecovery, Recoveries,
       RecoveryData, MaybeContent
  <2>2. CASE cache.conflict # None
    <3>1. recovery' = [recovery EXCEPT !.pc = "resolve",
                                       !.remote = cache.conflict.remote]
      BY <2>2 DEF ResolveProof
    <3>2. cache.conflict.remote \in Content /\ recovery \in Recoveries
      BY <1>1, <2>2, CacheFields DEF TypeOK
    <3> QED
      BY <3>1, <3>2 DEF Recoveries, RecoveryData, MaybeContent
  <2> QED
    BY <2>1, <2>2
<1>3. fresh' \subseteq Holder
  BY <1>1 DEF TypeOK, Holder, ResolveProof, RestoreQueue, Capture
<1>4. UNCHANGED <<server, cache, view, stage, sync, load, edited, budget>>
  BY DEF ResolveProof, history
<1>5. TypeOK'
  BY <1>1, <1>2, <1>3, <1>4 DEF TypeOK, Budgets
<1>6. Exclusive'
  BY <1>1, <1>4 DEF Phases, Exclusive, ResolveProof
<1>7. Phases'
  BY <1>1, <1>2, <1>3, <1>4, <1>6 DEF Phases, StageData, SyncData, LoadData,
     RecoveryData
<1>8. Readers'
  BY <1>1, <1>4 DEF Readers, ResolveProof, RestoreQueue, Capture
<1>9. ConflictIsWhole' /\ BaseIsKnown'
  BY <1>1, <1>4 DEF ConflictIsWhole, BaseIsKnown
<1> QED
  BY <1>5, <1>7, <1>8, <1>9 DEF Structure

\* A resolution that returns keeps Structure.
LEMMA ResolveReturnStructure ==
  ASSUME Structure, ResolveReturn, astray' \in BOOLEAN
  PROVE  Structure'
<1>1. TypeOK /\ Phases /\ Readers /\ ConflictIsWhole /\ BaseIsKnown
  BY DEF Structure
<1>2. recovery' \in Recoveries /\ RecoveryData'
  BY <1>1 DEF RecoveryData, Recoveries, MaybeContent, ResolveReturn,
     RecoveryEnds, IdleRecovery
<1>3. view' \in Views
  BY <1>1, NoneAssumption DEF TypeOK, Views, MaybeContent, ResolveReturn,
     Shown, Snapshot, HasConflictRevision, Caches
<1>4. fresh' \subseteq Holder
  BY <1>1 DEF TypeOK, Holder, ResolveReturn
<1>5. UNCHANGED <<server, cache, stage, sync, load, edited, budget>>
  BY DEF ResolveReturn, history
<1>6. TypeOK'
  BY <1>1, <1>2, <1>3, <1>4, <1>5 DEF TypeOK, Budgets
<1>7. Exclusive'
  BY <1>1, <1>5 DEF Phases, Exclusive, ResolveReturn
<1>8. Phases'
  BY <1>1, <1>2, <1>3, <1>4, <1>5, <1>7 DEF Phases, StageData, SyncData,
     LoadData, RecoveryData
<1>9. Readers'
  BY <1>1, <1>5 DEF Readers, ResolveReturn
<1>10. ConflictIsWhole' /\ BaseIsKnown'
  BY <1>1, <1>5 DEF ConflictIsWhole, BaseIsKnown
<1> QED
  BY <1>6, <1>8, <1>9, <1>10 DEF Structure

\* A discard that has the server's content keeps Structure.
LEMMA DiscardFetchedStructure ==
  ASSUME Structure, DiscardFetched, astray' \in BOOLEAN
  PROVE  Structure'
<1>1. TypeOK /\ Phases /\ Readers /\ ConflictIsWhole /\ BaseIsKnown
  BY DEF Structure
<1>2. recovery' \in Recoveries /\ RecoveryData'
  BY <1>1 DEF TypeOK, RecoveryData, Recoveries, MaybeContent, DiscardFetched
<1>3. UNCHANGED <<server, cache, fresh, view, stage, sync, load, edited, budget>>
  BY DEF DiscardFetched, history
<1>4. TypeOK'
  BY <1>1, <1>2, <1>3 DEF TypeOK, Budgets
<1>5. Exclusive'
  BY <1>1, <1>3 DEF Phases, Exclusive, DiscardFetched
<1>6. Phases'
  BY <1>1, <1>2, <1>3, <1>5 DEF Phases, StageData, SyncData, LoadData,
     RecoveryData
<1>7. Readers'
  BY <1>1, <1>3 DEF Readers, DiscardFetched
<1>8. ConflictIsWhole' /\ BaseIsKnown'
  BY <1>1, <1>3 DEF ConflictIsWhole, BaseIsKnown
<1> QED
  BY <1>4, <1>6, <1>7, <1>8 DEF Structure

\* A discard that fails keeps Structure.
LEMMA DiscardFailsStructure ==
  ASSUME Structure, DiscardFails, astray' \in BOOLEAN
  PROVE  Structure'
<1>1. TypeOK /\ Phases /\ Readers /\ ConflictIsWhole /\ BaseIsKnown
  BY DEF Structure
<1>2. recovery' \in Recoveries /\ RecoveryData'
  BY <1>1 DEF RecoveryData, Recoveries, MaybeContent, DiscardFails,
     RecoveryEnds, IdleRecovery
<1>3. fresh' \subseteq Holder
  BY <1>1 DEF TypeOK, Holder, DiscardFails, RestoreQueue
<1>4. UNCHANGED <<server, cache, view, stage, sync, load, edited, budget>>
  BY DEF DiscardFails, history
<1>5. TypeOK'
  BY <1>1, <1>2, <1>3, <1>4 DEF TypeOK, Budgets
<1>6. Exclusive'
  BY <1>1, <1>4 DEF Phases, Exclusive, DiscardFails
<1>7. Phases'
  BY <1>1, <1>2, <1>3, <1>4, <1>6 DEF Phases, StageData, SyncData, LoadData,
     RecoveryData
<1>8. Readers'
  BY <1>1, <1>4 DEF Readers, DiscardFails, RestoreQueue
<1>9. ConflictIsWhole' /\ BaseIsKnown'
  BY <1>1, <1>4 DEF ConflictIsWhole, BaseIsKnown
<1> QED
  BY <1>5, <1>7, <1>8, <1>9 DEF Structure

\* A write of another client keeps Structure.
LEMMA OtherWritesStructure ==
  ASSUME Structure, NEW u \in Editable, NEW v \in Slot, OtherWrites(u, v),
         astray' \in BOOLEAN
  PROVE  Structure'
<1>1. TypeOK /\ Phases /\ Readers /\ ConflictIsWhole /\ BaseIsKnown
  BY DEF Structure
<1>2. server' \in Content
  BY <1>1 DEF TypeOK, Phases, Content, OtherWrites
<1>3. budget' \in Budgets
  BY <1>1, Bounds DEF TypeOK, Phases, Budgets, OtherWrites, Content
<1>4. UNCHANGED <<cache, fresh, view, stage, sync, load, recovery, edited>>
  BY DEF OtherWrites
<1>5. TypeOK'
  BY <1>1, <1>2, <1>3, <1>4 DEF TypeOK, Budgets
<1>6. Exclusive'
  BY <1>1, <1>4 DEF Phases, Exclusive, OtherWrites
<1>7. Phases'
  BY <1>1, <1>2, <1>3, <1>4, <1>6 DEF Phases, StageData, SyncData, LoadData,
     RecoveryData
<1>8. Readers'
  BY <1>1, <1>4 DEF Readers, OtherWrites
<1>9. ConflictIsWhole' /\ BaseIsKnown'
  BY <1>1, <1>4 DEF ConflictIsWhole, BaseIsKnown
<1> QED
  BY <1>5, <1>7, <1>8, <1>9 DEF Structure

\* A published write leaves no reader of the old revision.
LEMMA PublishType ==
  ASSUME TypeOK, NEW c \in Caches, NEW mayShow \in BOOLEAN,
         WriteAndPublish(c, mayShow)
  PROVE  /\ cache' = c /\ view' \in Views
         /\ fresh' \subseteq {"view", "authority", "observed"}
<1>1. view \in Views /\ Snapshot(c) \in Snapshots
  BY SnapshotType DEF TypeOK
<1>2. cache' = c /\ fresh' \subseteq {"view", "authority", "observed"}
  BY DEF WriteAndPublish
<1>3. CASE "authority" \in fresh /\ view.held = None
  BY <1>1, <1>2, <1>3, AcceptsType DEF WriteAndPublish
<1>4. CASE "authority" \in fresh /\ view.held # None
  <2>1. view' = [view EXCEPT !.held = Snapshot(c)]
    BY <1>4 DEF WriteAndPublish
  <2> QED
    BY <1>1, <1>2, <2>1 DEF Views
<1>5. CASE "authority" \notin fresh
  BY <1>1, <1>2, <1>5 DEF WriteAndPublish
<1> QED
  BY <1>3, <1>4, <1>5

\* A held write leaves no reader of the old revision.
LEMMA HoldType ==
  ASSUME TypeOK, NEW c \in Caches, WriteAndHold(c)
  PROVE  /\ cache' = c /\ view' \in Views
         /\ fresh' \subseteq {"view", "authority", "observed"}
<1>1. view \in Views /\ Snapshot(c) \in Snapshots
  BY SnapshotType DEF TypeOK
<1>2. view' = view \/ view' = [view EXCEPT !.held = Snapshot(c)]
  BY DEF WriteAndHold
<1>3. view' \in Views
  BY <1>1, <1>2 DEF Views
<1> QED
  BY <1>3 DEF WriteAndHold

\* A write that ends a synchronisation leaves no reader of the old revision.
LEMMA ReturnType ==
  ASSUME TypeOK, NEW c \in Caches, WriteAndReturn(c)
  PROVE  /\ cache' = c /\ view' \in Views /\ sync' = IdleSync
         /\ fresh' \subseteq {"view", "authority", "observed"}
<1>1. view \in Views /\ Snapshot(c) \in Snapshots
      /\ view.held \in Snapshots \cup {None}
  BY SnapshotType DEF TypeOK, Views
<1>2. /\ cache' = c /\ sync' = IdleSync
      /\ fresh' \subseteq {"view", "authority", "observed"}
  BY DEF WriteAndReturn, SyncEnds
<1>3. CASE "authority" \in fresh
  <2>1. Accepts(Snapshot(c), MayShow)
    BY <1>3 DEF WriteAndReturn
  <2> QED
    BY <1>1, <1>2, <2>1, AcceptsType
<1>4. CASE "authority" \notin fresh /\ view.held = None
  BY <1>1, <1>2, <1>4 DEF WriteAndReturn
<1>5. CASE "authority" \notin fresh /\ view.held # None
  <2>1. Accepts(view.held, MayShow)
    BY <1>5 DEF WriteAndReturn
  <2> QED
    BY <1>1, <1>2, <1>5, <2>1, AcceptsType
<1> QED
  BY <1>3, <1>4, <1>5

\* A synchronisation that ended has read nothing.
LEMMA IdleSyncData ==
  ASSUME sync' = IdleSync
  PROVE  sync' \in Syncs /\ SyncData' /\ sync'.pc = "idle"
BY IdleSyncType DEF IdleSync, SyncData, Quiet, Sending

\* After a write only the writer still has a reading.
LEMMA ReadersAfterWrite ==
  ASSUME fresh' \subseteq {"view", "authority", "observed", "recovery", "load"},
         "load" \in fresh' => load'.pc = "return"
  PROVE  Readers'
BY DEF Readers

\* A step that writes a coherent entry and keeps what the calls know keeps
\* Structure.
LEMMA WrittenStructure ==
  ASSUME Structure,
         cache' \in Caches, Coherent(cache'), view' \in Views,
         fresh' \subseteq Holder, Readers',
         stage' \in Stages /\ StageData', sync' \in Syncs /\ SyncData',
         load' \in Loads /\ LoadData',
         recovery' \in Recoveries /\ RecoveryData', Exclusive',
         UNCHANGED <<server, budget>>, edited' \subseteq Unit,
         astray' \in BOOLEAN
  PROVE  Structure'
<1>1. TypeOK'
  BY DEF Structure, TypeOK
<1>2. Phases'
  BY DEF Phases
<1>3. ConflictIsWhole' /\ BaseIsKnown'
  BY CoherentCache
<1> QED
  BY <1>1, <1>2, <1>3 DEF Structure

\* The write of a stage keeps Structure.
LEMMA StageWriteStructure ==
  ASSUME Structure, StageWrite, astray' \in BOOLEAN
  PROVE  Structure'
<1>1. /\ TypeOK /\ Phases /\ stage.pc = "write" /\ "stage" \in fresh
      /\ stage' = IdleStage /\ WriteAndPublish(StageResult, TRUE)
      /\ UNCHANGED <<server, sync, load, recovery, edited, budget>>
  BY DEF Structure, StageWrite, history
<1>2. StageResult \in Caches /\ Coherent(StageResult)
  BY <1>1, StageResultFields
<1>3. /\ cache' = StageResult /\ view' \in Views
      /\ fresh' \subseteq {"view", "authority", "observed"}
  BY <1>1, <1>2, PublishType
<1>4. stage' \in Stages /\ StageData' /\ stage'.pc = "idle"
  BY <1>1, IdleStageType DEF IdleStage, StageData
<1>5. Exclusive'
  BY <1>1, <1>4 DEF Phases, Exclusive
<1>6. Readers'
  BY <1>3, ReadersAfterWrite
<1>7. /\ sync' \in Syncs /\ SyncData' /\ load' \in Loads /\ LoadData'
      /\ recovery' \in Recoveries /\ RecoveryData' /\ edited' \subseteq Unit
  BY <1>1 DEF TypeOK, Phases, SyncData, LoadData, RecoveryData
<1> QED
  BY <1>1, <1>2, <1>3, <1>4, <1>5, <1>6, <1>7, WrittenStructure DEF Holder

\* WrittenStructure for the steps of a synchronisation.
LEMMA SyncWroteStructure ==
  ASSUME Structure,
         cache' \in Caches, Coherent(cache'), view' \in Views,
         fresh' \subseteq Holder, Readers',
         sync' \in Syncs, SyncData', sync.pc # "idle",
         UNCHANGED <<server, stage, load, recovery, edited, budget>>,
         astray' \in BOOLEAN
  PROVE  Structure'
<1>1. TypeOK /\ Phases
  BY DEF Structure
<1>2. Exclusive'
  BY <1>1 DEF Phases, Exclusive
<1>3. /\ stage' \in Stages /\ StageData' /\ load' \in Loads /\ LoadData'
      /\ recovery' \in Recoveries /\ RecoveryData' /\ edited' \subseteq Unit
  BY <1>1 DEF TypeOK, Phases, StageData, LoadData, RecoveryData
<1> QED
  BY <1>2, <1>3, WrittenStructure

\* An attempt that did not write keeps Structure.
LEMMA NextAttemptStructure ==
  ASSUME Structure, NextAttempt, sync.pc # "idle",
         UNCHANGED <<server, cache, stage, load, recovery, edited, budget>>,
         astray' \in BOOLEAN
  PROVE  Structure'
<1>1. TypeOK /\ Readers
  BY DEF Structure
<1>2. /\ view' \in Views /\ fresh' \subseteq fresh
      /\ sync' \in Syncs /\ sync'.pc \in Quiet
  BY <1>1, NextAttemptType
<1>3. SyncData'
  BY <1>2 DEF SyncData, Quiet, Sending
<1>4. Readers'
  BY <1>1, <1>2, ReadersKept
<1>5. cache' \in Caches /\ Coherent(cache')
  BY CoherentCache DEF Structure, TypeOK
<1> QED
  BY <1>1, <1>2, <1>3, <1>4, <1>5, SyncWroteStructure DEF TypeOK

\* SyncRecord writes a coherent conflict about the submitted content.
LEMMA RecordedFields ==
  ASSUME Structure, sync.pc = "record", "sync" \in fresh
  PROVE  LET d == WithConflict(cache, sync.base, cache.content, sync.remote,
                    ConflictUnits(sync.base, sync.local, sync.remote)) IN
         /\ d \in Caches /\ Coherent(d)
         /\ d.content = cache.content /\ d.pendingBase = cache.pendingBase
         /\ d.base = sync.base /\ d.remote = sync.remote /\ d.conflict # None
         /\ cache.content = sync.local
<1> DEFINE units == ConflictUnits(sync.base, sync.local, sync.remote)
           d == WithConflict(cache, sync.base, cache.content, sync.remote, units)
<1>1. /\ cache \in Caches /\ cache.content = sync.local
      /\ sync.base \in Content /\ sync.local \in Content
      /\ sync.remote \in Content /\ ~Merges(sync.base, sync.local, sync.remote)
  BY DEF Structure, TypeOK, Readers, Phases, SyncData, Sending, Quiet
<1>2. units \in SUBSET Unit
  BY <1>1, ConflictUnitsType
<1>3. units # {}
  BY <1>1 DEF Merges
<1>4. units \in (SUBSET Unit) \ {{}}
  BY <1>2, <1>3
<1> HIDE DEF d
<1>5. /\ d \in Caches
      /\ d.content = cache.content /\ d.pendingBase = cache.pendingBase
      /\ d.base = sync.base /\ d.remote = sync.remote
      /\ d.conflict # None
      /\ d.conflict = [base |-> sync.base, local |-> cache.content,
                       remote |-> sync.remote, unitIds |-> units]
  <2> HIDE DEF units
  <2>1. cache.content \in Content
    BY <1>1
  <2> QED
    BY <1>1, <1>4, <2>1, WithConflictFields DEF d
<1>6. Coherent(d)
  BY <1>1, <1>5 DEF Coherent
<1> QED
  BY <1>1, <1>5, <1>6 DEF d

\* Recording a conflict keeps Structure.
LEMMA SyncRecordStructure ==
  ASSUME Structure, SyncRecord, astray' \in BOOLEAN
  PROVE  Structure'
<1>1. /\ TypeOK /\ sync.pc = "record"
      /\ UNCHANGED <<server, stage, load, recovery, edited, budget>>
  BY DEF Structure, SyncRecord, history
<1>2. CASE "sync" \notin fresh
  BY <1>1, <1>2, NextAttemptStructure DEF SyncRecord
<1>3. CASE "sync" \in fresh
  <2> DEFINE d == WithConflict(cache, sync.base, cache.content, sync.remote,
                    ConflictUnits(sync.base, sync.local, sync.remote))
  <2>1. d \in Caches /\ Coherent(d)
    BY <1>1, <1>3, RecordedFields
  <2>2. WriteAndReturn(d)
    BY <1>3 DEF SyncRecord
  <2> HIDE DEF d
  <2>3. /\ cache' = d /\ view' \in Views /\ sync' = IdleSync
        /\ fresh' \subseteq {"view", "authority", "observed"}
    BY <1>1, <2>1, <2>2, ReturnType
  <2>4. Readers'
    BY <2>3, ReadersAfterWrite
  <2> QED
    BY <1>1, <2>1, <2>3, <2>4, IdleSyncData, SyncWroteStructure DEF Holder
<1> QED
  BY <1>2, <1>3

\* Reconciling after a refusal keeps Structure.
LEMMA SyncReconcileStructure ==
  ASSUME Structure, SyncReconcile, astray' \in BOOLEAN
  PROVE  Structure'
<1> DEFINE c == Reconciled(cache, cache.base, sync.local, sync.remote)
<1>1. /\ TypeOK /\ sync.pc = "reconcile"
      /\ UNCHANGED <<server, stage, load, recovery, edited, budget>>
  BY DEF Structure, SyncReconcile, history
<1>2. CASE "sync" \notin fresh
  BY <1>1, <1>2, NextAttemptStructure DEF SyncReconcile
<1>3. CASE "sync" \in fresh
  <2>1. /\ cache \in Caches /\ cache.base \in Content
        /\ cache.content = sync.local
        /\ sync.local \in Content /\ sync.remote \in Content
    BY <1>1, <1>3, CacheFields DEF Structure, TypeOK, Readers, Phases,
       SyncData, Sending, Quiet
  <2>2. c \in Caches /\ Coherent(c)
    BY <2>1, ReconciledFields
  <2>3. \/ WriteAndReturn(c)
        \/ Attempts /\ sync' = Attempt /\ WriteAndHold(c)
        \/ /\ SyncEnds /\ cache' = c /\ fresh' = fresh \cap {"observed"}
           /\ view' = [view EXCEPT !.held = None]
    BY <1>3 DEF SyncReconcile
  <2> HIDE DEF c
  <2>4. /\ cache' = c /\ view' \in Views
        /\ fresh' \subseteq {"view", "authority", "observed"}
        /\ sync' \in Syncs /\ SyncData'
    <3>1. CASE WriteAndReturn(c)
      BY <1>1, <2>2, <3>1, ReturnType, IdleSyncData
    <3>2. CASE Attempts /\ sync' = Attempt /\ WriteAndHold(c)
      <4>1. sync' \in Syncs /\ sync'.pc = "load"
        BY <1>1, <3>2, AttemptType
      <4>2. SyncData'
        BY <4>1 DEF SyncData, Quiet, Sending
      <4> QED
        BY <1>1, <2>2, <3>2, <4>1, <4>2, HoldType
    <3>3. CASE /\ SyncEnds /\ cache' = c /\ fresh' = fresh \cap {"observed"}
               /\ view' = [view EXCEPT !.held = None]
      <4>1. view' \in Views
        BY <1>1, <3>3 DEF TypeOK, Views
      <4> QED
        BY <3>3, <4>1, IdleSyncData DEF SyncEnds
    <3> QED
      BY <2>3, <3>1, <3>2, <3>3
  <2>5. Readers'
    BY <2>4, ReadersAfterWrite
  <2> QED
    BY <1>1, <2>2, <2>4, <2>5, SyncWroteStructure DEF Holder
<1> QED
  BY <1>2, <1>3

\* What an answer makes of a cache that still is the submitted one, and of a
\* cache the user went on editing.
LEMMA InstalledFields ==
  ASSUME Structure, sync.pc = "write", "install" \in fresh
  PROVE  /\ Installed \in Caches /\ Coherent(Installed)
         /\ Installed.remote = sync.remote
         /\ cache.content = sync.seen
         /\ sync.same => sync.seen = sync.local
         /\ sync.same => /\ Installed.content = sync.remote
                         /\ Installed.base = sync.remote
                         /\ Installed.conflict = None
                         /\ Installed.pendingBase = None
         /\ ~sync.same /\ Merges(sync.local, sync.seen, sync.remote) =>
              /\ Installed.conflict = None /\ Installed.base = sync.remote
              /\ ~HasConflictRevision(Installed)
              /\ Installed.content = Edited(sync.local, sync.seen, sync.remote)
         /\ ~sync.same /\ ~Merges(sync.local, sync.seen, sync.remote) =>
              /\ Installed.conflict # None /\ Installed.base = sync.local
              /\ Installed.content = sync.seen
              /\ Installed.pendingBase = cache.pendingBase
<1>1. /\ cache \in Caches /\ cache.content = sync.seen
      /\ sync.same => sync.seen = sync.local
      /\ sync.local \in Content /\ sync.seen \in Content
      /\ sync.remote \in Content
  BY DEF Structure, TypeOK, Readers, Phases, SyncData, Sending, Quiet
<1>2. CASE sync.same
  <2> DEFINE c == Rebased(sync.remote, sync.remote)
  <2>1. Installed = c
    BY <1>2 DEF Installed, Replaced
  <2>2. /\ c \in Caches /\ Coherent(c) /\ c.content = sync.remote
        /\ c.remote = sync.remote /\ c.base = sync.remote
        /\ c.conflict = None /\ c.pendingBase = None
    BY <1>1, RebasedFields, RebasedIsCoherent
  <2> HIDE DEF c
  <2> QED
    BY <1>1, <1>2, <2>1, <2>2
<1>3. CASE ~sync.same
  <2> DEFINE d == Reconciled(cache, sync.local, sync.seen, sync.remote)
  <2>1. Installed = d
    BY <1>3 DEF Installed
  <2>2. /\ d \in Caches /\ Coherent(d) /\ d.remote = sync.remote
        /\ Merges(sync.local, sync.seen, sync.remote) =>
             /\ d.conflict = None /\ d.base = sync.remote
             /\ ~HasConflictRevision(d)
             /\ d.content = Edited(sync.local, sync.seen, sync.remote)
        /\ ~Merges(sync.local, sync.seen, sync.remote) =>
             /\ d.conflict # None /\ d.base = sync.local
             /\ d.content = sync.seen
             /\ d.pendingBase = cache.pendingBase
    BY <1>1, ReconciledFields
  <2> HIDE DEF d
  <2> QED
    BY <1>1, <1>3, <2>1, <2>2
<1> QED
  BY <1>2, <1>3

\* Installing an answer keeps Structure.
LEMMA InstallWriteStructure ==
  ASSUME Structure, InstallWrite, astray' \in BOOLEAN
  PROVE  Structure'
<1>1. /\ TypeOK /\ Readers /\ sync.pc = "write" /\ "install" \in fresh
      /\ UNCHANGED <<server, stage, load, recovery, edited, budget>>
  BY DEF Structure, InstallWrite, history
<1>2. /\ Installed \in Caches /\ Coherent(Installed)
      /\ cache.content = sync.seen
      /\ sync.same => sync.seen = sync.local
      /\ sync.same => /\ Installed.content = sync.remote
                      /\ Installed.conflict = None
                      /\ Installed.pendingBase = None
  BY <1>1, InstalledFields
<1>3. CASE sync.same /\ sync.remote = sync.local
  <2>1. cache' = Installed /\ sync' = IdleSync /\ HandOver
    BY <1>3 DEF InstallWrite, Returns, SyncEnds
  <2>2. view' \in Views /\ fresh' \subseteq fresh \cup {"view"}
    BY <1>1, <2>1, HandOverType
  <2>3. /\ cache'.content = cache.content /\ cache'.conflict = None
        /\ cache'.pendingBase = None
    BY <1>2, <1>3, <2>1
  <2>4. Readers'
    <3>1. sync'.pc = "idle"
      BY <2>1, IdleSyncData
    <3>2. \A x \in {"load", "stage"} : x \in fresh' => x \in fresh
      BY <2>2
    <3> QED
      BY <1>1, <2>3, <3>1, <3>2 DEF Readers, Quiet
  <2> QED
    BY <1>1, <1>2, <2>1, <2>2, <2>4, IdleSyncData, SyncWroteStructure DEF
       TypeOK, Holder
<1>4. CASE ~(sync.same /\ sync.remote = sync.local)
  <2>1. WriteAndReturn(Installed)
    BY <1>4 DEF InstallWrite
  <2>2. /\ cache' = Installed /\ view' \in Views /\ sync' = IdleSync
        /\ fresh' \subseteq {"view", "authority", "observed"}
    BY <1>1, <1>2, <2>1, ReturnType
  <2>3. Readers'
    BY <2>2, ReadersAfterWrite
  <2> QED
    BY <1>1, <1>2, <2>2, <2>3, IdleSyncData, SyncWroteStructure DEF Holder
<1> QED
  BY <1>3, <1>4

\* What a load writes.
Loaded == IF load.pc = "replace" THEN Replaced(load.remote)
          ELSE Reconciled(cache, load.base, load.seen, load.remote)

\* What a load returns with.
LEMMA LoadReturnsType ==
  ASSUME load \in Loads, NEW c \in Caches, load' = LoadReturns(c)
  PROVE  /\ load' \in Loads /\ LoadData' /\ load'.pc = "return"
         /\ load'.result = Snapshot(c) /\ load'.final = load.final
         /\ load'.dropped = load.dropped
<1>1. Snapshot(c) \in Snapshots
  BY SnapshotType
<1>2. load' = [load EXCEPT !.pc = "return", !.result = Snapshot(c),
                           !.seen = None, !.base = None, !.remote = None]
  BY DEF LoadReturns
<1>3. load' \in Loads
  BY <1>1, <1>2 DEF Loads, MaybeContent
<1>4. /\ load'.pc = "return" /\ load'.result = Snapshot(c)
      /\ load'.final = load.final /\ load'.dropped = load.dropped
  BY <1>2 DEF Loads
<1> QED
  BY <1>1, <1>3, <1>4 DEF LoadData

\* A load replaces content without pending edits, and reconciles the others.
LEMMA LoadedFields ==
  ASSUME Structure, load.pc \in {"rebase", "replace"}, "load" \in fresh
  PROVE  /\ Loaded \in Caches /\ Coherent(Loaded)
         /\ load.pc = "replace" =>
              /\ cache.pendingBase = None
              /\ Loaded.content = load.remote /\ Loaded.base = load.remote
              /\ Loaded.conflict = None /\ Loaded.pendingBase = None
         /\ load.pc = "rebase" => cache.content = load.seen
         /\ load.pc = "rebase" /\ Merges(load.base, load.seen, load.remote) =>
              /\ Loaded.conflict = None /\ Loaded.base = load.remote
              /\ ~HasConflictRevision(Loaded)
              /\ Loaded.content = Edited(load.base, load.seen, load.remote)
         /\ load.pc = "rebase" /\ ~Merges(load.base, load.seen, load.remote) =>
              /\ Loaded.conflict # None /\ Loaded.base = load.base
              /\ Loaded.content = load.seen /\ Loaded.remote = load.remote
              /\ Loaded.pendingBase = cache.pendingBase
<1>1. /\ cache \in Caches /\ load.remote \in Content
      /\ load.pc = "rebase" => /\ load.seen \in Content /\ load.base \in Content
                               /\ cache.content = load.seen
      /\ load.pc = "replace" => cache.pendingBase = None
  BY DEF Structure, TypeOK, Readers, Phases, LoadData
<1>2. CASE load.pc = "replace"
  <2> DEFINE c == Rebased(load.remote, load.remote)
  <2>1. Loaded = c
    BY <1>2 DEF Loaded, Replaced
  <2>2. /\ c \in Caches /\ Coherent(c) /\ c.content = load.remote
        /\ c.base = load.remote /\ c.conflict = None /\ c.pendingBase = None
    BY <1>1, RebasedFields, RebasedIsCoherent
  <2> HIDE DEF c
  <2> QED
    BY <1>1, <1>2, <2>1, <2>2
<1>3. CASE load.pc = "rebase"
  <2> DEFINE d == Reconciled(cache, load.base, load.seen, load.remote)
  <2>1. Loaded = d
    BY <1>3 DEF Loaded
  <2>2. /\ d \in Caches /\ Coherent(d) /\ d.remote = load.remote
        /\ Merges(load.base, load.seen, load.remote) =>
             /\ d.conflict = None /\ d.base = load.remote
             /\ ~HasConflictRevision(d)
             /\ d.content = Edited(load.base, load.seen, load.remote)
        /\ ~Merges(load.base, load.seen, load.remote) =>
             /\ d.conflict # None /\ d.base = load.base /\ d.content = load.seen
             /\ d.pendingBase = cache.pendingBase
    BY <1>1, <1>3, ReconciledFields
  <2> HIDE DEF d
  <2> QED
    BY <1>1, <1>3, <2>1, <2>2
<1> QED
  BY <1>2, <1>3

\* The write of a load keeps Structure.
LEMMA LoadWriteStructure ==
  ASSUME Structure, LoadWrite, astray' \in BOOLEAN
  PROVE  Structure'
<1>1. /\ TypeOK /\ Phases /\ load.pc \in {"rebase", "replace"}
      /\ "load" \in fresh
      /\ cache' = Loaded /\ load' = LoadReturns(Loaded)
      /\ fresh' \subseteq {"observed", "load"}
      /\ UNCHANGED <<server, view, stage, sync, recovery, edited, budget>>
  BY DEF Structure, LoadWrite, Loaded, WriteSilently, history
<1>2. Loaded \in Caches /\ Coherent(Loaded)
  BY <1>1, LoadedFields
<1>3. load' \in Loads /\ LoadData' /\ load'.pc = "return"
  BY <1>1, <1>2, LoadReturnsType DEF TypeOK
<1>4. Readers'
  BY <1>1, <1>3, ReadersAfterWrite
<1>5. Exclusive'
  BY <1>1 DEF Phases, Exclusive
<1>6. /\ stage' \in Stages /\ StageData' /\ sync' \in Syncs /\ SyncData'
      /\ recovery' \in Recoveries /\ RecoveryData' /\ edited' \subseteq Unit
      /\ view' \in Views
  BY <1>1 DEF TypeOK, Phases, StageData, SyncData, RecoveryData
<1> QED
  BY <1>1, <1>2, <1>3, <1>4, <1>5, <1>6, WrittenStructure DEF Holder

\* What a resolution chooses.
Resolution(choice) ==
  LET k == cache.conflict
      overlap == ~Merges(k.base, cache.content, k.remote)
  IN MergedContent(k.base, cache.content, k.remote,
                   IF overlap THEN choice ELSE "none")

\* A resolution keeps Structure.
LEMMA ResolveStructure ==
  ASSUME Structure, NEW choice \in {"local", "remote"},
         Resolve(choice), astray' \in BOOLEAN
  PROVE  Structure'
<1>1. /\ TypeOK /\ Phases /\ Readers /\ recovery.pc = "resolve"
      /\ UNCHANGED <<server, view, stage, load, budget>>
  BY DEF Structure, Resolve
<1>2. /\ stage' \in Stages /\ StageData' /\ load' \in Loads /\ LoadData'
      /\ view' \in Views /\ stage'.pc = "idle"
  BY <1>1 DEF TypeOK, Phases, StageData, LoadData, Exclusive
<1>3. CASE "recovery" \in fresh /\ cache.conflict # None
           /\ cache.remote = recovery.remote
           /\ cache.conflict.remote = recovery.remote
  <2> DEFINE k == cache.conflict
             m == Resolution(choice)
             c == Rebased(m, k.remote)
  <2>1. /\ WriteSilently(c, "recovery")
        /\ edited' = edited \cup {u \in Unit : m[u] # k.remote[u]}
        /\ recovery' = [IdleRecovery EXCEPT !.pc = "sync"]
        /\ sync' = [IdleSync EXCEPT !.pc = "load"]
    BY <1>3 DEF Resolve, Resolution
  <2>2. /\ cache \in Caches /\ cache.content \in Content
        /\ k.base \in Content /\ k.remote \in Content
    BY <1>1, <1>3, CacheFields DEF TypeOK
  <2>3. m \in Content
    BY <2>2, MergedContentType DEF Resolution
  <2>4. c \in Caches /\ Coherent(c)
    BY <2>2, <2>3, RebasedFields, RebasedIsCoherent
  <2>5. cache' = c /\ fresh' \subseteq {"observed", "recovery"}
    BY <2>1 DEF WriteSilently
  <2> HIDE DEF m, c, k
  <2>6. sync' \in Syncs /\ SyncData'
    BY <2>1, IdleSyncType DEF Syncs, SyncData, Quiet, Sending
  <2>7. recovery' \in Recoveries /\ RecoveryData' /\ recovery'.pc = "sync"
    BY <2>1 DEF IdleRecovery, Recoveries, RecoveryData, MaybeContent
  <2>8. Exclusive'
    BY <1>2, <2>7 DEF Exclusive
  <2>9. Readers'
    BY <2>5, ReadersAfterWrite
  <2>10. edited' \subseteq Unit
    BY <1>1, <2>1 DEF TypeOK
  <2> QED
    BY <1>1, <1>2, <2>4, <2>5, <2>6, <2>7, <2>8, <2>9, <2>10, WrittenStructure
       DEF Holder
<1>4. CASE ~( /\ "recovery" \in fresh /\ cache.conflict # None
              /\ cache.remote = recovery.remote
              /\ cache.conflict.remote = recovery.remote)
  <2>1. /\ recovery' = IdleRecovery /\ RestoreQueue
        /\ UNCHANGED <<cache, sync, edited>>
    BY <1>4 DEF Resolve, RecoveryEnds
  <2>2. fresh' \subseteq fresh \cup {"authority"}
    BY <2>1 DEF RestoreQueue
  <2>3. Readers'
    BY <1>1, <2>1, <2>2, ReadersKept
  <2>4. recovery' \in Recoveries /\ RecoveryData' /\ recovery'.pc = "idle"
    BY <2>1 DEF IdleRecovery, Recoveries, RecoveryData, MaybeContent
  <2>5. Exclusive'
    BY <2>4 DEF Exclusive
  <2>6. cache' \in Caches /\ Coherent(cache')
    BY <2>1, CoherentCache DEF Structure, TypeOK
  <2>7. sync' \in Syncs /\ SyncData' /\ edited' \subseteq Unit
        /\ fresh' \subseteq Holder
    BY <1>1, <2>1, <2>2 DEF TypeOK, Phases, SyncData, Holder
  <2> QED
    BY <1>1, <1>2, <2>3, <2>4, <2>5, <2>6, <2>7, WrittenStructure
<1> QED
  BY <1>3, <1>4

\* A discard keeps Structure.
LEMMA DiscardStructure ==
  ASSUME Structure, Discard, astray' \in BOOLEAN
  PROVE  Structure'
<1>1. /\ TypeOK /\ Phases /\ Readers /\ recovery.pc = "replace"
      /\ recovery.remote \in Content /\ recovery' = IdleRecovery
      /\ UNCHANGED <<server, stage, sync, load, edited, budget>>
  BY DEF Structure, Phases, RecoveryData, Discard, RecoveryEnds, history
<1>2. recovery' \in Recoveries /\ RecoveryData' /\ recovery'.pc = "idle"
  BY <1>1 DEF IdleRecovery, Recoveries, RecoveryData, MaybeContent
<1>3. Exclusive'
  BY <1>2 DEF Exclusive
<1>4. /\ stage' \in Stages /\ StageData' /\ load' \in Loads /\ LoadData'
      /\ sync' \in Syncs /\ SyncData' /\ edited' \subseteq Unit
  BY <1>1 DEF TypeOK, Phases, StageData, LoadData, SyncData
<1>5. CASE "recovery" \in fresh
  <2> DEFINE c == Rebased(recovery.remote, recovery.remote)
  <2>1. /\ cache' = c /\ view' = Shown(Snapshot(cache'))
        /\ fresh' = (fresh \cap {"observed"}) \cup {"view", "authority"}
    BY <1>5 DEF Discard, Replaced
  <2>2. c \in Caches /\ Coherent(c)
    BY <1>1, RebasedFields, RebasedIsCoherent
  <2> HIDE DEF c
  <2>3. Snapshot(c).content \in Content /\ Snapshot(c).conflicted \in BOOLEAN
    BY <2>2, SnapshotType DEF Snapshots
  <2>4. view' \in Views
    BY <2>1, <2>3 DEF Shown, Views, MaybeContent
  <2>5. Readers'
    BY <2>1, ReadersAfterWrite
  <2> QED
    BY <1>1, <1>2, <1>3, <1>4, <2>1, <2>2, <2>4, <2>5, WrittenStructure DEF
       Holder
<1>6. CASE "recovery" \notin fresh
  <2>1. RestoreQueue /\ UNCHANGED <<cache, view>>
    BY <1>6 DEF Discard
  <2>2. fresh' \subseteq fresh \cup {"authority"}
    BY <2>1 DEF RestoreQueue
  <2>3. Readers'
    BY <1>1, <2>1, <2>2, ReadersKept
  <2>4. cache' \in Caches /\ Coherent(cache')
    BY <2>1, CoherentCache DEF Structure, TypeOK
  <2>5. view' \in Views /\ fresh' \subseteq Holder
    BY <1>1, <2>1, <2>2 DEF TypeOK, Holder
  <2> QED
    BY <1>1, <1>2, <1>3, <1>4, <2>3, <2>4, <2>5, WrittenStructure
<1> QED
  BY <1>5, <1>6

\* Handing over keeps the authority on the cache, for a cache that shows the
\* same snapshot.
LEMMA HandOverTracks ==
  ASSUME TypeOK, Tracks, HandOver,
         cache'.content = cache.content,
         HasConflictRevision(cache') = HasConflictRevision(cache)
  PROVE  Tracks' /\ view'.held = None
<1>1. view \in Views /\ Snapshot(cache') = Snapshot(cache)
  BY DEF TypeOK, Snapshot
<1>2. CASE view.held = None
  BY <1>1, <1>2 DEF HandOver, Tracks
<1>3. CASE view.held # None
  <2>1. /\ view.held \in Snapshots /\ Accepts(view.held, MayShow)
        /\ fresh' = (fresh \ {"observed"})
                    \cup (IF "authority" \in fresh /\ MayShow
                          THEN {"view"} ELSE {})
    BY <1>1, <1>3 DEF HandOver, Views
  <2>2. /\ view'.held = None /\ view'.conflicted = view.held.conflicted
        /\ MayShow => view'.content = view.held.content
    BY <1>1, <2>1, AcceptsType
  <2>3. "view" \notin fresh
    BY <1>3 DEF Tracks
  <2>4. "authority" \in fresh =>
          /\ view.held.content = cache.content
          /\ view.held.conflicted = HasConflictRevision(cache)
    BY <1>3, SnapshotType DEF Tracks, TypeOK
  <2> QED
    BY <2>1, <2>2, <2>3, <2>4 DEF Tracks
<1> QED
  BY <1>2, <1>3

\* Throwing away what was held back costs the authority its track at most.
LEMMA ThrowTracks ==
  ASSUME TypeOK, Tracks, Throw, UNCHANGED cache
  PROVE  Tracks' /\ view'.held = None
<1>1. /\ view \in Views /\ view' = [view EXCEPT !.held = None]
      /\ fresh' = IF view.held = None THEN fresh ELSE fresh \ {"authority"}
  BY DEF TypeOK, Throw
<1>2. /\ view'.held = None /\ view'.content = view.content
      /\ view'.conflicted = view.conflicted
  BY <1>1 DEF Views
<1> QED
  BY <1>1, <1>2 DEF Tracks, HasConflictRevision

\* While no stage runs the session may show another snapshot; an edit that is
\* being staged keeps its own.
LEMMA StageEditedKept ==
  ASSUME StageEdited, UNCHANGED <<stage, edited>>,
         cache'.content = cache.content,
         \A x \in {"change", "stage"} : x \in fresh' => x \in fresh,
         \/ stage.pc = "idle" /\ view'.head = None
         \/ view'.head = view.head /\ view'.content = view.content
  PROVE  StageEdited'
BY DEF StageEdited, DiffersWhereEdited

\* Handing over does not touch an edit that is being staged.
LEMMA HandOverStaged ==
  ASSUME TypeOK, HandOver
  PROVE  /\ \A x \in {"change", "stage"} : x \in fresh' => x \in fresh
         /\ \/ stage.pc = "idle" /\ view'.head = None
            \/ view'.head = view.head /\ view'.content = view.content
<1>1. CASE view.held = None
  BY <1>1 DEF HandOver
<1>2. CASE view.held # None
  <2>1. view.held \in Snapshots /\ Accepts(view.held, MayShow)
    BY <1>2 DEF HandOver, TypeOK, Views
  <2> QED
    BY <1>2, <2>1, AcceptsType DEF HandOver, TypeOK, MayShow
<1> QED
  BY <1>1, <1>2

\* Throwing does not touch an edit that is being staged.
LEMMA ThrowStaged ==
  ASSUME TypeOK, Throw
  PROVE  /\ fresh' \subseteq fresh
         /\ view'.head = view.head /\ view'.content = view.content
BY DEF Throw, TypeOK, Views

\* An attempt that did not write keeps Followed.
LEMMA NextAttemptFollowed ==
  ASSUME TypeOK, Followed, NextAttempt, sync.pc # "idle",
         UNCHANGED <<cache, stage, load, edited>>
  PROVE  Followed'
<1>1. /\ Visible /\ Undisturbed /\ Tracks /\ Reloading
      /\ CacheEdited /\ SyncEdited /\ StageEdited
  BY DEF Followed
<1>2. /\ sync'.pc \in Quiet /\ fresh' \subseteq fresh
  BY NextAttemptType
<1>3. Tracks' /\ StageEdited'
  <2>1. CASE Attempts
    <3>1. UNCHANGED <<fresh, view>> /\ sync'.pc = "load"
      BY <2>1, AttemptType DEF NextAttempt
    <3> QED
      BY <1>1, <3>1, StageEditedKept DEF Tracks, HasConflictRevision, Snapshot
  <2>2. CASE ~Attempts
    <3>1. Throw
      BY <2>2 DEF NextAttempt, Throws
    <3> QED
      BY <1>1, <3>1, ThrowTracks, ThrowStaged, StageEditedKept
  <2> QED
    BY <2>1, <2>2
<1>4. Visible' /\ CacheEdited'
  BY <1>1 DEF Visible, HasConflictRevision, CacheEdited, DiffersWhereEdited
<1>5. Undisturbed'
  BY <1>1, <1>2 DEF Undisturbed, Quiet, Sending
<1>6. SyncEdited'
  BY <1>2 DEF SyncEdited
<1>7. Reloading'
  BY <1>1, <1>2 DEF Reloading, Snapshot, HasConflictRevision
<1> QED
  BY <1>3, <1>4, <1>5, <1>6, <1>7 DEF Followed

\* An edit of the user keeps Followed.  The edit starts from what the session
\* shows, and may continue on the cache when the session shows it.
LEMMA EditFollowed ==
  ASSUME Structure, Structure', Followed, ~Astray, ~Astray', NEW u \in Editable,
         NEW v \in Slot, Edit(u, v)
  PROVE  Followed'
<1>1. TypeOK /\ Phases /\ Readers
  BY DEF Structure
<1>2. /\ Visible /\ Undisturbed /\ Tracks /\ Reloading
      /\ CacheEdited /\ SyncEdited /\ StageEdited
  BY DEF Followed
<1>3. UNCHANGED <<server, cache, sync, load, recovery>>
  BY DEF Edit
<1>4. Visible'
  BY <1>2, <1>3 DEF Visible, HasConflictRevision
<1>5. Undisturbed'
  BY <1>2, <1>3 DEF Undisturbed
<1>6. Tracks'
  BY <1>1, <1>2, <1>3 DEF Tracks, Edit
<1>7. Reloading'
  BY <1>1, <1>2, <1>3 DEF Reloading, Edit
<1>8. CacheEdited'
  BY <1>1, <1>2, <1>3 DEF CacheEdited, DiffersWhereEdited, Edit
<1>9. SyncEdited'
  BY <1>1, <1>2, <1>3 DEF SyncEdited, DiffersWhereEdited, Edit
<1>10. StageEdited'
  <2> DEFINE visible == IF view.head = None THEN view.content ELSE view.head
             after == [visible EXCEPT ![u] = v]
             again == stage.pc = "blocked"
             before == IF again THEN stage.before ELSE view.content
  <2>1. /\ stage' = [IdleStage EXCEPT !.pc = "load", !.after = after,
                                      !.before = before]
        /\ view' = [view EXCEPT !.head = after]
        /\ fresh' = IF again THEN fresh
                    ELSE IF "view" \in fresh THEN fresh \cup {"change"}
                    ELSE fresh \ {"change"}
        /\ edited' = edited \cup {u} /\ stage.pc \in {"idle", "blocked"}
    BY DEF Edit
  <2>2. /\ visible \in Content /\ after \in Content
        /\ \A w \in Unit : w # u => after[w] = visible[w]
    BY <1>1, EditedUnits DEF TypeOK, Views, Content, MaybeContent
  <2>3. DiffersWhereEdited(visible, view.content)
    BY <1>2 DEF StageEdited, DiffersWhereEdited
  <2>4. DiffersWhereEdited(visible, before)
    <3>1. CASE again
      <4>1. visible = stage.after /\ before = stage.before
        BY <1>1, <1>2, <3>1, NoneAssumption DEF StageEdited, Phases, StageData
      <4> QED
        BY <1>2, <3>1, <4>1 DEF StageEdited
    <3>2. CASE ~again
      BY <2>3, <3>2
    <3> QED
      BY <3>1, <3>2
  <2>5. "change" \in fresh' => cache.content = before
    BY <1>2, <2>1 DEF StageEdited, Tracks
  <2> HIDE DEF after, visible, before
  <2>6. /\ stage'.pc = "load" /\ stage'.after = after /\ stage'.before = before
        /\ view'.head = after /\ view'.content = view.content
    BY <1>1, <2>1, IdleStageType DEF TypeOK, Stages, Views
  <2>7. \A w \in Unit : /\ after[w] # before[w] => w \in edited'
                        /\ after[w] # view.content[w] => w \in edited'
    BY <2>1, <2>2, <2>3, <2>4 DEF DiffersWhereEdited
  <2> QED
    BY <1>3, <2>5, <2>6, <2>7 DEF StageEdited, DiffersWhereEdited
<1> QED
  BY <1>4, <1>5, <1>6, <1>7, <1>8, <1>9, <1>10 DEF Followed

\* Staging a refused edit again keeps Followed.
LEMMA StageFlushFollowed ==
  ASSUME Structure, Structure', Followed, ~Astray, ~Astray', StageFlush
  PROVE  Followed'
<1>1. TypeOK /\ Phases /\ Readers
  BY DEF Structure
<1>2. /\ Visible /\ Undisturbed /\ Tracks /\ Reloading
      /\ CacheEdited /\ SyncEdited /\ StageEdited
  BY DEF Followed
<1>3. UNCHANGED <<server, cache, fresh, view, sync, load, recovery, edited, budget>>
  BY DEF StageFlush, history
<1>4. Visible'
  BY <1>2, <1>3 DEF Visible, HasConflictRevision
<1>5. Undisturbed'
  BY <1>2, <1>3 DEF Undisturbed
<1>6. Tracks'
  BY <1>2, <1>3 DEF Tracks, HasConflictRevision, Snapshot
<1>7. Reloading'
  BY <1>1, <1>2, <1>3 DEF Reloading, StageFlush
<1>8. CacheEdited'
  BY <1>2, <1>3 DEF CacheEdited, DiffersWhereEdited
<1>9. SyncEdited'
  BY <1>2, <1>3 DEF SyncEdited, DiffersWhereEdited
<1>10. StageEdited'
  BY <1>1, <1>2, <1>3 DEF StageEdited, DiffersWhereEdited, StageFlush
<1> QED
  BY <1>4, <1>5, <1>6, <1>7, <1>8, <1>9, <1>10 DEF Followed

\* Reading the cache for a stage keeps Followed.  An edit of an older snapshot
\* is merged, and then differs from the cache where it was edited.
LEMMA StageLoadFollowed ==
  ASSUME Structure, Structure', Followed, ~Astray, ~Astray', StageLoad
  PROVE  Followed'
<1>1. TypeOK /\ Phases /\ Readers
  BY DEF Structure
<1>2. /\ Visible /\ Undisturbed /\ Tracks /\ Reloading
      /\ CacheEdited /\ SyncEdited /\ StageEdited
  BY DEF Followed
<1>3. UNCHANGED <<server, cache, view, sync, load, recovery, edited, budget>>
  BY DEF StageLoad, history
<1>4. Visible'
  BY <1>2, <1>3 DEF Visible, HasConflictRevision
<1>5. Undisturbed'
  BY <1>2, <1>3 DEF Undisturbed
<1>6. Tracks'
  BY <1>1, <1>2, <1>3 DEF Tracks, StageLoad, Capture
<1>7. Reloading'
  <2>1. stage'.pc # "write"
    BY <1>1, IdleStageType DEF StageLoad, RejectStage, TypeOK, Stages
  <2>2. "load" \in fresh' => "load" \in fresh
    BY DEF StageLoad, Capture
  <2> QED
    BY <1>2, <1>3, <2>1, <2>2 DEF Reloading, Snapshot, HasConflictRevision
<1>8. CacheEdited'
  BY <1>2, <1>3 DEF CacheEdited, DiffersWhereEdited
<1>9. SyncEdited'
  BY <1>2, <1>3 DEF SyncEdited, DiffersWhereEdited
<1>10. StageEdited'
  <2>1. /\ stage \in Stages /\ stage.pc = "load"
        /\ stage.before \in Content /\ stage.after \in Content
        /\ cache.content \in Content
    BY <1>1 DEF TypeOK, Caches, Phases, StageData, StageLoad
  <2>2. /\ DiffersWhereEdited(stage.after, stage.before)
        /\ view.head = stage.after
        /\ "change" \in fresh => cache.content = stage.before
        /\ view.head # None => DiffersWhereEdited(view.head, view.content)
    BY <1>2, <2>1 DEF StageEdited
  <2>3. CASE RejectStage
    <3>1. stage'.before = stage.before /\ stage'.after = stage.after
          /\ stage'.pc = "blocked"
      BY <2>3, IdleStageType DEF RejectStage, Stages
    <3>2. "change" \in fresh' => "change" \in fresh
      BY DEF StageLoad, Capture
    <3> QED
      BY <1>3, <2>2, <3>1, <3>2 DEF StageEdited, DiffersWhereEdited
  <2>4. CASE ~RejectStage
    <3> DEFINE merged == MergedContent(stage.before, stage.after,
                                       cache.content, "none")
               next == IF "change" \in fresh THEN stage.after ELSE merged
    <3>1. /\ stage' = [stage EXCEPT !.pc = "context", !.next = next]
          /\ "change" \in fresh' => "change" \in fresh
          /\ "change" \in fresh \/ Merges(stage.before, stage.after, cache.content)
      BY <2>4 DEF StageLoad, Capture
    <3>2. DiffersWhereEdited(next, cache.content)
      <4>1. CASE "change" \in fresh
        BY <2>2, <4>1
      <4>2. CASE "change" \notin fresh
        <5>1. merged = [w \in Unit |-> IF stage.after[w] # stage.before[w]
                                       THEN stage.after[w] ELSE cache.content[w]]
          BY <2>1, <3>1, <4>2, MergeAppliesTheEdit
        <5> QED
          BY <2>2, <4>2, <5>1 DEF DiffersWhereEdited
      <4> QED
        BY <4>1, <4>2
    <3> HIDE DEF next
    <3>3. stage'.before = stage.before /\ stage'.after = stage.after
          /\ stage'.next = next
      BY <2>1, <3>1 DEF Stages
    <3> QED
      BY <1>3, <2>2, <3>1, <3>2, <3>3 DEF StageEdited, DiffersWhereEdited
  <2> QED
    BY <2>3, <2>4
<1> QED
  BY <1>4, <1>5, <1>6, <1>7, <1>8, <1>9, <1>10 DEF Followed

\* Reading the conflict for a stage keeps Followed.
LEMMA StageContextFollowed ==
  ASSUME Structure, Structure', Followed, ~Astray, ~Astray', StageContext
  PROVE  Followed'
<1>1. TypeOK /\ Phases /\ Readers
  BY DEF Structure
<1>2. /\ Visible /\ Undisturbed /\ Tracks /\ Reloading
      /\ CacheEdited /\ SyncEdited /\ StageEdited
  BY DEF Followed
<1>3. UNCHANGED <<server, cache, fresh, view, sync, load, recovery, edited, budget>>
  BY DEF StageContext, history
<1>4. Visible'
  BY <1>2, <1>3 DEF Visible, HasConflictRevision
<1>5. Undisturbed'
  BY <1>2, <1>3 DEF Undisturbed
<1>6. Tracks'
  BY <1>2, <1>3 DEF Tracks, HasConflictRevision, Snapshot
<1>7. Reloading'
  BY <1>1, <1>2, <1>3 DEF Reloading, StageContext
<1>8. CacheEdited'
  BY <1>2, <1>3 DEF CacheEdited, DiffersWhereEdited
<1>9. SyncEdited'
  BY <1>2, <1>3 DEF SyncEdited, DiffersWhereEdited
<1>10. StageEdited'
  BY <1>1, <1>2, <1>3 DEF StageEdited, DiffersWhereEdited, StageContext
<1> QED
  BY <1>4, <1>5, <1>6, <1>7, <1>8, <1>9, <1>10 DEF Followed

\* A stage that another write overtook keeps Followed.
LEMMA StageRetryFollowed ==
  ASSUME Structure, Structure', Followed, ~Astray, ~Astray', StageRetry
  PROVE  Followed'
<1>1. TypeOK /\ Phases /\ Readers
  BY DEF Structure
<1>2. /\ Visible /\ Undisturbed /\ Tracks /\ Reloading
      /\ CacheEdited /\ SyncEdited /\ StageEdited
  BY DEF Followed
<1>3. UNCHANGED <<server, cache, fresh, view, sync, load, recovery, edited, budget>>
  BY DEF StageRetry, history
<1>4. Visible'
  BY <1>2, <1>3 DEF Visible, HasConflictRevision
<1>5. Undisturbed'
  BY <1>2, <1>3 DEF Undisturbed
<1>6. Tracks'
  BY <1>2, <1>3 DEF Tracks, HasConflictRevision, Snapshot
<1>7. Reloading'
  BY <1>1, <1>2, <1>3 DEF Reloading, StageRetry
<1>8. CacheEdited'
  BY <1>2, <1>3 DEF CacheEdited, DiffersWhereEdited
<1>9. SyncEdited'
  BY <1>2, <1>3 DEF SyncEdited, DiffersWhereEdited
<1>10. StageEdited'
  BY <1>1, <1>2, <1>3 DEF TypeOK, StageEdited, DiffersWhereEdited, Stages,
     Views, StageRetry, RejectStage, IdleStage, MaxTries, history
<1> QED
  BY <1>4, <1>5, <1>6, <1>7, <1>8, <1>9, <1>10 DEF Followed

\* Starting a synchronisation keeps Followed.  The session shows no conflict
\* and follows the cache, so there is none.
LEMMA SyncStartFollowed ==
  ASSUME Structure, Structure', Followed, ~Astray, ~Astray', SyncStart, Turn("user")
  PROVE  Followed'
<1>1. TypeOK /\ Phases /\ Readers
  BY DEF Structure
<1>2. /\ Visible /\ Undisturbed /\ Tracks /\ Reloading
      /\ CacheEdited /\ SyncEdited /\ StageEdited
  BY DEF Followed
<1>3. UNCHANGED <<server, cache, fresh, view, stage, load, recovery, edited, budget>>
  BY DEF SyncStart, history
<1>4. Visible'
  BY <1>2, <1>3 DEF Visible, HasConflictRevision
<1>5. Undisturbed'
  <2>1. sync' = [IdleSync EXCEPT !.pc = "load"] /\ ~Quiesced /\ ~view.conflicted
        /\ sync.pc = "idle" /\ stage.pc = "idle"
    BY DEF SyncStart
  <2>2. sync'.pc = "load"
    BY <2>1, IdleSyncType DEF Syncs
  <2>3. load.pc \in {"idle", "await", "return"}
    BY <1>3, <2>2 DEF Astray, Overlapping
  <2>4. load.pc # "await"
    BY <1>1, <2>1 DEF Phases, LoadData, Quiesced
  <2>5. load.pc # "return"
    <3>1. "load" \in (DOMAIN InsideCall) \ {"user"}
      BY DEF InsideCall
    <3>2. ~Returning["load"]
      BY <3>1 DEF Turn
    <3> QED
      BY <2>1, <3>2 DEF Returning
  <2>6. "authority" \in fresh
    BY <2>1, <2>3, <2>4, <2>5 DEF Astray, Lost, Quiesced
  <2>7. cache.conflict = None
    BY <1>2, <2>1, <2>6 DEF Tracks, Visible
  <2> QED
    BY <1>3, <2>2, <2>7 DEF Undisturbed, Quiet, Sending
<1>6. Tracks'
  BY <1>1, <1>2, <1>3 DEF Tracks, SyncStart
<1>7. Reloading'
  BY <1>2, <1>3 DEF Reloading, HasConflictRevision, Snapshot
<1>8. CacheEdited'
  BY <1>2, <1>3 DEF CacheEdited, DiffersWhereEdited
<1>9. SyncEdited'
  BY <1>1, <1>2, <1>3 DEF SyncEdited, Quiet, SyncStart
<1>10. StageEdited'
  BY <1>2, <1>3 DEF StageEdited, DiffersWhereEdited
<1> QED
  BY <1>4, <1>5, <1>6, <1>7, <1>8, <1>9, <1>10 DEF Followed

\* Reading what to send keeps Followed.  Without a conflict the revision that
\* is sent is the base.
LEMMA SyncLoadFollowed ==
  ASSUME Structure, Structure', Followed, ~Astray, ~Astray', SyncLoad
  PROVE  Followed'
<1>1. TypeOK /\ Phases /\ Readers
  BY DEF Structure
<1>2. /\ Visible /\ Undisturbed /\ Tracks /\ Reloading
      /\ CacheEdited /\ SyncEdited /\ StageEdited
  BY DEF Followed
<1>3. UNCHANGED <<server, cache, stage, load, recovery, edited, budget>>
  BY DEF SyncLoad, history
<1>4. Visible'
  BY <1>2, <1>3 DEF Visible, HasConflictRevision
<1>5. Undisturbed'
  <2>1. CASE Returns
    <3>1. sync'.pc = "idle"
      BY <2>1, IdleSyncData DEF Returns, SyncEnds
    <3> QED
      BY <1>2, <3>1 DEF Undisturbed, Quiet, Sending
  <2>2. CASE ~Returns
    <3>1. /\ sync.pc = "load" /\ cache.pendingBase # None
          /\ sync' = [sync EXCEPT !.pc = "context", !.local = cache.content,
                                  !.revision = cache.pendingBase]
      BY <2>2 DEF SyncLoad
    <3>2. /\ sync'.pc = "context" /\ sync'.local = cache.content
          /\ sync'.revision = cache.pendingBase
      BY <1>1, <3>1 DEF TypeOK, Syncs
    <3>3. cache.conflict = None
      BY <1>2, <3>1 DEF Undisturbed
    <3> QED
      BY <1>3, <3>2, <3>3 DEF Undisturbed, Quiet, Sending
  <2> QED
    BY <2>1, <2>2
<1>6. Tracks'
  <2>1. CASE Returns
    BY <1>1, <1>2, <1>3, <2>1, HandOverTracks DEF Returns, HasConflictRevision
  <2>2. CASE ~Returns
    <3>1. view' = view /\ fresh' \in {fresh, fresh \cup {"sync"}} /\ sync'.pc # "idle"
      BY <1>1, <2>2 DEF SyncLoad, Capture, TypeOK, Syncs
    <3> QED
      BY <1>2, <1>3, <3>1 DEF Tracks, Snapshot, HasConflictRevision
  <2> QED
    BY <2>1, <2>2
<1>7. Reloading'
  BY <1>1, <1>2, <1>3 DEF Reloading, SyncLoad, Returns, HandOver, Capture
<1>8. CacheEdited'
  BY <1>2, <1>3 DEF CacheEdited, DiffersWhereEdited
<1>9. SyncEdited'
  <2>1. CASE Returns
    <3>1. sync'.pc = "idle"
      BY <2>1, IdleSyncData DEF Returns, SyncEnds
    <3> QED
      BY <1>2, <3>1 DEF SyncEdited, Quiet, Sending
  <2>2. CASE ~Returns
    <3>1. /\ sync.pc = "load" /\ cache.pendingBase # None
          /\ sync' = [sync EXCEPT !.pc = "context", !.local = cache.content,
                                  !.revision = cache.pendingBase]
      BY <2>2 DEF SyncLoad
    <3>2. /\ sync'.pc = "context" /\ sync'.local = cache.content
          /\ sync'.revision = cache.pendingBase
      BY <1>1, <3>1 DEF TypeOK, Syncs
    <3>3. cache.conflict = None
      BY <1>2, <3>1 DEF Undisturbed
    <3>4. cache.pendingBase = cache.base
      BY <3>1, <3>3 DEF Structure, BaseIsKnown
    <3> QED
      BY <1>2, <1>3, <3>2, <3>4 DEF SyncEdited, CacheEdited, DiffersWhereEdited
  <2> QED
    BY <2>1, <2>2
<1>10. StageEdited'
  <2>1. CASE Returns
    BY <1>1, <1>2, <1>3, <2>1, HandOverStaged, StageEditedKept DEF Returns
  <2>2. CASE ~Returns
    <3>1. view' = view /\ fresh' \in {fresh, fresh \cup {"sync"}}
      BY <2>2 DEF SyncLoad, Capture
    <3> QED
      BY <1>2, <1>3, <3>1, StageEditedKept
  <2> QED
    BY <2>1, <2>2
<1> QED
  BY <1>4, <1>5, <1>6, <1>7, <1>8, <1>9, <1>10 DEF Followed

\* Reading the base to send keeps Followed.
LEMMA SyncContextFollowed ==
  ASSUME Structure, Structure', Followed, ~Astray, ~Astray', SyncContext
  PROVE  Followed'
<1>1. TypeOK /\ Phases /\ Readers
  BY DEF Structure
<1>2. /\ Visible /\ Undisturbed /\ Tracks /\ Reloading
      /\ CacheEdited /\ SyncEdited /\ StageEdited
  BY DEF Followed
<1>3. UNCHANGED <<server, cache, fresh, view, stage, load, recovery, edited, budget>>
  BY DEF SyncContext, history
<1>4. Visible'
  BY <1>2, <1>3 DEF Visible, HasConflictRevision
<1>5. Undisturbed'
  <2>1. sync.pc = "context" /\ sync' = [sync EXCEPT !.pc = "send", !.base = cache.base]
    BY DEF SyncContext
  <2>2. /\ sync'.pc = "send" /\ sync'.base = cache.base
        /\ sync'.revision = sync.revision
    BY <1>1, <2>1 DEF TypeOK, Syncs
  <2>3. /\ cache.conflict = None /\ cache.pendingBase = sync.revision
        /\ sync.revision \in Content
    BY <1>1, <1>2, <2>1 DEF Undisturbed, Phases, SyncData, Quiet
  <2>4. cache.pendingBase = cache.base
    BY <2>3, NoneAssumption DEF Structure, BaseIsKnown
  <2> QED
    BY <1>3, <2>2, <2>3, <2>4 DEF Undisturbed, Quiet, Sending
<1>6. Tracks'
  BY <1>1, <1>2, <1>3 DEF Tracks, SyncContext
<1>7. Reloading'
  BY <1>2, <1>3 DEF Reloading, HasConflictRevision, Snapshot
<1>8. CacheEdited'
  BY <1>2, <1>3 DEF CacheEdited, DiffersWhereEdited
<1>9. SyncEdited'
  BY <1>1, <1>2, <1>3 DEF SyncEdited, DiffersWhereEdited, Quiet, SyncContext
<1>10. StageEdited'
  BY <1>2, <1>3 DEF StageEdited, DiffersWhereEdited
<1> QED
  BY <1>4, <1>5, <1>6, <1>7, <1>8, <1>9, <1>10 DEF Followed

\* An accepted request keeps Followed.  The committed content has the submitted
\* edits.
LEMMA SyncServedFollowed ==
  ASSUME Structure, Structure', Followed, ~Astray, ~Astray', SyncServed
  PROVE  Followed'
<1>1. TypeOK /\ Phases /\ Readers
  BY DEF Structure
<1>2. /\ Visible /\ Undisturbed /\ Tracks /\ Reloading
      /\ CacheEdited /\ SyncEdited /\ StageEdited
  BY DEF Followed
<1>3. UNCHANGED <<cache, fresh, view, stage, load, recovery, edited, budget>>
  BY DEF SyncServed, history
<1>4. Visible'
  BY <1>2, <1>3 DEF Visible, HasConflictRevision
<1>5. Undisturbed'
  <2>1. /\ sync.pc = "send" /\ Accepted
        /\ sync' = [sync EXCEPT !.pc = "install", !.remote = Committed]
    BY DEF SyncServed
  <2>2. /\ sync.local \in Content /\ sync.base \in Content /\ server \in Content
    BY <1>1, <2>1 DEF TypeOK, Phases, SyncData, Sending, Quiet
  <2>3. \A w \in Unit : sync.local[w] # sync.base[w] => Committed[w] = sync.local[w]
    <3>1. CASE server = sync.base
      BY <3>1 DEF Committed
    <3>2. CASE server # sync.base
      <4>1. Committed = [w \in Unit |-> IF sync.local[w] # sync.base[w]
                                        THEN sync.local[w] ELSE server[w]]
        BY <2>1, <2>2, <3>2, MergeAppliesTheEdit DEF Committed, Accepted
      <4> QED
        BY <4>1
    <3> QED
      BY <3>1, <3>2
  <2> HIDE DEF Committed
  <2>4. /\ sync'.pc = "install" /\ sync'.local = sync.local
        /\ sync'.base = sync.base /\ sync'.revision = sync.revision
        /\ sync'.remote = Committed
    BY <1>1, <2>1 DEF TypeOK, Syncs
  <2> QED
    BY <1>2, <1>3, <2>1, <2>3, <2>4 DEF Undisturbed, Quiet, Sending
<1>6. Tracks'
  BY <1>1, <1>2, <1>3 DEF Tracks, SyncServed
<1>7. Reloading'
  BY <1>2, <1>3 DEF Reloading, HasConflictRevision, Snapshot
<1>8. CacheEdited'
  BY <1>2, <1>3 DEF CacheEdited, DiffersWhereEdited
<1>9. SyncEdited'
  BY <1>1, <1>2, <1>3 DEF SyncEdited, DiffersWhereEdited, Quiet, SyncServed
<1>10. StageEdited'
  BY <1>2, <1>3 DEF StageEdited, DiffersWhereEdited
<1> QED
  BY <1>4, <1>5, <1>6, <1>7, <1>8, <1>9, <1>10 DEF Followed

\* A refused request keeps Followed.
LEMMA SyncRefusedFollowed ==
  ASSUME Structure, Structure', Followed, ~Astray, ~Astray',
         NEW reply \in {"merge_conflict", "resource_conflict"}, SyncRefused(reply)
  PROVE  Followed'
<1>1. TypeOK /\ Phases /\ Readers
  BY DEF Structure
<1>2. /\ Visible /\ Undisturbed /\ Tracks /\ Reloading
      /\ CacheEdited /\ SyncEdited /\ StageEdited
  BY DEF Followed
<1>3. UNCHANGED <<server, cache, fresh, view, stage, load, recovery, edited, budget>>
  BY DEF SyncRefused, history
<1>4. Visible'
  BY <1>2, <1>3 DEF Visible, HasConflictRevision
<1>5. Undisturbed'
  BY <1>1, <1>2, <1>3 DEF Undisturbed, Quiet, SyncRefused
<1>6. Tracks'
  BY <1>1, <1>2, <1>3 DEF Tracks, SyncRefused
<1>7. Reloading'
  BY <1>2, <1>3 DEF Reloading, HasConflictRevision, Snapshot
<1>8. CacheEdited'
  BY <1>2, <1>3 DEF CacheEdited, DiffersWhereEdited
<1>9. SyncEdited'
  BY <1>1, <1>2, <1>3 DEF SyncEdited, DiffersWhereEdited, Quiet, SyncRefused
<1>10. StageEdited'
  BY <1>2, <1>3 DEF StageEdited, DiffersWhereEdited
<1> QED
  BY <1>4, <1>5, <1>6, <1>7, <1>8, <1>9, <1>10 DEF Followed

\* A synchronisation that fails keeps Followed.
LEMMA SyncFailsFollowed ==
  ASSUME Structure, Structure', Followed, ~Astray, ~Astray', SyncFails
  PROVE  Followed'
<1>1. TypeOK /\ Phases /\ Readers
  BY DEF Structure
<1>2. /\ Visible /\ Undisturbed /\ Tracks /\ Reloading
      /\ CacheEdited /\ SyncEdited /\ StageEdited
  BY DEF Followed
<1>3. UNCHANGED <<cache, stage, load, recovery, edited, budget>>
  BY DEF SyncFails, history
<1>4. Visible'
  BY <1>2, <1>3 DEF Visible, HasConflictRevision
<1>5. Undisturbed'
  BY <1>1, <1>2, <1>3 DEF Undisturbed, Quiet, SyncFails, Returns, Throws,
     SyncEnds, IdleSync
<1>6. Tracks'
  <2>1. HandOver \/ Throw
    BY DEF SyncFails, Returns, Throws
  <2> QED
    BY <1>1, <1>2, <1>3, <2>1, HandOverTracks, ThrowTracks DEF
       HasConflictRevision
<1>7. Reloading'
  BY <1>1, <1>2, <1>3 DEF Reloading, SyncFails, Returns, Throws, HandOver,
     Throw
<1>8. CacheEdited'
  BY <1>2, <1>3 DEF CacheEdited, DiffersWhereEdited
<1>9. SyncEdited'
  BY <1>1, <1>2, <1>3 DEF SyncEdited, Quiet, SyncFails, Returns, Throws,
     SyncEnds, IdleSync
<1>10. StageEdited'
  <2>1. HandOver \/ Throw
    BY DEF SyncFails, Returns, Throws
  <2> QED
    BY <1>1, <1>2, <1>3, <2>1, HandOverStaged, ThrowStaged, StageEditedKept
<1> QED
  BY <1>4, <1>5, <1>6, <1>7, <1>8, <1>9, <1>10 DEF Followed

\* Fetching the content of a refusal keeps Followed.
LEMMA SyncFetchedFollowed ==
  ASSUME Structure, Structure', Followed, ~Astray, ~Astray', SyncFetched
  PROVE  Followed'
<1>1. TypeOK /\ Phases /\ Readers
  BY DEF Structure
<1>2. /\ Visible /\ Undisturbed /\ Tracks /\ Reloading
      /\ CacheEdited /\ SyncEdited /\ StageEdited
  BY DEF Followed
<1>3. UNCHANGED <<server, cache, stage, load, recovery, edited, budget>>
  BY DEF SyncFetched, history
<1>4. Visible'
  BY <1>2, <1>3 DEF Visible, HasConflictRevision
<1>5. Undisturbed'
  <2>1. CASE NextAttempt
    BY <1>1, <1>2, <1>3, <2>1, NextAttemptFollowed DEF SyncFetched, Followed
  <2>2. CASE ~NextAttempt
    <3>1. PICK pc \in {"record", "reconcile"} : sync' = [sync EXCEPT !.pc = pc]
      BY <2>2 DEF SyncFetched
    <3>2. /\ sync.pc = "fetch" /\ sync'.pc = pc /\ sync'.local = sync.local
          /\ sync'.base = sync.base /\ sync'.revision = sync.revision
      BY <1>1, <3>1 DEF TypeOK, Syncs, SyncFetched
    <3> QED
      BY <1>2, <1>3, <3>2 DEF Undisturbed, Quiet, Sending
  <2> QED
    BY <2>1, <2>2
<1>6. Tracks'
  BY <1>1, <1>2, <1>3 DEF TypeOK, Tracks, Views, Syncs, SyncFetched,
     NextAttempt, Attempt, IdleSync, Throws, Throw
<1>7. Reloading'
  BY <1>1, <1>2, <1>3 DEF Reloading, SyncFetched, NextAttempt, Throws, Throw
<1>8. CacheEdited'
  BY <1>2, <1>3 DEF CacheEdited, DiffersWhereEdited
<1>9. SyncEdited'
  <2>1. CASE NextAttempt
    BY <1>1, <1>2, <1>3, <2>1, NextAttemptFollowed DEF SyncFetched, Followed
  <2>2. CASE ~NextAttempt
    <3>1. PICK pc \in {"record", "reconcile"} : sync' = [sync EXCEPT !.pc = pc]
      BY <2>2 DEF SyncFetched
    <3>2. /\ sync.pc = "fetch" /\ sync'.pc = pc /\ sync'.local = sync.local
          /\ sync'.base = sync.base /\ sync'.revision = sync.revision
      BY <1>1, <3>1 DEF TypeOK, Syncs, SyncFetched
    <3> QED
      BY <1>2, <1>3, <3>2 DEF SyncEdited, DiffersWhereEdited, Quiet, Sending
  <2> QED
    BY <2>1, <2>2
<1>10. StageEdited'
  BY <1>1, <1>2, <1>3 DEF TypeOK, StageEdited, DiffersWhereEdited, Views,
     SyncFetched, NextAttempt, Throws, Throw
<1> QED
  BY <1>4, <1>5, <1>6, <1>7, <1>8, <1>9, <1>10 DEF Followed

\* Reading the cache for an answer keeps Followed.
LEMMA InstallLoadFollowed ==
  ASSUME Structure, Structure', Followed, ~Astray, ~Astray', InstallLoad
  PROVE  Followed'
<1>1. TypeOK /\ Phases /\ Readers
  BY DEF Structure
<1>2. /\ Visible /\ Undisturbed /\ Tracks /\ Reloading
      /\ CacheEdited /\ SyncEdited /\ StageEdited
  BY DEF Followed
<1>3. UNCHANGED <<server, cache, view, stage, load, recovery, edited, budget>>
  BY DEF InstallLoad, history
<1>4. Visible'
  BY <1>2, <1>3 DEF Visible, HasConflictRevision
<1>5. Undisturbed'
  BY <1>1, <1>2, <1>3 DEF Undisturbed, Quiet, Sending, InstallLoad
<1>6. Tracks'
  BY <1>1, <1>2, <1>3 DEF Tracks, InstallLoad, Capture
<1>7. Reloading'
  BY <1>1, <1>2, <1>3 DEF Reloading, InstallLoad, Capture
<1>8. CacheEdited'
  BY <1>2, <1>3 DEF CacheEdited, DiffersWhereEdited
<1>9. SyncEdited'
  BY <1>1, <1>2, <1>3 DEF SyncEdited, DiffersWhereEdited, Quiet, InstallLoad
<1>10. StageEdited'
  BY <1>1, <1>2, <1>3 DEF StageEdited, DiffersWhereEdited, InstallLoad, Capture
<1> QED
  BY <1>4, <1>5, <1>6, <1>7, <1>8, <1>9, <1>10 DEF Followed

\* An answer that another write overtook keeps Followed.
LEMMA InstallRetryFollowed ==
  ASSUME Structure, Structure', Followed, ~Astray, ~Astray', InstallRetry
  PROVE  Followed'
<1>1. TypeOK /\ Phases /\ Readers
  BY DEF Structure
<1>2. /\ Visible /\ Undisturbed /\ Tracks /\ Reloading
      /\ CacheEdited /\ SyncEdited /\ StageEdited
  BY DEF Followed
<1>3. UNCHANGED <<server, cache, stage, load, recovery, edited, budget>>
  BY DEF InstallRetry, history
<1>4. Visible'
  BY <1>2, <1>3 DEF Visible, HasConflictRevision
<1>5. Undisturbed'
  <2>1. CASE Returns
    <3>1. sync'.pc = "idle"
      BY <2>1, IdleSyncData DEF Returns, SyncEnds
    <3> QED
      BY <1>2, <3>1 DEF Undisturbed, Quiet, Sending
  <2>2. CASE ~Returns
    <3>1. sync' = [sync EXCEPT !.pc = "install", !.try = sync.try + 1]
      BY <2>2 DEF InstallRetry
    <3>2. /\ sync.pc = "write" /\ sync'.pc = "install" /\ sync'.local = sync.local
          /\ sync'.base = sync.base /\ sync'.revision = sync.revision
          /\ sync'.remote = sync.remote
      BY <1>1, <3>1 DEF TypeOK, Syncs, InstallRetry
    <3> QED
      BY <1>2, <1>3, <3>2 DEF Undisturbed, Quiet, Sending
  <2> QED
    BY <2>1, <2>2
<1>6. Tracks'
  <2>1. CASE Returns
    BY <1>1, <1>2, <1>3, <2>1, HandOverTracks DEF Returns, HasConflictRevision
  <2>2. CASE ~Returns
    <3>1. view' = view /\ fresh' \in {fresh, fresh \cup {"sync"}} /\ sync'.pc # "idle"
      BY <1>1, <2>2 DEF InstallRetry, Capture, TypeOK, Syncs
    <3> QED
      BY <1>2, <1>3, <3>1 DEF Tracks, Snapshot, HasConflictRevision
  <2> QED
    BY <2>1, <2>2
<1>7. Reloading'
  BY <1>1, <1>2, <1>3 DEF Reloading, InstallRetry, Returns, HandOver
<1>8. CacheEdited'
  BY <1>2, <1>3 DEF CacheEdited, DiffersWhereEdited
<1>9. SyncEdited'
  <2>1. CASE Returns
    <3>1. sync'.pc = "idle"
      BY <2>1, IdleSyncData DEF Returns, SyncEnds
    <3> QED
      BY <1>2, <3>1 DEF SyncEdited, Quiet, Sending
  <2>2. CASE ~Returns
    <3>1. sync' = [sync EXCEPT !.pc = "install", !.try = sync.try + 1]
      BY <2>2 DEF InstallRetry
    <3>2. /\ sync.pc = "write" /\ sync'.pc = "install" /\ sync'.local = sync.local
          /\ sync'.base = sync.base /\ sync'.revision = sync.revision
          /\ sync'.remote = sync.remote
      BY <1>1, <3>1 DEF TypeOK, Syncs, InstallRetry
    <3> QED
      BY <1>2, <1>3, <3>2 DEF SyncEdited, DiffersWhereEdited, Quiet, Sending
  <2> QED
    BY <2>1, <2>2
<1>10. StageEdited'
  <2>1. CASE Returns
    BY <1>1, <1>2, <1>3, <2>1, HandOverStaged, StageEditedKept DEF Returns
  <2>2. CASE ~Returns
    <3>1. view' = view /\ fresh' \in {fresh, fresh \cup {"sync"}}
      BY <2>2 DEF InstallRetry, Capture
    <3> QED
      BY <1>2, <1>3, <3>1, StageEditedKept
  <2> QED
    BY <2>1, <2>2
<1> QED
  BY <1>4, <1>5, <1>6, <1>7, <1>8, <1>9, <1>10 DEF Followed

\* Starting a reload keeps Followed.
LEMMA LoadStartFollowed ==
  ASSUME Structure, Structure', Followed, ~Astray, ~Astray', LoadStart
  PROVE  Followed'
<1>1. TypeOK /\ Phases /\ Readers
  BY DEF Structure
<1>2. /\ Visible /\ Undisturbed /\ Tracks /\ Reloading
      /\ CacheEdited /\ SyncEdited /\ StageEdited
  BY DEF Followed
<1>3. UNCHANGED <<server, cache, view, stage, sync, recovery, edited>>
  BY DEF LoadStart
<1>4. Visible'
  BY <1>2, <1>3 DEF Visible, HasConflictRevision
<1>5. Undisturbed'
  BY <1>2, <1>3 DEF Undisturbed
<1>6. Tracks'
  BY <1>1, <1>2, <1>3 DEF Tracks, LoadStart, Capture
<1>7. Reloading'
  BY <1>1, <1>2, <1>3 DEF Reloading, LoadStart, IdleLoad
<1>8. CacheEdited'
  BY <1>2, <1>3 DEF CacheEdited, DiffersWhereEdited
<1>9. SyncEdited'
  BY <1>2, <1>3 DEF SyncEdited, DiffersWhereEdited
<1>10. StageEdited'
  BY <1>1, <1>2, <1>3 DEF StageEdited, DiffersWhereEdited, LoadStart
<1> QED
  BY <1>4, <1>5, <1>6, <1>7, <1>8, <1>9, <1>10 DEF Followed

\* A reload that waited for a synchronisation keeps Followed.
LEMMA LoadAwaitedFollowed ==
  ASSUME Structure, Structure', Followed, ~Astray, ~Astray', LoadAwaited
  PROVE  Followed'
<1>1. TypeOK /\ Phases /\ Readers
  BY DEF Structure
<1>2. /\ Visible /\ Undisturbed /\ Tracks /\ Reloading
      /\ CacheEdited /\ SyncEdited /\ StageEdited
  BY DEF Followed
<1>3. UNCHANGED <<server, cache, fresh, view, stage, sync, recovery, edited, budget>>
  BY DEF LoadAwaited, history
<1>4. Visible'
  BY <1>2, <1>3 DEF Visible, HasConflictRevision
<1>5. Undisturbed'
  BY <1>2, <1>3 DEF Undisturbed
<1>6. Tracks'
  BY <1>2, <1>3 DEF Tracks, HasConflictRevision, Snapshot
<1>7. Reloading'
  BY <1>1, <1>2, <1>3 DEF Reloading, LoadAwaited
<1>8. CacheEdited'
  BY <1>2, <1>3 DEF CacheEdited, DiffersWhereEdited
<1>9. SyncEdited'
  BY <1>2, <1>3 DEF SyncEdited, DiffersWhereEdited
<1>10. StageEdited'
  BY <1>2, <1>3 DEF StageEdited, DiffersWhereEdited
<1> QED
  BY <1>4, <1>5, <1>6, <1>7, <1>8, <1>9, <1>10 DEF Followed

\* A load that has the server's content keeps Followed.
LEMMA LoadFetchedFollowed ==
  ASSUME Structure, Structure', Followed, ~Astray, ~Astray', LoadFetched
  PROVE  Followed'
<1>1. TypeOK /\ Phases /\ Readers
  BY DEF Structure
<1>2. /\ Visible /\ Undisturbed /\ Tracks /\ Reloading
      /\ CacheEdited /\ SyncEdited /\ StageEdited
  BY DEF Followed
<1>3. UNCHANGED <<server, cache, fresh, view, stage, sync, recovery, edited, budget>>
  BY DEF LoadFetched, history
<1>4. Visible'
  BY <1>2, <1>3 DEF Visible, HasConflictRevision
<1>5. Undisturbed'
  BY <1>2, <1>3 DEF Undisturbed
<1>6. Tracks'
  BY <1>2, <1>3 DEF Tracks, HasConflictRevision, Snapshot
<1>7. Reloading'
  BY <1>1, <1>2, <1>3 DEF Reloading, LoadFetched
<1>8. CacheEdited'
  BY <1>2, <1>3 DEF CacheEdited, DiffersWhereEdited
<1>9. SyncEdited'
  BY <1>2, <1>3 DEF SyncEdited, DiffersWhereEdited
<1>10. StageEdited'
  BY <1>2, <1>3 DEF StageEdited, DiffersWhereEdited
<1> QED
  BY <1>4, <1>5, <1>6, <1>7, <1>8, <1>9, <1>10 DEF Followed

\* A load that falls back on the cache keeps Followed.
LEMMA LoadFallsBackFollowed ==
  ASSUME Structure, Structure', Followed, ~Astray, ~Astray', LoadFallsBack
  PROVE  Followed'
<1>1. TypeOK /\ Phases /\ Readers
  BY DEF Structure
<1>2. /\ Visible /\ Undisturbed /\ Tracks /\ Reloading
      /\ CacheEdited /\ SyncEdited /\ StageEdited
  BY DEF Followed
<1>3. UNCHANGED <<server, cache, view, stage, sync, recovery, edited, budget>>
  BY DEF LoadFallsBack, history
<1>4. Visible'
  BY <1>2, <1>3 DEF Visible, HasConflictRevision
<1>5. Undisturbed'
  BY <1>2, <1>3 DEF Undisturbed
<1>6. Tracks'
  BY <1>1, <1>2, <1>3 DEF Tracks, LoadFallsBack, Capture
<1>7. Reloading'
  BY <1>1, <1>2, <1>3 DEF Reloading, LoadFallsBack, LoadReturns, Capture
<1>8. CacheEdited'
  BY <1>2, <1>3 DEF CacheEdited, DiffersWhereEdited
<1>9. SyncEdited'
  BY <1>2, <1>3 DEF SyncEdited, DiffersWhereEdited
<1>10. StageEdited'
  BY <1>1, <1>2, <1>3 DEF StageEdited, DiffersWhereEdited, LoadFallsBack,
     Capture
<1> QED
  BY <1>4, <1>5, <1>6, <1>7, <1>8, <1>9, <1>10 DEF Followed

\* A load that fails keeps Followed.
LEMMA LoadFailsFollowed ==
  ASSUME Structure, Structure', Followed, ~Astray, ~Astray', LoadFails
  PROVE  Followed'
<1>1. TypeOK /\ Phases /\ Readers
  BY DEF Structure
<1>2. /\ Visible /\ Undisturbed /\ Tracks /\ Reloading
      /\ CacheEdited /\ SyncEdited /\ StageEdited
  BY DEF Followed
<1>3. UNCHANGED <<server, cache, view, stage, sync, recovery, edited, budget>>
  BY DEF LoadFails, history
<1>4. Visible'
  BY <1>2, <1>3 DEF Visible, HasConflictRevision
<1>5. Undisturbed'
  BY <1>2, <1>3 DEF Undisturbed
<1>6. Tracks'
  BY <1>1, <1>2, <1>3 DEF Tracks, LoadFails, LoadThrows, RestoreQueue
<1>7. Reloading'
  BY <1>1, <1>2, <1>3 DEF Reloading, LoadFails, LoadThrows, RestoreQueue,
     IdleLoad
<1>8. CacheEdited'
  BY <1>2, <1>3 DEF CacheEdited, DiffersWhereEdited
<1>9. SyncEdited'
  BY <1>2, <1>3 DEF SyncEdited, DiffersWhereEdited
<1>10. StageEdited'
  BY <1>1, <1>2, <1>3 DEF StageEdited, DiffersWhereEdited, LoadFails,
     LoadThrows, RestoreQueue
<1> QED
  BY <1>4, <1>5, <1>6, <1>7, <1>8, <1>9, <1>10 DEF Followed

\* A load that compares keeps Followed.
LEMMA LoadReloadFollowed ==
  ASSUME Structure, Structure', Followed, ~Astray, ~Astray', LoadReload
  PROVE  Followed'
<1>1. TypeOK /\ Phases /\ Readers
  BY DEF Structure
<1>2. /\ Visible /\ Undisturbed /\ Tracks /\ Reloading
      /\ CacheEdited /\ SyncEdited /\ StageEdited
  BY DEF Followed
<1>3. UNCHANGED <<server, cache, view, stage, sync, recovery, edited, budget>>
  BY DEF LoadReload, history
<1>4. Visible'
  BY <1>2, <1>3 DEF Visible, HasConflictRevision
<1>5. Undisturbed'
  BY <1>2, <1>3 DEF Undisturbed
<1>6. Tracks'
  BY <1>1, <1>2, <1>3 DEF Tracks, LoadReload, Capture
<1>7. Reloading'
  BY <1>1, <1>2, <1>3 DEF Reloading, LoadReload, LoadReturns, Capture
<1>8. CacheEdited'
  BY <1>2, <1>3 DEF CacheEdited, DiffersWhereEdited
<1>9. SyncEdited'
  BY <1>2, <1>3 DEF SyncEdited, DiffersWhereEdited
<1>10. StageEdited'
  BY <1>1, <1>2, <1>3 DEF StageEdited, DiffersWhereEdited, LoadReload, Capture
<1> QED
  BY <1>4, <1>5, <1>6, <1>7, <1>8, <1>9, <1>10 DEF Followed

\* Reading the base for a load keeps Followed.
LEMMA LoadContextFollowed ==
  ASSUME Structure, Structure', Followed, ~Astray, ~Astray', LoadContext
  PROVE  Followed'
<1>1. TypeOK /\ Phases /\ Readers
  BY DEF Structure
<1>2. /\ Visible /\ Undisturbed /\ Tracks /\ Reloading
      /\ CacheEdited /\ SyncEdited /\ StageEdited
  BY DEF Followed
<1>3. UNCHANGED <<server, cache, fresh, view, stage, sync, recovery, edited, budget>>
  BY DEF LoadContext, history
<1>4. Visible'
  BY <1>2, <1>3 DEF Visible, HasConflictRevision
<1>5. Undisturbed'
  BY <1>2, <1>3 DEF Undisturbed
<1>6. Tracks'
  BY <1>2, <1>3 DEF Tracks, HasConflictRevision, Snapshot
<1>7. Reloading'
  BY <1>1, <1>2, <1>3 DEF Reloading, LoadContext
<1>8. CacheEdited'
  BY <1>2, <1>3 DEF CacheEdited, DiffersWhereEdited
<1>9. SyncEdited'
  BY <1>2, <1>3 DEF SyncEdited, DiffersWhereEdited
<1>10. StageEdited'
  BY <1>2, <1>3 DEF StageEdited, DiffersWhereEdited
<1> QED
  BY <1>4, <1>5, <1>6, <1>7, <1>8, <1>9, <1>10 DEF Followed

\* A load that another write overtook keeps Followed.
LEMMA LoadRetryFollowed ==
  ASSUME Structure, Structure', Followed, ~Astray, ~Astray', LoadRetry
  PROVE  Followed'
<1>1. TypeOK /\ Phases /\ Readers
  BY DEF Structure
<1>2. /\ Visible /\ Undisturbed /\ Tracks /\ Reloading
      /\ CacheEdited /\ SyncEdited /\ StageEdited
  BY DEF Followed
<1>3. UNCHANGED <<server, cache, view, stage, sync, recovery, edited, budget>>
  BY DEF LoadRetry, history
<1>4. Visible'
  BY <1>2, <1>3 DEF Visible, HasConflictRevision
<1>5. Undisturbed'
  BY <1>2, <1>3 DEF Undisturbed
<1>6. Tracks'
  BY <1>1, <1>2, <1>3 DEF Tracks, LoadRetry, LoadThrows, RestoreQueue
<1>7. Reloading'
  BY <1>1, <1>2, <1>3 DEF Reloading, LoadRetry, LoadThrows, RestoreQueue
<1>8. CacheEdited'
  BY <1>2, <1>3 DEF CacheEdited, DiffersWhereEdited
<1>9. SyncEdited'
  BY <1>2, <1>3 DEF SyncEdited, DiffersWhereEdited
<1>10. StageEdited'
  BY <1>1, <1>2, <1>3 DEF StageEdited, DiffersWhereEdited, LoadRetry,
     LoadThrows, RestoreQueue
<1> QED
  BY <1>4, <1>5, <1>6, <1>7, <1>8, <1>9, <1>10 DEF Followed

\* A load that returns keeps Followed.  The session follows the cache again
\* when the snapshot is still the cache's.
LEMMA LoadReturnFollowed ==
  ASSUME Structure, Structure', Followed, ~Astray, ~Astray', LoadReturn
  PROVE  Followed'
<1>1. TypeOK /\ Phases /\ Readers
  BY DEF Structure
<1>2. /\ Visible /\ Undisturbed /\ Tracks /\ Reloading
      /\ CacheEdited /\ SyncEdited /\ StageEdited
  BY DEF Followed
<1>3. UNCHANGED <<server, cache, stage, sync, recovery, edited, budget>>
  BY DEF LoadReturn, history
<1>4. Visible'
  BY <1>2, <1>3 DEF Visible, HasConflictRevision
<1>5. Undisturbed'
  BY <1>2, <1>3 DEF Undisturbed
<1>6. Tracks'
  <2>1. CASE view' = view /\ fresh' \in {fresh, fresh \cup {"observed"}}
    BY <1>2, <1>3, <2>1 DEF Tracks, Snapshot, HasConflictRevision
  <2>2. CASE view' = view /\ RestoreQueue
    BY <1>2, <1>3, <2>2 DEF Tracks, RestoreQueue, Snapshot, HasConflictRevision
  <2>3. CASE /\ sync.pc = "idle" /\ view' = Shown(load.result)
             /\ fresh' = (fresh \ {"view", "authority", "observed"})
                         \cup (IF "load" \in fresh THEN {"view", "authority"}
                               ELSE {})
    <3>1. /\ view'.held = None /\ view'.content = load.result.content
          /\ view'.conflicted = load.result.conflicted
      BY <2>3 DEF Shown
    <3>2. CASE "load" \in fresh
      <4>1. load.result = Snapshot(cache)
        BY <1>2, <3>2 DEF Reloading, LoadReturn
      <4> QED
        BY <1>1, <1>3, <2>3, <3>1, <4>1, SnapshotType DEF Tracks, TypeOK
    <3>3. CASE "load" \notin fresh
      BY <1>3, <2>3, <3>1, <3>3 DEF Tracks
    <3> QED
      BY <3>2, <3>3
  <2> QED
    BY <2>1, <2>2, <2>3 DEF LoadReturn, LoadThrows, Capture
<1>7. Reloading'
  <2>1. load'.pc \in {"idle", "fetch", "await"}
    BY IdleLoadType DEF LoadReturn, LoadThrows, IdleLoad, Loads
  <2>2. fresh' \subseteq fresh \cup {"view", "authority", "observed"}
    BY DEF LoadReturn, LoadThrows, RestoreQueue, Capture
  <2> QED
    BY <1>2, <1>3, <2>1, <2>2 DEF Reloading
<1>8. CacheEdited'
  BY <1>2, <1>3 DEF CacheEdited, DiffersWhereEdited
<1>9. SyncEdited'
  BY <1>2, <1>3 DEF SyncEdited, DiffersWhereEdited
<1>10. StageEdited'
  BY <1>1, <1>2, <1>3 DEF StageEdited, DiffersWhereEdited, LoadReturn,
     LoadThrows, RestoreQueue, Shown
<1> QED
  BY <1>4, <1>5, <1>6, <1>7, <1>8, <1>9, <1>10 DEF Followed

\* Starting a recovery keeps Followed.
LEMMA RecoveryStartFollowed ==
  ASSUME Structure, Structure', Followed, ~Astray, ~Astray',
         NEW kind \in {"proof", "fetch"}, RecoveryStart(kind)
  PROVE  Followed'
<1>1. TypeOK /\ Phases /\ Readers
  BY DEF Structure
<1>2. /\ Visible /\ Undisturbed /\ Tracks /\ Reloading
      /\ CacheEdited /\ SyncEdited /\ StageEdited
  BY DEF Followed
<1>3. UNCHANGED <<server, cache, fresh, view, stage, sync, edited, budget>>
  BY DEF RecoveryStart, history
<1>4. Visible'
  BY <1>2, <1>3 DEF Visible, HasConflictRevision
<1>5. Undisturbed'
  BY <1>2, <1>3 DEF Undisturbed
<1>6. Tracks'
  BY <1>2, <1>3 DEF Tracks, HasConflictRevision, Snapshot
<1>7. Reloading'
  BY <1>1, <1>2, <1>3 DEF Reloading, RecoveryStart
<1>8. CacheEdited'
  BY <1>2, <1>3 DEF CacheEdited, DiffersWhereEdited
<1>9. SyncEdited'
  BY <1>2, <1>3 DEF SyncEdited, DiffersWhereEdited
<1>10. StageEdited'
  BY <1>2, <1>3 DEF StageEdited, DiffersWhereEdited
<1> QED
  BY <1>4, <1>5, <1>6, <1>7, <1>8, <1>9, <1>10 DEF Followed

\* A recovery that has waited keeps Followed.
LEMMA RecoveryWaitedFollowed ==
  ASSUME Structure, Structure', Followed, ~Astray, ~Astray', RecoveryWaited
  PROVE  Followed'
<1>1. TypeOK /\ Phases /\ Readers
  BY DEF Structure
<1>2. /\ Visible /\ Undisturbed /\ Tracks /\ Reloading
      /\ CacheEdited /\ SyncEdited /\ StageEdited
  BY DEF Followed
<1>3. UNCHANGED <<server, cache, view, stage, sync, load, edited, budget>>
  BY DEF RecoveryWaited, history
<1>4. Visible'
  BY <1>2, <1>3 DEF Visible, HasConflictRevision
<1>5. Undisturbed'
  BY <1>2, <1>3 DEF Undisturbed
<1>6. Tracks'
  BY <1>1, <1>2, <1>3 DEF Tracks, RecoveryWaited, Capture
<1>7. Reloading'
  BY <1>1, <1>2, <1>3 DEF Reloading, RecoveryWaited, Capture
<1>8. CacheEdited'
  BY <1>2, <1>3 DEF CacheEdited, DiffersWhereEdited
<1>9. SyncEdited'
  BY <1>2, <1>3 DEF SyncEdited, DiffersWhereEdited
<1>10. StageEdited'
  BY <1>1, <1>2, <1>3 DEF StageEdited, DiffersWhereEdited, RecoveryWaited
<1> QED
  BY <1>4, <1>5, <1>6, <1>7, <1>8, <1>9, <1>10 DEF Followed

\* Reading the conflict to resolve keeps Followed.
LEMMA ResolveProofFollowed ==
  ASSUME Structure, Structure', Followed, ~Astray, ~Astray', ResolveProof
  PROVE  Followed'
<1>1. TypeOK /\ Phases /\ Readers
  BY DEF Structure
<1>2. /\ Visible /\ Undisturbed /\ Tracks /\ Reloading
      /\ CacheEdited /\ SyncEdited /\ StageEdited
  BY DEF Followed
<1>3. UNCHANGED <<server, cache, view, stage, sync, load, edited, budget>>
  BY DEF ResolveProof, history
<1>4. Visible'
  BY <1>2, <1>3 DEF Visible, HasConflictRevision
<1>5. Undisturbed'
  BY <1>2, <1>3 DEF Undisturbed
<1>6. Tracks'
  BY <1>1, <1>2, <1>3 DEF Tracks, ResolveProof, RestoreQueue, Capture
<1>7. Reloading'
  BY <1>1, <1>2, <1>3 DEF Reloading, ResolveProof, RestoreQueue, Capture
<1>8. CacheEdited'
  BY <1>2, <1>3 DEF CacheEdited, DiffersWhereEdited
<1>9. SyncEdited'
  BY <1>2, <1>3 DEF SyncEdited, DiffersWhereEdited
<1>10. StageEdited'
  BY <1>1, <1>2, <1>3 DEF StageEdited, DiffersWhereEdited, ResolveProof,
     RestoreQueue, Capture
<1> QED
  BY <1>4, <1>5, <1>6, <1>7, <1>8, <1>9, <1>10 DEF Followed

\* A resolution that returns keeps Followed.
LEMMA ResolveReturnFollowed ==
  ASSUME Structure, Structure', Followed, ~Astray, ~Astray', ResolveReturn
  PROVE  Followed'
<1>1. TypeOK /\ Phases /\ Readers
  BY DEF Structure
<1>2. /\ Visible /\ Undisturbed /\ Tracks /\ Reloading
      /\ CacheEdited /\ SyncEdited /\ StageEdited
  BY DEF Followed
<1>3. UNCHANGED <<server, cache, stage, sync, load, edited, budget>>
  BY DEF ResolveReturn, history
<1>4. Visible'
  BY <1>2, <1>3 DEF Visible, HasConflictRevision
<1>5. Undisturbed'
  BY <1>2, <1>3 DEF Undisturbed
<1>6. Tracks'
  BY <1>1, <1>2, <1>3 DEF Tracks, ResolveReturn, Shown, Snapshot
<1>7. Reloading'
  BY <1>1, <1>2, <1>3 DEF Reloading, ResolveReturn
<1>8. CacheEdited'
  BY <1>2, <1>3 DEF CacheEdited, DiffersWhereEdited
<1>9. SyncEdited'
  BY <1>2, <1>3 DEF SyncEdited, DiffersWhereEdited
<1>10. StageEdited'
  <2>1. stage.pc = "idle" /\ view'.head = None
        /\ fresh' = fresh \cup {"view", "authority"}
    BY <1>1 DEF ResolveReturn, Shown, Phases, Exclusive
  <2> QED
    BY <1>2, <1>3, <2>1, StageEditedKept
<1> QED
  BY <1>4, <1>5, <1>6, <1>7, <1>8, <1>9, <1>10 DEF Followed

\* A discard that has the server's content keeps Followed.
LEMMA DiscardFetchedFollowed ==
  ASSUME Structure, Structure', Followed, ~Astray, ~Astray', DiscardFetched
  PROVE  Followed'
<1>1. TypeOK /\ Phases /\ Readers
  BY DEF Structure
<1>2. /\ Visible /\ Undisturbed /\ Tracks /\ Reloading
      /\ CacheEdited /\ SyncEdited /\ StageEdited
  BY DEF Followed
<1>3. UNCHANGED <<server, cache, fresh, view, stage, sync, load, edited, budget>>
  BY DEF DiscardFetched, history
<1>4. Visible'
  BY <1>2, <1>3 DEF Visible, HasConflictRevision
<1>5. Undisturbed'
  BY <1>2, <1>3 DEF Undisturbed
<1>6. Tracks'
  BY <1>2, <1>3 DEF Tracks, HasConflictRevision, Snapshot
<1>7. Reloading'
  BY <1>2, <1>3 DEF Reloading, HasConflictRevision, Snapshot
<1>8. CacheEdited'
  BY <1>2, <1>3 DEF CacheEdited, DiffersWhereEdited
<1>9. SyncEdited'
  BY <1>2, <1>3 DEF SyncEdited, DiffersWhereEdited
<1>10. StageEdited'
  BY <1>2, <1>3 DEF StageEdited, DiffersWhereEdited
<1> QED
  BY <1>4, <1>5, <1>6, <1>7, <1>8, <1>9, <1>10 DEF Followed

\* A discard that fails keeps Followed.
LEMMA DiscardFailsFollowed ==
  ASSUME Structure, Structure', Followed, ~Astray, ~Astray', DiscardFails
  PROVE  Followed'
<1>1. TypeOK /\ Phases /\ Readers
  BY DEF Structure
<1>2. /\ Visible /\ Undisturbed /\ Tracks /\ Reloading
      /\ CacheEdited /\ SyncEdited /\ StageEdited
  BY DEF Followed
<1>3. UNCHANGED <<server, cache, view, stage, sync, load, edited, budget>>
  BY DEF DiscardFails, history
<1>4. Visible'
  BY <1>2, <1>3 DEF Visible, HasConflictRevision
<1>5. Undisturbed'
  BY <1>2, <1>3 DEF Undisturbed
<1>6. Tracks'
  BY <1>1, <1>2, <1>3 DEF Tracks, DiscardFails, RestoreQueue
<1>7. Reloading'
  BY <1>1, <1>2, <1>3 DEF Reloading, DiscardFails, RestoreQueue
<1>8. CacheEdited'
  BY <1>2, <1>3 DEF CacheEdited, DiffersWhereEdited
<1>9. SyncEdited'
  BY <1>2, <1>3 DEF SyncEdited, DiffersWhereEdited
<1>10. StageEdited'
  BY <1>1, <1>2, <1>3 DEF StageEdited, DiffersWhereEdited, DiscardFails,
     RestoreQueue
<1> QED
  BY <1>4, <1>5, <1>6, <1>7, <1>8, <1>9, <1>10 DEF Followed

\* A write of another client keeps Followed.
LEMMA OtherWritesFollowed ==
  ASSUME Structure, Structure', Followed, ~Astray, ~Astray', NEW u \in Editable,
         NEW v \in Slot, OtherWrites(u, v)
  PROVE  Followed'
<1>1. TypeOK /\ Phases /\ Readers
  BY DEF Structure
<1>2. /\ Visible /\ Undisturbed /\ Tracks /\ Reloading
      /\ CacheEdited /\ SyncEdited /\ StageEdited
  BY DEF Followed
<1>3. UNCHANGED <<cache, fresh, view, stage, sync, load, recovery, edited>>
  BY DEF OtherWrites
<1>4. Visible'
  BY <1>2, <1>3 DEF Visible, HasConflictRevision
<1>5. Undisturbed'
  BY <1>2, <1>3 DEF Undisturbed
<1>6. Tracks'
  BY <1>2, <1>3 DEF Tracks, HasConflictRevision, Snapshot
<1>7. Reloading'
  BY <1>2, <1>3 DEF Reloading, HasConflictRevision, Snapshot
<1>8. CacheEdited'
  BY <1>2, <1>3 DEF CacheEdited, DiffersWhereEdited
<1>9. SyncEdited'
  BY <1>2, <1>3 DEF SyncEdited, DiffersWhereEdited
<1>10. StageEdited'
  BY <1>2, <1>3 DEF StageEdited, DiffersWhereEdited
<1> QED
  BY <1>4, <1>5, <1>6, <1>7, <1>8, <1>9, <1>10 DEF Followed

\* A coherent entry without a conflict shows none.
LEMMA NoConflictNotShown ==
  ASSUME NEW c \in Caches, Coherent(c), c.conflict = None
  PROVE  ~HasConflictRevision(c)
BY DEF Coherent, HasConflictRevision

\* Tracks without its clause about what is held back.
TracksCache ==
  /\ "view" \in fresh => /\ "authority" \in fresh /\ view.held = None
                         /\ view.content = cache.content
  /\ "authority" \in fresh =>
       IF view.held = None THEN view.conflicted = HasConflictRevision(cache)
                           ELSE view.held = Snapshot(cache)

\* After a published write the authority is on the new entry, or has lost track
\* as before.
LEMMA PublishTracks ==
  ASSUME TypeOK, Tracks, NEW c \in Caches, NEW mayShow \in BOOLEAN,
         WriteAndPublish(c, mayShow)
  PROVE  /\ TracksCache'
         /\ view'.held # None => view.held # None
         /\ \/ mayShow /\ view'.head = None
            \/ view'.head = view.head /\ view'.content = view.content
<1>1. /\ view \in Views /\ Snapshot(c) \in Snapshots /\ Snapshot(c) # None
      /\ Snapshot(c).content = c.content
      /\ Snapshot(c).conflicted = HasConflictRevision(c)
      /\ cache' = c
  BY SnapshotType DEF TypeOK, WriteAndPublish
<1>2. CASE "authority" \in fresh /\ view.held = None
  <2>1. /\ Accepts(Snapshot(c), mayShow)
        /\ fresh' = {"authority"} \cup (IF mayShow THEN {"view"} ELSE {})
    BY <1>2 DEF WriteAndPublish
  <2>2. /\ view'.held = None /\ view'.conflicted = HasConflictRevision(c)
        /\ mayShow => view'.head = None /\ view'.content = c.content
        /\ ~mayShow => view'.head = view.head /\ view'.content = view.content
    BY <1>1, <2>1, AcceptsType
  <2> QED
    BY <1>1, <2>1, <2>2 DEF TracksCache
<1>3. CASE "authority" \in fresh /\ view.held # None
  <2>1. /\ view' = [view EXCEPT !.held = Snapshot(c)]
        /\ fresh' = fresh \cap {"authority", "observed"}
    BY <1>3 DEF WriteAndPublish
  <2>2. /\ view'.held = Snapshot(c)
        /\ view'.head = view.head /\ view'.content = view.content
    BY <1>1, <2>1 DEF Views
  <2> QED
    BY <1>1, <1>3, <2>1, <2>2 DEF TracksCache
<1>4. CASE "authority" \notin fresh
  BY <1>4 DEF WriteAndPublish, TracksCache
<1> QED
  BY <1>2, <1>3, <1>4

\* The same of a held write.
LEMMA HoldTracks ==
  ASSUME TypeOK, NEW c \in Caches, WriteAndHold(c)
  PROVE  /\ TracksCache'
         /\ view'.head = view.head /\ view'.content = view.content
<1>1. /\ view \in Views /\ Snapshot(c) # None /\ cache' = c
      /\ fresh' = fresh \cap {"authority", "observed"}
  BY SnapshotType DEF TypeOK, WriteAndHold
<1>2. CASE "authority" \in fresh
  <2>1. view' = [view EXCEPT !.held = Snapshot(c)]
    BY <1>2 DEF WriteAndHold
  <2>2. /\ view'.held = Snapshot(c)
        /\ view'.head = view.head /\ view'.content = view.content
    BY <1>1, <2>1 DEF Views
  <2> QED
    BY <1>1, <2>2 DEF TracksCache
<1>3. CASE "authority" \notin fresh
  BY <1>1, <1>3 DEF WriteAndHold, TracksCache
<1> QED
  BY <1>2, <1>3

\* The same of a write that ends a synchronisation, and nothing is held back
\* any more.
LEMMA ReturnTracks ==
  ASSUME TypeOK, NEW c \in Caches, WriteAndReturn(c)
  PROVE  /\ TracksCache' /\ view'.held = None
         /\ \/ stage.pc = "idle" /\ view'.head = None
            \/ view'.head = view.head /\ view'.content = view.content
<1>1. /\ view \in Views /\ Snapshot(c) \in Snapshots
      /\ Snapshot(c).content = c.content
      /\ Snapshot(c).conflicted = HasConflictRevision(c)
      /\ cache' = c
  BY SnapshotType DEF TypeOK, WriteAndReturn
<1>2. CASE "authority" \in fresh
  <2>1. /\ Accepts(Snapshot(c), MayShow)
        /\ fresh' = {"authority"} \cup (IF MayShow THEN {"view"} ELSE {})
    BY <1>2 DEF WriteAndReturn
  <2>2. /\ view'.held = None /\ view'.conflicted = HasConflictRevision(c)
        /\ MayShow => view'.head = None /\ view'.content = c.content
        /\ ~MayShow => view'.head = view.head /\ view'.content = view.content
    BY <1>1, <2>1, AcceptsType
  <2> QED
    BY <1>1, <2>1, <2>2 DEF TracksCache, MayShow
<1>3. CASE "authority" \notin fresh /\ view.held = None
  BY <1>3 DEF WriteAndReturn, TracksCache
<1>4. CASE "authority" \notin fresh /\ view.held # None
  <2>1. view.held \in Snapshots /\ Accepts(view.held, MayShow) /\ fresh' = {}
    BY <1>1, <1>4 DEF WriteAndReturn, Views
  <2>2. /\ view'.held = None
        /\ MayShow => view'.head = None
        /\ ~MayShow => view'.head = view.head /\ view'.content = view.content
    BY <1>1, <2>1, AcceptsType
  <2> QED
    BY <2>1, <2>2 DEF TracksCache, MayShow
<1> QED
  BY <1>2, <1>3, <1>4

\* After a write no stage has a reading that could be wrong.
LEMMA StageEditedAfterWrite ==
  ASSUME StageEdited, edited \subseteq edited',
         UNCHANGED stage \/ stage'.pc = "idle",
         "change" \notin fresh', "stage" \notin fresh',
         \/ stage'.pc = "idle" /\ view'.head = None
         \/ view'.head = view.head /\ view'.content = view.content
  PROVE  StageEdited'
BY DEF StageEdited, DiffersWhereEdited

\* A queue that is installed again is on the cache exactly when the session
\* shows it.
LEMMA RestoreQueueTracks ==
  ASSUME Tracks, RestoreQueue, UNCHANGED <<cache, view, sync>>
  PROVE  Tracks'
BY DEF Tracks, RestoreQueue, Snapshot, HasConflictRevision

\* The write of a stage keeps Followed.  The conflict is the one the stage has
\* seen, and ends only when the edits merge.
LEMMA StageWriteFollowed ==
  ASSUME Structure, Structure', Followed, StageWrite
  PROVE  Followed'
<1> DEFINE d == StageResult
           k == stage.conflict
<1>1. /\ TypeOK /\ Phases /\ stage.pc = "write" /\ "stage" \in fresh
      /\ stage' = IdleStage /\ WriteAndPublish(d, TRUE)
      /\ UNCHANGED <<server, sync, load, recovery, edited, budget>>
  BY DEF Structure, StageWrite, history
<1>2. /\ Visible /\ Undisturbed /\ Tracks /\ Reloading
      /\ CacheEdited /\ SyncEdited /\ StageEdited
  BY DEF Followed
<1>3. /\ d \in Caches /\ Coherent(d)
      /\ k = None =>
           /\ cache.conflict = None /\ d.conflict = None
           /\ d.content = stage.next /\ d.base = cache.base
           /\ cache.pendingBase # None => d.pendingBase = cache.pendingBase
      /\ k # None /\ cache.conflict = k /\ d.conflict = None =>
           /\ d.base = cache.remote
           /\ d.content = Edited(cache.base, stage.next, cache.remote)
      /\ k # None /\ cache.conflict = k /\ d.conflict # None =>
           /\ d.content = stage.next /\ d.base = cache.base
           /\ d.remote = cache.remote
           /\ cache.pendingBase # None => d.pendingBase = cache.pendingBase
  BY <1>1, StageResultFields
<1>4. cache.conflict = k
  BY <1>1, <1>2 DEF Reloading
<1>5. /\ TracksCache'
      /\ view'.held # None => view.held # None
      /\ \/ view'.head = None
         \/ view'.head = view.head /\ view'.content = view.content
      /\ fresh' \subseteq {"view", "authority", "observed"}
  <2>1. d \in Caches
    BY <1>3
  <2> HIDE DEF d
  <2>2. TracksCache' /\ (view'.held # None => view.held # None)
    BY <1>1, <1>2, <2>1, PublishTracks
  <2>3. \/ view'.head = None
        \/ view'.head = view.head /\ view'.content = view.content
    BY <1>1, <1>2, <2>1, PublishTracks
  <2> QED
    BY <1>1, <2>1, <2>2, <2>3, PublishType
<1>6. cache' = d
  BY <1>1 DEF WriteAndPublish
<1>7. stage'.pc = "idle"
  BY <1>1 DEF IdleStage
<1> HIDE DEF d, k
<1>8. Visible'
  <2>1. CASE d.conflict = None
    BY <1>3, <1>6, <2>1, NoConflictNotShown DEF Visible, HasConflictRevision
  <2>2. CASE d.conflict # None
    BY <1>2, <1>3, <1>4, <1>6, <2>2 DEF Visible, HasConflictRevision
  <2> QED
    BY <2>1, <2>2
<1>9. Undisturbed'
  <2>1. ASSUME sync.pc # "idle" PROVE d.conflict = None /\ k = None
    BY <1>2, <1>3, <1>4, <2>1 DEF Undisturbed
  <2>2. ASSUME sync.pc \notin Quiet PROVE d.pendingBase = sync.revision
    <3>1. sync.revision \in Content /\ cache.pendingBase = sync.revision
          /\ sync.pc # "idle"
      BY <1>1, <1>2, <2>2 DEF Phases, SyncData, Undisturbed, Quiet
    <3> QED
      BY <1>3, <2>1, <3>1, NoneAssumption
  <2> QED
    BY <1>1, <1>2, <1>6, <2>1, <2>2 DEF Undisturbed
<1>10. Tracks'
  BY <1>1, <1>2, <1>5 DEF Tracks, TracksCache
<1>11. Reloading'
  BY <1>5, <1>7 DEF Reloading
<1>12. DiffersWhereEdited(stage.next, cache.content)
  BY <1>1, <1>2 DEF StageEdited
<1>13. CacheEdited'
  <2>1. \A u \in Unit : stage.next[u] # cache.base[u] => u \in edited
    BY <1>2, <1>12 DEF CacheEdited, DiffersWhereEdited
  <2>2. CASE k # None /\ d.conflict = None
    BY <1>1, <1>3, <1>4, <1>6, <2>1, <2>2 DEF CacheEdited, DiffersWhereEdited,
       Edited
  <2>3. CASE ~(k # None /\ d.conflict = None)
    <3>1. d.content = stage.next /\ d.base = cache.base
      BY <1>3, <1>4, <2>3
    <3> QED
      BY <1>1, <1>6, <2>1, <3>1 DEF CacheEdited, DiffersWhereEdited
  <2> QED
    BY <2>2, <2>3
<1>14. SyncEdited'
  <2>1. ASSUME sync.pc \notin Quiet
        PROVE  /\ DiffersWhereEdited(sync.local, sync.revision)
               /\ DiffersWhereEdited(d.content, sync.local)
    <3>1. k = None
      BY <1>2, <1>4, <2>1 DEF Undisturbed, Quiet
    <3>2. d.content = stage.next
      BY <1>3, <3>1
    <3> QED
      BY <1>2, <1>12, <2>1, <3>2 DEF SyncEdited, DiffersWhereEdited
  <2> QED
    BY <1>1, <1>6, <2>1 DEF SyncEdited, DiffersWhereEdited
<1>15. StageEdited'
  BY <1>1, <1>2, <1>5, <1>7, StageEditedAfterWrite
<1> QED
  BY <1>8, <1>9, <1>10, <1>11, <1>13, <1>14, <1>15 DEF Followed

\* A write that ends a synchronisation keeps Followed when the entry it writes
\* shows its conflict and differs from its base where the user edited.
LEMMA SyncReturnFollowed ==
  ASSUME TypeOK, Followed, NEW c \in Caches, WriteAndReturn(c),
         UNCHANGED <<stage, load, edited>>,
         (c.conflict # None) = HasConflictRevision(c),
         DiffersWhereEdited(c.content, c.base)
  PROVE  Followed'
<1>1. /\ cache' = c /\ sync'.pc = "idle"
      /\ fresh' \subseteq {"view", "authority", "observed"}
  BY ReturnType, IdleSyncData
<1>2. /\ TracksCache' /\ view'.held = None
      /\ \/ stage.pc = "idle" /\ view'.head = None
         \/ view'.head = view.head /\ view'.content = view.content
  BY ReturnTracks
<1>3. Visible' /\ CacheEdited'
  BY <1>1 DEF Visible, CacheEdited, DiffersWhereEdited
<1>4. Undisturbed' /\ SyncEdited'
  BY <1>1 DEF Undisturbed, SyncEdited, Quiet, Sending
<1>5. Tracks'
  BY <1>2 DEF Tracks, TracksCache
<1>6. Reloading'
  BY <1>1 DEF Reloading
<1>7. StageEdited'
  BY <1>1, <1>2, StageEditedAfterWrite DEF Followed
<1> QED
  BY <1>3, <1>4, <1>5, <1>6, <1>7 DEF Followed

\* Recording a conflict keeps Followed.  The remote content is not the base, or
\* there would be no conflict.
LEMMA SyncRecordFollowed ==
  ASSUME Structure, Followed, SyncRecord
  PROVE  Followed'
<1>1. /\ TypeOK /\ Phases /\ BaseIsKnown /\ sync.pc = "record"
      /\ UNCHANGED <<server, stage, load, recovery, edited, budget>>
  BY DEF Structure, SyncRecord, history
<1>2. CASE "sync" \notin fresh
  BY <1>1, <1>2, NextAttemptFollowed DEF SyncRecord
<1>3. CASE "sync" \in fresh
  <2> DEFINE d == WithConflict(cache, sync.base, cache.content, sync.remote,
                    ConflictUnits(sync.base, sync.local, sync.remote))
  <2>1. /\ d \in Caches
        /\ d.content = cache.content /\ d.pendingBase = cache.pendingBase
        /\ d.base = sync.base /\ d.remote = sync.remote /\ d.conflict # None
    BY <1>1, <1>3, RecordedFields
  <2>2. WriteAndReturn(d)
    BY <1>3 DEF SyncRecord
  <2> HIDE DEF d
  <2>3. /\ sync.local \in Content /\ sync.base \in Content
        /\ sync.base = sync.revision
        /\ ~Merges(sync.base, sync.local, sync.remote)
    BY <1>1 DEF Phases, SyncData, Sending, Quiet
  <2>4. cache.conflict = None /\ cache.pendingBase = sync.base
    BY <1>1, <2>3 DEF Followed, Undisturbed, Quiet
  <2>5. sync.base = cache.base
    BY <1>1, <2>3, <2>4, NoneAssumption DEF BaseIsKnown
  <2>6. sync.base # sync.remote
    BY <2>3, NothingNew
  <2>7. HasConflictRevision(d)
    BY <2>1, <2>3, <2>4, <2>6, NoneAssumption DEF HasConflictRevision
  <2>8. DiffersWhereEdited(d.content, d.base)
    BY <2>1, <2>5 DEF Followed, CacheEdited
  <2> QED
    BY <1>1, <2>1, <2>2, <2>7, <2>8, SyncReturnFollowed
<1> QED
  BY <1>2, <1>3

\* Reconciling after a refusal keeps Followed.  A conflict has another remote
\* content than the base.
LEMMA SyncReconcileFollowed ==
  ASSUME Structure, Followed, SyncReconcile
  PROVE  Followed'
<1> DEFINE c == Reconciled(cache, cache.base, sync.local, sync.remote)
<1>1. /\ TypeOK /\ Phases /\ BaseIsKnown /\ sync.pc = "reconcile"
      /\ UNCHANGED <<server, stage, load, recovery, edited, budget>>
  BY DEF Structure, SyncReconcile, history
<1>2. CASE "sync" \notin fresh
  BY <1>1, <1>2, NextAttemptFollowed DEF SyncReconcile
<1>3. CASE "sync" \in fresh
  <2>1. /\ cache \in Caches /\ cache.base \in Content
        /\ cache.content = sync.local
        /\ sync.local \in Content /\ sync.remote \in Content
        /\ sync.revision \in Content
    BY <1>1, <1>3, CacheFields DEF Structure, TypeOK, Readers, Phases,
       SyncData, Sending, Quiet
  <2>2. /\ c \in Caches /\ Coherent(c) /\ c.remote = sync.remote
        /\ Merges(cache.base, sync.local, sync.remote) =>
             /\ c.conflict = None /\ c.base = sync.remote
             /\ ~HasConflictRevision(c)
             /\ c.content = Edited(cache.base, sync.local, sync.remote)
        /\ ~Merges(cache.base, sync.local, sync.remote) =>
             /\ c.conflict # None /\ c.base = cache.base
             /\ c.content = sync.local /\ c.pendingBase = cache.pendingBase
    BY <2>1, ReconciledFields
  <2>3. \/ WriteAndReturn(c)
        \/ /\ Attempts /\ ~HasConflictRevision(c)
           /\ sync' = Attempt /\ WriteAndHold(c)
        \/ /\ SyncEnds /\ cache' = c /\ fresh' = fresh \cap {"observed"}
           /\ view' = [view EXCEPT !.held = None]
    BY <1>3 DEF SyncReconcile
  <2> HIDE DEF c
  <2>4. /\ Visible /\ Undisturbed /\ Tracks /\ CacheEdited /\ StageEdited
    BY DEF Followed
  <2>5. cache.pendingBase = sync.revision /\ cache.pendingBase = cache.base
    <3>1. cache.conflict = None /\ cache.pendingBase = sync.revision
      BY <1>1, <2>4 DEF Undisturbed, Quiet
    <3> QED
      BY <1>1, <2>1, <3>1, NoneAssumption DEF BaseIsKnown
  <2>6. (c.conflict # None) = HasConflictRevision(c)
    <3>1. CASE Merges(cache.base, sync.local, sync.remote)
      BY <2>2, <3>1 DEF HasConflictRevision
    <3>2. CASE ~Merges(cache.base, sync.local, sync.remote)
      <4>1. cache.base # sync.remote
        BY <2>1, <3>2, NothingNew
      <4> QED
        BY <2>1, <2>2, <2>5, <3>2, <4>1, NoneAssumption DEF HasConflictRevision
    <3> QED
      BY <3>1, <3>2
  <2>7. DiffersWhereEdited(c.content, c.base)
    <3>1. DiffersWhereEdited(sync.local, cache.base)
      BY <2>1, <2>4 DEF CacheEdited
    <3>2. CASE Merges(cache.base, sync.local, sync.remote)
      BY <2>2, <3>1, <3>2 DEF DiffersWhereEdited, Edited
    <3>3. CASE ~Merges(cache.base, sync.local, sync.remote)
      BY <2>2, <3>1, <3>3
    <3> QED
      BY <3>2, <3>3
  <2>8. CASE WriteAndReturn(c)
    BY <1>1, <2>2, <2>6, <2>7, <2>8, SyncReturnFollowed
  <2>9. CASE ~WriteAndReturn(c)
    <3>1. /\ cache' = c /\ TracksCache' /\ sync'.pc \in Quiet
          /\ view'.head = view.head /\ view'.content = view.content
          /\ fresh' \subseteq {"authority", "observed"}
          /\ view'.held # None => sync'.pc # "idle"
          /\ sync'.pc # "idle" => c.conflict = None
      <4>1. CASE /\ Attempts /\ ~HasConflictRevision(c)
                 /\ sync' = Attempt /\ WriteAndHold(c)
        <5>1. sync'.pc = "load"
          BY <1>1, <4>1, AttemptType
        <5>2. cache' = c /\ fresh' \subseteq {"authority", "observed"}
          BY <4>1 DEF WriteAndHold
        <5> QED
          BY <1>1, <2>2, <2>6, <4>1, <5>1, <5>2, HoldTracks DEF Quiet
      <4>2. CASE /\ SyncEnds /\ cache' = c /\ fresh' = fresh \cap {"observed"}
                 /\ view' = [view EXCEPT !.held = None]
        <5>1. /\ view'.head = view.head /\ view'.content = view.content
              /\ view'.held = None
          BY <1>1, <4>2 DEF TypeOK, Views
        <5>2. sync'.pc = "idle"
          BY <4>2, IdleSyncData DEF SyncEnds
        <5> QED
          BY <4>2, <5>1, <5>2 DEF TracksCache, Quiet
      <4> QED
        BY <2>3, <2>9, <4>1, <4>2
    <3>2. Visible' /\ CacheEdited'
      BY <1>1, <2>6, <2>7, <3>1 DEF Visible, CacheEdited, DiffersWhereEdited
    <3>3. Undisturbed' /\ SyncEdited'
      BY <3>1 DEF Undisturbed, SyncEdited, Quiet, Sending
    <3>4. Tracks' /\ Reloading'
      BY <3>1 DEF Tracks, TracksCache, Reloading
    <3>5. StageEdited'
      BY <1>1, <2>4, <3>1, StageEditedAfterWrite
    <3> QED
      BY <3>2, <3>3, <3>4, <3>5 DEF Followed
  <2> QED
    BY <2>8, <2>9
<1> QED
  BY <1>2, <1>3

\* Installing an answer keeps Followed.  An edit made in flight conflicts only
\* with an answer that is not the base.
LEMMA InstallWriteFollowed ==
  ASSUME Structure, Followed, ~Astray, InstallWrite
  PROVE  Followed'
<1>1. /\ TypeOK /\ Phases /\ sync.pc = "write" /\ "install" \in fresh
      /\ UNCHANGED <<server, stage, load, recovery, edited, budget>>
  BY DEF Structure, InstallWrite, history
<1>2. /\ Visible /\ Undisturbed /\ Tracks /\ Reloading
      /\ CacheEdited /\ SyncEdited /\ StageEdited
  BY DEF Followed
<1>3. /\ sync.local \in Content /\ sync.seen \in Content
      /\ sync.remote \in Content /\ sync.revision \in Content
      /\ sync.base = sync.revision
  BY <1>1 DEF Phases, SyncData, Sending, Quiet
<1>4. /\ cache.conflict = None /\ cache.pendingBase = sync.revision
      /\ \A u \in Unit : sync.local[u] # sync.base[u] =>
                           sync.remote[u] = sync.local[u]
      /\ DiffersWhereEdited(cache.content, sync.local)
  BY <1>1, <1>2 DEF Undisturbed, SyncEdited, Quiet
<1>5. /\ Installed \in Caches /\ Coherent(Installed)
      /\ Installed.remote = sync.remote
      /\ cache.content = sync.seen
      /\ sync.same => sync.seen = sync.local
      /\ sync.same => /\ Installed.content = sync.remote
                      /\ Installed.base = sync.remote
                      /\ Installed.conflict = None
                      /\ Installed.pendingBase = None
      /\ ~sync.same /\ Merges(sync.local, sync.seen, sync.remote) =>
           /\ Installed.conflict = None /\ Installed.base = sync.remote
           /\ ~HasConflictRevision(Installed)
           /\ Installed.content = Edited(sync.local, sync.seen, sync.remote)
      /\ ~sync.same /\ ~Merges(sync.local, sync.seen, sync.remote) =>
           /\ Installed.conflict # None /\ Installed.base = sync.local
           /\ Installed.content = sync.seen
           /\ Installed.pendingBase = cache.pendingBase
  BY <1>1, InstalledFields
<1>6. CASE sync.same /\ sync.remote = sync.local
  <2>1. cache' = Installed /\ sync'.pc = "idle" /\ HandOver
    BY <1>6, IdleSyncData DEF InstallWrite, Returns, SyncEnds
  <2>2. /\ cache'.content = cache.content /\ cache'.conflict = None
        /\ ~HasConflictRevision(cache') /\ cache'.base = cache'.content
    BY <1>5, <1>6, <2>1 DEF HasConflictRevision
  <2>3. HasConflictRevision(cache') = HasConflictRevision(cache)
    BY <1>2, <1>4, <2>2 DEF Visible, HasConflictRevision
  <2>4. Tracks' /\ view'.held = None
    BY <1>1, <1>2, <2>1, <2>2, <2>3, HandOverTracks
  <2>5. StageEdited'
    BY <1>1, <1>2, <2>1, <2>2, HandOverStaged, StageEditedKept
  <2>6. Visible' /\ CacheEdited'
    BY <2>2 DEF Visible, CacheEdited, DiffersWhereEdited, HasConflictRevision
  <2>7. Undisturbed' /\ SyncEdited'
    BY <2>1 DEF Undisturbed, SyncEdited, Quiet, Sending
  <2>8. Reloading'
    <3>1. load.pc \notin {"context", "rebase"}
      BY <1>1 DEF Astray, Overlapping
    <3>2. \A x \in {"load", "stage"} : x \in fresh' => x \in fresh
      BY <1>1, <2>1, HandOverType
    <3>3. Snapshot(cache') = Snapshot(cache)
      BY <2>2, <2>3 DEF Snapshot
    <3> QED
      BY <1>1, <1>2, <1>4, <2>2, <3>1, <3>2, <3>3 DEF Reloading
  <2> QED
    BY <2>4, <2>5, <2>6, <2>7, <2>8 DEF Followed
<1>7. CASE ~(sync.same /\ sync.remote = sync.local)
  <2>1. WriteAndReturn(Installed)
    BY <1>7 DEF InstallWrite
  <2>2. (Installed.conflict # None) = HasConflictRevision(Installed)
    <3>1. CASE sync.same \/ Merges(sync.local, sync.seen, sync.remote)
      BY <1>5, <3>1 DEF HasConflictRevision
    <3>2. CASE ~sync.same /\ ~Merges(sync.local, sync.seen, sync.remote)
      <4>1. sync.revision # sync.remote
        <5>1. SUFFICES ASSUME sync.revision = sync.remote PROVE FALSE
          OBVIOUS
        <5>2. \A u \in Unit : sync.local[u] = sync.remote[u]
          BY <1>3, <1>4, <5>1
        <5>3. sync.local = sync.remote
          BY <1>3, <5>2 DEF Content
        <5> QED
          BY <1>3, <3>2, <5>3, NothingNew
      <4> QED
        BY <1>3, <1>4, <1>5, <3>2, <4>1, NoneAssumption DEF HasConflictRevision
    <3> QED
      BY <3>1, <3>2
  <2>3. DiffersWhereEdited(Installed.content, Installed.base)
    <3>1. CASE sync.same
      BY <1>5, <3>1 DEF DiffersWhereEdited
    <3>2. CASE ~sync.same /\ Merges(sync.local, sync.seen, sync.remote)
      BY <1>4, <1>5, <3>2 DEF DiffersWhereEdited, Edited
    <3>3. CASE ~sync.same /\ ~Merges(sync.local, sync.seen, sync.remote)
      BY <1>4, <1>5, <3>3 DEF DiffersWhereEdited
    <3> QED
      BY <3>1, <3>2, <3>3
  <2> QED
    BY <1>1, <1>5, <2>1, <2>2, <2>3, SyncReturnFollowed
<1> QED
  BY <1>6, <1>7

\* The write of a load keeps Followed.  A conflict has another remote content
\* than the pending base, since Returned is excluded.
LEMMA LoadWriteFollowed ==
  ASSUME Structure, Followed, ~Astray, LoadWrite
  PROVE  Followed'
<1>1. /\ TypeOK /\ Phases /\ BaseIsKnown
      /\ load.pc \in {"rebase", "replace"} /\ "load" \in fresh
      /\ cache' = Loaded /\ load' = LoadReturns(Loaded)
      /\ fresh' \subseteq {"observed", "load"}
      /\ UNCHANGED <<server, view, stage, sync, recovery, edited, budget>>
  BY DEF Structure, LoadWrite, Loaded, WriteSilently, history
<1>2. /\ Visible /\ Undisturbed /\ Tracks /\ Reloading
      /\ CacheEdited /\ SyncEdited /\ StageEdited
  BY DEF Followed
<1>3. /\ Loaded \in Caches /\ Coherent(Loaded)
      /\ load.pc = "replace" =>
           /\ cache.pendingBase = None
           /\ Loaded.content = load.remote /\ Loaded.base = load.remote
           /\ Loaded.conflict = None /\ Loaded.pendingBase = None
      /\ load.pc = "rebase" => cache.content = load.seen
      /\ load.pc = "rebase" /\ Merges(load.base, load.seen, load.remote) =>
           /\ Loaded.conflict = None /\ Loaded.base = load.remote
           /\ ~HasConflictRevision(Loaded)
           /\ Loaded.content = Edited(load.base, load.seen, load.remote)
      /\ load.pc = "rebase" /\ ~Merges(load.base, load.seen, load.remote) =>
           /\ Loaded.conflict # None /\ Loaded.base = load.base
           /\ Loaded.content = load.seen /\ Loaded.remote = load.remote
           /\ Loaded.pendingBase = cache.pendingBase
  BY <1>1, LoadedFields
<1>4. load'.pc = "return" /\ load'.result = Snapshot(Loaded)
  BY <1>1, <1>3, LoadReturnsType DEF TypeOK
<1>5. sync.pc = "idle"
  BY <1>1 DEF Astray, Overlapping
<1>6. load.pc = "rebase" =>
        /\ cache.pendingBase # None /\ load.remote # cache.pendingBase
        /\ load.base = cache.base
  <2>1. SUFFICES ASSUME load.pc = "rebase"
                 PROVE  /\ cache.pendingBase # None
                        /\ load.remote # cache.pendingBase
                        /\ load.base = cache.base
    OBVIOUS
  <2>2. /\ cache.pendingBase # None /\ load.remote # cache.remote
        /\ load.base = cache.base
    BY <1>1, <1>2, <2>1 DEF Reloading
  <2>3. CASE cache.conflict = None
    BY <1>1, <2>2, <2>3 DEF BaseIsKnown
  <2>4. CASE cache.conflict # None
    BY <2>1, <2>2, <2>4 DEF Astray, Returned
  <2> QED
    BY <2>3, <2>4
<1>7. Visible'
  <2>1. CASE load.pc = "rebase" /\ ~Merges(load.base, load.seen, load.remote)
    BY <1>1, <1>3, <1>6, <2>1 DEF Visible, HasConflictRevision
  <2>2. CASE ~(load.pc = "rebase" /\ ~Merges(load.base, load.seen, load.remote))
    BY <1>1, <1>3, <2>2 DEF Visible, HasConflictRevision
  <2> QED
    BY <2>1, <2>2
<1>8. CacheEdited'
  <2>1. CASE load.pc = "replace"
    BY <1>1, <1>3, <2>1 DEF CacheEdited, DiffersWhereEdited
  <2>2. CASE load.pc = "rebase"
    <3>1. \A u \in Unit : load.seen[u] # load.base[u] => u \in edited
      BY <1>2, <1>3, <1>6, <2>2 DEF CacheEdited, DiffersWhereEdited
    <3> QED
      BY <1>1, <1>3, <2>2, <3>1 DEF CacheEdited, DiffersWhereEdited, Edited
  <2> QED
    BY <1>1, <2>1, <2>2
<1>9. Undisturbed' /\ SyncEdited'
  BY <1>1, <1>5 DEF Undisturbed, SyncEdited, Quiet, Sending
<1>10. Tracks'
  BY <1>1, <1>2 DEF Tracks
<1>11. Reloading'
  BY <1>1, <1>4 DEF Reloading
<1>12. StageEdited'
  BY <1>1, <1>2, StageEditedAfterWrite
<1> QED
  BY <1>7, <1>8, <1>9, <1>10, <1>11, <1>12 DEF Followed

\* A resolution keeps Followed.  What the user kept counts as edited.
LEMMA ResolveFollowed ==
  ASSUME Structure, Followed, NEW choice \in {"local", "remote"},
         Resolve(choice)
  PROVE  Followed'
<1>1. /\ TypeOK /\ UNCHANGED <<server, view, stage, load, budget>>
  BY DEF Structure, Resolve
<1>2. /\ Visible /\ Undisturbed /\ Tracks /\ Reloading
      /\ CacheEdited /\ SyncEdited /\ StageEdited
  BY DEF Followed
<1>3. CASE "recovery" \in fresh /\ cache.conflict # None
           /\ cache.remote = recovery.remote
           /\ cache.conflict.remote = recovery.remote
  <2> DEFINE k == cache.conflict
             m == Resolution(choice)
             c == Rebased(m, k.remote)
  <2>1. /\ WriteSilently(c, "recovery")
        /\ edited' = edited \cup {u \in Unit : m[u] # k.remote[u]}
        /\ sync' = [IdleSync EXCEPT !.pc = "load"]
    BY <1>3 DEF Resolve, Resolution
  <2>2. /\ cache \in Caches /\ cache.content \in Content
        /\ k.base \in Content /\ k.remote \in Content
    BY <1>1, <1>3, CacheFields DEF TypeOK
  <2>3. m \in Content
    BY <2>2, MergedContentType DEF Resolution
  <2>4. /\ c.content = m /\ c.base = k.remote /\ c.conflict = None
        /\ ~HasConflictRevision(c)
    BY <2>2, <2>3, RebasedFields
  <2>5. cache' = c /\ fresh' \subseteq {"observed", "recovery"}
    BY <2>1 DEF WriteSilently
  <2> HIDE DEF m, c, k
  <2>6. sync'.pc = "load"
    BY <2>1, IdleSyncType DEF Syncs
  <2>7. Visible'
    BY <2>4, <2>5 DEF Visible, HasConflictRevision
  <2>8. CacheEdited'
    BY <2>1, <2>4, <2>5 DEF CacheEdited, DiffersWhereEdited
  <2>9. Undisturbed' /\ SyncEdited'
    BY <2>4, <2>5, <2>6 DEF Undisturbed, SyncEdited, Quiet, Sending
  <2>10. Tracks' /\ Reloading'
    BY <2>5, <2>6 DEF Tracks, Reloading
  <2>11. StageEdited'
    BY <1>1, <1>2, <2>1, <2>5, StageEditedAfterWrite
  <2> QED
    BY <2>7, <2>8, <2>9, <2>10, <2>11 DEF Followed
<1>4. CASE ~( /\ "recovery" \in fresh /\ cache.conflict # None
              /\ cache.remote = recovery.remote
              /\ cache.conflict.remote = recovery.remote)
  <2>1. RestoreQueue /\ UNCHANGED <<cache, sync, edited>>
    BY <1>4 DEF Resolve
  <2>2. \A x \in {"load", "stage", "change"} : x \in fresh' => x \in fresh
    BY <2>1 DEF RestoreQueue
  <2>3. Tracks'
    BY <1>1, <1>2, <2>1, RestoreQueueTracks
  <2>4. StageEdited'
    BY <1>1, <1>2, <2>1, <2>2, StageEditedKept
  <2>5. Visible' /\ CacheEdited' /\ Undisturbed' /\ SyncEdited'
    BY <1>2, <2>1 DEF Visible, CacheEdited, Undisturbed, SyncEdited,
       DiffersWhereEdited
  <2>6. Reloading'
    BY <1>1, <1>2, <2>1, <2>2 DEF Reloading, Snapshot, HasConflictRevision
  <2> QED
    BY <2>3, <2>4, <2>5, <2>6 DEF Followed
<1> QED
  BY <1>3, <1>4

\* A discard keeps Followed.  Nothing is pending any more.
LEMMA DiscardFollowed ==
  ASSUME Structure, Followed, Discard
  PROVE  Followed'
<1>1. /\ TypeOK /\ Phases /\ recovery.pc = "replace"
      /\ recovery.remote \in Content
      /\ sync.pc = "idle" /\ stage.pc = "idle"
      /\ UNCHANGED <<server, stage, sync, load, edited, budget>>
  BY DEF Structure, Phases, RecoveryData, Exclusive, Discard, history
<1>2. /\ Visible /\ Undisturbed /\ Tracks /\ Reloading
      /\ CacheEdited /\ SyncEdited /\ StageEdited
  BY DEF Followed
<1>3. CASE "recovery" \in fresh
  <2> DEFINE c == Rebased(recovery.remote, recovery.remote)
  <2>1. /\ cache' = c /\ view' = Shown(Snapshot(cache'))
        /\ fresh' = (fresh \cap {"observed"}) \cup {"view", "authority"}
    BY <1>3 DEF Discard, Replaced
  <2>2. /\ c.content = c.base /\ c.conflict = None /\ ~HasConflictRevision(c)
    BY <1>1, RebasedFields
  <2> HIDE DEF c
  <2>3. /\ view'.held = None /\ view'.head = None
        /\ view'.content = cache'.content
        /\ view'.conflicted = HasConflictRevision(cache')
    BY <2>1 DEF Shown, Snapshot
  <2>4. Visible' /\ CacheEdited'
    BY <2>1, <2>2 DEF Visible, CacheEdited, DiffersWhereEdited,
       HasConflictRevision
  <2>5. Undisturbed' /\ SyncEdited'
    BY <1>1 DEF Undisturbed, SyncEdited, Quiet, Sending
  <2>6. Tracks' /\ Reloading'
    BY <2>1, <2>3 DEF Tracks, Reloading
  <2>7. StageEdited'
    BY <1>1, <1>2, <2>1, <2>3, StageEditedAfterWrite
  <2> QED
    BY <2>4, <2>5, <2>6, <2>7 DEF Followed
<1>4. CASE "recovery" \notin fresh
  <2>1. RestoreQueue /\ UNCHANGED <<cache, view>>
    BY <1>4 DEF Discard
  <2>2. \A x \in {"load", "stage", "change"} : x \in fresh' => x \in fresh
    BY <2>1 DEF RestoreQueue
  <2>3. Tracks'
    BY <1>1, <1>2, <2>1, RestoreQueueTracks
  <2>4. StageEdited'
    BY <1>1, <1>2, <2>1, <2>2, StageEditedKept
  <2>5. Visible' /\ CacheEdited' /\ Undisturbed' /\ SyncEdited'
    BY <1>1, <1>2, <2>1 DEF Visible, CacheEdited, Undisturbed, SyncEdited,
       DiffersWhereEdited
  <2>6. Reloading'
    BY <1>1, <1>2, <2>1, <2>2 DEF Reloading, Snapshot, HasConflictRevision
  <2> QED
    BY <2>3, <2>4, <2>5, <2>6 DEF Followed
<1> QED
  BY <1>3, <1>4

\* The steps of the user's session keep Structure.
LEMMA SessionStepKeepsStructure ==
  ASSUME Structure, SessionStep
  PROVE  Structure'
<1>1. astray' \in BOOLEAN
  BY DEF SessionStep, Tracked
<1>2. ASSUME NEW u \in Editable, NEW v \in Slot, Edit(u, v) PROVE Structure'
  BY <1>1, <1>2, EditStructure
<1>3. ASSUME SyncStart PROVE Structure'
  BY <1>1, <1>3, SyncStartStructure
<1>4. ASSUME LoadStart PROVE Structure'
  BY <1>1, <1>4, LoadStartStructure
<1>5. ASSUME NEW kind \in {"proof", "fetch"}, RecoveryStart(kind) PROVE Structure'
  BY <1>1, <1>5, RecoveryStartStructure
<1> QED
  BY <1>2, <1>3, <1>4, <1>5 DEF SessionStep

\* The steps of a stage keep Structure.
LEMMA StageStepKeepsStructure ==
  ASSUME Structure, StageStep
  PROVE  Structure'
<1>1. astray' \in BOOLEAN
  BY DEF StageStep, Tracked
<1>2. ASSUME StageLoad PROVE Structure'
  BY <1>1, <1>2, StageLoadStructure
<1>3. ASSUME StageContext PROVE Structure'
  BY <1>1, <1>3, StageContextStructure
<1>4. ASSUME StageWrite PROVE Structure'
  BY <1>1, <1>4, StageWriteStructure
<1>5. ASSUME StageRetry PROVE Structure'
  BY <1>1, <1>5, StageRetryStructure
<1>6. ASSUME StageFlush PROVE Structure'
  BY <1>1, <1>6, StageFlushStructure
<1> QED
  BY <1>2, <1>3, <1>4, <1>5, <1>6 DEF StageStep

\* The steps of a synchronisation keep Structure.
LEMMA SyncStepKeepsStructure ==
  ASSUME Structure, SyncStep
  PROVE  Structure'
<1>1. astray' \in BOOLEAN
  BY DEF SyncStep, Tracked
<1>2. ASSUME SyncServed PROVE Structure'
  BY <1>1, <1>2, SyncServedStructure
<1>3. ASSUME NEW reply \in {"merge_conflict", "resource_conflict"}, SyncRefused(reply)
      PROVE  Structure'
  BY <1>1, <1>3, SyncRefusedStructure
<1>4. ASSUME SyncFails PROVE Structure'
  BY <1>1, <1>4, SyncFailsStructure
<1>5. ASSUME SyncFetched PROVE Structure'
  BY <1>1, <1>5, SyncFetchedStructure
<1>6. ASSUME SyncLoad PROVE Structure'
  BY <1>1, <1>6, SyncLoadStructure
<1>7. ASSUME SyncContext PROVE Structure'
  BY <1>1, <1>7, SyncContextStructure
<1>8. ASSUME SyncRecord PROVE Structure'
  BY <1>1, <1>8, SyncRecordStructure
<1>9. ASSUME SyncReconcile PROVE Structure'
  BY <1>1, <1>9, SyncReconcileStructure
<1>10. ASSUME InstallLoad PROVE Structure'
  BY <1>1, <1>10, InstallLoadStructure
<1>11. ASSUME InstallWrite PROVE Structure'
  BY <1>1, <1>11, InstallWriteStructure
<1>12. ASSUME InstallRetry PROVE Structure'
  BY <1>1, <1>12, InstallRetryStructure
<1> QED
  BY <1>2, <1>3, <1>4, <1>5, <1>6, <1>7, <1>8, <1>9, <1>10, <1>11, <1>12 DEF
     SyncStep

\* The steps of a load keep Structure.
LEMMA LoadStepKeepsStructure ==
  ASSUME Structure, LoadStep
  PROVE  Structure'
<1>1. astray' \in BOOLEAN
  BY DEF LoadStep, Tracked
<1>2. ASSUME LoadFetched PROVE Structure'
  BY <1>1, <1>2, LoadFetchedStructure
<1>3. ASSUME LoadAwaited PROVE Structure'
  BY <1>1, <1>3, LoadAwaitedStructure
<1>4. ASSUME LoadFallsBack PROVE Structure'
  BY <1>1, <1>4, LoadFallsBackStructure
<1>5. ASSUME LoadFails PROVE Structure'
  BY <1>1, <1>5, LoadFailsStructure
<1>6. ASSUME LoadReload PROVE Structure'
  BY <1>1, <1>6, LoadReloadStructure
<1>7. ASSUME LoadContext PROVE Structure'
  BY <1>1, <1>7, LoadContextStructure
<1>8. ASSUME LoadWrite PROVE Structure'
  BY <1>1, <1>8, LoadWriteStructure
<1>9. ASSUME LoadRetry PROVE Structure'
  BY <1>1, <1>9, LoadRetryStructure
<1>10. ASSUME LoadReturn PROVE Structure'
  BY <1>1, <1>10, LoadReturnStructure
<1> QED
  BY <1>2, <1>3, <1>4, <1>5, <1>6, <1>7, <1>8, <1>9, <1>10 DEF LoadStep

\* The steps of a recovery keep Structure.
LEMMA RecoveryStepKeepsStructure ==
  ASSUME Structure, RecoveryStep
  PROVE  Structure'
<1>1. astray' \in BOOLEAN
  BY DEF RecoveryStep, Tracked
<1>2. ASSUME DiscardFetched PROVE Structure'
  BY <1>1, <1>2, DiscardFetchedStructure
<1>3. ASSUME RecoveryWaited PROVE Structure'
  BY <1>1, <1>3, RecoveryWaitedStructure
<1>4. ASSUME ResolveProof PROVE Structure'
  BY <1>1, <1>4, ResolveProofStructure
<1>5. ASSUME NEW choice \in {"local", "remote"}, Resolve(choice) PROVE Structure'
  BY <1>1, <1>5, ResolveStructure
<1>6. ASSUME ResolveReturn PROVE Structure'
  BY <1>1, <1>6, ResolveReturnStructure
<1>7. ASSUME DiscardFails PROVE Structure'
  BY <1>1, <1>7, DiscardFailsStructure
<1>8. ASSUME Discard PROVE Structure'
  BY <1>1, <1>8, DiscardStructure
<1> QED
  BY <1>2, <1>3, <1>4, <1>5, <1>6, <1>7, <1>8 DEF RecoveryStep

\* The steps of another client keep Structure.
LEMMA OtherClientKeepsStructure ==
  ASSUME Structure, OtherClient
  PROVE  Structure'
<1>1. astray' \in BOOLEAN
  BY DEF OtherClient, Tracked
<1>2. ASSUME NEW u \in Editable, NEW v \in Slot, OtherWrites(u, v) PROVE Structure'
  BY <1>1, <1>2, OtherWritesStructure
<1> QED
  BY <1>2 DEF OtherClient

\* The steps of the user's session keep Followed, when nothing goes astray.
LEMMA SessionStepKeepsFollowed ==
  ASSUME Structure, Structure', Followed, ~Astray, ~Astray', SessionStep
  PROVE  Followed'
<1>1. Turn("user")
  BY DEF SessionStep
<1>2. ASSUME NEW u \in Editable, NEW v \in Slot, Edit(u, v) PROVE Followed'
  BY <1>2, EditFollowed
<1>3. ASSUME SyncStart PROVE Followed'
  BY <1>1, <1>3, SyncStartFollowed
<1>4. ASSUME LoadStart PROVE Followed'
  BY <1>4, LoadStartFollowed
<1>5. ASSUME NEW kind \in {"proof", "fetch"}, RecoveryStart(kind) PROVE Followed'
  BY <1>5, RecoveryStartFollowed
<1> QED
  BY <1>2, <1>3, <1>4, <1>5 DEF SessionStep

\* The steps of a stage keep Followed, when nothing goes astray.
LEMMA StageStepKeepsFollowed ==
  ASSUME Structure, Structure', Followed, ~Astray, ~Astray', StageStep
  PROVE  Followed'
<1>1. ASSUME StageLoad PROVE Followed'
  BY <1>1, StageLoadFollowed
<1>2. ASSUME StageContext PROVE Followed'
  BY <1>2, StageContextFollowed
<1>3. ASSUME StageWrite PROVE Followed'
  BY <1>3, StageWriteFollowed
<1>4. ASSUME StageRetry PROVE Followed'
  BY <1>4, StageRetryFollowed
<1>5. ASSUME StageFlush PROVE Followed'
  BY <1>5, StageFlushFollowed
<1> QED
  BY <1>1, <1>2, <1>3, <1>4, <1>5 DEF StageStep

\* The steps of a synchronisation keep Followed, when nothing goes astray.
LEMMA SyncStepKeepsFollowed ==
  ASSUME Structure, Structure', Followed, ~Astray, ~Astray', SyncStep
  PROVE  Followed'
<1>1. ASSUME SyncServed PROVE Followed'
  BY <1>1, SyncServedFollowed
<1>2. ASSUME NEW reply \in {"merge_conflict", "resource_conflict"}, SyncRefused(reply)
      PROVE  Followed'
  BY <1>2, SyncRefusedFollowed
<1>3. ASSUME SyncFails PROVE Followed'
  BY <1>3, SyncFailsFollowed
<1>4. ASSUME SyncFetched PROVE Followed'
  BY <1>4, SyncFetchedFollowed
<1>5. ASSUME SyncLoad PROVE Followed'
  BY <1>5, SyncLoadFollowed
<1>6. ASSUME SyncContext PROVE Followed'
  BY <1>6, SyncContextFollowed
<1>7. ASSUME SyncRecord PROVE Followed'
  BY <1>7, SyncRecordFollowed
<1>8. ASSUME SyncReconcile PROVE Followed'
  BY <1>8, SyncReconcileFollowed
<1>9. ASSUME InstallLoad PROVE Followed'
  BY <1>9, InstallLoadFollowed
<1>10. ASSUME InstallWrite PROVE Followed'
  BY <1>10, InstallWriteFollowed
<1>11. ASSUME InstallRetry PROVE Followed'
  BY <1>11, InstallRetryFollowed
<1> QED
  BY <1>1, <1>2, <1>3, <1>4, <1>5, <1>6, <1>7, <1>8, <1>9, <1>10, <1>11 DEF
     SyncStep

\* The steps of a load keep Followed, when nothing goes astray.
LEMMA LoadStepKeepsFollowed ==
  ASSUME Structure, Structure', Followed, ~Astray, ~Astray', LoadStep
  PROVE  Followed'
<1>1. ASSUME LoadFetched PROVE Followed'
  BY <1>1, LoadFetchedFollowed
<1>2. ASSUME LoadAwaited PROVE Followed'
  BY <1>2, LoadAwaitedFollowed
<1>3. ASSUME LoadFallsBack PROVE Followed'
  BY <1>3, LoadFallsBackFollowed
<1>4. ASSUME LoadFails PROVE Followed'
  BY <1>4, LoadFailsFollowed
<1>5. ASSUME LoadReload PROVE Followed'
  BY <1>5, LoadReloadFollowed
<1>6. ASSUME LoadContext PROVE Followed'
  BY <1>6, LoadContextFollowed
<1>7. ASSUME LoadWrite PROVE Followed'
  BY <1>7, LoadWriteFollowed
<1>8. ASSUME LoadRetry PROVE Followed'
  BY <1>8, LoadRetryFollowed
<1>9. ASSUME LoadReturn PROVE Followed'
  BY <1>9, LoadReturnFollowed
<1> QED
  BY <1>1, <1>2, <1>3, <1>4, <1>5, <1>6, <1>7, <1>8, <1>9 DEF LoadStep

\* The steps of a recovery keep Followed, when nothing goes astray.
LEMMA RecoveryStepKeepsFollowed ==
  ASSUME Structure, Structure', Followed, ~Astray, ~Astray', RecoveryStep
  PROVE  Followed'
<1>1. ASSUME DiscardFetched PROVE Followed'
  BY <1>1, DiscardFetchedFollowed
<1>2. ASSUME RecoveryWaited PROVE Followed'
  BY <1>2, RecoveryWaitedFollowed
<1>3. ASSUME ResolveProof PROVE Followed'
  BY <1>3, ResolveProofFollowed
<1>4. ASSUME NEW choice \in {"local", "remote"}, Resolve(choice) PROVE Followed'
  BY <1>4, ResolveFollowed
<1>5. ASSUME ResolveReturn PROVE Followed'
  BY <1>5, ResolveReturnFollowed
<1>6. ASSUME DiscardFails PROVE Followed'
  BY <1>6, DiscardFailsFollowed
<1>7. ASSUME Discard PROVE Followed'
  BY <1>7, DiscardFollowed
<1> QED
  BY <1>1, <1>2, <1>3, <1>4, <1>5, <1>6, <1>7 DEF RecoveryStep

\* The steps of another client keep Followed, when nothing goes astray.
LEMMA OtherClientKeepsFollowed ==
  ASSUME Structure, Structure', Followed, ~Astray, ~Astray', OtherClient
  PROVE  Followed'
<1>1. ASSUME NEW u \in Editable, NEW v \in Slot, OtherWrites(u, v) PROVE Followed'
  BY <1>1, OtherWritesFollowed
<1> QED
  BY <1>1 DEF OtherClient

\* The steps of the user's session do not write the cache.
LEMMA SessionStepWritesCache ==
  ASSUME SessionStep
  PROVE  UNCHANGED cache
BY DEF SessionStep, Edit, SyncStart, LoadStart, RecoveryStart

\* The steps of a stage that write the cache.
LEMMA StageStepWritesCache ==
  ASSUME StageStep
  PROVE  \/ UNCHANGED cache
         \/ StageWrite
BY DEF StageStep, StageLoad, StageContext, StageRetry, StageFlush

\* The steps of a synchronisation that write the cache.
LEMMA SyncStepWritesCache ==
  ASSUME SyncStep
  PROVE  \/ UNCHANGED cache
         \/ SyncRecord
         \/ SyncReconcile
         \/ InstallWrite
BY DEF SyncStep, SyncServed, SyncRefused, SyncFails, SyncFetched, SyncLoad,
   SyncContext, InstallLoad, InstallRetry

\* The steps of a load that write the cache.
LEMMA LoadStepWritesCache ==
  ASSUME LoadStep
  PROVE  \/ UNCHANGED cache
         \/ LoadWrite
BY DEF LoadStep, LoadFetched, LoadAwaited, LoadFallsBack, LoadFails,
   LoadReload, LoadContext, LoadRetry, LoadReturn

\* The steps of a recovery that write the cache.
LEMMA RecoveryStepWritesCache ==
  ASSUME RecoveryStep
  PROVE  \/ UNCHANGED cache
         \/ \E choice \in {"local", "remote"} : Resolve(choice)
         \/ Discard
BY DEF RecoveryStep, DiscardFetched, RecoveryWaited, ResolveProof,
   ResolveReturn, DiscardFails

\* The steps of another client do not write the cache.
LEMMA OtherClientWritesCache ==
  ASSUME OtherClient
  PROVE  UNCHANGED cache
BY DEF OtherClient, OtherWrites

\* The invariant holds initially.
LEMMA InitialInvariant == Init => IInv
<1> SUFFICES ASSUME Init PROVE IInv
  OBVIOUS
<1>1. /\ server \in Content /\ cache = Rebased(server, server)
      /\ fresh = {"view", "authority"}
      /\ view = [content |-> server, head |-> None, conflicted |-> FALSE,
                 held |-> None]
      /\ stage = IdleStage /\ sync = IdleSync
      /\ load = IdleLoad /\ recovery = IdleRecovery
      /\ edited = {} /\ astray = FALSE
      /\ budget = [edits |-> 0, writes |-> 0, loads |-> 0]
  BY DEF Init, Replaced, Content, Slot
<1>2. /\ cache \in Caches /\ Coherent(cache) /\ cache.content = server
      /\ cache.base = server /\ cache.conflict = None
      /\ ~HasConflictRevision(cache)
  BY <1>1, RebasedFields, RebasedIsCoherent
<1>3. /\ stage.pc = "idle" /\ sync.pc = "idle" /\ load.pc = "idle"
      /\ recovery.pc = "idle" /\ view.head = None /\ view.held = None
      /\ view.content = server /\ view.conflicted = FALSE
  BY <1>1 DEF IdleStage, IdleSync, IdleLoad, IdleRecovery
<1>4. TypeOK
  <2>1. view \in Views /\ recovery \in Recoveries /\ fresh \subseteq Holder
    BY <1>1 DEF Views, MaybeContent, IdleRecovery, Recoveries, Holder
  <2>2. budget \in [edits : 0..MaxEdits, writes : 0..MaxWrites,
                    loads : 0..MaxLoads]
    BY <1>1, Bounds
  <2> QED
    BY <1>1, <1>2, <2>1, <2>2, IdleStageType, IdleSyncType, IdleLoadType DEF
       TypeOK
<1>5. Phases
  BY <1>3 DEF Phases, StageData, SyncData, LoadData, RecoveryData, Exclusive,
     Sending, Quiet
<1>6. Readers
  BY <1>1 DEF Readers
<1>7. ConflictIsWhole /\ BaseIsKnown
  BY <1>2, CoherentCache
<1>8. Marked
  BY <1>1, <1>3 DEF Marked, Astray, Overlapping, Lost, Returned
<1>9. Visible /\ Undisturbed /\ Tracks
  BY <1>1, <1>2, <1>3 DEF Visible, Undisturbed, Tracks, HasConflictRevision,
     Quiet, Sending
<1>10. Reloading /\ CacheEdited /\ SyncEdited /\ StageEdited
  BY <1>1, <1>2, <1>3 DEF Reloading, CacheEdited, SyncEdited, StageEdited,
     DiffersWhereEdited, Quiet
<1> QED
  BY <1>4, <1>5, <1>6, <1>7, <1>8, <1>9, <1>10 DEF IInv, Structure, Followed

\* Every step keeps the invariant.  What a step loses with Followed it records
\* in astray, in the same step.
LEMMA InvariantStep == IInv /\ [Next]_vars => IInv'
<1> SUFFICES ASSUME IInv, [Next]_vars PROVE IInv'
  OBVIOUS
<1>1. CASE Next
  <2>1. Structure'
    BY <1>1, SessionStepKeepsStructure, StageStepKeepsStructure,
       SyncStepKeepsStructure, LoadStepKeepsStructure,
       RecoveryStepKeepsStructure, OtherClientKeepsStructure DEF Next, IInv
  <2>2. astray' = (astray \/ Astray')
    BY <1>1 DEF Next, SessionStep, StageStep, SyncStep, LoadStep, RecoveryStep,
       OtherClient, Tracked
  <2>3. Marked'
    BY <2>2 DEF Marked
  <2>4. ASSUME ~astray' PROVE Followed'
    <3>1. ~astray /\ ~Astray'
      BY <2>2, <2>4
    <3>2. ~Astray /\ Structure /\ Followed
      BY <3>1 DEF IInv, Marked
    <3> QED
      BY <1>1, <2>1, <3>1, <3>2, SessionStepKeepsFollowed,
         StageStepKeepsFollowed, SyncStepKeepsFollowed, LoadStepKeepsFollowed,
         RecoveryStepKeepsFollowed, OtherClientKeepsFollowed DEF Next
  <2> QED
    BY <2>1, <2>3, <2>4 DEF IInv
<1>2. CASE UNCHANGED vars
  <2>1. UNCHANGED <<server, cache, fresh, view, stage, sync, load, recovery,
                    edited, budget, astray>>
    BY <1>2 DEF vars, history
  <2>2. Structure'
    BY <2>1 DEF IInv, Structure, TypeOK, Phases, StageData, SyncData, LoadData,
       RecoveryData, Exclusive, Readers, ConflictIsWhole, BaseIsKnown
  <2>3. Marked'
    BY <2>1 DEF IInv, Marked, Astray, Overlapping, Lost, Returned
  <2>4. ~astray' => Followed'
    BY <2>1 DEF IInv, Followed, Visible, Undisturbed, Tracks, Reloading,
       CacheEdited, SyncEdited, StageEdited, DiffersWhereEdited
  <2> QED
    BY <2>2, <2>3, <2>4 DEF IInv
<1> QED
  BY <1>1, <1>2

\* The invariant holds in every reachable state, for any units, values and
\* bounds and for a cache that suspends its callers or not
\* (createVersionedRepositoryCache and the four calls on it).
THEOREM LocalFirstInvariant == Spec => []IInv
<1>1. Init => IInv
  BY InitialInvariant
<1>2. IInv /\ [Next]_vars => IInv'
  BY InvariantStep
<1> QED
  BY <1>1, <1>2, PTL DEF Spec

\* Every call stays within its phases, and the retries and attempts within
\* their bound.
THEOREM TypeCorrect == Spec => []TypeOK
<1>1. IInv => TypeOK
  BY DEF IInv, Structure
<1> QED
  BY <1>1, LocalFirstInvariant, PTL

\* The record of a conflict is about the content, the base and the remote
\* content of the cache and names the units that overlap now, in every
\* reachable state: also after calls that threw and loads that met a
\* synchronisation.
THEOREM ConflictsAreWhole == Spec => []ConflictIsWhole
<1>1. IInv => ConflictIsWhole
  BY DEF IInv, Structure
<1> QED
  BY <1>1, LocalFirstInvariant, PTL

\* Without a conflict the base content is the one the base revision names, in
\* every reachable state.
THEOREM BasesAreKnown == Spec => []BaseIsKnown
<1>1. IInv => BaseIsKnown
  BY DEF IInv, Structure
<1> QED
  BY <1>1, LocalFirstInvariant, PTL

\* As long as nothing went astray the session shows a conflict exactly when one
\* is recorded.
THEOREM ConflictsAreVisible == Spec => []ConflictIsVisible
<1>1. IInv => ConflictIsVisible
  BY DEF IInv, Followed, Visible, ConflictIsVisible
<1> QED
  BY <1>1, LocalFirstInvariant, PTL

\* As long as nothing went astray a request differs from its base only in units
\* the user edited or kept in a conflict.
THEOREM NothingElseIsSent == Spec => []OnlyUserEditsAreSent
<1>1. IInv => OnlyUserEditsAreSent
  BY DEF IInv, Followed, SyncEdited, DiffersWhereEdited, OnlyUserEditsAreSent,
     Quiet
<1> QED
  BY <1>1, LocalFirstInvariant, PTL

\* What one step does to the pending edits.
KeepsPending ==
  \A u \in Unit :
    Pending(u) /\ ~Quiesced /\ stage.pc # "write" /\ ~astray
      => cache'.content[u] = cache.content[u]

\* Reconciling keeps the pending edits.
LEMMA ReconcileKeepsPending ==
  ASSUME Structure, Followed, SyncReconcile
  PROVE  \A u \in Unit : Pending(u) => cache'.content[u] = cache.content[u]
<1> DEFINE c == Reconciled(cache, cache.base, sync.local, sync.remote)
<1>1. sync.pc = "reconcile" /\ (UNCHANGED cache \/ ("sync" \in fresh /\ cache' = c))
  BY DEF SyncReconcile, WriteAndReturn, WriteAndHold
<1>2. CASE "sync" \in fresh /\ cache' = c
  <2>1. /\ cache \in Caches /\ cache.base \in Content
        /\ cache.content = sync.local
        /\ sync.local \in Content /\ sync.remote \in Content
    BY <1>1, <1>2, CacheFields DEF Structure, TypeOK, Readers, Phases,
       SyncData, Sending, Quiet
  <2>2. /\ Merges(cache.base, sync.local, sync.remote) =>
             c.content = Edited(cache.base, sync.local, sync.remote)
        /\ ~Merges(cache.base, sync.local, sync.remote) =>
             c.content = sync.local
    BY <2>1, ReconciledFields
  <2> HIDE DEF c
  <2> QED
    BY <1>2, <2>1, <2>2 DEF Edited, Pending
<1> QED
  BY <1>1, <1>2

\* Installing an answer keeps the pending edits: those that were submitted are
\* in the answer, those made in flight win over it.
LEMMA InstallKeepsPending ==
  ASSUME Structure, Followed, InstallWrite
  PROVE  \A u \in Unit : Pending(u) => cache'.content[u] = cache.content[u]
<1>1. sync.pc = "write" /\ "install" \in fresh /\ cache' = Installed
  BY DEF InstallWrite, WriteAndReturn
<1>2. /\ cache.content = sync.seen
      /\ sync.same => sync.seen = sync.local
      /\ sync.same => Installed.content = sync.remote
      /\ ~sync.same /\ Merges(sync.local, sync.seen, sync.remote) =>
           Installed.content = Edited(sync.local, sync.seen, sync.remote)
      /\ ~sync.same /\ ~Merges(sync.local, sync.seen, sync.remote) =>
           Installed.content = sync.seen
  BY <1>1, InstalledFields
<1>3. /\ cache.conflict = None /\ cache.pendingBase = sync.revision
      /\ sync.base = sync.revision
      /\ \A u \in Unit : sync.local[u] # sync.base[u] =>
                           sync.remote[u] = sync.local[u]
  BY <1>1 DEF Followed, Undisturbed, Quiet, Sending
<1>4. cache.base = sync.base
  <2>1. sync.revision \in Content
    BY <1>1 DEF Structure, Phases, SyncData, Quiet
  <2> QED
    BY <1>3, <2>1, NoneAssumption DEF Structure, BaseIsKnown
<1> QED
  BY <1>1, <1>2, <1>3, <1>4 DEF Edited, Pending

\* A load keeps the pending edits.
LEMMA LoadKeepsPending ==
  ASSUME Structure, Followed, LoadWrite
  PROVE  \A u \in Unit : Pending(u) => cache'.content[u] = cache.content[u]
<1>1. /\ load.pc \in {"rebase", "replace"} /\ "load" \in fresh
      /\ cache' = Loaded
  BY DEF LoadWrite, Loaded, WriteSilently
<1>2. /\ load.pc = "replace" => cache.pendingBase = None
      /\ load.pc = "rebase" => cache.content = load.seen
      /\ load.pc = "rebase" /\ Merges(load.base, load.seen, load.remote) =>
           Loaded.content = Edited(load.base, load.seen, load.remote)
      /\ load.pc = "rebase" /\ ~Merges(load.base, load.seen, load.remote) =>
           Loaded.content = load.seen
  BY <1>1, LoadedFields
<1>3. load.pc = "rebase" => load.base = cache.base
  BY <1>1 DEF Followed, Reloading
<1> QED
  BY <1>1, <1>2, <1>3 DEF Edited, Pending

\* A step keeps the pending edits, unless it stages one or serves a recovery.
LEMMA StepKeepsPending ==
  ASSUME IInv, Next
  PROVE  KeepsPending
<1> SUFFICES ASSUME ~Quiesced, stage.pc # "write", ~astray
             PROVE  \A u \in Unit : Pending(u) =>
                      cache'.content[u] = cache.content[u]
  BY DEF KeepsPending
<1>1. Structure /\ Followed
  BY DEF IInv
<1>2. \/ UNCHANGED cache \/ StageWrite
      \/ SyncRecord \/ SyncReconcile \/ InstallWrite \/ LoadWrite
      \/ (\E choice \in {"local", "remote"} : Resolve(choice))
      \/ Discard
  BY SessionStepWritesCache, StageStepWritesCache, SyncStepWritesCache,
     LoadStepWritesCache, RecoveryStepWritesCache, OtherClientWritesCache DEF
     Next
<1>3. ~StageWrite /\ ~Discard
      /\ ~\E choice \in {"local", "remote"} : Resolve(choice)
  BY DEF StageWrite, Discard, Resolve, Quiesced
<1>4. CASE SyncRecord
  <2> DEFINE d == WithConflict(cache, sync.base, cache.content, sync.remote,
                    ConflictUnits(sync.base, sync.local, sync.remote))
  <2>1. UNCHANGED cache \/ (sync.pc = "record" /\ "sync" \in fresh /\ cache' = d)
    BY <1>4 DEF SyncRecord, WriteAndReturn
  <2>2. sync.pc = "record" /\ "sync" \in fresh => d.content = cache.content
    BY <1>1, RecordedFields
  <2> HIDE DEF d
  <2> QED
    BY <2>1, <2>2
<1> QED
  BY <1>1, <1>2, <1>3, <1>4, ReconcileKeepsPending, InstallKeepsPending,
     LoadKeepsPending

\* As long as nothing went astray no remote result overwrites a pending edit,
\* in any behaviour.
THEOREM EditsOutliveRemotes == Spec => PendingEditsAreKept
<1>1. IInv /\ [Next]_vars => [KeepsPending]_vars
  BY StepKeepsPending
<1>2. [][KeepsPending]_vars => PendingEditsAreKept
  BY PTL DEF PendingEditsAreKept, KeepsPending
<1> QED
  BY <1>1, <1>2, LocalFirstInvariant, PTL DEF Spec
=============================================================================
