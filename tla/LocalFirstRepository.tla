------------------------ MODULE LocalFirstRepository ------------------------
(***************************************************************************)
(* The browser side of synchronisation: the local-first repository         *)
(* (src/application/persistence/localFirst) over its cache, used by one    *)
(* session, next to a server that other clients write to.                  *)
(*                                                                         *)
(* A stage, a synchronisation, a load, and a recovery (conflict resolution *)
(* or discard) run concurrently.  Each reads the cache, computes, and      *)
(* writes the cache back if localRevision is still the one it read.        *)
(*                                                                         *)
(* The cache is a port of promises.  In the build it is a Map in memory,   *)
(* whose promises settle before the next event is handled: then a call     *)
(* yields to the others only while it waits for the server or the user     *)
(* (CacheSuspends = FALSE).  With a cache that does input and output of    *)
(* its own, a call yields at every await (CacheSuspends = TRUE).           *)
(*                                                                         *)
(* A local revision is a fresh name for every write, and all the code does *)
(* with one is to ask whether it is still the cache's.  So none is kept:   *)
(* `fresh' holds the readers whose revision is still the cache's, and a    *)
(* write that issues a new revision empties it.  A remote revision is a    *)
(* hash of a content, so contents stand for remote revisions.              *)
(*                                                                         *)
(* The server answers a request in one step; SnapshotSync shows how.       *)
(***************************************************************************)
EXTENDS ContentMerge, Naturals

CONSTANTS
  Editable,    \* units that clients edit in this instance
  MaxEdits,    \* bound: edits of the user
  MaxWrites,   \* bound: writes of other clients
  MaxLoads,    \* bound: reloads of the session
  CacheSuspends, \* cache calls let other calls run
  None         \* null

Conflicts == [base : Content, local : Content, remote : Content,
              unitIds : (SUBSET Unit) \ {{}}]
Snapshots == [content : Content, conflicted : BOOLEAN]

ASSUME EditedUnits == Editable \subseteq Unit
ASSUME Suspension == CacheSuspends \in BOOLEAN
ASSUME NoneAssumption == None \notin Content \cup Conflicts \cup Snapshots
ASSUME Bounds == MaxEdits \in Nat /\ MaxWrites \in Nat /\ MaxLoads \in Nat

\* The literal bound of every retry loop of the repository.
MaxTries == 3

VARIABLES
  server,    \* the content of the server's store
  cache,     \* the cache entry of the repository: state and sync context
  fresh,     \* whose captured local revision is the cache's
  view,      \* the snapshot the session shows, its optimistic head, and the
             \* snapshot it shows once a synchronisation hands over
  stage,     \* stageSnapshot
  sync,      \* synchronizePendingSnapshot
  load,      \* loadSnapshot of a reload
  recovery,  \* resolveConflictAndSynchronize or discard
  edited,    \* history: units the user edited, or kept in a conflict
  astray,    \* history: something the properties are not promised for
  budget     \* bound: edits, writes and loads so far

history == <<edited, budget>>

vars == <<server, cache, fresh, view, stage, sync, load, recovery, history,
          astray>>

Caches == [content     : Content,
           pendingBase : Content \cup {None},  \* pendingBaseRevision
           remote      : Content,              \* remoteRevision
           base        : Content,              \* baseContent
           conflict    : Conflicts \cup {None}]
\* "authority": the transitions that the session has or will be handed lead
\* from its snapshot to the cache's (TransitionAuthority); "observed" is kept
\* as long as the authority accepts nothing.
Holder == {"view", "authority", "observed", "change", "stage", "sync",
           "install", "load", "recovery"}

MaybeContent == Content \cup {None}
Views == [content : Content, head : MaybeContent, conflicted : BOOLEAN,
          held : Snapshots \cup {None}]
Stages == [pc : {"idle", "load", "context", "write", "blocked"},
           before : MaybeContent, after : MaybeContent, next : MaybeContent,
           conflict : Conflicts \cup {None}, try : 0..MaxTries - 1]
Syncs == [pc : {"idle", "load", "context", "send", "install", "write",
                "fetch", "record", "reconcile"},
          attempt : 0..MaxTries - 1, local : MaybeContent,
          base : MaybeContent, revision : MaybeContent, remote : MaybeContent,
          reply : {None, "merge_conflict", "resource_conflict"},
          seen : MaybeContent, same : BOOLEAN, try : 0..MaxTries - 1]
Loads == [pc : {"idle", "await", "fetch", "reload", "context", "rebase",
                "replace", "return"},
          remote : MaybeContent, seen : MaybeContent, base : MaybeContent,
          result : Snapshots \cup {None}, final : BOOLEAN, dropped : BOOLEAN,
          try : 0..MaxTries - 1]
Recoveries == [pc : {"idle", "wait", "proof", "resolve", "sync", "fetch",
                     "replace"},
               kind : {None, "proof", "fetch"}, remote : MaybeContent]

TypeOK ==
  /\ server \in Content
  /\ cache \in Caches
  /\ fresh \subseteq Holder
  /\ view \in Views /\ stage \in Stages /\ sync \in Syncs
  /\ load \in Loads /\ recovery \in Recoveries
  /\ edited \subseteq Unit /\ astray \in BOOLEAN
  /\ budget \in [edits : 0..MaxEdits, writes : 0..MaxWrites,
                 loads : 0..MaxLoads]

IdleStage == [pc |-> "idle", before |-> None, after |-> None, next |-> None,
              conflict |-> None, try |-> 0]
IdleSync == [pc |-> "idle", attempt |-> 0, local |-> None, base |-> None,
             revision |-> None, remote |-> None, reply |-> None,
             seen |-> None, same |-> FALSE, try |-> 0]
IdleLoad == [pc |-> "idle", remote |-> None, seen |-> None, base |-> None,
             result |-> None, final |-> FALSE, dropped |-> FALSE, try |-> 0]
IdleRecovery == [pc |-> "idle", kind |-> None, remote |-> None]

\* Mutants: a rebase forgets that edits are pending; a conflict is recorded
\* without its remote revision; an edit keeps the unit ids of the conflict.
RebasedUnpending(content, snapshot) ==
  [content |-> content, pendingBase |-> None,
   remote |-> snapshot, base |-> snapshot, conflict |-> None]
WithConflictAtOldRevision(c, base, local, remote, unitIds) ==
  [c EXCEPT !.base = base,
            !.conflict = [base |-> base, local |-> local, remote |-> remote,
                          unitIds |-> unitIds]]
StagedWithOldUnits(c, content, unitIds) ==
  [c EXCEPT
     !.content = content,
     !.pendingBase = IF @ = None THEN c.remote ELSE @,
     !.conflict = IF @ = None THEN None ELSE [@ EXCEPT !.local = content]]

\* createVersionedRepositoryCache's rebaseFromRemote, with pendingChanges as
\* every caller computes it, and replaceFromRemote.
Rebased(content, snapshot) ==
  [content |-> content,
   pendingBase |-> IF content # snapshot THEN snapshot ELSE None,
   remote |-> snapshot, base |-> snapshot, conflict |-> None]

Replaced(snapshot) == Rebased(snapshot, snapshot)

\* recordConflict: content and pendingBaseRevision stay.
WithConflict(c, base, local, remote, unitIds) ==
  [c EXCEPT !.remote = remote, !.base = base,
            !.conflict = [base |-> base, local |-> local, remote |-> remote,
                          unitIds |-> unitIds]]

\* stage: the first edit fixes the base, a conflict follows the edit.
Staged(c, content, unitIds) ==
  [c EXCEPT
     !.content = content,
     !.pendingBase = IF @ = None THEN c.remote ELSE @,
     !.conflict = IF @ = None THEN None
                  ELSE [base |-> @.base, local |-> content,
                        remote |-> @.remote, unitIds |-> unitIds]]

\* toSnapshot: the conflictRevision that the session sees is not null.
HasConflictRevision(c) == c.pendingBase # None /\ c.pendingBase # c.remote

\* The cache entry that a merge of pending edits with a remote content leads
\* to: reconcilePendingSnapshot, and installSynchronizedSnapshot once the
\* user edited on.
Reconciled(c, base, local, remote) ==
  IF Merges(base, local, remote)
  THEN Rebased(MergedContent(base, local, remote, "none"), remote)
  ELSE WithConflict(c, base, local, remote, ConflictUnits(base, local, remote))

\* Values are only compared for equality, and those of different units never,
\* so all units may start with the same one.
Init ==
  /\ server = [u \in Unit |-> Missing]
  /\ cache = Replaced(server)
  /\ fresh = {"view", "authority"}
  /\ view = [content |-> server, head |-> None, conflicted |-> FALSE,
             held |-> None]
  /\ stage = IdleStage /\ sync = IdleSync
  /\ load = IdleLoad /\ recovery = IdleRecovery
  /\ edited = {} /\ astray = FALSE
  /\ budget = [edits |-> 0, writes |-> 0, loads |-> 0]

-----------------------------------------------------------------------------
(* Writing the cache *)

Snapshot(c) == [content |-> c.content, conflicted |-> HasConflictRevision(c)]

\* The session's snapshot while nothing is held.
Shown(s) == [content |-> s.content, head |-> None,
             conflicted |-> s.conflicted, held |-> None]

\* The authority accepts the snapshot s; the session shows it unless an edit
\* is still being staged.
Accepts(s, mayShow) ==
  view' = IF mayShow THEN Shown(s)
          ELSE [view EXCEPT !.conflicted = s.conflicted, !.held = None]

\* The cache is written under a new local revision.  The authority accepts
\* the transition when it has every transition before it.
WriteAndPublish(c, mayShow) ==
  /\ cache' = c
  /\ \/ /\ "authority" \in fresh /\ view.held = None
        /\ Accepts(Snapshot(c), mayShow)
        /\ fresh' = {"authority"} \cup (IF mayShow THEN {"view"} ELSE {})
     \/ /\ "authority" \in fresh /\ view.held # None
        /\ view' = [view EXCEPT !.held = Snapshot(c)]
        /\ fresh' = fresh \cap {"authority", "observed"}
     \/ /\ "authority" \notin fresh
        /\ UNCHANGED view
        /\ fresh' = fresh \cap {"observed"}

\* A synchronisation that goes on keeps its transition to itself.
WriteAndHold(c) ==
  /\ cache' = c
  /\ fresh' = fresh \cap {"authority", "observed"}
  /\ view' = IF "authority" \in fresh
             THEN [view EXCEPT !.held = Snapshot(c)] ELSE view

\* A write of a load, which publishes no transition.
WriteSilently(c, reader) ==
  /\ cache' = c
  /\ fresh' = (fresh \cap {"observed"}) \cup {reader}

\* cache.load captures the local revision.
Capture(reader) == fresh' = fresh \cup {reader}

-----------------------------------------------------------------------------
(* The user and stageSnapshot *)

\* Mutation and new synchronisations stop during a recovery and during the
\* last part of a reload that met a synchronisation.
Quiesced == recovery.pc # "idle" \/ load.final

\* mutate and enqueue: an edit that was refused before is staged together with
\* the new one.
Edit(u, v) ==
  LET visible == IF view.head = None THEN view.content ELSE view.head
      after == [visible EXCEPT ![u] = v]
      again == stage.pc = "blocked"
  IN
  /\ stage.pc \in {"idle", "blocked"} /\ ~Quiesced
  /\ budget.edits < MaxEdits
  /\ v # visible[u]
  /\ stage' = [IdleStage EXCEPT
                 !.pc = "load", !.after = after,
                 !.before = IF again THEN stage.before ELSE view.content]
  /\ view' = [view EXCEPT !.head = after]
  /\ fresh' = IF again THEN fresh
              ELSE IF "view" \in fresh THEN fresh \cup {"change"}
              ELSE fresh \ {"change"}
  /\ edited' = edited \cup {u}
  /\ budget' = [budget EXCEPT !.edits = @ + 1]
  /\ UNCHANGED <<server, cache, sync, load, recovery>>

\* The queue keeps an edit that the repository refuses, for the next edit or
\* flush.
RejectStage ==
  stage' = [IdleStage EXCEPT !.pc = "blocked", !.before = stage.before,
                             !.after = stage.after]

StageFlush ==
  /\ stage.pc = "blocked"
  /\ stage' = [stage EXCEPT !.pc = "load"]
  /\ UNCHANGED <<server, cache, fresh, view, sync, load, recovery, history>>

\* continuePreparedChange: an edit of an older snapshot is merged.
StageLoad ==
  /\ stage.pc = "load"
  /\ LET continues == "change" \in fresh
         mergeable == Merges(stage.before, stage.after, cache.content)
         next == IF continues THEN stage.after
                 ELSE MergedContent(stage.before, stage.after,
                                    cache.content, "none")
     IN IF continues \/ mergeable
        THEN /\ stage' = [stage EXCEPT !.pc = "context", !.next = next]
             /\ Capture("stage")
        ELSE RejectStage /\ UNCHANGED fresh
  /\ UNCHANGED <<server, cache, view, sync, load, recovery, history>>

StageContext ==
  /\ stage.pc = "context"
  /\ stage' = [stage EXCEPT !.pc = "write", !.conflict = cache.conflict]
  /\ UNCHANGED <<server, cache, fresh, view, sync, load, recovery, history>>

\* With a persisted conflict every edit is merged with its remote content
\* again, and the last overlap that goes away ends the conflict.
StageResult ==
  LET k == stage.conflict IN
  IF k = None THEN Staged(cache, stage.next, {})
  ELSE IF Merges(k.base, stage.next, k.remote)
  THEN Rebased(MergedContent(k.base, stage.next, k.remote, "none"), k.remote)
  ELSE Staged(cache, stage.next, ConflictUnits(k.base, stage.next, k.remote))

StageWrite ==
  /\ stage.pc = "write" /\ "stage" \in fresh
  /\ stage' = IdleStage
  /\ WriteAndPublish(StageResult, TRUE)
  /\ UNCHANGED <<server, sync, load, recovery, history>>

\* LocalConflict
StageRetry ==
  /\ stage.pc = "write" /\ "stage" \notin fresh
  /\ IF stage.try + 1 < MaxTries
     THEN stage' = [stage EXCEPT !.pc = "load", !.try = @ + 1,
                                 !.next = None, !.conflict = None]
     ELSE RejectStage
  /\ UNCHANGED <<server, cache, fresh, view, sync, load, recovery, history>>

-----------------------------------------------------------------------------
(* synchronizePendingSnapshot *)

MayShow == stage.pc = "idle"

SyncEnds == sync' = IdleSync

\* The call returns: the authority is handed what was held back.
HandOver ==
  IF view.held = None THEN UNCHANGED <<fresh, view>>
  ELSE /\ Accepts(view.held, MayShow)
       /\ fresh' = (fresh \ {"observed"})
                   \cup (IF "authority" \in fresh /\ MayShow
                         THEN {"view"} ELSE {})

\* The call throws: what was held back is gone.
Throw ==
  /\ view' = [view EXCEPT !.held = None]
  /\ fresh' = IF view.held = None THEN fresh ELSE fresh \ {"authority"}

Returns == SyncEnds /\ HandOver
Throws  == SyncEnds /\ Throw

\* The last write of a call, handed over with everything before it.
WriteAndReturn(c) ==
  /\ SyncEnds
  /\ cache' = c
  /\ IF "authority" \in fresh
     THEN /\ Accepts(Snapshot(c), MayShow)
          /\ fresh' = {"authority"} \cup (IF MayShow THEN {"view"} ELSE {})
     ELSE IF view.held = None
     THEN UNCHANGED view /\ fresh' = fresh \cap {"observed"}
     ELSE Accepts(view.held, MayShow) /\ fresh' = {}

\* Mutants: one attempt too many, and attempts not counted.
AttemptsOnceMore == sync.attempt < MaxTries
AttemptUncounted == [IdleSync EXCEPT !.pc = "load", !.attempt = sync.attempt]

\* Another attempt is left.
Attempts == sync.attempt + 1 < MaxTries
Attempt  == [IdleSync EXCEPT !.pc = "load", !.attempt = sync.attempt + 1]

NextAttempt ==
  IF Attempts THEN sync' = Attempt /\ UNCHANGED <<fresh, view>> ELSE Throws

\* SaveQueue.runSync, on a timer, a reconnection or a request: it waits for
\* the active stage and stays away while the accepted snapshot is in conflict.
SyncStart ==
  /\ sync.pc = "idle" /\ stage.pc = "idle" /\ ~Quiesced
  /\ ~view.conflicted
  /\ sync' = [IdleSync EXCEPT !.pc = "load"]
  /\ UNCHANGED <<server, cache, fresh, view, stage, load, recovery, history>>

SyncLoad ==
  /\ sync.pc = "load"
  /\ IF cache.pendingBase = None
     THEN Returns
     ELSE /\ sync' = [sync EXCEPT !.pc = "context", !.local = cache.content,
                                  !.revision = cache.pendingBase]
          /\ Capture("sync")
          /\ UNCHANGED view
  /\ UNCHANGED <<server, cache, stage, load, recovery, history>>

SyncContext ==
  /\ sync.pc = "context"
  /\ sync' = [sync EXCEPT !.pc = "send", !.base = cache.base]
  /\ UNCHANGED <<server, cache, fresh, view, stage, load, recovery, history>>

\* What the server commits for the request (Desired of SnapshotSync).
Accepted == sync.base = sync.revision
            /\ (server = sync.base \/ Merges(sync.base, sync.local, server))
Committed == IF server = sync.base THEN sync.local
             ELSE MergedContent(sync.base, sync.local, server, "none")

SyncServed ==
  /\ sync.pc = "send" /\ Accepted
  /\ server' = Committed
  /\ sync' = [sync EXCEPT !.pc = "install", !.remote = Committed]
  /\ UNCHANGED <<cache, fresh, view, stage, load, recovery, history>>

\* merge_conflict, or a resource_conflict after lost compare-and-sets; both
\* name the current revision, and the client fetches that content.
SyncRefused(reply) ==
  /\ sync.pc = "send" /\ sync.base = sync.revision
  /\ reply = "merge_conflict" => ~Accepted
  /\ sync' = [sync EXCEPT !.pc = "fetch", !.reply = reply, !.remote = server]
  /\ UNCHANGED <<server, cache, fresh, view, stage, load, recovery, history>>

\* Offline, an invalid request, a server error, or an answer that got lost on
\* the way: the call ends, the edits stay pending.
SyncFails ==
  /\ sync.pc \in {"send", "fetch"}
  /\ \/ UNCHANGED server
     \/ sync.pc = "send" /\ Accepted /\ server' = Committed
  /\ Returns \/ (sync.pc = "fetch" /\ Throws)
  /\ UNCHANGED <<cache, stage, load, recovery, history>>

\* The content fetched after a refusal must be the one the refusal was about.
SyncFetched ==
  /\ sync.pc = "fetch"
  /\ IF server # sync.remote THEN NextAttempt
     ELSE /\ sync' = [sync EXCEPT !.pc = IF sync.reply = "merge_conflict"
                                         THEN "record" ELSE "reconcile"]
          /\ UNCHANGED <<fresh, view>>
  /\ UNCHANGED <<server, cache, stage, load, recovery, history>>

SyncRecord ==
  /\ sync.pc = "record"
  /\ IF "sync" \in fresh
     THEN WriteAndReturn(
            WithConflict(cache, sync.base, cache.content, sync.remote,
                         ConflictUnits(sync.base, sync.local, sync.remote)))
     ELSE NextAttempt /\ UNCHANGED cache
  /\ UNCHANGED <<server, stage, load, recovery, history>>

\* A reconciliation without a conflict synchronises again; its transition is
\* lost when no attempt is left.
SyncReconcile ==
  LET c == Reconciled(cache, cache.base, sync.local, sync.remote) IN
  /\ sync.pc = "reconcile"
  /\ \/ /\ "sync" \notin fresh
        /\ NextAttempt
        /\ UNCHANGED cache
     \/ /\ "sync" \in fresh /\ HasConflictRevision(c)
        /\ WriteAndReturn(c)
     \/ /\ "sync" \in fresh /\ ~HasConflictRevision(c) /\ Attempts
        /\ sync' = Attempt
        /\ WriteAndHold(c)
     \/ /\ "sync" \in fresh /\ ~HasConflictRevision(c) /\ ~Attempts
        /\ SyncEnds
        /\ cache' = c
        /\ fresh' = fresh \cap {"observed"}
        /\ view' = [view EXCEPT !.held = None]
  /\ UNCHANGED <<server, stage, load, recovery, history>>

\* installSynchronizedSnapshot: load, then compare with what was submitted.
InstallLoad ==
  /\ sync.pc = "install"
  /\ sync' = [sync EXCEPT !.pc = "write", !.seen = cache.content,
                          !.same = "sync" \in fresh]
  /\ Capture("install")
  /\ UNCHANGED <<server, cache, view, stage, load, recovery, history>>

\* Mutant: the edited content is kept whole on top of the answer.
InstalledUnmerged ==
  IF sync.same THEN Replaced(sync.remote) ELSE Rebased(sync.seen, sync.remote)

Installed ==
  IF sync.same THEN Replaced(sync.remote)
  ELSE Reconciled(cache, sync.local, sync.seen, sync.remote)

\* An answer that is the submitted content keeps the local revision.
InstallWrite ==
  /\ sync.pc = "write" /\ "install" \in fresh
  /\ IF sync.same /\ sync.remote = sync.local
     THEN cache' = Installed /\ Returns
     ELSE WriteAndReturn(Installed)
  /\ UNCHANGED <<server, stage, load, recovery, history>>

\* After the last try the conflict is reported as an error of the call.
InstallRetry ==
  /\ sync.pc = "write" /\ "install" \notin fresh
  /\ IF sync.try + 1 < MaxTries
     THEN /\ sync' = [sync EXCEPT !.pc = "install", !.try = @ + 1]
          /\ UNCHANGED <<fresh, view>>
     ELSE Returns
  /\ UNCHANGED <<server, cache, stage, load, recovery, history>>

-----------------------------------------------------------------------------
(* reload of the session, and loadSnapshot of the repository *)

\* The reload waits for a synchronisation it meets; one that starts later
\* runs next to the load.
LoadStart ==
  /\ load.pc = "idle" /\ stage.pc = "idle" /\ ~Quiesced
  /\ budget.loads < MaxLoads
  /\ IF sync.pc = "idle"
     THEN /\ load' = [IdleLoad EXCEPT !.pc = "fetch"]
          /\ Capture("observed")
     ELSE /\ load' = [IdleLoad EXCEPT !.pc = "await", !.final = TRUE]
          /\ UNCHANGED fresh
  /\ budget' = [budget EXCEPT !.loads = @ + 1]
  /\ UNCHANGED <<server, cache, view, stage, sync, recovery, edited>>

LoadAwaited ==
  /\ load.pc = "await" /\ sync.pc = "idle"
  /\ load' = [load EXCEPT !.pc = "fetch"]
  /\ UNCHANGED <<server, cache, fresh, view, stage, sync, recovery, history>>

LoadFetched ==
  /\ load.pc = "fetch"
  /\ load' = [load EXCEPT !.pc = "reload", !.remote = server]
  /\ UNCHANGED <<server, cache, fresh, view, stage, sync, recovery, history>>

LoadReturns(c) ==
  [load EXCEPT !.pc = "return", !.result = Snapshot(c), !.seen = None,
               !.base = None, !.remote = None]

\* A queue is installed again, for the snapshot the session shows.
RestoreQueue ==
  fresh' = IF "view" \in fresh THEN fresh \cup {"authority"}
           ELSE fresh \ {"authority"}

LoadThrows ==
  /\ load' = IdleLoad
  /\ IF load.final THEN RestoreQueue ELSE UNCHANGED fresh

\* A server that cannot be reached: the cached snapshot is good enough.
LoadFallsBack ==
  /\ load.pc = "fetch"
  /\ load' = LoadReturns(cache)
  /\ Capture("load")
  /\ UNCHANGED <<server, cache, view, stage, sync, recovery, history>>

LoadFails ==
  /\ load.pc = "fetch"
  /\ LoadThrows
  /\ UNCHANGED <<server, cache, view, stage, sync, recovery, history>>

\* Mutant: pending edits are replaced like any other content.
LoadReloadReplaces ==
  /\ load.pc = "reload"
  /\ load' = IF cache.remote = load.remote THEN LoadReturns(cache)
             ELSE [load EXCEPT !.pc = "replace"]
  /\ Capture("load")
  /\ UNCHANGED <<server, cache, view, stage, sync, recovery, history>>

\* reconcileRemoteSnapshot
LoadReload ==
  /\ load.pc = "reload"
  /\ load' = IF cache.remote = load.remote THEN LoadReturns(cache)
             ELSE IF cache.pendingBase # None
             THEN [load EXCEPT !.pc = "context", !.seen = cache.content]
             ELSE [load EXCEPT !.pc = "replace"]
  /\ Capture("load")
  /\ UNCHANGED <<server, cache, view, stage, sync, recovery, history>>

LoadContext ==
  /\ load.pc = "context"
  /\ load' = [load EXCEPT !.pc = "rebase", !.base = cache.base]
  /\ UNCHANGED <<server, cache, fresh, view, stage, sync, recovery, history>>

LoadWrite ==
  LET c == IF load.pc = "replace" THEN Replaced(load.remote)
           ELSE Reconciled(cache, load.base, load.seen, load.remote)
  IN
  /\ load.pc \in {"rebase", "replace"} /\ "load" \in fresh
  /\ WriteSilently(c, "load")
  /\ load' = LoadReturns(c)
  /\ UNCHANGED <<server, view, stage, sync, recovery, history>>

LoadRetry ==
  /\ load.pc \in {"rebase", "replace"} /\ "load" \notin fresh
  /\ IF load.try + 1 < MaxTries
     THEN /\ load' = [load EXCEPT !.pc = "reload", !.try = @ + 1,
                                  !.seen = None, !.base = None]
          /\ UNCHANGED fresh
     ELSE LoadThrows
  /\ UNCHANGED <<server, cache, view, stage, sync, recovery, history>>

\* What follows the load in reload: a snapshot that a recovery has overtaken
\* is dropped; when the session's revision moved meanwhile the session loads
\* again, and so it does after a synchronisation that is under way.  A stage
\* that is refused again fails the reload.
LoadReturn ==
  LET meets == load.final \/ "observed" \in fresh IN
  /\ load.pc = "return"
  /\ \/ /\ load.dropped
        /\ load' = IdleLoad
        /\ UNCHANGED <<fresh, view>>
     \/ /\ ~load.dropped /\ stage.pc = "blocked"
        /\ LoadThrows
        /\ UNCHANGED view
     \/ /\ ~load.dropped /\ stage.pc = "idle" /\ ~meets
        /\ load' = [IdleLoad EXCEPT !.pc = "fetch"]
        /\ Capture("observed")
        /\ UNCHANGED view
     \/ /\ ~load.dropped /\ stage.pc = "idle" /\ meets /\ sync.pc # "idle"
        /\ load' = [IdleLoad EXCEPT !.pc = "await", !.final = TRUE]
        /\ UNCHANGED <<fresh, view>>
     \/ /\ ~load.dropped /\ stage.pc = "idle" /\ meets /\ sync.pc = "idle"
        /\ load' = IdleLoad
        /\ view' = Shown(load.result)
        /\ fresh' = (fresh \ {"view", "authority", "observed"})
                    \cup (IF "load" \in fresh THEN {"view", "authority"}
                          ELSE {})
  /\ UNCHANGED <<server, cache, stage, sync, recovery, history>>

-----------------------------------------------------------------------------
(* resolveConflict and discardPendingChangesAndReload of the session *)

\* Mutation stops.  Then the stage and the synchronisation come to an end.
RecoveryStart(kind) ==
  /\ ~Quiesced
  /\ kind = "proof" => view.conflicted
  /\ recovery' = [IdleRecovery EXCEPT !.pc = "wait", !.kind = kind]
  /\ load' = [load EXCEPT !.dropped = load.pc # "idle"]
  /\ UNCHANGED <<server, cache, fresh, view, stage, sync, history>>

RecoveryEnds == recovery' = IdleRecovery

\* A stage that is refused ends the recovery; otherwise the session's queue is
\* replaced.  A discard captures the local revision here.
RecoveryWaited ==
  /\ recovery.pc = "wait"
  /\ \/ /\ stage.pc = "blocked"
        /\ RecoveryEnds
        /\ UNCHANGED fresh
     \/ /\ stage.pc = "idle" /\ sync.pc = "idle"
        /\ recovery' = [recovery EXCEPT !.pc = recovery.kind]
        /\ IF recovery.kind = "fetch" THEN Capture("recovery")
                                      ELSE UNCHANGED fresh
  /\ UNCHANGED <<server, cache, view, stage, sync, load, history>>

\* loadConflict
ResolveProof ==
  /\ recovery.pc = "proof"
  /\ IF cache.conflict # None
     THEN /\ recovery' = [recovery EXCEPT !.pc = "resolve",
                                          !.remote = cache.conflict.remote]
          /\ Capture("recovery")
     ELSE RecoveryEnds /\ RestoreQueue
  /\ UNCHANGED <<server, cache, view, stage, sync, load, history>>

\* conflictResolution.resolve: the proof must still be current.
Resolve(preference) ==
  LET k == cache.conflict
      overlap == ~Merges(k.base, cache.content, k.remote)
      merged == MergedContent(k.base, cache.content, k.remote,
                              IF overlap THEN preference ELSE "none")
  IN
  /\ recovery.pc = "resolve"
  /\ IF /\ k # None /\ "recovery" \in fresh
        /\ cache.remote = recovery.remote /\ k.remote = recovery.remote
     THEN /\ WriteSilently(Rebased(merged, k.remote), "recovery")
          /\ edited' = edited \cup {u \in Unit : merged[u] # k.remote[u]}
          /\ recovery' = [IdleRecovery EXCEPT !.pc = "sync"]
          /\ sync' = [IdleSync EXCEPT !.pc = "load"]
     ELSE RecoveryEnds /\ RestoreQueue /\ UNCHANGED <<cache, sync, edited>>
  /\ UNCHANGED <<server, view, stage, load, budget>>

ResolveReturn ==
  /\ recovery.pc = "sync" /\ sync.pc = "idle"
  /\ RecoveryEnds
  /\ view' = Shown(Snapshot(cache))
  /\ fresh' = fresh \cup {"view", "authority"}
  /\ UNCHANGED <<server, cache, stage, sync, load, history>>

DiscardFetched ==
  /\ recovery.pc = "fetch"
  /\ recovery' = [recovery EXCEPT !.pc = "replace", !.remote = server]
  /\ UNCHANGED <<server, cache, fresh, view, stage, sync, load, history>>

DiscardFails ==
  /\ recovery.pc = "fetch"
  /\ RecoveryEnds
  /\ RestoreQueue
  /\ UNCHANGED <<server, cache, view, stage, sync, load, history>>

Discard ==
  /\ recovery.pc = "replace"
  /\ IF "recovery" \in fresh
     THEN /\ cache' = Replaced(recovery.remote)
          /\ view' = Shown(Snapshot(cache'))
          /\ fresh' = (fresh \cap {"observed"}) \cup {"view", "authority"}
     ELSE RestoreQueue /\ UNCHANGED <<cache, view>>
  /\ RecoveryEnds
  /\ UNCHANGED <<server, stage, sync, load, history>>

-----------------------------------------------------------------------------
\* Another client changes a unit on the server.
OtherWrites(u, v) ==
  /\ budget.writes < MaxWrites
  /\ v # server[u]
  /\ server' = [server EXCEPT ![u] = v]
  /\ budget' = [budget EXCEPT !.writes = @ + 1]
  /\ UNCHANGED <<cache, fresh, view, stage, sync, load, recovery, edited>>

\* The places between an event and the next wait for the server or the user.
InsideCall ==
  [stage    |-> stage.pc \notin {"idle", "blocked"},
   sync     |-> sync.pc \in {"load", "context", "write"},
   load     |-> load.pc \in {"context", "rebase", "replace"},
   recovery |-> recovery.pc = "resolve",
   user     |-> FALSE]

\* A call that has its last answer from the cache returns to the session
\* before anything else happens, whatever the cache is.
Returning ==
  [stage    |-> FALSE,
   sync     |-> FALSE,
   load     |-> load.pc = "return" /\ stage.pc = "idle",
   recovery |-> recovery.pc = "sync" /\ sync.pc = "idle",
   user     |-> FALSE]

Turn(p) ==
  \A q \in DOMAIN InsideCall \ {p} :
    ~Returning[q] /\ (CacheSuspends \/ ~InsideCall[q])

\* What the properties are not promised for: a synchronisation and a load run
\* at the same time; the authority lost track of the cache, after a call that
\* threw; a load finds a conflict, and the server back where the edits began.
Overlapping == sync.pc # "idle" /\ load.pc \notin {"idle", "await", "return"}
Lost == "authority" \notin fresh /\ load.pc = "idle" /\ recovery.pc = "idle"
Returned == /\ load.pc = "rebase" /\ cache.conflict # None
            /\ load.remote = cache.pendingBase
Astray == Overlapping \/ Lost \/ Returned
Tracked == astray' = (astray \/ Astray')

StageStep ==
  /\ Turn("stage")
  /\ StageLoad \/ StageContext \/ StageWrite \/ StageRetry \/ StageFlush
  /\ Tracked
SyncStep ==
  /\ \/ SyncServed
     \/ \E reply \in {"merge_conflict", "resource_conflict"} :
          SyncRefused(reply)
     \/ /\ Turn("sync")
        /\ \/ SyncFails \/ SyncFetched
           \/ SyncLoad \/ SyncContext \/ SyncRecord \/ SyncReconcile
           \/ InstallLoad \/ InstallWrite \/ InstallRetry
  /\ Tracked
LoadStep ==
  /\ \/ LoadFetched
     \/ /\ Turn("load")
        /\ \/ LoadAwaited \/ LoadFallsBack \/ LoadFails \/ LoadReload
           \/ LoadContext \/ LoadWrite \/ LoadRetry \/ LoadReturn
  /\ Tracked
RecoveryStep ==
  /\ \/ DiscardFetched
     \/ /\ Turn("recovery")
        /\ \/ RecoveryWaited \/ ResolveProof
           \/ \E preference \in {"local", "remote"} : Resolve(preference)
           \/ ResolveReturn \/ DiscardFails \/ Discard
  /\ Tracked
SessionStep ==
  /\ Turn("user")
  /\ \/ \E u \in Editable, v \in Slot : Edit(u, v)
     \/ SyncStart \/ LoadStart
     \/ \E kind \in {"proof", "fetch"} : RecoveryStart(kind)
  /\ Tracked
OtherClient ==
  /\ \E u \in Editable, v \in Slot : OtherWrites(u, v)
  /\ Tracked

Next ==
  \/ SessionStep \/ StageStep \/ SyncStep \/ LoadStep \/ RecoveryStep
  \/ OtherClient

\* The event loop resumes every call, and every request comes to an end.  Only
\* synchronisations, and loads whose return comes before anything else, are
\* assumed to go on: no property needs more.
Fairness == WF_vars(SyncStep) /\ WF_vars(LoadStep)

Spec == Init /\ [][Next]_vars /\ Fairness

-----------------------------------------------------------------------------
(* Properties *)

(* `astray' marks what the code does not survive: a load and a               *)
(* synchronisation at the same time (ClientSession shows where that ends), a *)
(* call that throws and takes transitions with it, and a load that finds a   *)
(* conflict and the content the pending edits began with.                    *)

Pending(u) == cache.pendingBase # None /\ cache.content[u] # cache.base[u]

\* docs/product-requirements.md:75: no remote result overwrites a local edit
\* that is still pending.  Only a recovery that the user asked for and the
\* user's next edit change it; a synchronisation that lands on top of an edit
\* made in flight, a load, and retries of both do not.
PendingEditsAreKept ==
  [][\A u \in Unit :
       Pending(u) /\ ~Quiesced /\ stage.pc # "write" /\ ~astray
         => cache'.content[u] = cache.content[u]]_vars

\* The record of a conflict is whole: it is about the content, the base and
\* the remote content the cache has, and names the units that overlap now,
\* through every edit made during the conflict (content-consistency.md:93-99).
ConflictIsWhole ==
  LET k == cache.conflict IN
  k # None =>
    /\ k.local = cache.content /\ k.base = cache.base
    /\ k.remote = cache.remote
    /\ k.unitIds = ConflictUnits(k.base, k.local, k.remote)

\* Without a conflict the base content is the one the base revision names, so
\* the server can check it; without pending edits the cache is that content.
BaseIsKnown ==
  cache.conflict = None =>
    /\ cache.base = cache.remote
    /\ cache.pendingBase \in {None, cache.base}
    /\ cache.pendingBase = None => cache.content = cache.base

\* docs/content-consistency.md:97: the snapshot is the only authority on
\* content, pending and conflict, so it shows a conflict exactly when one is
\* recorded (toSnapshot derives conflictRevision from two revisions): an
\* invisible one lets synchronisation run against it, a phantom one can never
\* be resolved.
ConflictIsVisible ==
  ~astray => (cache.conflict # None) = HasConflictRevision(cache)

\* A request never claims an edit that the user did not make: otherwise a
\* late answer would turn another client's change into a local edit, to be
\* written over what that client does next.
OnlyUserEditsAreSent ==
  ~astray /\ sync.pc = "send" /\ sync.base = sync.revision =>
    \A u \in Unit : sync.local[u] # sync.base[u] => u \in edited

\* A synchronisation comes to an end under any interleaving.
SynchronizationEnds == sync.pc # "idle" ~> sync.pc = "idle"
=============================================================================
