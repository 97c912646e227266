# Verification of cognition-tree

cognition-tree keeps notes (the Workspace), a Journal and a Todo collection.
A browser edits them local-first and synchronises with a Node server, which
stores every content as a versioned file and serves other browsers, a content
API and Agents.  This directory holds TLA+ modules of the parts of that program
in which several actors, failures and retries meet, TLC configurations that
check them on small instances, and TLAPS proofs.

Run from this directory:

    tlc -config MCSnapshotSync.cfg MCSnapshotSync     # a run
    tlapm VersionedContentStore_proofs.tla            # a proof

PROJECT.json lists every component, run, mutant, hazard and theorem, and maps
each definition to the lines it models.

## 1. Inventory

Paths are relative to src/.

**Three-way merge** (application/persistence/threeWayMerge.ts).  No state.
Merges one value or a map of values, and raises the barrier that keeps a change
of grammar apart from changes of what it governs.  Called by the server for
every browser request and by the browser for every edit that meets a remote
change.  Correct when no edit is dropped, when both replicas decide alike, and
when a resent request is harmless.

**Domain merges** (application/workspace, journal, todo, each /persistence).
Compose the building blocks over the units of one domain: notes and tree,
Journal entries, the Todo body, its order and its completions.

**Versioned content store**
(infrastructure/server/repository/versioned/contentStore.ts over
infrastructure/server/persistence).  State: one JSON file, a lock directory
next to it, a promise chain of operations per store object, #terminalError.
Operations: load, commit by compare-and-set on a hash of the content.  Hard:
two processes on one file, a write that fails between its rename and the
synchronisation of the directory, a lock that cannot be released or goes stale,
restarts, power losses.

**Snapshot synchronisation** (application/sync/snapshotSync.ts).  State: that
of the store.  At most three times: load, merge the request onto the current
content, commit by compare-and-set.  Other writers use exact compare-and-set.
Hard: contention, lost answers and resends, unknown outcomes.

**Local-first repository** (application/persistence/localFirst).  State: the
cache entry of a repository (content, remote revision, base content, pending
base revision, conflict), local revisions.  Operations: stage an edit,
synchronise, load, resolve a conflict, discard.  They run concurrently, read
the cache, compute, wait for the server, and write back if the local revision
is still the one they read.

**Save queue, transition authority and session controller**
(application/persistence/versioned*.ts).  State: the snapshot a session shows,
the optimistic head, the active stage and synchronisation, the transitions not
yet accepted.  They schedule the repository's calls and hand its transitions
over in the order of the revisions.

**Workspace working-tree transactions**
(infrastructure/server/repository/workspace/local).  A write-ahead directory
makes a change of many Markdown files atomic; recovery rolls back or forward.

**Content operations and receipts** (application/content,
application/operations, infrastructure/server/operations).  A ledger of
intents and results by operation id: an operation runs at most once, and one
whose result is unknown is never repeated.

**Agent proposals and sessions** (application/agent, application/agentHost,
infrastructure/server/agent).  A proposal is frozen, approved, checked against
its base and committed; sessions share a bounded pool, turns of a profile are
serialised.

**Write barrier and data-root migration** (application/runtime,
application/system, infrastructure/server/system).  The barrier admits writes
or one maintenance; the coordinator copies the data root, commits a pointer to
it and restarts, and reconciles after a crash.

**Change notification** (application/sync/domainRevisionTracker.ts,
application/workbench/checkpointReloadReconciler.ts,
infrastructure/server/api/sync, infrastructure/client/http/apiEvents.ts).
State: the revision last seen of each content, the sequence and id of a stream
of events, and in the browser the latest checkpoint and the sequence last tried.
Sessions reload when a checkpoint differs from what they show.  Hard: broken
streams, restarts, a session that is busy when the checkpoint arrives.

**Repository catalogs** (application/repository,
infrastructure/server/repository).  Lists of repositories with their own
operations, generations and replayed receipts.

The remaining parts (domain cores, search, problems and syntax, workbench,
HTTP API, runtimes, presentation, contracts, tooling) are pure functions,
views, wiring or input and output; PROJECT.json says for each why it is left
out.

## 2. Modules

| module | models | state and actions |
|---|---|---|
| ThreeWayMerge | threeWayMerge.ts | operators: MergeThreeWayValue, MergeThreeWayMapValues, CrossesSyntaxMergeBarrier |
| ContentMerge | the merge of a whole content | a content maps merge units to values; one unit is the grammar |
| CasStore | abstract: what a store promises | content, durable, call; Invoke, Apply, Flush, Commit, Answer, PowerLoss |
| VersionedContentStore | contentStore.ts | one action per file-system step of #runOperation, commit, #resolveFailedCommit |
| SnapshotSync | snapshotSync.ts over one store | one action per half of an attempt: LoadAndMerge, Commit, LoseRace, and the failures |
| WorkingTreeTransaction | workingTreeTransaction*.ts, workspaceFileStore.ts | the visible files, the head, the transaction directories that are left; one action per step of a commit, a rollback and a recovery, and Crash at every one |
| LocalFirstRepository | localFirst, save queue, authority, session | one action between two awaits of stageSnapshot, synchronizePendingSnapshot, loadSnapshot, the conflict resolution and the discard |
| ServedContent | what operations and proposals share: the content of one served repository (an instance of CasStore) and the state of the ledger | content, durable, call, ledger, and as history whose change is where; Apply, Synchronize, Reject, Break of a call, Save of a user, Restart with or without power loss |
| ContentOperations | contentOperationLedger.ts, contentReceiptStore.ts over secureJsonPartition.ts, commandSupport.ts | receipts a reader sees and those on the disk, runs, results that could not be written, queries, the audit; Call, ReadReceipt, Admit, Reserve, Load, Prepare, the commit by ServedContent, SaveResult, Audit, Close, and Ask, Look, Reply of a query |
| AgentProposals | agentProposal.ts, proposalWorkflow.ts, proposalCommitter.ts, agentOperationLedger.ts over operationLedgerStore.ts | proposals with base and status, ledger entries a reader sees and those on the disk, the place of a commit, consent; Stage, Approve, Decline, ConfirmDestruction, Begin, Execute, Executed, Finalize, Revoke |
| ChangeFeed | domainRevisionTracker.ts, domainChangeCoordinator.ts, events.ts, apiEvents.ts, checkpointReloadReconciler.ts | the server's content, the hub, the stream, what the reconciler remembers; commits, restarts, connections, events |
| ClientSession | versionedRepositorySaveQueue.ts, versionedRepositoryTransitionAuthority.ts, versionedSessionController.ts | cache, session, queue with its flags and timers, a synchronisation and a reload under way; one action per turn of the event loop |
| OperationServer | the process that holds both over one content | composes the two; death of the process, power loss, restart |
| WriteBarrier | writeBarrier.ts | admitted leases, deferred tasks, the maintenance window; Admit, Leave, Close, Drained, Reopen as operators |
| DataRootMigration | dataRootMigrationCoordinator.ts, bootstrapConfigurationStore.ts, serverLifecycle.ts over WriteBarrier | pointer, roots, records, requests and tasks, the server's mode; one action per awaited step of a migration, a startup and the recovery server |

Each MC module gives one of them its symmetry; MCContentMerge also holds the
transition system that evaluates the merge.  The theorems and their proofs
(section 4) are in modules of their own.  ContentMerge_proofs is about the merge
and its evaluation in MCContentMerge, and SnapshotSync_proofs and
LocalFirstRepository_proofs extend it for its lemmas;
VersionedContentStore_proofs, WorkingTreeTransaction_proofs,
OperationServer_proofs, DataRootMigration_proofs and ClientSession_proofs stand for
themselves.

ContentMerge extends ThreeWayMerge.  SnapshotSync and LocalFirstRepository
extend ContentMerge: server and browser use the same merge, as in the code.
VersionedContentStore implements CasStore (ImplementsCasStore); SnapshotSync
uses a store with CasStore's atomic compare-and-set and its unknown outcomes;
LocalFirstRepository uses a server that answers a request in one step, as
SnapshotSync's `Commit' does.  OperationServer composes ContentOperations and
AgentProposals over the one content of ServedContent: both commit on a base
revision, and a save of the user comes between.  DataRootMigration uses the
operators of WriteBarrier for every lease it takes, defers or drains.
ClientSession extends ChangeFeed: a commit of the session is an event of the
feed, and the feed's checkpoints make the session reload.  It stands to
LocalFirstRepository as the schedule to the steps: LocalFirstRepository lets a
synchronisation or a reload start at any time and has every await, conflicts
and discard; ClientSession has timers, flags and events, and turns of the event
loop in which the cache answers at once.

### Revisions

A revision of the server is a hash of a content (createRevision), so modules
compare contents where the code compares revisions.  A local revision is a
fresh name for every write of the cache, and the code only asks whether one is
still the cache's; LocalFirstRepository therefore keeps, in `fresh', the set of
readers whose captured local revision is current.

### The cache's promises

The cache is a port of promises.  In the build it is a Map, whose promises
settle before the next event; then calls interleave only where they wait for
the server or the user (CacheSuspends = FALSE).  With CacheSuspends = TRUE they
interleave at every await, which is what the port allows.

### What the modules leave out of the parts they model

- VersionedContentStore: prepared projections (a cache by revision); the
  projection of an unpublished store; the size limit is one of the reasons for
  which a write fails.
- SnapshotSync: the projection of changes and the publication of the revision,
  which the handler does in the same turn as the commit's return.
- WorkingTreeTransaction: directories (they follow from the files), label
  renames, the window inside applyFile between its check of a file and its
  replacement, the validation of the transaction directory's entries beyond
  whether manifest and payload are complete.  Two paths that only these reach
  are worth knowing: a label rename rewrites repository.json, so a transaction
  directory left by a failed removal makes the next start refuse the head; and
  a rollback that fails leaves the store open, so that the next load adopts
  the half-written files as a new revision.  AllOrNothing names the second as
  its exception "rollback".
- LocalFirstRepository: the very first load of a repository and its removal,
  recovery transforms of an invalid cache, validateTransition, prepared
  projections, the coalescing of several edits during one stage, timers and the
  schedule of retries (a synchronisation may start whenever the queue is
  allowed to start one; ClientSession has the schedule), more than one reload at
  a time.
- ClientSession and ChangeFeed: conflicts, discard and a cache that suspends
  (LocalFirstRepository has them); stages that fail; the second and third
  attempt of a synchronisation, which contention on the server costs; discard,
  removal and disposal of a session; reloads the user asks for, which run like
  those of a checkpoint, and more than one at a time; several contents behind
  one stream and the catalog's part of a checkpoint; queries that observe a
  revision; the delays of retries and reconnections; the synchronisation before
  an Agent's operation, which asks startSync again and again until nothing is
  due (versionedRepositorySaveQueue.ts:597-615).  An `online' event comes only
  after a request or the stream met the loss.  Changes never overlap and are
  never taken back, so a content is the set of its changes.
- ContentOperations: the digest of a request is represented by the base it was
  made on; callers that join a running call; the migration of legacy receipts;
  the trimming and the capacity of the audit; a second server process, which
  the lease of the data root excludes; disposal of a session; commands of the
  catalog.  That every call ends was seen with strong fairness of the writers
  of the ledger, and is not part of the run.
- AgentProposals: the settled continuations of an ended Agent run are one step.
  The content never answers "corrupt" after it was published.  The Workspace
  store can: a head that cannot be read back after a publication is a
  RepositoryCorruptError (workingTreeTransaction.ts:249-284), which
  proposalCommitter.ts:100 reports as a failure although the change is there.
- OperationServer: a reservation that was written but not synchronised when the
  power fails makes an earlier answer "indeterminate" the only trace of a call.
- DataRootMigration: the outcome and message a record shows; the recovery
  server's page that resets a record, other actions of the operator than to
  start the process; two processes and the lease of the data root; edits of the
  source by other programs while it is copied; the checks of source and
  destination; a copy that is done in part (copying is one step that may fail
  whole); the failing release of a partition's lock; the rewrite of legacy
  formats; restarts that a settings update asks for; receipts, which are not
  copied (docs/deployment.md:131).  Two paths at its edge: a first record that
  cannot be written leaves the coordinator refusing every later start until the
  process ends (dataRootMigrationCoordinator.ts:60), and a change of the owner's
  credential changes the configuration's revision as UpdateSettings does.

## 3. Runs

| run | module and cfg | what it shows | distinct states |
|---|---|---|---|
| content_merge | MCContentMerge, MCContentMerge.cfg | the merge of every triple of contents: no edit dropped, a preference decides only overlaps, the sides are interchangeable, a resend is harmless, a revert ends a conflict, sending early costs nothing | 78 732 |
| content_store | MCVersionedContentStore, MCVersionedContentStore.cfg | the store implements the compare-and-set register CasStore through failing writes and releases, stale locks, restarts and power losses; one writer at a time; every operation settles | 184 032 |
| snapshot_sync | MCSnapshotSync, MCSnapshotSync.cfg | a commit is exactly the request's edit applied to what it replaces; retries end only after real contention; an edit that was applied is never refused | 34 790 |
| local_first_edits | MCLocalFirstRepository, MCLocalFirstEdits.cfg | edits before, during and after a conflict: conflicts are whole and visible, and only the user's edits are sent | 360 775 |
| local_first_reload | MCLocalFirstRepository, MCLocalFirstReload.cfg | reload and recovery next to stage and synchronisation at every await: pending edits are kept as long as nothing went astray (below), the base is the one the revision names, every synchronisation ends | 193 599 |
| working_tree | MCWorkingTreeTransaction, MCWorkingTreeTransaction.cfg | after any crash or failed step an open Workspace is one whole revision its callers expect, and it can be opened unless a transaction directory was damaged | 533 763 |
| operations | MCOperationServer, MCOperationServer.cfg | an operation takes effect at most once and every answer about it is true, through failing writes, deaths of the process and power losses; an answered operation is not run again; a proposal changes only what was consented to and never misreports it | 1 112 487 |
| data_root_migration | MCDataRootMigration, MCDataRootMigration.cfg | no acknowledged write is missing from the root that counts, no work of a request or a task runs inside a migration, and the service comes back | 572 005 |
| client_session | MCClientSession, MCClientSession.cfg | through any order of timers, answers, reloads, events and one fault the user sees every edit, "saved" is true, every edit reaches the server or the user is told, and the session comes to show what the server holds | 207 076 |
| deleted_edit | MCClientSession, MCClientSessionDeleted.cfg | counterexample, see below | |
| killed_writer | MCWorkingTreeTransaction, MCWorkingTreeKilled.cfg | counterexample, see below | |
| overtaken_migration | MCDataRootMigration, MCDataRootMigrationOvertaken.cfg | counterexample, see below | |

Every property of a passing run has a mutant in PROJECT.json: a plausible
mistake in one of the mapped definitions with which TLC finds the property
violated.  The mutated definitions stand next to the ones they replace and are
marked Mutant.

Bounds and why they are enough.

- content_merge: the grammar and two notes, two values and absence: a value
  merge tells apart at most base, local and remote, so three slots show every
  pattern of equalities, and two notes show one that overlaps next to one that
  does not.
- content_store: two store objects, since exclusion and refinement are about
  pairs; two contents, so that base, candidate and current content can agree or
  not; one waiting operation, since operations of one object do not overlap.
  The proofs drop these bounds.
- snapshot_sync: one request; what other requests commit is among the contents
  an exact writer may commit.  MaxAttempts is the code's literal 3.
- local_first_edits: two edits and two writes of others on two units, the least
  with which an edit is made during a conflict and a remote change comes between
  two attempts; no reload.
- local_first_reload: one edit, one write of another client, one reload (which
  may load again), any number of recoveries, at every await.
- working_tree: two files, so that a commit can be half done; three contents,
  so that base, target and what another program wrote differ; two commits, so
  that a directory that one left meets the head of the next; one foreign edit;
  one failing removal, rollback or synchronisation, and any number of crashes.
  With two such failures TLC covers 451 167 states without foreign edits and
  finds nothing new.
- operations: one operation and one proposal, since operations meet only in the
  content and in the ledger's file; two contents; one save of the user, which is
  what makes a base stale; two failing writes, so that a write and the write
  that reports its failure can both fail; one death or power loss.
- data_root_migration: two requests, one to be admitted and one to be deferred;
  three roots, so that a second migration may go back or on; two writes, one
  settings update, two failing calls and one death or power loss, the least
  with which an unknown commit, a failed record and a crash meet.
- client_session: two edits, so that one is made while the other is under way;
  one change of another client, which is what starts a reload; one fault (a
  lost request or answer, a refused request, a broken stream or a restart of the
  server).  With two changes of others TLC covers 2 415 845 states and the
  invariants hold.
- The three counterexample runs have the least bounds that show the behaviour.

Symmetry: values are only compared for equality and units are independent, so
permutations of values and of editable units are sound in the runs without a
liveness property; runs with one use no symmetry.

Fairness is stated where a liveness property needs it, and is weak fairness of a
process' own steps: the event loop resumes a call whose promise has settled,
and every file-system call and request settles, with an error at worst.
ServiceReturns also assumes what surrounds the process: that the operator starts
a process that is down (Boot), that somebody tries the recovery server again
(Retry), that the launcher kills a process that was asked to restart (Kill), and
that a session's frame ends (FinishFrame).  In client_session a timer fires, a
server answers and a stream that is closed is opened again (apiEvents.ts:107-120),
each weakly fair; the user need not do anything.  Nothing is assumed of users, other
clients, lock holders or crashes.

Runs that stop by design do not check for deadlock: content_merge, which only
evaluates, the local-first runs, whose edits are used up, operations, where
a ledger that cannot be loaded after the one crash the bound allows leaves a
server that does nothing more, and client_session, where the session rests once
the edits, the other client's change and the fault are used up.

### What the counterexample runs show

- deleted_edit: another client's change makes the session reload while the user
  goes on editing.  The reload's first read is served before the session's own
  commit and answered after it, while the next edit is being sent: the pending
  edit is rebased onto the old content, which takes the committed edit out of
  the cache, and the installation of the answer counts that as an edit of the
  user.  The next synchronisation deletes the committed edit on the server.
  Nothing fails in this run.  The history variable `derailed' names the moment;
  the invariants of client_session hold of every behaviour without it.
- killed_writer: the manifest of a transaction is created under its own name
  and then written.  A process that is killed in between leaves one that is not
  JSON, and every later start of the repository refuses it, although no visible
  file was touched.  The test that kills a writer at every phase has no phase
  there.
- overtaken_migration: an update of the system's settings that was admitted
  before the barrier closed commits after the migration has read the
  configuration.  Its commit is then refused, reconciliation finds neither the
  base nor the target revision and cannot prove that nothing happened, and
  every start and every retry of the recovery server ends there: the server
  never serves its source again although no call failed and nothing crashed.
  UncommittedFailureKeepsSource is violated there; ServiceReturns holds of every
  behaviour but these (Overtaken names them).

Behaviours that were seen with these modules and are not checked again:

- The answer of a commit is lost, the lone user takes the edit back, and the
  next synchronisation brings it back, because the pending content equals its
  base again and the server sees no edit.
- The read of a reload that was served before a synchronisation's commit rolls
  the cache back, although the load compares and sets on the local revision: an
  answer that equals the submitted content keeps that revision
  (localFirstRepositoryRemoteReconciliation.ts:270-272).  deleted_edit is where
  that leads.
- A synchronisation that reconciled in one attempt and throws in a later one
  drops the transitions it collected
  (localFirstRepositorySynchronization.ts:382-406); the session then never shows
  what the cache holds.
- A reload's first answer writes the cache while an edit makes the session load
  again: the authority does not know the cache's revision and accepts no
  transition, so pendingChanges stays true in it although the cache has nothing
  to send.  If a synchronisation ends before the second answer arrives, every
  synchronisation succeeds and is due again at once
  (versionedRepositorySaveQueue.ts:383-394, 435-448), without leaving the
  microtasks of one turn: no other event of the page is handled any more
  (`[]<>~Busy' of ClientSession is violated).
- A reload that fails, and a checkpoint of a server that has restarted, are not
  tried again before the next change of the content: the comment
  infrastructure/client/http/apiEvents.ts:102-104 says that the reconnect
  checkpoint repairs any missed interval.  SessionConverges names this `missed'.

### What the local-first properties except

ConflictIsWhole and BaseIsKnown hold of every behaviour.  ConflictIsVisible,
OnlyUserEditsAreSent and PendingEditsAreKept are promised until something goes
astray; the history variable `astray' records, in the step that does it, one of
three things.  The bounds of the runs are too small for some of what follows: it
came to light when the invariant of the proof turned out not to be inductive, and
TLC then showed it with larger bounds.

- Overlapping: a load and a synchronisation run at the same time.  What the load
  brings or takes is then counted as the user's (deleted_edit is where that
  leads), and a conflict may be recorded on an entry whose pending base the load
  has cleared.
- Lost: a synchronisation throws, for instance because three attempts were
  answered with resource_conflict, and takes the transitions it held with it.
  The authority then knows neither the cache's revision nor a conflict that the
  cache has, so a later synchronisation runs on top of that conflict (two edits
  and four writes of others).
- Returned: an edit made in flight overlaps with what another client wrote into
  the answer, so a conflict is recorded whose base is the submitted content
  while pendingBaseRevision is the older one the edits began with.  Then other
  clients take the server back to that older content and the session reloads:
  the conflict now has a remote revision that equals pendingBaseRevision, toSnapshot
  sees no conflict, and the next synchronisation sends the conflicted content
  (three edits, three writes, one load).

A resolution in favour of the local content keeps it in units the user did not
edit when the conflict is that of the grammar barrier, whose content is one.
So `edited' of OnlyUserEditsAreSent holds the units a resolution kept, too.

What this means for the hazards: the overlap of a load with a synchronisation is
caught going wrong by deleted_edit alone, and PendingEditsAreKept and
EditsStayVisible hold up to it; the lost hand-over and the reload that fails have
no property at all.  PROJECT.json lists them so.

## 4. Proofs

Every safety property of the passing runs is a theorem, and so is the refinement
of CasStore.  The theorems hold for every value of the constants, bounds included,
under the assumptions the modules name.  Those assumptions are of four kinds:

- The grammar is one of the units (SyntaxAssumption), clients edit units
  (EditedUnits), the actors of a server are its operations and proposals, which
  are not the same (ActorAssumption, OperationAssumption of ContentOperations,
  ProposalAssumption), and the first data root is a directory (RootAssumption).
- The names for "nothing" are none of the things they stand beside
  (ProcAssumption, SnapshotAssumption, OperationAssumption of
  VersionedContentStore, ContentsAssumption, ReceiptAssumption, StatusAssumption,
  RecordAssumption, TransactionAssumption, NoneAssumption).  In the code null is no
  record, no content and no string.
- The edits of a session's user are not the writes of others (ChangesAssumption).
- A bound is a natural number, CacheSuspends a truth value, and a file has a
  content it may have (Bounds and the other Bound assumptions, FaultsAssumption,
  QueueAssumption, Suspension, ValueAssumption).

In every one of them the property is not inductive, and what makes it so is the
argument for why the code is right.  TLC checked each invariant on the run of its
module before it was proved.  No theorem uses fairness.

**The store** (VersionedContentStore_proofs).  TypeCorrect,
WritersExcludeEachOther, StoreInvariant and StoreImplementsCasStore.  TypeOK is
not inductive, because a rename puts the candidate of the running operation into
the file and only a commit has one; OperationFits says that whoever waits for the
lock or writes runs a commit.  OneWriter is not inductive, because nothing in it
keeps a second process out; LockIsHeld says that whoever is between its snapshot
and its release owns the lock directory.  A stale lock is taken from a process
only when that process is in none of these places any more, which is what the
code's heartbeat is for.  StoreImplementsCasStore is the refinement, for any set
of processes and any length of their queues: the initial states map to initial
states, and each step of the file system maps to a step of CasStore or to a
stutter, and the proof has one step per action that says which (a rename is Apply,
the synchronisation of the directory Commit or Flush, and so on).  It needs CommitIsOnItsWay: until its
rename the file has the content that the commit compared, so the rename is a
compare-and-set, and base and candidate differ, so the second look at the file
after a failure tells which of the two happened.

**The merge** (ContentMerge_proofs).  The lemmas state
the merge of a value, the barrier and the success of a merge unit by unit, and
MergeAppliesTheEdit: a merge that succeeds is the local edit applied to the
remote content.  From them all six properties of content_merge follow for any
units and values.  Their invariant Evaluated only says that a merge is reported as
done exactly when the units allow it.

**Snapshot synchronisation** (SnapshotSync_proofs).  TypeCorrect and the three
action properties of snapshot_sync, for any number of concurrent requests (the
run has one).  The invariant is Remembers: between the halves of an attempt the
wanted content is the edit merged onto the snapshot, and a request has noticed
one write by others for every attempt it lost, and one more when the content is
no longer its snapshot.  The last part is what makes the bound of three
attempts mean contention: without it a lost compare-and-set could have no
writer.  CommitsAreExact then is MergeAppliesTheEdit at the moment of the
commit.

**The local-first repository** (LocalFirstRepository_proofs).  TypeCorrect,
ConflictsAreWhole, BasesAreKnown, ConflictsAreVisible, NothingElseIsSent and
EditsOutliveRemotes, with a cache that suspends and with one that does not.  The
invariant has two parts.  Structure holds always: Phases (each call has the data
its phase needs; a merge_conflict was about contents that do not merge), Readers
(a reader whose captured local revision is still the cache's knows the content of
the cache, so that what it computed from its reading is what it may write) and
coherence of the entry itself.  ConflictsAreWhole and BasesAreKnown rest on it,
and what is proved of the optimistic check of the local revision is Readers.
Followed holds until something goes astray: Tracks (the transitions the session
has, or will be handed, lead to the cache's entry, so what the session shows of
a conflict is true), Undisturbed (no conflict exists while a synchronisation
runs, the pending base is the one it took, and the answer holds the submitted
edits), Reloading, and CacheEdited, SyncEdited and StageEdited, which lead every
difference between two contents back to an edit.  Neither of the first two can
be had alone: a synchronisation starts only when the session shows no conflict,
and the session shows the truth only while synchronisations hand over what they
wrote.  Each action has one lemma for each part.  EditsOutliveRemotes follows
step by step: only an installation, a reconciliation and a load write over pending
edits, and each merges them (MergeAppliesTheEdit).

**The working tree** (WorkingTreeTransaction_proofs).  TypeCorrect,
WholeTreeOrNothing (AllOrNothing) and OnlyDamageIsRefused (RefusesOnlyDamage), for
any number of files, and of deaths of commits and of recoveries.  Both properties
speak of a repository that is open or refused, and what it finds on the disk was
left by a process that died anywhere.  The invariant follows the files while
they differ from the head: a file that differs is one the phase under way still
has to replace, or one that a directory with a whole manifest restores
(Mendable); the head names the tree that the transaction goes to, forward or
back (HeadDecides); the manifest is whole before the first file is replaced
(Written).  So a recovery that has emptied the list of directories has mended
every file.  Unharmed adds what a recovery needs in order not to refuse.

**Operations and proposals** (OperationServer_proofs).  TypeCorrect,
ChangesOnceAtMost, OneTrueAnswer, EvidenceIsKept, AnswersEndExecution,
ProposalsAreTrue and ConsentComesFirst, for any number of operations and
proposals on one content (the run has one of each).  An answer is true because
of the call of the store it was made from (CallIsTrue), and stays so because
every place that can still give one holds the same: the receipt a reader sees,
the one on the disk, the one in memory, a result on its way to its receipt, and
a query that has read one (Claims, OneTruth).  A receipt that the power takes
away was not acted on, because the marker that the operation is prepared was on
the disk before the store was called (Untouched, Evidence, Executing).  Agrees and
Committing say the same of a proposal and its ledger entry.  Every action belongs
to one operation or proposal; frame lemmas carry the invariant for the others.

**The migration** (DataRootMigration_proofs).  TypeCorrect, NoWriteIsLost
(WritesAreKept) and MigrationsAreAlone (MigrationIsAlone), for any number of
directories and requests.  The pointer a reader sees and the one on the disk name
directories that hold every acknowledged write at every step of the coordinator
(PointedToHolds): the pointer moves only after the destination was compared with
the source while nothing could write, and the two differ only while the record
says that a migration is pending (PointerIsSettled).  So the invariant relates the
coordinator's place in its program to the mode of the process (WorkFitsMode), to
the lease, the barrier and the active requests (LeaseIsExclusive), and to the
record in memory and on the disk (RecordIsKnown, MoveIsFromHere, RecordIsValid).

**The session** (ClientSession_proofs).  TypeCorrect, EditsAreVisible
(EditsStayVisible), SavedEditsAreSent (SavedMeansSent) and NothingDeleted, for any
edits, writes and number of faults.  Contents are sets of changes here, so "nothing is
lost" is an inclusion, and the invariant follows an edit on its way to the server and
back: it is in the cache (CacheHolds), what was sent is still in the cache, and
exactly that if no transition came since (SentHolds), and an answer holds what was
sent and nothing the server does not have (ReplyHolds).  SavedHolds says that
"saved" is shown only while nothing is pending.  None of them can be had alone: a
merge keeps both sides only when its base is part of its local side, and CacheHolds
and SentHolds say so of each other's merges.  All this ends when the session is
derailed.  NothingDeleted is the other side of the counterexample deleted_edit: until
the session is derailed no step takes a change off the server.

**Model-checked only.**  Liveness is out of the prover's reach: OperationsSettle,
SynchronizationEnds, ServiceReturns, EditsArrive and SessionConverges.  The
properties of the counterexample runs are false.

## 5. Plan

Done: the content store and its specification, the merge, the server's and the
browser's side of synchronisation, the working-tree transactions, content
operations and proposals, the write barrier and the data-root migration, the
session with its save queue over the change feed, and the proofs above.

No safety property of a run is left to prove.  Theorems that would say more: that
the attempts of SnapshotSync, each with CasStore's compare-and-set, implement one
step that merges a request, which is what LocalFirstRepository and ClientSession
take the server to be; and what SavedMeansSent becomes in LocalFirstRepository,
where changes overlap.

Modules that are not written, the most important first:

- SessionPool (sessionPool.ts, profileTurnQueue.ts): capacity, expiry, opening
  and disposal.
- WorkspaceMerge, TodoMerge and JournalMerge: what the units of one domain mean
  to each other after a merge.
- Catalog: answers out of order, and the deletion of a repository.

## 6. Not modelled

Most of the repository is parsing and editing of CTN (core), projections,
views and request encoding: functions of one input without state, in which no
order of events, failure or retry plays a part.  The unit tests compare them
with expected results, and a model would restate them line by line.  The
runtimes wire components together, and the contracts are types.

Stateful parts that are left for later are in the plan: agent sessions,
repository catalogs, what the units of one domain mean to each other after a
merge, and the workbench, which forwards the states of the sessions modelled
here.  Provider protocols of Agents and the credentials of the state partitions
depend on programs outside this repository.
