---------------------------- MODULE ClientSession ----------------------------
(***************************************************************************)
(* One session of a browser: the save queue with its timers                *)
(* (versionedRepositorySaveQueue.ts), the transition authority, the        *)
(* session's reload (versionedSessionController.ts) and the reconciler     *)
(* that asks for it, over the local-first repository and the change feed.  *)
(*                                                                         *)
(* The cache is a Map in memory, so a turn of the event loop runs until    *)
(* the session waits for the server, a timer or the user.  A turn may set  *)
(* up the next one itself: as long as a synchronisation is due (Busy) no   *)
(* other event is handled.                                                 *)
(*                                                                         *)
(* Transitions lead from one local revision to the next.  The authority    *)
(* accepts one if it has the local revision the cache had; `attached' says *)
(* so.  A load writes the cache without a transition.                      *)
(***************************************************************************)
EXTENDS ChangeFeed

VARIABLES
  cache,     \* content and remote content of the cache entry
  view,      \* the snapshot the session shows: the authority's
  head,      \* the optimistic head of the session, or None
  attached,  \* the authority has the local revision of the cache
  status,    \* the persistence status the session shows
  queue,     \* the save queue
  sync,      \* synchronizePendingSnapshot
  load,      \* reload of the session
  made,      \* history: the edits the user made
  derailed   \* history: an old answer was installed, or the authority lost
             \* track of the cache

session == <<cache, view, head, attached>>
client == <<session, status, queue, sync, load, made, derailed>>
vars == <<feed, client>>

Snapshot == [content : Content, remote : Content]
Status == {"saved", "pending-sync", "syncing", "offline", "offline-clean", "error"}

TypeOK ==
  /\ FeedTypeOK
  /\ cache \in Snapshot /\ view \in Snapshot
  /\ head \in Content \cup {None}
  /\ attached \in BOOLEAN /\ derailed \in BOOLEAN
  /\ status \in Status
  /\ queue \in [due : BOOLEAN, offline : BOOLEAN, blocked : BOOLEAN,
                timer : BOOLEAN, retry : BOOLEAN]
  /\ sync.pc \in {"idle", "due", "sent", "served", "ending"}
  /\ load.pc \in {"idle", "wait", "sent", "served"}
  /\ load.quiet \in BOOLEAN /\ load.moved \in BOOLEAN
  /\ load.quiet => ~queue.timer /\ ~queue.retry
  /\ attached => view = cache /\ head = None
  /\ made \subseteq Edit

IdleSync == [pc |-> "idle", base |-> {}, local |-> {}, same |-> FALSE, reply |-> {}]
IdleLoad == [pc |-> "idle", quiet |-> FALSE, moved |-> FALSE, reply |-> {}]

Pending(snapshot) == snapshot.content # snapshot.remote

Visible == IF head = None THEN view.content ELSE head

\* A three-way merge in which every change is a unit of its own.
Merge(base, local, remote) == (remote \ (base \ local)) \cup (local \ base)

\* Mutant: what is pending when a queue is created waits for the next edit.
NewQueueAtRest(snapshot, s) ==
  [due |-> Pending(snapshot),
   offline |-> s \in {"offline", "offline-clean"},
   blocked |-> s = "error",
   timer |-> FALSE,
   retry |-> FALSE]

\* A queue as it is created, for a session with this status.
NewQueue(snapshot, s) ==
  [due |-> Pending(snapshot),
   offline |-> s \in {"offline", "offline-clean"},
   blocked |-> s = "error",
   timer |-> s \in {"pending-sync", "offline"},
   retry |-> FALSE]

StatusOf(snapshot) == IF Pending(snapshot) THEN "pending-sync" ELSE "saved"

Init ==
  /\ FeedInit
  /\ cache = [content |-> {}, remote |-> {}]
  /\ view = cache /\ head = None /\ attached = TRUE
  /\ status = "saved"
  /\ queue = NewQueue(cache, "saved")
  /\ sync = IdleSync /\ load = IdleLoad
  /\ made = {} /\ derailed = FALSE

-----------------------------------------------------------------------------
(* Turns *)

\* Prepared for a reload, a queue is disposed and mutation stops.
Disposed == load.quiet

Reconciles ==
  \/ Consumes(view.remote)
  \/ Asks(view.remote, status = "saved") /\ load.pc = "idle"

Busy == Reconciles \/ sync.pc \in {"due", "ending"}

\* startSync
Begin(s) == IF s.pc = "idle" THEN [s EXCEPT !.pc = "due"] ELSE s

\* What the authority makes of a transition that leads to the cache's entry;
\* what the session shows follows it, because nothing is waiting to be staged.
Accept ==
  IF attached THEN view' = cache' /\ head' = None
  ELSE UNCHANGED <<view, head>>

\* The authority's local revision moves, or not, while a load is under way.
Moves(moving) == [load EXCEPT !.moved = @ \/ (moving /\ load.pc # "idle")]

-----------------------------------------------------------------------------
(* The user, and the timers of the queue *)

\* mutate: enqueue and runStage in one turn.  An edit of an older snapshot is
\* merged onto the cache.
MakeEdit(e) ==
  LET after == Visible \cup {e} IN
  /\ ~Busy /\ ~load.quiet
  /\ e \notin made
  /\ made' = made \cup {e}
  /\ cache' = [cache EXCEPT !.content = Merge(view.content, after, @)]
  /\ IF attached THEN view' = cache' /\ head' = None
                 ELSE head' = after /\ UNCHANGED view
  /\ queue' = [queue EXCEPT !.blocked = FALSE, !.timer = TRUE]
  /\ status' = IF queue.offline THEN "offline" ELSE StatusOf(view')
  /\ sync' = IF queue.due THEN Begin([sync EXCEPT !.same = FALSE])
             ELSE [sync EXCEPT !.same = FALSE]
  /\ load' = Moves(attached)
  /\ UNCHANGED <<feed, attached, derailed>>

\* The debounce timer.
SyncTimer ==
  /\ ~Busy /\ queue.timer
  /\ queue' = [queue EXCEPT !.timer = FALSE, !.due = TRUE]
  /\ sync' = Begin(sync)
  /\ UNCHANGED <<feed, session, status, load, made, derailed>>

RetryTimer ==
  /\ ~Busy /\ queue.retry
  /\ queue' = [queue EXCEPT !.retry = FALSE, !.due = TRUE]
  /\ sync' = Begin(sync)
  /\ UNCHANGED <<feed, session, status, load, made, derailed>>

\* The browser is online again, after a loss that a request or the stream met.
Reconnect ==
  /\ ~Busy /\ ~Disposed /\ ~queue.blocked
  /\ queue.offline \/ wire = None
  /\ queue' = [queue EXCEPT !.offline = FALSE, !.due = TRUE]
  /\ sync' = Begin(sync)
  /\ UNCHANGED <<feed, session, status, load, made, derailed>>

\* The user tries again what failed: the only button for it.
RequestSync ==
  /\ ~Busy /\ ~Disposed /\ status = "error"
  /\ queue' = [queue EXCEPT !.blocked = FALSE, !.due = TRUE]
  /\ sync' = Begin(sync)
  /\ UNCHANGED <<feed, session, status, load, made, derailed>>

-----------------------------------------------------------------------------
(* runSync *)

\* Mutant: a success is shown as saved, whatever was edited in flight.
SyncedSaved(due) ==
  /\ queue' = [queue EXCEPT !.due = due \/ Pending(view'), !.offline = FALSE,
                            !.blocked = FALSE, !.retry = FALSE]
  /\ status' = "saved"
  /\ sync' = [IdleSync EXCEPT !.pc = "ending"]

\* The repository reports success: edits that are pending by now are due again.
Synced(due) ==
  /\ queue' = [queue EXCEPT !.due = due \/ Pending(view'), !.offline = FALSE,
                            !.blocked = FALSE, !.retry = FALSE]
  /\ status' = StatusOf(view')
  /\ sync' = [IdleSync EXCEPT !.pc = "ending"]

\* It starts only when it is due; without pending edits nothing is sent.
RunSync ==
  /\ sync.pc = "due" /\ ~Reconciles
  /\ \/ /\ Disposed \/ queue.blocked \/ ~queue.due
        /\ sync' = IdleSync
        /\ UNCHANGED <<session, status, queue>>
     \/ /\ ~Disposed /\ ~queue.blocked /\ queue.due /\ Pending(cache)
        /\ sync' = [pc |-> "sent", base |-> cache.remote,
                    local |-> cache.content, same |-> TRUE, reply |-> {}]
        /\ queue' = [queue EXCEPT !.due = FALSE]
        /\ status' = "syncing"
        /\ UNCHANGED session
     \/ /\ ~Disposed /\ ~queue.blocked /\ queue.due /\ ~Pending(cache)
        /\ UNCHANGED session
        /\ Synced(FALSE)
  /\ UNCHANGED <<feed, load, made, derailed>>

SyncServed ==
  LET merged == Merge(sync.base, sync.local, server) IN
  /\ sync.pc = "sent"
  /\ Synchronized(merged)
  /\ sync' = [sync EXCEPT !.pc = "served", !.reply = merged]
  /\ UNCHANGED <<checkpoint, faults, missed, session, status, queue, load, made, derailed>>

\* Mutant: the answer replaces edits that were made in flight.
InstalledOverEdits == [content |-> sync.reply, remote |-> sync.reply]

\* installSynchronizedSnapshot
Installed ==
  [content |-> IF sync.same THEN sync.reply
               ELSE Merge(sync.local, cache.content, sync.reply),
   remote |-> sync.reply]

SyncAnswered ==
  /\ ~Busy /\ sync.pc = "served"
  /\ cache' = Installed
  /\ Accept
  /\ Synced(queue.due)
  /\ load' = Moves(attached /\ ~(sync.same /\ sync.reply = sync.local))
  /\ derailed' = (derailed \/ ~(cache.remote \subseteq sync.reply))
  /\ UNCHANGED <<feed, attached, made>>

\* The request or its answer is lost, or the server refuses it.
SyncOffline ==
  /\ ~Busy /\ sync.pc \in {"sent", "served"}
  /\ Fault
  /\ LET pending == Pending(view) \/ Pending(cache) IN
     /\ queue' = [queue EXCEPT !.offline = TRUE,
                               !.retry = @ \/ (pending /\ ~Disposed)]
     /\ status' = IF pending THEN "offline" ELSE "offline-clean"
  /\ sync' = [IdleSync EXCEPT !.pc = "ending"]
  /\ UNCHANGED <<server, hub, wire, checkpoint, missed, session, load, made, derailed>>

SyncFails ==
  /\ ~Busy /\ sync.pc = "sent"
  /\ Fault
  /\ queue' = [queue EXCEPT !.blocked = TRUE, !.retry = FALSE]
  /\ status' = "error"
  /\ sync' = [IdleSync EXCEPT !.pc = "ending"]
  /\ UNCHANGED <<server, hub, wire, checkpoint, missed, session, load, made, derailed>>

\* What is due again begins at once.
SyncEnds ==
  /\ sync.pc = "ending" /\ ~Reconciles
  /\ sync' = IF queue.due /\ ~Disposed /\ ~queue.blocked
             THEN [IdleSync EXCEPT !.pc = "due"] ELSE IdleSync
  /\ UNCHANGED <<feed, session, status, queue, load, made, derailed>>

-----------------------------------------------------------------------------
(* The reconciler, and reload *)

Consume ==
  /\ Consumes(view.remote)
  /\ checkpoint' = Tried
  /\ UNCHANGED <<server, hub, wire, faults, missed, client>>

\* Mutant: the timers of a queue that is disposed go on.
SilentKeepsTimers == queue

\* A queue that is prepared for a reload.
Silent == [queue EXCEPT !.timer = FALSE, !.retry = FALSE]

\* A reload that meets a synchronisation, even one about to end, stops the
\* queue and waits for it.
ReloadStarts ==
  /\ Asks(view.remote, status = "saved") /\ load.pc = "idle"
  /\ checkpoint' = Tried
  /\ IF sync.pc # "idle"
     THEN /\ load' = [IdleLoad EXCEPT !.pc = "wait", !.quiet = TRUE]
          /\ queue' = Silent
     ELSE /\ load' = [IdleLoad EXCEPT !.pc = "sent"]
          /\ UNCHANGED queue
  /\ UNCHANGED <<server, hub, wire, faults, missed, session, status, sync, made, derailed>>

ReloadWaited ==
  /\ load.pc = "wait" /\ sync.pc = "idle"
  /\ load' = [load EXCEPT !.pc = "sent"]
  /\ UNCHANGED <<feed, session, status, queue, sync, made, derailed>>

LoadServed ==
  /\ load.pc = "sent"
  /\ Loaded
  /\ load' = [load EXCEPT !.pc = "served", !.reply = server]
  /\ UNCHANGED <<server, wire, checkpoint, faults, missed, session, status, queue, sync, made, derailed>>

\* reconcileRemoteSnapshot
Reloaded ==
  [content |-> IF Pending(cache) THEN Merge(cache.remote, cache.content, load.reply)
               ELSE load.reply,
   remote |-> load.reply]

\* installSnapshot: a new queue for the snapshot that was loaded.
Install ==
  /\ view' = cache' /\ head' = None /\ attached' = TRUE
  /\ status' = StatusOf(cache')
  /\ queue' = NewQueue(cache', status')
  /\ load' = IdleLoad

\* What follows a load, the cache being c: another load if the session's
\* revision moved meanwhile, a wait if a synchronisation is under way.
AfterLoad(c, silent) ==
  /\ cache' = c
  /\ \/ /\ ~load.quiet /\ load.moved
        /\ load' = [IdleLoad EXCEPT !.pc = "sent"]
        /\ attached' = (attached /\ ~silent)
        /\ UNCHANGED <<view, head, status, queue>>
     \/ /\ ~load.quiet /\ ~load.moved /\ sync.pc # "idle"
        /\ load' = [IdleLoad EXCEPT !.pc = "wait", !.quiet = TRUE]
        /\ queue' = Silent
        /\ attached' = (attached /\ ~silent)
        /\ UNCHANGED <<view, head, status>>
     \/ /\ load.quiet \/ (~load.moved /\ sync.pc = "idle")
        /\ Install

LoadAnswered ==
  LET silent == load.reply # cache.remote IN
  /\ ~Busy /\ load.pc = "served"
  /\ AfterLoad(IF silent THEN Reloaded ELSE cache, silent)
  /\ sync' = [sync EXCEPT !.same = @ /\ ~silent]
  /\ derailed' = (derailed \/ ~attached' \/ ~(cache.remote \subseteq load.reply))
  /\ UNCHANGED <<feed, made>>

\* Without a server the cached snapshot is good enough.
LoadOffline ==
  /\ ~Busy /\ load.pc \in {"sent", "served"}
  /\ Fault
  /\ missed' = TRUE
  /\ AfterLoad(cache, FALSE)
  /\ UNCHANGED <<server, hub, wire, checkpoint, sync, made, derailed>>

\* A queue that was prepared for the reload is replaced.
LoadFails ==
  /\ ~Busy /\ load.pc \in {"sent", "served"}
  /\ Fault
  /\ missed' = TRUE
  /\ queue' = IF load.quiet THEN NewQueue(view, status) ELSE queue
  /\ load' = IdleLoad
  /\ UNCHANGED <<server, hub, wire, checkpoint, session, status, sync, made, derailed>>

-----------------------------------------------------------------------------
ServerStep ==
  /\ \/ \E w \in Write : OtherWrites(w)
     \/ ServerRestarts
  /\ UNCHANGED client

EventArrives == ~Busy /\ Receive /\ UNCHANGED client

StreamOpens == Connect /\ UNCHANGED client

StreamCloses == StreamBreaks /\ UNCHANGED client

Turn == RunSync \/ SyncEnds \/ Consume \/ ReloadStarts \/ ReloadWaited

UserStep == (\E e \in Edit : MakeEdit(e)) \/ RequestSync \/ Reconnect

RequestStep == SyncServed \/ SyncAnswered \/ LoadServed \/ LoadAnswered

FaultStep == SyncOffline \/ SyncFails \/ LoadOffline \/ LoadFails

Next ==
  \/ Turn \/ UserStep \/ SyncTimer \/ RetryTimer \/ RequestStep \/ FaultStep
  \/ ServerStep \/ EventArrives \/ StreamOpens \/ StreamCloses

\* A turn goes on, the server and the network answer, timers fire and streams
\* are opened again.
Fairness ==
  /\ WF_vars(Turn) /\ WF_vars(SyncTimer) /\ WF_vars(RetryTimer)
  /\ WF_vars(SyncServed) /\ WF_vars(SyncAnswered)
  /\ WF_vars(LoadServed) /\ WF_vars(LoadAnswered)
  /\ WF_vars(StreamOpens) /\ WF_vars(EventArrives)

Spec == Init /\ [][Next]_vars /\ Fairness

-----------------------------------------------------------------------------
(* Properties *)

(* `derailed' marks what the code does not survive: a load and a             *)
(* synchronisation whose answers arrive in the other order, and a load that  *)
(* writes the cache while an edit makes the session load again.  The run     *)
(* deleted_edit shows where that ends.                                       *)

\* docs/product-requirements.md:75: no remote result overwrites an edit of the
\* user.  Nobody takes a change back here, so the session shows every edit
\* made so far: through stages, answers merged in flight, reloads, failures.
EditsStayVisible == ~derailed => made \subseteq Visible

\* `saved' is a promise: the server has every edit, also those made while a
\* synchronisation or a reload was under way (runSync and installSnapshot
\* derive the status from pendingChanges).
SavedMeansSent == ~derailed /\ status = "saved" => made \subseteq server

\* Whatever sequence of timers, reconnections, answers and reloads the queue
\* meets, an edit does not stay behind without a timer, a due flag or an error
\* that the user is told of (versionedRepositorySaveQueue.ts:435-448).
EditsArrive ==
  \A e \in Edit : e \in made ~> (e \in server \/ status = "error" \/ derailed)

\* A session comes to show the server's content although a checkpoint is tried
\* only once, and only while nothing is pending (checkpointReloadReconciler.ts).
\* Not so when `missed': a reload that finds no server is not repeated, and a
\* server that restarted tells of no revision.
SessionConverges ==
  []<>(view.content = server \/ missed \/ derailed \/ status = "error")

\* docs/architecture.md:83: '旧读取和延迟 mutation 回包不得回退新状态'.  Nobody takes
\* a change back, so no request of this session takes one from the server.
NothingIsDeleted == [][server \subseteq server']_vars
=============================================================================
