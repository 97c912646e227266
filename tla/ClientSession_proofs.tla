------------------------ MODULE ClientSession_proofs ------------------------
(***************************************************************************)
(* Proofs about a browser's session, for any numbers of edits, of other    *)
(* writes and of faults: its types, that an edit the user made stays in    *)
(* what the session shows, and that a session whose status is "saved" has  *)
(* nothing the server lacks.                                               *)
(*                                                                         *)
(* The invariant has a part that holds always, the types of the session    *)
(* and of its requests (Requested), and one that holds until the session   *)
(* is derailed (Followed). Contents are sets of edits, so that "nothing is *)
(* lost" is an inclusion: an edit goes from the cache into a request       *)
(* (SentHolds), from there into the answer and into the server's content   *)
(* (ReplyHolds), and back into the cache (CacheHolds). SavedHolds relates  *)
(* the status to the cache. A merge takes nothing away as long as its base *)
(* is part of its local content: SentHolds says so of a request on the     *)
(* server and of its answer in the cache, CacheHolds of a loaded content.  *)
(*                                                                         *)
(* Each action has a lemma <Action>Keeps. The steps of the server and of   *)
(* the stream leave the session alone (FeedMoves).                         *)
(***************************************************************************)
EXTENDS ClientSession, TLAPS

\* The flags of a save queue.
Queues == [due : BOOLEAN, offline : BOOLEAN, blocked : BOOLEAN,
           timer : BOOLEAN, retry : BOOLEAN]

\* A synchronisation and what it sent and was answered.
Syncs == [pc : {"idle", "due", "sent", "served", "ending"}, base : Content,
          local : Content, same : BOOLEAN, reply : Content]

\* A load and what it was answered.
Loads == [pc : {"idle", "wait", "sent", "served"}, quiet : BOOLEAN,
          moved : BOOLEAN, reply : Content]

\* The types of the two requests, what they carry included.
Requested == sync \in Syncs /\ load \in Loads

\* The authority follows the cache, which holds every edit the user made and
\* knows of no remote content that the server does not have.
CacheHolds ==
  /\ attached
  /\ cache.remote \subseteq cache.content
  /\ cache.remote \subseteq server
  /\ made \subseteq cache.content

\* What a synchronisation sent is still in the cache, exactly that if no
\* transition came since, and its base was the server's.
SentHolds ==
  sync.pc \in {"sent", "served"} =>
    /\ sync.base \subseteq sync.local /\ sync.base \subseteq server
    /\ sync.local \subseteq cache.content
    /\ sync.same => cache.content = sync.local

\* An answer on its way holds what was sent, and nothing that the server does
\* not have; so does a loaded content.
ReplyHolds ==
  /\ sync.pc = "served" =>
       sync.local \subseteq sync.reply /\ sync.reply \subseteq server
  /\ load.pc = "served" => load.reply \subseteq server

\* A session shows "saved" only while nothing is pending in its cache.
SavedHolds == status = "saved" => ~Pending(cache)

\* What holds until the session is derailed.
Followed == CacheHolds /\ SentHolds /\ ReplyHolds /\ SavedHolds

\* The inductive invariant.
IInv == TypeOK /\ Requested /\ (~derailed => Followed)

-----------------------------------------------------------------------------

\* A merge of contents is a content.
LEMMA MergeType ==
  ASSUME NEW l \in Content, NEW r \in Content, NEW b
  PROVE  Merge(b, l, r) \in Content
BY DEF Merge, Content

\* A merge whose base is in its local content keeps the whole of both sides.
LEMMA MergeKeepsBoth ==
  ASSUME NEW b, NEW l, NEW r, b \subseteq l
  PROVE  Merge(b, l, r) = r \cup (l \ b)
BY DEF Merge

\* Requests at rest have their types.
LEMMA IdleTypes == IdleSync \in Syncs /\ IdleLoad \in Loads
BY DEF IdleSync, IdleLoad, Syncs, Loads, Content

\* A queue that is created has its type.
LEMMA NewQueueType ==
  ASSUME NEW s \in Snapshot, NEW t
  PROVE  NewQueue(s, t) \in Queues
BY DEF NewQueue, Queues, Pending

\* The status that a snapshot calls for is "saved" only if nothing is pending.
LEMMA StatusType ==
  ASSUME NEW s
  PROVE  /\ StatusOf(s) \in Status
         /\ StatusOf(s) = "saved" => ~Pending(s)
BY DEF StatusOf, Status

\* A synchronisation that begins is at rest no more, and one under way is left
\* alone (startSync).
LEMMA BeginType ==
  ASSUME NEW s \in Syncs
  PROVE  /\ Begin(s) \in Syncs
         /\ s.pc \in {"sent", "served"} => Begin(s) = s
         /\ Begin(s).pc \in {"sent", "served"} => Begin(s) = s
BY DEF Begin, Syncs

\* A transition tells a load that it moved, and changes nothing else of it.
LEMMA MovesType ==
  ASSUME load \in Loads, NEW moving \in BOOLEAN
  PROVE  /\ Moves(moving) \in Loads
         /\ Moves(moving).pc = load.pc /\ Moves(moving).quiet = load.quiet
         /\ Moves(moving).reply = load.reply
BY DEF Moves, Loads

\* A content that is committed and announced keeps the types of the feed.
LEMMA CommittedType ==
  ASSUME FeedTypeOK, NEW content \in Content, Committed(content),
         UNCHANGED <<checkpoint, faults, missed>>
  PROVE  FeedTypeOK'
<1>1. hub' \in Event
  <2>1. hub' = [hub EXCEPT !.revision = content, !.sequence = hub.sequence + 1]
    BY DEF Committed
  <2>2. hub \in Event /\ hub.sequence + 1 \in Nat
    BY DEF FeedTypeOK, Event
  <2> QED
    BY <2>1, <2>2 DEF Event
<1>2. wire' = None \/ wire' \in Seq(Event)
  BY <1>1 DEF Committed, FeedTypeOK
<1> QED
  BY <1>1, <1>2 DEF Committed, FeedTypeOK

\* So does the content that a synchronisation leaves on the server, changed or
\* not.
LEMMA SynchronizedType ==
  ASSUME FeedTypeOK, NEW content \in Content, Synchronized(content),
         UNCHANGED <<checkpoint, faults, missed>>
  PROVE  FeedTypeOK' /\ server' = content
<1>1. CASE content # server
  BY <1>1, CommittedType DEF Synchronized, Committed
<1>2. CASE content = server
  BY <1>2 DEF Synchronized, FeedTypeOK, Event
<1> QED
  BY <1>1, <1>2

\* Faults are counted within their bound.
LEMMA FaultType ==
  ASSUME FeedTypeOK, Fault
  PROVE  faults' \in 0..MaxFaults
BY FaultsAssumption DEF FeedTypeOK, Fault

\* A reconciler that tries an event keeps the type of its checkpoint.
LEMMA TriedType ==
  ASSUME FeedTypeOK, checkpoint.latest # None
  PROVE  Tried \in [latest : Event \cup {None}, attempted : {-1} \cup Nat]
BY DEF FeedTypeOK, Tried, Event

\* So does one that receives an event.
LEMMA ReceivedType ==
  ASSUME FeedTypeOK, NEW event \in Event
  PROVE  Received(event) \in [latest : Event \cup {None}, attempted : {-1} \cup Nat]
BY DEF FeedTypeOK, Received, NoCheckpoint

\* A session starts in step with an empty server.
LEMMA InitialInvariant == Init => IInv
<1> SUFFICES ASSUME Init PROVE IInv
  OBVIOUS
<1>1. FeedTypeOK
  <2>1. server \in Content /\ hub \in Event
    BY DEF Init, FeedInit, Content, Event
  <2>2. checkpoint \in [latest : Event \cup {None}, attempted : {-1} \cup Nat]
    BY DEF Init, FeedInit, NoCheckpoint
  <2>3. faults \in 0..MaxFaults
    BY FaultsAssumption DEF Init, FeedInit
  <2> QED
    BY <2>1, <2>2, <2>3 DEF Init, FeedInit, FeedTypeOK
<1>2. cache \in Snapshot /\ cache.content = {} /\ cache.remote = {} /\ ~Pending(cache)
  BY DEF Init, Snapshot, Content, Pending
<1>3. queue \in Queues
  BY <1>2, NewQueueType DEF Init
<1>4. TypeOK
  BY <1>1, <1>2, <1>3 DEF Init, TypeOK, Queues, Status, IdleSync, IdleLoad
<1>5. Requested
  BY IdleTypes DEF Init, Requested
<1>6. Followed
  BY <1>2 DEF Init, Followed, CacheHolds, SentHolds, ReplyHolds, SavedHolds, IdleSync,
     IdleLoad
<1> QED
  BY <1>4, <1>5, <1>6 DEF IInv

\* Types of the feed are kept by a step that leaves it alone.
LEMMA FeedStays ==
  ASSUME FeedTypeOK, UNCHANGED feed
  PROVE  FeedTypeOK'
BY DEF FeedTypeOK, feed

\* An edit is merged onto the cache and a request under way loses its claim
\* that nothing changed since (mutate, enqueue, runStage).
LEMMA MakeEditKeeps ==
  ASSUME IInv, NEW e \in Edit, MakeEdit(e)
  PROVE  IInv'
<1> DEFINE after == Visible \cup {e}
<1>1. after \in Content /\ cache.content \in Content
  BY DEF IInv, TypeOK, Visible, Snapshot, Content
<1>2. cache' \in Snapshot
  BY <1>1, MergeType DEF MakeEdit, IInv, TypeOK, Snapshot
<1>3. IF attached THEN view' = cache' /\ head' = None ELSE head' = after /\ UNCHANGED view
  BY DEF MakeEdit
<1>4. queue' \in Queues /\ ~load.quiet
  BY DEF MakeEdit, IInv, TypeOK, Queues
<1>5. load' \in Loads /\ load'.pc = load.pc /\ ~load'.quiet /\ load'.reply = load.reply
  BY <1>4, MovesType DEF MakeEdit, IInv, TypeOK, Requested
<1>6. /\ sync' \in Syncs
      /\ sync'.pc \in {"sent", "served"} => sync' = [sync EXCEPT !.same = FALSE]
  <2>1. [sync EXCEPT !.same = FALSE] \in Syncs
    BY DEF IInv, Requested, Syncs
  <2> QED
    BY <2>1, BeginType DEF MakeEdit
<1>7. status' \in Status /\ (status' = "saved" => ~Pending(view'))
  BY StatusType DEF MakeEdit, Status
<1>8. FeedTypeOK'
  BY FeedStays DEF MakeEdit, IInv, TypeOK
<1>9. TypeOK'
  BY <1>1, <1>2, <1>3, <1>4, <1>5, <1>6, <1>7, <1>8
     DEF IInv, TypeOK, MakeEdit, Queues, Loads, Syncs
<1>10. Requested'
  BY <1>5, <1>6 DEF Requested
<1>11. ASSUME ~derailed' PROVE Followed'
  <2>1. Followed /\ UNCHANGED <<server, attached, derailed>>
    BY <1>11 DEF MakeEdit, feed, IInv
  <2>2. view = cache /\ head = None /\ view' = cache'
    BY <2>1, <1>3 DEF IInv, TypeOK, Followed, CacheHolds
  <2>3. cache'.remote = cache.remote /\ cache'.content = cache.content \cup {e}
    <3>1. cache' = [cache EXCEPT !.content =
                      Merge(cache.content, cache.content \cup {e}, cache.content)]
      BY <2>2 DEF MakeEdit, Visible
    <3>2. Merge(cache.content, cache.content \cup {e}, cache.content)
            = cache.content \cup {e}
      BY DEF Merge
    <3> QED
      BY <3>1, <3>2 DEF IInv, TypeOK, Snapshot
  <2>4. CacheHolds'
    BY <2>1, <2>3 DEF MakeEdit, Followed, CacheHolds
  <2>5. SentHolds' /\ ReplyHolds'
    BY <2>1, <2>3, <1>5, <1>6 DEF Followed, SentHolds, ReplyHolds, IInv, Requested, Syncs
  <2>6. SavedHolds'
    BY <2>2, <1>7 DEF SavedHolds, Pending
  <2> QED
    BY <2>4, <2>5, <2>6 DEF Followed
<1> QED
  BY <1>9, <1>10, <1>11 DEF IInv

\* Whatever starts a synchronisation touches nothing but the queue's flags.
LEMMA BeginKeeps ==
  ASSUME IInv, sync' = Begin(sync), queue' \in Queues,
         load.quiet => ~queue'.timer /\ ~queue'.retry,
         UNCHANGED <<feed, session, status, load, made, derailed>>
  PROVE  IInv'
<1>1. sync' \in Syncs /\ (sync'.pc \in {"sent", "served"} => sync' = sync)
  BY BeginType DEF IInv, Requested
<1>2. FeedTypeOK'
  BY FeedStays DEF IInv, TypeOK
<1>3. TypeOK'
  BY <1>1, <1>2 DEF IInv, TypeOK, session, Queues, Syncs
<1>4. Requested'
  BY <1>1 DEF IInv, Requested
<1>5. ASSUME ~derailed' PROVE Followed'
  BY <1>1, <1>5 DEF IInv, Followed, CacheHolds, SentHolds, ReplyHolds,
     SavedHolds, Pending, session, feed
<1> QED
  BY <1>3, <1>4, <1>5 DEF IInv

\* The timer of the queue does.
LEMMA SyncTimerKeeps ==
  ASSUME IInv, SyncTimer
  PROVE  IInv'
<1>1. queue' \in Queues /\ (load.quiet => ~queue'.timer /\ ~queue'.retry)
  BY DEF SyncTimer, IInv, TypeOK, Queues
<1> QED
  BY <1>1, BeginKeeps DEF SyncTimer

\* The retry timer does.
LEMMA RetryTimerKeeps ==
  ASSUME IInv, RetryTimer
  PROVE  IInv'
<1>1. queue' \in Queues /\ (load.quiet => ~queue'.timer /\ ~queue'.retry)
  BY DEF RetryTimer, IInv, TypeOK, Queues
<1> QED
  BY <1>1, BeginKeeps DEF RetryTimer

\* Going online does.
LEMMA ReconnectKeeps ==
  ASSUME IInv, Reconnect
  PROVE  IInv'
<1>1. queue' \in Queues /\ (load.quiet => ~queue'.timer /\ ~queue'.retry)
  BY DEF Reconnect, IInv, TypeOK, Queues, Disposed
<1> QED
  BY <1>1, BeginKeeps DEF Reconnect

\* The user's request does.
LEMMA RequestSyncKeeps ==
  ASSUME IInv, RequestSync
  PROVE  IInv'
<1>1. queue' \in Queues /\ (load.quiet => ~queue'.timer /\ ~queue'.retry)
  BY DEF RequestSync, IInv, TypeOK, Queues, Disposed
<1> QED
  BY <1>1, BeginKeeps DEF RequestSync

\* A synchronisation that starts sends the cache's content and remote content;
\* without anything pending it ends at once.
LEMMA RunSyncKeeps ==
  ASSUME IInv, RunSync
  PROVE  IInv'
<1>1. UNCHANGED <<feed, load, made, derailed, cache, view, head, attached>>
  BY DEF RunSync, session
<1>2. FeedTypeOK'
  BY <1>1, FeedStays DEF IInv, TypeOK
<1>3. queue' \in Queues /\ queue'.timer = queue.timer /\ (queue'.retry => queue.retry)
  BY <1>1 DEF RunSync, Synced, IInv, TypeOK, Queues, Pending
<1>4. status' \in Status
  BY StatusType DEF RunSync, Synced, IInv, TypeOK, Status
<1>5. sync' \in Syncs
  <2>1. IdleSync \in Syncs /\ [IdleSync EXCEPT !.pc = "ending"] \in Syncs
    BY IdleTypes DEF Syncs
  <2>2. [pc |-> "sent", base |-> cache.remote, local |-> cache.content, same |-> TRUE,
         reply |-> {}] \in Syncs
    BY DEF IInv, TypeOK, Snapshot, Syncs, Content
  <2> QED
    BY <2>1, <2>2 DEF RunSync, Synced
<1>6. TypeOK'
  BY <1>1, <1>2, <1>3, <1>4, <1>5 DEF IInv, TypeOK, Queues, Syncs
<1>7. Requested'
  BY <1>1, <1>5 DEF IInv, Requested
<1>8. ASSUME ~derailed' PROVE Followed'
  <2>1. Followed /\ UNCHANGED <<server, cache, load, made, attached>>
    BY <1>1, <1>8 DEF IInv, feed
  <2>2. CacheHolds'
    BY <2>1 DEF Followed, CacheHolds
  <2>3. SentHolds'
    BY <2>1 DEF RunSync, Synced, Followed, CacheHolds, SentHolds, IdleSync
  <2>4. ReplyHolds'
    BY <2>1 DEF RunSync, Synced, Followed, ReplyHolds, IdleSync
  <2>5. view = cache /\ view' = view
    BY <2>1, <1>1 DEF IInv, TypeOK, Followed, CacheHolds
  <2>6. SavedHolds'
    BY <2>1, <2>5, StatusType DEF RunSync, Synced, Followed, SavedHolds, Pending
  <2> QED
    BY <2>2, <2>3, <2>4, <2>6 DEF Followed
<1> QED
  BY <1>6, <1>7, <1>8 DEF IInv

\* The server merges what was sent onto its content; by SentHolds it keeps
\* both.
LEMMA SyncServedKeeps ==
  ASSUME IInv, SyncServed
  PROVE  IInv'
<1> DEFINE merged == Merge(sync.base, sync.local, server)
<1>1. UNCHANGED <<checkpoint, faults, missed, session, status, queue, load, made,
                  derailed>>
  BY DEF SyncServed
<1>2. merged \in Content
  BY MergeType DEF IInv, TypeOK, FeedTypeOK, Requested, Syncs
<1>3. FeedTypeOK' /\ server' = merged
  BY <1>1, <1>2, SynchronizedType DEF SyncServed, IInv, TypeOK
<1>4. sync' = [sync EXCEPT !.pc = "served", !.reply = merged] /\ sync.pc = "sent"
  BY DEF SyncServed
<1>5. sync' \in Syncs
  BY <1>2, <1>4 DEF IInv, Requested, Syncs
<1>6. TypeOK'
  BY <1>1, <1>3, <1>5 DEF IInv, TypeOK, Queues, Syncs, session
<1>7. Requested'
  BY <1>1, <1>5 DEF IInv, Requested
<1>8. ASSUME ~derailed' PROVE Followed'
  <2>1. Followed /\ UNCHANGED <<cache, load, made, attached, status>>
    BY <1>1, <1>8 DEF IInv, session
  <2>2. /\ sync'.pc = "served" /\ sync'.base = sync.base /\ sync'.local = sync.local
        /\ sync'.same = sync.same /\ sync'.reply = merged
    BY <1>4 DEF IInv, Requested, Syncs
  <2>3. merged = server \cup (sync.local \ sync.base) /\ sync.base \subseteq sync.local
    BY <2>1, <1>4, MergeKeepsBoth DEF Followed, SentHolds
  <2> QED
    BY <2>1, <2>2, <2>3, <1>3, <1>4
       DEF Followed, CacheHolds, SentHolds, ReplyHolds, SavedHolds, Pending
<1> QED
  BY <1>6, <1>7, <1>8 DEF IInv

\* The cache entry that an answer leads to.
LEMMA InstalledFields ==
  ASSUME TypeOK, Requested
  PROVE  /\ Installed \in Snapshot
         /\ Installed.remote = sync.reply
         /\ Installed.content = IF sync.same THEN sync.reply
                                ELSE Merge(sync.local, cache.content, sync.reply)
<1>1. sync.reply \in Content /\ cache.content \in Content
  BY DEF TypeOK, Requested, Syncs, Snapshot
<1>2. Merge(sync.local, cache.content, sync.reply) \in Content
  BY <1>1, MergeType
<1> QED
  BY <1>1, <1>2 DEF Installed, Snapshot

\* The answer is installed: the edits made since it was sent are merged onto
\* it. The session is derailed if the answer is older than what the cache knew.
LEMMA SyncAnsweredKeeps ==
  ASSUME IInv, SyncAnswered
  PROVE  IInv'
<1>1. UNCHANGED <<feed, attached, made>> /\ cache' = Installed /\ sync.pc = "served"
  BY DEF SyncAnswered
<1>2. FeedTypeOK'
  BY <1>1, FeedStays DEF IInv, TypeOK
<1>3. cache' \in Snapshot
  BY <1>1, InstalledFields DEF IInv
<1>4. IF attached THEN view' = cache' /\ head' = None ELSE UNCHANGED <<view, head>>
  BY DEF SyncAnswered, Accept
<1>5. queue' \in Queues /\ queue'.timer = queue.timer /\ ~queue'.retry
  <2>1. queue' = [queue EXCEPT !.due = queue.due \/ Pending(view'), !.offline = FALSE,
                               !.blocked = FALSE, !.retry = FALSE]
    BY DEF SyncAnswered, Synced
  <2>2. queue \in Queues /\ Pending(view') \in BOOLEAN
    BY DEF IInv, TypeOK, Queues, Pending
  <2> QED
    BY <2>1, <2>2 DEF Queues
<1>6. status' = StatusOf(view')
  BY DEF SyncAnswered, Synced
<1>7. sync' = [IdleSync EXCEPT !.pc = "ending"]
  BY DEF SyncAnswered, Synced
<1>8. sync' \in Syncs
  BY <1>7, IdleTypes DEF Syncs
<1>9. /\ load' \in Loads /\ load'.pc = load.pc
      /\ load'.quiet = load.quiet /\ load'.reply = load.reply
  <2>1. (attached /\ ~(sync.same /\ sync.reply = sync.local)) \in BOOLEAN
    OBVIOUS
  <2> QED
    BY <2>1, MovesType DEF SyncAnswered, IInv, Requested
<1>10. derailed' = (derailed \/ ~(cache.remote \subseteq sync.reply))
  BY DEF SyncAnswered
<1>11. TypeOK'
  BY <1>1, <1>2, <1>3, <1>4, <1>5, <1>6, <1>8, <1>9, <1>10, StatusType
     DEF IInv, TypeOK, Queues, Syncs, Loads
<1>12. Requested'
  BY <1>8, <1>9 DEF Requested
<1>13. ASSUME ~derailed' PROVE Followed'
  <2>1. Followed /\ cache.remote \subseteq sync.reply /\ UNCHANGED server
    BY <1>1, <1>10, <1>13 DEF IInv, feed
  <2>2. /\ sync.local \subseteq sync.reply /\ sync.reply \subseteq server
        /\ sync.local \subseteq cache.content
        /\ sync.same => cache.content = sync.local
    BY <2>1, <1>1 DEF Followed, SentHolds, ReplyHolds
  <2>3. cache'.remote = sync.reply /\ cache'.content = sync.reply \cup cache.content
    <3>1. CASE sync.same
      BY <3>1, <2>2, <1>1, InstalledFields DEF IInv
    <3>2. CASE ~sync.same
      <4>1. Merge(sync.local, cache.content, sync.reply)
              = sync.reply \cup (cache.content \ sync.local)
        BY <2>2, MergeKeepsBoth
      <4> QED
        BY <3>2, <4>1, <2>2, <1>1, InstalledFields DEF IInv
    <3> QED
      BY <3>1, <3>2
  <2>4. CacheHolds'
    BY <2>1, <2>2, <2>3, <1>1 DEF Followed, CacheHolds
  <2>5. SentHolds' /\ ReplyHolds'
    BY <2>1, <1>7, <1>9 DEF Followed, SentHolds, ReplyHolds, IdleSync
  <2>6. SavedHolds'
    BY <2>1, <1>4, <1>6, StatusType DEF Followed, CacheHolds, SavedHolds, Pending
  <2> QED
    BY <2>4, <2>5, <2>6 DEF Followed
<1> QED
  BY <1>11, <1>12, <1>13 DEF IInv

\* A synchronisation that finds no server leaves the cache alone.
LEMMA SyncOfflineKeeps ==
  ASSUME IInv, SyncOffline
  PROVE  IInv'
<1>1. UNCHANGED <<server, hub, wire, checkpoint, missed, session, load, made, derailed>>
  BY DEF SyncOffline
<1>2. FeedTypeOK'
  BY <1>1, FaultType DEF SyncOffline, IInv, TypeOK, FeedTypeOK
<1>3. queue' \in Queues /\ (load.quiet => ~queue'.timer /\ ~queue'.retry)
  <2>1. PICK late \in BOOLEAN : queue' = [queue EXCEPT !.offline = TRUE, !.retry = late]
                               /\ (late => queue.retry \/ ~load.quiet)
    BY DEF SyncOffline, Disposed, IInv, TypeOK, Queues, Requested, Loads
  <2> QED
    BY <2>1 DEF IInv, TypeOK, Queues
<1>4. status' \in {"offline", "offline-clean"}
  BY DEF SyncOffline
<1>5. sync' = [IdleSync EXCEPT !.pc = "ending"]
  BY DEF SyncOffline
<1>6. sync' \in Syncs /\ sync'.pc = "ending"
  BY <1>5, IdleTypes DEF Syncs, IdleSync
<1>7. TypeOK'
  BY <1>1, <1>2, <1>3, <1>4, <1>6 DEF IInv, TypeOK, session, Queues, Syncs, Status
<1>8. Requested'
  BY <1>1, <1>6 DEF IInv, Requested
<1>9. ASSUME ~derailed' PROVE Followed'
  BY <1>1, <1>4, <1>6, <1>9 DEF IInv, Followed, CacheHolds, SentHolds, ReplyHolds,
     SavedHolds,
     Pending, session, feed
<1> QED
  BY <1>7, <1>8, <1>9 DEF IInv

\* So does one that fails.
LEMMA SyncFailsKeeps ==
  ASSUME IInv, SyncFails
  PROVE  IInv'
<1>1. UNCHANGED <<server, hub, wire, checkpoint, missed, session, load, made, derailed>>
  BY DEF SyncFails
<1>2. FeedTypeOK'
  BY <1>1, FaultType DEF SyncFails, IInv, TypeOK, FeedTypeOK
<1>3. queue' \in Queues /\ (load.quiet => ~queue'.timer /\ ~queue'.retry)
  BY DEF SyncFails, IInv, TypeOK, Queues
<1>4. status' \in {"error"}
  BY DEF SyncFails
<1>5. sync' = [IdleSync EXCEPT !.pc = "ending"]
  BY DEF SyncFails
<1>6. sync' \in Syncs /\ sync'.pc = "ending"
  BY <1>5, IdleTypes DEF Syncs, IdleSync
<1>7. TypeOK'
  BY <1>1, <1>2, <1>3, <1>4, <1>6 DEF IInv, TypeOK, session, Queues, Syncs, Status
<1>8. Requested'
  BY <1>1, <1>6 DEF IInv, Requested
<1>9. ASSUME ~derailed' PROVE Followed'
  BY <1>1, <1>4, <1>6, <1>9 DEF IInv, Followed, CacheHolds, SentHolds, ReplyHolds,
     SavedHolds,
     Pending, session, feed
<1> QED
  BY <1>7, <1>8, <1>9 DEF IInv

\* A synchronisation ends, and begins again if something is due.
LEMMA SyncEndsKeeps ==
  ASSUME IInv, SyncEnds
  PROVE  IInv'
<1>1. UNCHANGED <<feed, session, status, queue, load, made, derailed>>
  BY DEF SyncEnds
<1>2. FeedTypeOK'
  BY <1>1, FeedStays DEF IInv, TypeOK
<1>3. sync' \in Syncs /\ sync'.pc \in {"idle", "due"}
  BY IdleTypes DEF SyncEnds, Syncs, IdleSync
<1>4. TypeOK'
  BY <1>1, <1>2, <1>3 DEF IInv, TypeOK, session
<1>5. Requested'
  BY <1>1, <1>3 DEF IInv, Requested
<1>6. ASSUME ~derailed' PROVE Followed'
  BY <1>1, <1>3, <1>6 DEF IInv, Followed, CacheHolds, SentHolds, ReplyHolds, SavedHolds,
     Pending, session, feed
<1> QED
  BY <1>4, <1>5, <1>6 DEF IInv

\* An event that says nothing new moves the checkpoint only.
LEMMA ConsumeKeeps ==
  ASSUME IInv, Consume
  PROVE  IInv'
<1>1. UNCHANGED <<server, hub, wire, faults, missed, client>>
  BY DEF Consume
<1>2. FeedTypeOK'
  BY <1>1, TriedType DEF Consume, Consumes, IInv, TypeOK, FeedTypeOK
<1>3. TypeOK'
  BY <1>1, <1>2 DEF IInv, TypeOK, client, session
<1>4. Requested'
  BY <1>1 DEF IInv, Requested, client
<1>5. ASSUME ~derailed' PROVE Followed'
  BY <1>1, <1>5 DEF IInv, Followed, CacheHolds, SentHolds, ReplyHolds, SavedHolds,
     Pending, session, feed, client
<1> QED
  BY <1>3, <1>4, <1>5 DEF IInv

\* A reload asks for the content, or waits for the synchronisation under way
\* and silences the queue.
LEMMA ReloadStartsKeeps ==
  ASSUME IInv, ReloadStarts
  PROVE  IInv'
<1>1. UNCHANGED <<server, hub, wire, faults, missed, session, status, sync, made,
                  derailed>>
  BY DEF ReloadStarts
<1>2. FeedTypeOK'
  BY <1>1, TriedType DEF ReloadStarts, Asks, IInv, TypeOK, FeedTypeOK
<1>3. /\ queue' \in Queues /\ load' \in Loads /\ load'.pc \in {"wait", "sent"}
      /\ load'.quiet => ~queue'.timer /\ ~queue'.retry
  <2>1. CASE sync.pc # "idle"
    <3>1. load' = [IdleLoad EXCEPT !.pc = "wait", !.quiet = TRUE] /\ queue' = Silent
      BY <2>1 DEF ReloadStarts
    <3> QED
      BY <3>1, IdleTypes DEF Silent, IInv, TypeOK, Queues, Loads
  <2>2. CASE sync.pc = "idle"
    <3>1. load' = [IdleLoad EXCEPT !.pc = "sent"] /\ queue' = queue
      BY <2>2 DEF ReloadStarts
    <3> QED
      BY <3>1, IdleTypes DEF IInv, TypeOK, Queues, Loads, IdleLoad
  <2> QED
    BY <2>1, <2>2
<1>4. TypeOK'
  BY <1>1, <1>2, <1>3 DEF IInv, TypeOK, session, Queues, Loads
<1>5. Requested'
  BY <1>1, <1>3 DEF IInv, Requested
<1>6. ASSUME ~derailed' PROVE Followed'
  BY <1>1, <1>3, <1>6 DEF IInv, Followed, CacheHolds, SentHolds, ReplyHolds, SavedHolds,
     Pending, session, feed
<1> QED
  BY <1>4, <1>5, <1>6 DEF IInv

\* A reload that waited asks for the content.
LEMMA ReloadWaitedKeeps ==
  ASSUME IInv, ReloadWaited
  PROVE  IInv'
<1>1. UNCHANGED <<feed, session, status, queue, sync, made, derailed>>
  BY DEF ReloadWaited
<1>2. FeedTypeOK'
  BY <1>1, FeedStays DEF IInv, TypeOK
<1>3. load' \in Loads /\ load'.pc = "sent" /\ load'.quiet = load.quiet
  BY DEF ReloadWaited, IInv, Requested, Loads
<1>4. TypeOK'
  BY <1>1, <1>2, <1>3 DEF IInv, TypeOK, session, Loads
<1>5. Requested'
  BY <1>1, <1>3 DEF IInv, Requested
<1>6. ASSUME ~derailed' PROVE Followed'
  BY <1>1, <1>3, <1>6 DEF IInv, Followed, CacheHolds, SentHolds, ReplyHolds, SavedHolds,
     Pending, session, feed
<1> QED
  BY <1>4, <1>5, <1>6 DEF IInv

\* The server answers a load with its content.
LEMMA LoadServedKeeps ==
  ASSUME IInv, LoadServed
  PROVE  IInv'
<1>1. UNCHANGED <<server, wire, checkpoint, faults, missed, session, status, queue,
                  sync, made, derailed>>
  BY DEF LoadServed
<1>2. FeedTypeOK'
  <2>1. hub' = [hub EXCEPT !.revision = server]
    BY DEF LoadServed, Loaded
  <2> QED
    BY <2>1, <1>1 DEF IInv, TypeOK, FeedTypeOK, Event
<1>3. /\ load' \in Loads /\ load'.pc = "served"
      /\ load'.quiet = load.quiet /\ load'.reply = server
  BY DEF LoadServed, IInv, TypeOK, FeedTypeOK, Requested, Loads
<1>4. TypeOK'
  BY <1>1, <1>2, <1>3 DEF IInv, TypeOK, session, Loads
<1>5. Requested'
  BY <1>1, <1>3 DEF IInv, Requested
<1>6. ASSUME ~derailed' PROVE Followed'
  BY <1>1, <1>3, <1>6 DEF IInv, Followed, CacheHolds, SentHolds, ReplyHolds, SavedHolds,
     Pending, session, feed
<1> QED
  BY <1>4, <1>5, <1>6 DEF IInv

\* The cache entry that a loaded content leads to.
LEMMA ReloadedFields ==
  ASSUME TypeOK, Requested
  PROVE  /\ Reloaded \in Snapshot
         /\ Reloaded.remote = load.reply
         /\ Reloaded.content = IF Pending(cache)
                               THEN Merge(cache.remote, cache.content, load.reply)
                               ELSE load.reply
<1>1. load.reply \in Content /\ cache.content \in Content
  BY DEF TypeOK, Requested, Loads, Snapshot
<1>2. Merge(cache.remote, cache.content, load.reply) \in Content
  BY <1>1, MergeType
<1> QED
  BY <1>1, <1>2 DEF Reloaded, Snapshot

\* What follows a load, whatever it brought: another try, the wait for a
\* synchronisation, or the installation of the cache in the session.
LEMMA AfterLoadType ==
  ASSUME TypeOK, Requested, NEW c \in Snapshot, NEW silent \in BOOLEAN,
         ~silent => c = cache, AfterLoad(c, silent)
  PROVE  /\ cache' = c /\ view' \in Snapshot
         /\ head' \in Content \cup {None} /\ attached' \in BOOLEAN
         /\ status' \in Status /\ queue' \in Queues /\ load' \in Loads
         /\ load'.quiet => ~queue'.timer /\ ~queue'.retry
         /\ attached' => view' = cache' /\ head' = None
         /\ load'.pc # "served"
         /\ attached' /\ attached /\ status' = "saved" =>
              (status = "saved" /\ cache' = cache) \/ ~Pending(cache')
<1>1. cache' = c
  BY DEF AfterLoad
<1>2. CASE ~load.quiet /\ load.moved /\ UNCHANGED <<view, head, status, queue>>
           /\ load' = [IdleLoad EXCEPT !.pc = "sent"]
           /\ attached' = (attached /\ ~silent)
  <2>1. load' \in Loads /\ load'.pc = "sent" /\ ~load'.quiet
    BY <1>2, IdleTypes DEF IdleLoad, Loads
  <2> QED
    BY <1>1, <1>2, <2>1 DEF TypeOK, Queues
<1>3. CASE /\ load' = [IdleLoad EXCEPT !.pc = "wait", !.quiet = TRUE]
           /\ queue' = Silent /\ attached' = (attached /\ ~silent)
           /\ UNCHANGED <<view, head, status>>
  <2>1. load' \in Loads /\ load'.pc = "wait"
    BY <1>3, IdleTypes DEF IdleLoad, Loads
  <2>2. queue' \in Queues /\ ~queue'.timer /\ ~queue'.retry
    BY <1>3 DEF Silent, TypeOK, Queues
  <2> QED
    BY <1>1, <1>3, <2>1, <2>2 DEF TypeOK
<1>4. CASE Install
  <2>1. /\ view' = cache' /\ head' = None /\ attached' = TRUE
        /\ status' = StatusOf(cache') /\ load' = IdleLoad
        /\ queue' = NewQueue(cache', status')
    BY <1>4 DEF Install
  <2>2. queue' \in Queues
    BY <1>1, <2>1, NewQueueType
  <2> QED
    BY <1>1, <2>1, <2>2, StatusType, IdleTypes DEF IdleLoad
<1> QED
  BY <1>2, <1>3, <1>4 DEF AfterLoad

\* A loaded content is written to the cache with what is pending on top. The
\* session is derailed if that is not installed, or if the content is older
\* than what the cache knew.
LEMMA LoadAnsweredKeeps ==
  ASSUME IInv, LoadAnswered
  PROVE  IInv'
<1> DEFINE silent == load.reply # cache.remote
           c == IF silent THEN Reloaded ELSE cache
<1>1. /\ AfterLoad(c, silent) /\ sync' = [sync EXCEPT !.same = @ /\ ~silent]
      /\ derailed' = (derailed \/ ~attached' \/ ~(cache.remote \subseteq load.reply))
      /\ UNCHANGED <<feed, made>> /\ load.pc = "served"
  BY DEF LoadAnswered
<1>2. FeedTypeOK'
  BY <1>1, FeedStays DEF IInv, TypeOK
<1>3. c \in Snapshot
  BY ReloadedFields DEF IInv, TypeOK
<1> HIDE DEF c
<1>4. ~silent => c = cache
  BY DEF c
<1>5. /\ cache' = c /\ view' \in Snapshot
      /\ head' \in Content \cup {None} /\ attached' \in BOOLEAN
      /\ status' \in Status /\ queue' \in Queues /\ load' \in Loads
      /\ load'.quiet => ~queue'.timer /\ ~queue'.retry
      /\ attached' => view' = cache' /\ head' = None
      /\ load'.pc # "served"
      /\ attached' /\ attached /\ status' = "saved" =>
           (status = "saved" /\ cache' = cache) \/ ~Pending(cache')
  BY <1>1, <1>3, <1>4, AfterLoadType DEF IInv
<1>6. sync' \in Syncs
  BY <1>1 DEF IInv, Requested, Syncs
<1>7. TypeOK'
  BY <1>1, <1>2, <1>3, <1>5, <1>6 DEF IInv, TypeOK, Queues, Loads, Syncs
<1>8. Requested'
  BY <1>5, <1>6 DEF Requested
<1>9. ASSUME ~derailed' PROVE Followed'
  <2>1. /\ Followed /\ attached' /\ cache.remote \subseteq load.reply
        /\ load.reply \subseteq server /\ UNCHANGED <<server, made>>
    BY <1>1, <1>9 DEF IInv, Followed, ReplyHolds, feed
  <2>2. cache.content \subseteq cache'.content /\ cache'.remote \subseteq cache'.content
        /\ cache'.remote \subseteq server
    <3>1. CASE ~silent
      BY <3>1, <2>1, <1>4, <1>5 DEF Followed, CacheHolds
    <3>2. CASE silent /\ Pending(cache)
      <4>1. Merge(cache.remote, cache.content, load.reply)
              = load.reply \cup (cache.content \ cache.remote)
        BY <2>1, MergeKeepsBoth DEF Followed, CacheHolds
      <4>2. c = Reloaded
        BY <3>2 DEF c
      <4> QED
        BY <3>2, <4>1, <4>2, <2>1, <1>5, ReloadedFields DEF IInv
    <3>3. CASE silent /\ ~Pending(cache)
      <4>1. c = Reloaded
        BY <3>3 DEF c
      <4> QED
        BY <3>3, <4>1, <2>1, <1>5, ReloadedFields DEF IInv, Pending
    <3> QED
      BY <3>1, <3>2, <3>3
  <2>3. CacheHolds'
    BY <2>1, <2>2 DEF Followed, CacheHolds
  <2>4. /\ sync'.pc = sync.pc /\ sync'.base = sync.base /\ sync'.local = sync.local
        /\ sync'.reply = sync.reply /\ (sync'.same => sync.same /\ cache' = cache)
    BY <1>1, <1>4, <1>5 DEF IInv, Requested, Syncs
  <2>5. SentHolds' /\ ReplyHolds'
    BY <2>1, <2>2, <2>4, <1>5 DEF Followed, SentHolds, ReplyHolds
  <2>6. SavedHolds'
    BY <2>1, <1>5 DEF Followed, CacheHolds, SavedHolds, Pending
  <2> QED
    BY <2>3, <2>5, <2>6 DEF Followed
<1> QED
  BY <1>7, <1>8, <1>9 DEF IInv

\* A load that finds no server goes on with the cache as it is.
LEMMA LoadOfflineKeeps ==
  ASSUME IInv, LoadOffline
  PROVE  IInv'
<1>1. /\ AfterLoad(cache, FALSE) /\ missed' = TRUE
      /\ UNCHANGED <<server, hub, wire, checkpoint, sync, made, derailed>>
  BY DEF LoadOffline
<1>2. FeedTypeOK'
  BY <1>1, FaultType DEF LoadOffline, IInv, TypeOK, FeedTypeOK
<1>3. /\ cache' = cache /\ view' \in Snapshot
      /\ head' \in Content \cup {None} /\ attached' \in BOOLEAN
      /\ status' \in Status /\ queue' \in Queues /\ load' \in Loads
      /\ load'.quiet => ~queue'.timer /\ ~queue'.retry
      /\ attached' => view' = cache' /\ head' = None
      /\ load'.pc # "served"
      /\ attached' /\ attached /\ status' = "saved" =>
           (status = "saved" /\ cache' = cache) \/ ~Pending(cache')
  BY <1>1, AfterLoadType DEF IInv, TypeOK
<1>4. attached => attached'
  BY <1>1 DEF AfterLoad, Install
<1>5. TypeOK'
  BY <1>1, <1>2, <1>3 DEF IInv, TypeOK, Queues, Loads
<1>6. Requested'
  BY <1>1, <1>3 DEF IInv, Requested
<1>7. ASSUME ~derailed' PROVE Followed'
  BY <1>1, <1>3, <1>4, <1>7 DEF IInv, Followed, CacheHolds, SentHolds, ReplyHolds,
     SavedHolds,
     Pending, session, feed
<1> QED
  BY <1>5, <1>6, <1>7 DEF IInv

\* A load that fails gives the session a new queue and leaves the cache alone.
LEMMA LoadFailsKeeps ==
  ASSUME IInv, LoadFails
  PROVE  IInv'
<1>1. /\ missed' = TRUE /\ load' = IdleLoad
      /\ UNCHANGED <<server, hub, wire, checkpoint, session, status, sync, made,
                     derailed>>
  BY DEF LoadFails
<1>2. FeedTypeOK'
  BY <1>1, FaultType DEF LoadFails, IInv, TypeOK, FeedTypeOK
<1>3. queue' \in Queues
  BY NewQueueType DEF LoadFails, IInv, TypeOK, Queues
<1>4. load' \in Loads /\ load'.pc = "idle" /\ ~load'.quiet
  BY <1>1, IdleTypes DEF IdleLoad
<1>5. TypeOK'
  BY <1>1, <1>2, <1>3, <1>4 DEF IInv, TypeOK, session, Queues, Loads
<1>6. Requested'
  BY <1>1, <1>4 DEF IInv, Requested
<1>7. ASSUME ~derailed' PROVE Followed'
  BY <1>1, <1>4, <1>7 DEF IInv, Followed, CacheHolds, SentHolds, ReplyHolds, SavedHolds,
     Pending, session, feed
<1> QED
  BY <1>5, <1>6, <1>7 DEF IInv

\* A step of the server or of the stream that takes nothing off the server
\* keeps the invariant: it does not touch the session.
LEMMA FeedMoves ==
  ASSUME IInv, FeedTypeOK', UNCHANGED client, server \subseteq server'
  PROVE  IInv'
<1>1. TypeOK'
  BY DEF IInv, TypeOK, client, session
<1>2. Requested'
  BY DEF IInv, Requested, client
<1>3. ASSUME ~derailed' PROVE Followed'
  BY <1>3 DEF IInv, Followed, CacheHolds, SentHolds, ReplyHolds, SavedHolds, Pending,
     client, session
<1> QED
  BY <1>1, <1>2, <1>3 DEF IInv

\* Other clients write, and the server restarts.
LEMMA ServerStepKeeps ==
  ASSUME IInv, ServerStep
  PROVE  IInv'
<1>1. ASSUME NEW w \in Write, OtherWrites(w)
      PROVE  FeedTypeOK' /\ server \subseteq server'
  <2>1. server \cup {w} \in Content
    BY DEF IInv, TypeOK, FeedTypeOK, Content
  <2> QED
    BY <1>1, <2>1, CommittedType DEF OtherWrites, Committed, IInv, TypeOK
<1>2. ASSUME ServerRestarts PROVE FeedTypeOK' /\ server \subseteq server'
  <2>1. hub' \in Event
    BY <1>2 DEF ServerRestarts, IInv, TypeOK, FeedTypeOK, Event
  <2> QED
    BY <1>2, <2>1, FaultType DEF ServerRestarts, IInv, TypeOK, FeedTypeOK
<1> QED
  BY <1>1, <1>2, FeedMoves DEF ServerStep

\* Events arrive, and the stream opens and breaks.
LEMMA StreamKeeps ==
  ASSUME IInv, EventArrives \/ StreamOpens \/ StreamCloses
  PROVE  IInv'
<1>1. ASSUME Receive PROVE FeedTypeOK' /\ server \subseteq server'
  <2>1. Head(wire) \in Event /\ Tail(wire) \in Seq(Event)
    BY <1>1 DEF Receive, IInv, TypeOK, FeedTypeOK
  <2> QED
    BY <1>1, <2>1, ReceivedType DEF Receive, IInv, TypeOK, FeedTypeOK
<1>2. ASSUME Connect PROVE FeedTypeOK' /\ server \subseteq server'
  BY <1>2 DEF Connect, IInv, TypeOK, FeedTypeOK
<1>3. ASSUME StreamBreaks PROVE FeedTypeOK' /\ server \subseteq server'
  BY <1>3, FaultType DEF StreamBreaks, IInv, TypeOK, FeedTypeOK
<1> QED
  BY <1>1, <1>2, <1>3, FeedMoves DEF EventArrives, StreamOpens, StreamCloses

\* Every step keeps the invariant.
LEMMA InvariantStep == IInv /\ [Next]_vars => IInv'
<1> SUFFICES ASSUME IInv, [Next]_vars PROVE IInv'
  OBVIOUS
<1>1. ASSUME Turn PROVE IInv'
  BY <1>1, RunSyncKeeps, SyncEndsKeeps, ConsumeKeeps, ReloadStartsKeeps,
     ReloadWaitedKeeps DEF Turn
<1>2. ASSUME UserStep PROVE IInv'
  BY <1>2, MakeEditKeeps, RequestSyncKeeps, ReconnectKeeps DEF UserStep
<1>3. ASSUME SyncTimer \/ RetryTimer PROVE IInv'
  BY <1>3, SyncTimerKeeps, RetryTimerKeeps
<1>4. ASSUME RequestStep PROVE IInv'
  BY <1>4, SyncServedKeeps, SyncAnsweredKeeps, LoadServedKeeps, LoadAnsweredKeeps
     DEF RequestStep
<1>5. ASSUME FaultStep PROVE IInv'
  BY <1>5, SyncOfflineKeeps, SyncFailsKeeps, LoadOfflineKeeps, LoadFailsKeeps
     DEF FaultStep
<1>6. ASSUME UNCHANGED vars PROVE IInv'
  BY <1>6, FeedStays, FeedMoves DEF vars, feed, IInv, TypeOK
<1> QED
  BY <1>1, <1>2, <1>3, <1>4, <1>5, <1>6, ServerStepKeeps, StreamKeeps DEF Next

\* For any numbers of edits, writes and faults: the session's types hold, and
\* until it is derailed every edit is in the cache, every request and every
\* answer holds what it must, and "saved" means that nothing is pending.
THEOREM SessionInvariant == Spec => []IInv
  BY InitialInvariant, InvariantStep, PTL DEF Spec

\* For any numbers of edits, writes and faults: the session's variables have
\* their types, a silenced queue has no timer, and an attached authority shows
\* the cache.
THEOREM TypeCorrect == Spec => []TypeOK
<1>1. IInv => TypeOK
  BY DEF IInv
<1> QED
  BY <1>1, SessionInvariant, PTL

\* For any numbers of edits, writes and faults: until the session is derailed,
\* no synchronisation, reload, failure or event takes an edit of the user out
\* of what the session shows.
THEOREM EditsAreVisible == Spec => []EditsStayVisible
<1>1. IInv => EditsStayVisible
  BY DEF IInv, TypeOK, Followed, CacheHolds, EditsStayVisible, Visible
<1> QED
  BY <1>1, SessionInvariant, PTL

\* For any numbers of edits, writes and faults: a session that shows "saved"
\* and is not derailed has every edit of the user on the server.
THEOREM SavedEditsAreSent == Spec => []SavedMeansSent
<1>1. IInv => SavedMeansSent
  BY DEF IInv, Followed, CacheHolds, SavedHolds, SavedMeansSent, Pending
<1> QED
  BY <1>1, SessionInvariant, PTL

\* What the run deleted_edit shows to fail after derailment: a step takes
\* nothing off the server.
DeletesNothing == ~derailed => server \subseteq server'

\* For any numbers of edits, writes and faults: until the session is derailed,
\* no request of it takes a change off the server.
THEOREM NothingDeleted == Spec => [][DeletesNothing]_vars
<1>1. IInv /\ [Next]_vars => [DeletesNothing]_vars
  <2> SUFFICES ASSUME IInv, [Next]_vars, ~derailed PROVE server \subseteq server'
    BY DEF DeletesNothing
  <2>1. ASSUME SyncServed PROVE server \subseteq server'
    <3>1. sync.base \subseteq sync.local
      BY <2>1 DEF SyncServed, IInv, Followed, SentHolds
    <3>2. server' = Merge(sync.base, sync.local, server)
      BY <2>1 DEF SyncServed, Synchronized, Committed
    <3> QED
      BY <3>1, <3>2, MergeKeepsBoth
  <2>2. ASSUME ServerStep PROVE server \subseteq server'
    BY <2>2 DEF ServerStep, OtherWrites, Committed, ServerRestarts
  <2>3. ASSUME Turn \/ UserStep \/ SyncTimer \/ RetryTimer PROVE UNCHANGED server
    BY <2>3 DEF Turn, UserStep, RunSync, SyncEnds, Consume, ReloadStarts,
       ReloadWaited, MakeEdit, RequestSync, Reconnect, SyncTimer, RetryTimer, feed
  <2>4. ASSUME SyncAnswered \/ LoadServed \/ LoadAnswered \/ FaultStep
        PROVE  UNCHANGED server
    BY <2>4 DEF SyncAnswered, LoadServed, LoadAnswered, FaultStep, SyncOffline,
       SyncFails, LoadOffline, LoadFails, feed
  <2>5. ASSUME EventArrives \/ StreamOpens \/ StreamCloses PROVE UNCHANGED server
    BY <2>5 DEF EventArrives, StreamOpens, StreamCloses, Receive, Connect,
       StreamBreaks
  <2>6. ASSUME UNCHANGED vars PROVE UNCHANGED server
    BY <2>6 DEF vars, feed
  <2> QED
    BY <2>1, <2>2, <2>3, <2>4, <2>5, <2>6 DEF Next, RequestStep
<1> QED
  BY <1>1, SessionInvariant, PTL DEF Spec
=============================================================================
