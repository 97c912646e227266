----------------------------- MODULE ChangeFeed -----------------------------
(***************************************************************************)
(* How a change of a content reaches the other sessions: the revision      *)
(* tracker and the event hub of the server (domainRevisionTracker.ts,      *)
(* domainChangeCoordinator.ts, events.ts), the event stream of a browser   *)
(* (apiEvents.ts), and what its reconciler remembers of the checkpoints it *)
(* got (checkpointReloadReconciler.ts).                                    *)
(*                                                                         *)
(* A revision is a hash of a content, so a content stands for it.  A       *)
(* content is the set of changes it contains.  Nobody takes a change back  *)
(* here, and changes never overlap: LocalFirstRepository has conflicts.    *)
(***************************************************************************)
EXTENDS Integers, Sequences

CONSTANTS
  Edit,         \* edits of the user of this session
  Write,        \* changes by other clients
  MaxFaults,    \* bound: failing requests, broken streams, restarts
  None          \* no value

ASSUME ChangesAssumption ==
  Edit \cap Write = {} /\ \A content \in SUBSET (Edit \cup Write) : None # content
ASSUME FaultsAssumption == MaxFaults \in Nat

VARIABLES
  server,     \* the content of the server's store
  hub,        \* the tracked revision, the sequence and the stream's id
  wire,       \* the events under way to the browser, None without a stream
  checkpoint, \* the reconciler: its latest event and the last sequence tried
  faults,     \* bound: faults so far
  missed      \* history: the tracker was emptied, or a reload found no server

feed == <<server, hub, wire, checkpoint, faults, missed>>

Content == SUBSET (Edit \cup Write)
Event == [stream : Nat, sequence : Nat, revision : Content \cup {None}]

FeedTypeOK ==
  /\ server \in Content
  /\ hub \in Event
  /\ wire = None \/ wire \in Seq(Event)
  /\ checkpoint \in [latest : Event \cup {None}, attempted : {-1} \cup Nat]
  /\ faults \in 0..MaxFaults
  /\ missed \in BOOLEAN

NoCheckpoint == [latest |-> None, attempted |-> -1]

FeedInit ==
  /\ server = {}
  /\ hub = [stream |-> 0, sequence |-> 0, revision |-> {}]
  /\ wire = None
  /\ checkpoint = NoCheckpoint
  /\ faults = 0 /\ missed = FALSE

-----------------------------------------------------------------------------
(* The server *)

\* A commit is tracked and published before the next request is handled.
Committed(content) ==
  /\ server' = content
  /\ hub' = [hub EXCEPT !.revision = content, !.sequence = @ + 1]
  /\ wire' = IF wire = None THEN None ELSE Append(wire, hub')

\* What a sync request leads to; an unchanged content is only tracked.
Synchronized(content) ==
  IF content # server THEN Committed(content)
  ELSE hub' = [hub EXCEPT !.revision = server] /\ UNCHANGED <<server, wire>>

\* A sync load is tracked without an event.
Loaded == hub' = [hub EXCEPT !.revision = server]

OtherWrites(w) ==
  /\ w \notin server
  /\ Committed(server \cup {w})
  /\ UNCHANGED <<checkpoint, faults, missed>>

Fault == faults < MaxFaults /\ faults' = faults + 1

\* A new process has tracked nothing and numbers its own stream.
ServerRestarts ==
  /\ Fault
  /\ hub' = [stream |-> hub.stream + 1, sequence |-> 0, revision |-> None]
  /\ wire' = None
  /\ missed' = TRUE
  /\ UNCHANGED <<server, checkpoint>>

-----------------------------------------------------------------------------
(* The event stream *)

StreamBreaks ==
  /\ wire # None
  /\ Fault
  /\ wire' = None
  /\ UNCHANGED <<server, hub, checkpoint, missed>>

\* A connection begins with the checkpoint as it is.
Connect ==
  /\ wire = None
  /\ wire' = <<hub>>
  /\ UNCHANGED <<server, hub, checkpoint, faults, missed>>

\* The listener of the reconciler.
Received(event) ==
  LET known == IF checkpoint.latest = None THEN NoCheckpoint
               ELSE IF checkpoint.latest.stream = event.stream THEN checkpoint
               ELSE NoCheckpoint
  IN IF known.latest = None THEN [known EXCEPT !.latest = event]
     ELSE IF event.sequence < known.latest.sequence THEN known
     ELSE [known EXCEPT !.latest = event]

Receive ==
  /\ wire # None /\ wire # <<>>
  /\ checkpoint' = Received(Head(wire))
  /\ wire' = Tail(wire)
  /\ UNCHANGED <<server, hub, faults, missed>>

-----------------------------------------------------------------------------
(* What the reconciler makes of a session that shows the remote revision     *)
(* `revision'                                                                *)

Tried == [checkpoint EXCEPT !.attempted = checkpoint.latest.sequence]

\* A checkpoint that the session represents is consumed.
Consumes(revision) ==
  /\ checkpoint.latest # None
  /\ checkpoint.latest.revision = revision
  /\ checkpoint.attempted # checkpoint.latest.sequence

\* Mutant: a sequence is tried again only after the stream has moved past it.
AsksOnceMore(revision, saved) ==
  /\ checkpoint.latest # None /\ saved
  /\ checkpoint.latest.revision \notin {None, revision}
  /\ checkpoint.attempted + 1 < checkpoint.latest.sequence

\* A different one asks for a reload, once, when nothing is pending.
Asks(revision, saved) ==
  /\ checkpoint.latest # None /\ saved
  /\ checkpoint.latest.revision \notin {None, revision}
  /\ checkpoint.attempted < checkpoint.latest.sequence
=============================================================================
