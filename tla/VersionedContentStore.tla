----------------------- MODULE VersionedContentStore ------------------------
(***************************************************************************)
(* FileSystemVersionedContentStore                                         *)
(* (src/infrastructure/server/repository/versioned/contentStore.ts): one   *)
(* JSON file under a data root, committed to by compare-and-set on the     *)
(* revision of its content.  A store object runs its operations one at a   *)
(* time; objects of different processes exclude each other with a lock     *)
(* directory next to the file.  A commit writes a temporary file, renames  *)
(* it over the content and synchronises the directory; a commit that       *)
(* fails on the way looks at the file again to learn what became of it.    *)
(*                                                                         *)
(* A revision is a hash of a content, so contents stand for revisions.     *)
(***************************************************************************)
EXTENDS Naturals, Sequences

CONSTANTS
  Proc,         \* store objects, one per process
  Contents,     \* contents of the file
  QueueLimit,   \* bound: operations that wait in one store object
  Free,         \* no process holds the lock
  NoOperation,  \* no operation is under way
  NoSnapshot    \* the running operation has read nothing yet

ASSUME ProcAssumption == Free \notin Proc
ASSUME QueueAssumption == QueueLimit \in Nat \ {0}
ASSUME SnapshotAssumption == NoSnapshot \notin Contents

VARIABLES
  file,      \* the content a read of the file returns
  durable,   \* the content the file has after a power loss
  lock,      \* the process whose lock directory exists, or Free
  queue,     \* queue[p]: #operationQueue, the operations not yet started
  pc,        \* pc[p]: where the running operation of p is
  op,        \* op[p]: the running operation
  before,    \* before[p]: the snapshot the running commit has read
  answer,    \* answer[p]: what the running operation will settle with
  terminal   \* terminal[p]: #terminalError is set

vars == <<file, durable, lock, queue, pc, op, before, answer, terminal>>

Loads   == [kind : {"load"}]
Commits == [kind : {"commit"}, base : Contents, next : Contents]
Operations == Loads \cup Commits

Answers == {"none", "loaded", "committed", "unchanged", "conflict", "failed",
            "unknown"}
ASSUME OperationAssumption == NoOperation \notin Operations

\* Places of a commit that holds the lock.
Critical == {"read", "write", "sync", "observe", "recover", "release"}
Places   == {"idle", "load", "lock"} \cup Critical

TypeOK ==
  /\ file \in Contents /\ durable \in Contents
  /\ lock \in Proc \cup {Free}
  /\ queue \in [Proc -> Seq(Operations)]
  /\ pc \in [Proc -> Places]
  /\ op \in [Proc -> Operations \cup {NoOperation}]
  /\ before \in [Proc -> Contents \cup {NoSnapshot}]
  /\ answer \in [Proc -> Answers]
  /\ terminal \in [Proc -> BOOLEAN]
  /\ \A p \in Proc : op[p] = NoOperation <=> pc[p] = "idle"

Init ==
  /\ file \in Contents
  /\ durable = file
  /\ lock = Free
  /\ queue = [p \in Proc |-> <<>>]
  /\ pc = [p \in Proc |-> "idle"]
  /\ op = [p \in Proc |-> NoOperation]
  /\ before = [p \in Proc |-> NoSnapshot]
  /\ answer = [p \in Proc |-> "none"]
  /\ terminal = [p \in Proc |-> FALSE]

Goto(p, place) == pc' = [pc EXCEPT ![p] = place]
Says(p, a)     == answer' = [answer EXCEPT ![p] = a]

\* Mutant: the settled operation stays the running one.
SettleKeepsOperation(p) ==
  /\ Goto(p, "idle")
  /\ before' = [before EXCEPT ![p] = NoSnapshot]
  /\ UNCHANGED op

\* The running operation leaves and the next one may start.
Settle(p) ==
  /\ Goto(p, "idle")
  /\ op' = [op EXCEPT ![p] = NoOperation]
  /\ before' = [before EXCEPT ![p] = NoSnapshot]

-----------------------------------------------------------------------------
(* The operation queue of one store object *)

\* loadSnapshot and commit append to the promise chain.
Enqueue(p, o) ==
  /\ Len(queue[p]) < QueueLimit
  /\ queue' = [queue EXCEPT ![p] = Append(@, o)]
  /\ UNCHANGED <<file, durable, lock, pc, op, before, answer, terminal>>

\* The head of the chain runs once its predecessor has settled.
Start(p) ==
  /\ pc[p] = "idle" /\ queue[p] # <<>>
  /\ ~terminal[p]
  /\ queue' = [queue EXCEPT ![p] = Tail(@)]
  /\ op' = [op EXCEPT ![p] = Head(queue[p])]
  /\ Goto(p, IF Head(queue[p]).kind = "load" THEN "load" ELSE "lock")
  /\ Says(p, "none")
  /\ UNCHANGED <<file, durable, lock, before, terminal>>

\* After an outcome nobody knows the store answers nothing any more.
RefuseTerminal(p) ==
  /\ pc[p] = "idle" /\ queue[p] # <<>>
  /\ terminal[p]
  /\ queue' = [queue EXCEPT ![p] = Tail(@)]
  /\ UNCHANGED <<file, durable, lock, pc, op, before, answer, terminal>>

\* #readSnapshot without the lock: it succeeds, or the file cannot be read.
Load(p) ==
  /\ pc[p] = "load"
  /\ \E a \in {"loaded", "failed"} : Says(p, a)
  /\ Settle(p)
  /\ UNCHANGED <<file, durable, lock, queue, terminal>>

-----------------------------------------------------------------------------
(* One commit *)

\* Mutants: the lock is taken whoever holds it; a busy lock is awaited.
AcquireAnyLock(p) ==
  /\ pc[p] = "lock"
  /\ lock' = p
  /\ Goto(p, "read")
  /\ UNCHANGED <<file, durable, queue, op, before, answer, terminal>>
AwaitLock(p) ==
  pc[p] = "lock" /\ lock # Free /\ UNCHANGED vars

AcquireLock(p) ==
  /\ pc[p] = "lock" /\ lock = Free
  /\ lock' = p
  /\ Goto(p, "read")
  /\ UNCHANGED <<file, durable, queue, op, before, answer, terminal>>

\* The lock stayed taken for all retries (repository_busy).
LockBusy(p) ==
  /\ pc[p] = "lock" /\ lock # Free
  /\ Says(p, "failed")
  /\ Settle(p)
  /\ UNCHANGED <<file, durable, lock, queue, terminal>>

\* The snapshot under the lock decides: another revision than the base, a
\* candidate that is the current content, or a write.
ReadAndCheck(p) ==
  /\ pc[p] = "read"
  /\ before' = [before EXCEPT ![p] = file]
  /\ \/ /\ file # op[p].base
        /\ Says(p, "conflict") /\ Goto(p, "release")
     \/ /\ file = op[p].base /\ op[p].next = file
        /\ Says(p, "unchanged") /\ Goto(p, "release")
     \/ /\ file = op[p].base /\ op[p].next # file
        /\ Goto(p, "write") /\ UNCHANGED answer
  /\ UNCHANGED <<file, durable, lock, queue, op, terminal>>

\* The file cannot be read, or validateTransition refuses the candidate.
ReadOrValidationFails(p) ==
  /\ pc[p] = "read"
  /\ Says(p, "failed") /\ Goto(p, "release")
  /\ UNCHANGED <<file, durable, lock, queue, op, before, terminal>>

\* replaceFileDurably fails before the rename, or the content is too large.
WriteFails(p) ==
  /\ pc[p] = "write"
  /\ Goto(p, "observe")
  /\ UNCHANGED <<file, durable, lock, queue, op, before, answer, terminal>>

Rename(p) ==
  /\ pc[p] = "write"
  /\ file' = op[p].next
  /\ Goto(p, "sync")
  /\ UNCHANGED <<durable, lock, queue, op, before, answer, terminal>>

SynchronizeDirectory(p) ==
  /\ pc[p] = "sync"
  /\ durable' = file
  /\ Says(p, "committed") /\ Goto(p, "release")
  /\ UNCHANGED <<file, lock, queue, op, before, terminal>>

\* The directory is not synchronised, or it is and the removal of the
\* temporary file fails.
SynchronizeFails(p) ==
  /\ pc[p] = "sync"
  /\ durable' \in {durable, file}
  /\ Goto(p, "observe")
  /\ UNCHANGED <<file, lock, queue, op, before, answer, terminal>>

\* #resolveFailedCommit reads the file again.
Observe(p) ==
  /\ pc[p] = "observe"
  /\ IF file = before[p] THEN /\ Says(p, "failed") /\ Goto(p, "release")
                              /\ UNCHANGED terminal
     ELSE IF file = op[p].next THEN /\ Goto(p, "recover")
                                    /\ UNCHANGED <<answer, terminal>>
     ELSE /\ Says(p, "unknown") /\ Goto(p, "release")
          /\ terminal' = [terminal EXCEPT ![p] = TRUE]
  /\ UNCHANGED <<file, durable, lock, queue, op, before>>

ObserveFails(p) ==
  /\ pc[p] \in {"observe", "recover"}
  /\ Says(p, "unknown") /\ Goto(p, "release")
  /\ terminal' = [terminal EXCEPT ![p] = TRUE]
  /\ UNCHANGED <<file, durable, lock, queue, op, before>>

\* Mutant: success is claimed without synchronising the directory.
RecoverUnsynchronized(p) ==
  /\ pc[p] = "recover"
  /\ Says(p, "committed") /\ Goto(p, "release")
  /\ UNCHANGED <<file, durable, lock, queue, op, before, terminal>>

\* The candidate is in place: synchronise the directory and claim success.
Recover(p) ==
  /\ pc[p] = "recover"
  /\ durable' = file
  /\ Says(p, "committed") /\ Goto(p, "release")
  /\ UNCHANGED <<file, lock, queue, op, before, terminal>>

Release(p) ==
  /\ pc[p] = "release"
  /\ lock' = Free
  /\ Settle(p)
  /\ UNCHANGED <<file, durable, queue, answer, terminal>>

\* A lock that cannot be released ends the store object; a commit that had
\* succeeded still reports its success.
ReleaseFails(p) ==
  /\ pc[p] = "release"
  /\ lock' \in {p, Free}
  /\ terminal' = [terminal EXCEPT ![p] = TRUE]
  /\ Settle(p)
  /\ UNCHANGED <<file, durable, queue, answer>>

-----------------------------------------------------------------------------
(* The environment: proper-lockfile's staleness, processes, the disk *)

\* The lock of a process that no longer refreshes it goes stale.
ExpireLock ==
  /\ lock # Free
  /\ pc[lock] \notin Critical
  /\ lock' = Free
  /\ UNCHANGED <<file, durable, queue, pc, op, before, answer, terminal>>

\* The process dies and starts again with a new store object.
Restart(p) ==
  /\ queue' = [queue EXCEPT ![p] = <<>>]
  /\ terminal' = [terminal EXCEPT ![p] = FALSE]
  /\ answer' = [answer EXCEPT ![p] = "none"]
  /\ Settle(p)
  /\ UNCHANGED <<file, durable, lock>>

PowerLoss ==
  /\ file' \in {file, durable}
  /\ durable' = file'
  /\ queue' = [p \in Proc |-> <<>>]
  /\ pc' = [p \in Proc |-> "idle"]
  /\ op' = [p \in Proc |-> NoOperation]
  /\ before' = [p \in Proc |-> NoSnapshot]
  /\ answer' = [p \in Proc |-> "none"]
  /\ terminal' = [p \in Proc |-> FALSE]
  /\ UNCHANGED lock

-----------------------------------------------------------------------------
CommitStep(p) ==
  \/ AcquireLock(p) \/ LockBusy(p)
  \/ ReadAndCheck(p) \/ ReadOrValidationFails(p)
  \/ WriteFails(p) \/ Rename(p)
  \/ SynchronizeDirectory(p) \/ SynchronizeFails(p)
  \/ Observe(p) \/ ObserveFails(p) \/ Recover(p)
  \/ Release(p) \/ ReleaseFails(p)

StoreStep(p) == Start(p) \/ RefuseTerminal(p) \/ Load(p) \/ CommitStep(p)

Next ==
  \/ \E p \in Proc :
       \/ \E o \in Operations : Enqueue(p, o)
       \/ StoreStep(p)
       \/ Restart(p)
  \/ ExpireLock
  \/ PowerLoss

\* A promise whose file-system call has returned is resumed by the event loop,
\* and every file-system call returns.
Fairness == \A p \in Proc : WF_vars(StoreStep(p))

Spec == Init /\ [][Next]_vars /\ Fairness

-----------------------------------------------------------------------------
(* Refinement of CasStore *)

CallStatus(p) ==
  CASE pc[p] \in {"lock", "read", "write"} -> "pending"
    [] pc[p] = "sync" -> "applied"
    [] pc[p] \in {"observe", "recover"} ->
         IF file = op[p].next THEN "applied" ELSE "pending"
    [] OTHER -> answer[p]

CallOf(p) ==
  IF op[p] = NoOperation \/ pc[p] = "load" THEN [status |-> "idle"]
  ELSE [status |-> CallStatus(p), base |-> op[p].base, next |-> op[p].next]

cas == INSTANCE CasStore WITH
         Caller <- Proc, content <- file, call <- [p \in Proc |-> CallOf(p)]

\* The file changes by compare-and-set only, and every answer is true: a
\* commit that reports success is on the disk, a conflict was one, a failure
\* wrote nothing (contentStore.ts commit and #resolveFailedCommit).
ImplementsCasStore == cas!Init /\ [][cas!Next]_(cas!vars)

-----------------------------------------------------------------------------
(* Properties *)

\* At most one process is between its snapshot and the release of its lock,
\* through failed releases, stale locks, restarts and power losses.
OneWriter ==
  \A p, q \in Proc : pc[p] \in Critical /\ pc[q] \in Critical => p = q

\* Every operation that starts comes to an end, also when the lock is never
\* released by its holder.
OperationsSettle == \A p \in Proc : pc[p] # "idle" ~> pc[p] = "idle"
=============================================================================
