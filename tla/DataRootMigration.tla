------------------------- MODULE DataRootMigration -------------------------
(***************************************************************************)
(* Moving the data of a server to another directory                        *)
(* (dataRootMigrationCoordinator.ts) while it serves requests: the write   *)
(* barrier, the two control files, the bootstrap configuration that points *)
(* to the data root and the record of the migration, the start of the      *)
(* server and the recovery server (index.ts), with failing calls of the    *)
(* file system, deaths of the process and power losses.                    *)
(*                                                                         *)
(* A control file is a SecureJsonPartition: what a reader sees, what is    *)
(* known to be on the disk, and whether this process has lost track of it  *)
(* (the terminal error) and must reconcile it before it can use it again.  *)
(* The revision of the bootstrap configuration is a digest of its content, *)
(* so the content stands for it.                                           *)
(***************************************************************************)
EXTENDS WriteBarrier, Naturals, FiniteSets

CONSTANTS
  Root,        \* directories that hold or may hold the data
  FirstRoot,   \* the data root at the beginning
  MaxWrites,   \* bound: writes of requests
  MaxUpdates,  \* bound: updates of the settings
  MaxFaults,   \* bound: calls that fail
  MaxCrashes,  \* bound: deaths of the process
  None         \* no value

ASSUME RootAssumption == FirstRoot \in Root
ASSUME MigrationBoundAssumption ==
  MaxWrites \in Nat /\ MaxUpdates \in Nat /\ MaxFaults \in Nat /\ MaxCrashes \in Nat
ASSUME NoneAssumption ==
  None \notin Root /\ \A writes \in SUBSET (1..MaxWrites) : None # writes

VARIABLES
  mode,         \* the process: "down", "starting", "recovery" or "serving"
  root,         \* the data root this process serves
  session,      \* there is an agent session or a device login
  data,         \* the writes each directory holds, None if it does not exist
  pointer,      \* control file: the bootstrap configuration
  record,       \* control file: the migration record
  memory,       \* the record the coordinator holds (#record)
  unavailable,  \* a write of the record failed (#recordUnavailable)
  held,         \* the coordinator holds the maintenance lease (#lease)
  work,         \* what the coordinator does next
  request,      \* the request that starts a migration and its draft, or None
  stuck,        \* an orderly shutdown of this process has failed
  acknowledged, \* history: the writes of all requests
  budget        \* bound: updates, faults and crashes so far

coordinator == <<memory, unavailable, held, work, request, stuck>>
files == <<pointer, record>>
service == <<mode, root, session>>
vars == <<barrier, service, data, files, coordinator, acknowledged, budget>>

Write == 1..MaxWrites
Terminal == {"completed", "failed"}
Status == {"preparing", "copying", "verifying", "committing", "reconciling",
           "restarting", "recovery-required"} \cup Terminal
Configuration == [root : Root, settings : 0..MaxUpdates]
Record == [status : Status, base : Configuration, destination : Root,
           owned : BOOLEAN, digest : {None} \cup SUBSET Write]
ASSUME RecordAssumption == None \notin Record

File(Content) == [seen : Content, kept : Content, lost : BOOLEAN]

\* The parser of the record file refuses anything else.
Valid(m) ==
  /\ m.destination # m.base.root
  /\ m.status \in {"committing", "restarting", "completed"} =>
       m.owned /\ m.digest # None

ValidRecord == {m \in Record : Valid(m)}

Ended(m) == IF m = None THEN TRUE ELSE m.status \in Terminal

Target(m) == [m.base EXCEPT !.root = m.destination]

-----------------------------------------------------------------------------
(* Control files *)

Stored(value) == [seen |-> value, kept |-> value, lost |-> FALSE]

\* Replaced, but the directory could not be synchronised.
Unconfirmed(file, value) == [seen |-> value, kept |-> file.kept, lost |-> TRUE]

\* mutant: believed without being put on the disk.
Believed(file) == [file EXCEPT !.lost = FALSE]

\* reconcile(): what is seen is put on the disk and believed again.
Confirmed(file) == Stored(file.seen)

Fault ==
  /\ budget.faults < MaxFaults
  /\ budget' = [budget EXCEPT !.faults = @ + 1]

\* #persist: the record is replaced and the coordinator goes on, or it cannot
\* be, or nobody knows, and the coordinator gives up.  It never gets here with
\* a record file it has lost track of: it reloads the record before it goes on.
Persist(next, then) ==
  /\ ~record.lost
  /\ \/ /\ record' = Stored(next) /\ memory' = next
        /\ work' = then
        /\ UNCHANGED <<unavailable, budget>>
     \/ /\ record' \in {record, Unconfirmed(record, next)}
        /\ unavailable' = TRUE
        /\ work' = "abort"
        /\ Fault
        /\ UNCHANGED memory

With(status) == [memory EXCEPT !.status = status]

-----------------------------------------------------------------------------
(* Requests *)

EnterRequest(r) ==
  /\ mode = "serving"
  /\ Enter(r)
  /\ UNCHANGED <<service, data, files, coordinator, acknowledged, budget>>

ExtendRequest(r) ==
  /\ Extend(r)
  /\ UNCHANGED <<service, data, files, coordinator, acknowledged, budget>>

\* The handler of the request that starts a migration waits for its record.
Handling(r) == "request" \in frames[r] /\ (request # None => request.by # r)

FinishFrame(r, frame) ==
  /\ frame = "request" => Handling(r)
  /\ Finish(r, frame)
  /\ UNCHANGED <<service, data, files, coordinator, acknowledged, budget>>

WriteContent(r) ==
  /\ Handling(r) \/ "task" \in frames[r]
  /\ Cardinality(acknowledged) < MaxWrites
  /\ LET write == Cardinality(acknowledged) + 1 IN
       /\ data' = [data EXCEPT ![root] = @ \cup {write}]
       /\ acknowledged' = acknowledged \cup {write}
  /\ UNCHANGED <<barrier, service, files, coordinator, budget>>

OpenSession(r) ==
  /\ Handling(r)
  /\ ~session
  /\ session' = TRUE
  /\ UNCHANGED <<barrier, mode, root, data, files, coordinator, acknowledged, budget>>

\* By a request or by the sweep of expired sessions.
CloseSession ==
  /\ session
  /\ session' = FALSE
  /\ UNCHANGED <<barrier, mode, root, data, files, coordinator, acknowledged, budget>>

\* Exact compare-and-set on the bootstrap configuration.
UpdateSettings(r) ==
  /\ Handling(r)
  /\ ~pointer.lost
  /\ budget.updates < MaxUpdates
  /\ LET next == [pointer.seen EXCEPT !.settings = @ + 1] IN
       \/ /\ pointer' = Stored(next)
          /\ budget' = [budget EXCEPT !.updates = @ + 1]
       \/ /\ budget.faults < MaxFaults
          /\ pointer' = Unconfirmed(pointer, next)
          /\ budget' = [updates |-> budget.updates + 1, faults |-> budget.faults + 1,
                        crashes |-> budget.crashes]
  /\ UNCHANGED <<barrier, service, data, record, coordinator, acknowledged>>

-----------------------------------------------------------------------------
(* The migration *)

Idle == mode = "serving" /\ work = "idle"

\* The request is checked and the change prepared.
Start(r, destination) ==
  /\ Idle /\ "request" \in frames[r]
  /\ ~held /\ ~unavailable /\ ~session
  /\ ~record.lost /\ Ended(record.seen)
  /\ ~pointer.lost
  /\ data[destination] = None
  /\ request' = [by |-> r,
                 draft |-> [status |-> "preparing", base |-> pointer.seen,
                            destination |-> destination, owned |-> FALSE,
                            digest |-> None]]
  /\ work' = "announce"
  /\ UNCHANGED <<barrier, service, data, files, memory, unavailable, held, stuck,
                 acknowledged, budget>>

\* The first record is written, the barrier closes, and the handler answers.
Announce ==
  /\ work = "announce"
  /\ request' = None
  /\ frames' = [frames EXCEPT ![request.by] = @ \ {"request"}]
  /\ \/ /\ record' = Stored(request.draft) /\ memory' = request.draft
        /\ closed' = TRUE
        /\ work' = "drain"
        /\ UNCHANGED <<unavailable, budget>>
     \/ /\ Fault
        /\ record' \in {record, Unconfirmed(record, request.draft)}
        /\ unavailable' = TRUE
        /\ work' = "idle"
        /\ UNCHANGED <<memory, closed>>
  /\ UNCHANGED <<service, data, pointer, held, stuck, acknowledged>>

\* The last frame ends; a session may have begun since the first check.
Drain ==
  /\ work = "drain" /\ Drained
  /\ held' = TRUE
  /\ work' = IF ~session THEN "begin copy" ELSE "reconcile"
  /\ UNCHANGED <<barrier, service, data, files, memory, unavailable, request, stuck,
                 acknowledged, budget>>

\* The steps that only write the record.
Mark(step, next, then) ==
  /\ work = step
  /\ Persist(next, then)
  /\ UNCHANGED <<barrier, service, data, pointer, held, request, stuck, acknowledged>>

\* Work outside the control files; every part of it can fail.
Try(step, failed) ==
  /\ work = step
  /\ work' = failed
  /\ Fault
  /\ UNCHANGED <<barrier, service, data, files, memory, unavailable, held, request,
                 stuck, acknowledged>>

\* The destination is created exclusively, and owned before it is filled.
Allocate ==
  /\ work = "allocate"
  /\ data[memory.destination] = None
  /\ data' = [data EXCEPT ![memory.destination] = {}]
  /\ work' = "own"
  /\ UNCHANGED <<barrier, service, files, memory, unavailable, held, request, stuck,
                 acknowledged, budget>>

Copy ==
  /\ work = "copy"
  /\ data' = [data EXCEPT ![memory.destination] = data[memory.base.root]]
  /\ work' = "begin verify"
  /\ UNCHANGED <<barrier, service, files, memory, unavailable, held, request, stuck,
                 acknowledged, budget>>

Verify ==
  /\ work = "verify"
  /\ work' = IF data[memory.destination] = data[memory.base.root]
               THEN "begin commit" ELSE "reconcile"
  /\ UNCHANGED <<barrier, service, data, files, memory, unavailable, held, request,
                 stuck, acknowledged, budget>>

\* mutant: the digest is kept in memory.
CommittingUnproved == With("committing")

Committing == [With("committing") EXCEPT !.digest = data[memory.destination]]

\* The pointer is moved if the configuration is what it was.
Commit ==
  /\ work = "commit"
  /\ \/ /\ ~pointer.lost /\ pointer.seen = memory.base
        /\ \/ /\ pointer' = Stored(Target(memory)) /\ work' = "begin restart"
              /\ UNCHANGED budget
           \/ /\ pointer' \in {pointer, Unconfirmed(pointer, Target(memory))}
              /\ work' = "reconcile"
              /\ Fault
     \/ /\ pointer.lost \/ pointer.seen # memory.base
        /\ work' = "reconcile"
        /\ UNCHANGED <<pointer, budget>>
  /\ UNCHANGED <<barrier, service, data, record, memory, unavailable, held, request,
                 stuck, acknowledged>>

Execute ==
  \/ Announce
  \/ Drain
  \/ Mark("begin copy", With("copying"), "allocate")
  \/ Allocate \/ Try("allocate", "reconcile")
  \/ Mark("own", [memory EXCEPT !.owned = TRUE], "copy")
  \/ Copy \/ Try("copy", "reconcile")
  \/ Mark("begin verify", With("verifying"), "verify")
  \/ Verify \/ Try("verify", "reconcile")
  \/ Mark("begin commit", Committing, "commit")
  \/ Commit
  \/ Mark("begin restart", With("restarting"), "restart")

-----------------------------------------------------------------------------
(* Reconciliation *)

\* Read and confirmed under the lock of the bootstrap configuration.
Observe ==
  /\ work = "observe"
  /\ LET known == pointer.seen \in {memory.base, Target(memory)} IN
       /\ pointer' = IF known THEN Confirmed(pointer) ELSE pointer
       /\ work' = CASE pointer.seen = memory.base -> "fail"
                    [] pointer.seen = Target(memory) -> "prove"
                    [] OTHER -> "undecided"
  /\ UNCHANGED <<barrier, service, data, record, memory, unavailable, held, request,
                 stuck, acknowledged, budget>>

\* verifyTarget
Prove ==
  /\ work = "prove"
  /\ LET proved == /\ memory.owned /\ memory.digest # None
                   /\ data[memory.destination] = memory.digest
     IN work' = IF ~proved THEN "undecided"
                ELSE IF mode = "serving" THEN "begin restart" ELSE "complete"
  /\ UNCHANGED <<barrier, service, data, files, memory, unavailable, held, request,
                 stuck, acknowledged, budget>>

\* mutant: a migration that fails in place keeps its lease.
SettleWithoutWindow ==
  /\ work = "settle"
  /\ IF mode = "serving" THEN UNCHANGED <<held, closed>>
                         ELSE held' = FALSE /\ closed' = FALSE
  /\ work' = CASE mode = "serving" -> "idle"
              [] mode = "starting" -> "serve"
              [] mode = "recovery" -> "leave"
  /\ UNCHANGED <<frames, service, data, files, memory, unavailable, request, stuck,
                 acknowledged, budget>>

\* The window opens again: in place, for the server that is starting, or,
\* from the recovery server, by a restart.
Settle ==
  /\ work = "settle"
  /\ held' = FALSE /\ closed' = FALSE
  /\ work' = CASE mode = "serving" -> "idle"
              [] mode = "starting" -> "serve"
              [] mode = "recovery" -> "leave"
  /\ UNCHANGED <<frames, service, data, files, memory, unavailable, request, stuck,
                 acknowledged, budget>>

\* Nothing could be written, so the record on the disk decides after a restart
\* (#run); the recovery server stays.
Abort ==
  /\ work = "abort"
  /\ IF mode = "serving"
       THEN /\ memory' = With("recovery-required") /\ work' = "leave"
            /\ UNCHANGED mode
       ELSE /\ mode' = "recovery" /\ work' = "idle"
            /\ UNCHANGED memory
  /\ UNCHANGED <<barrier, root, session, data, files, unavailable, held, request,
                 stuck, acknowledged, budget>>

Rest ==
  /\ work = "rest"
  /\ mode' = IF mode = "serving" THEN mode ELSE "recovery"
  /\ work' = IF mode = "serving" THEN "leave" ELSE "idle"
  /\ UNCHANGED <<barrier, root, session, data, files, memory, unavailable, held,
                 request, stuck, acknowledged, budget>>

Settlement ==
  \/ Mark("reconcile", With("reconciling"), "observe")
  \/ Observe \/ Try("observe", "undecided")
  \/ Mark("fail", With("failed"), "settle") \/ Try("fail", "undecided")
  \/ Prove \/ Try("prove", "undecided")
  \/ Mark("complete", With("completed"), "settle")
  \/ Mark("undecided", With("recovery-required"), "rest")
  \/ Settle
  \/ Abort
  \/ Rest

\* The owner asks for a reconciliation (reconcile(id)).
Ask ==
  LET known == IF memory = None THEN record.seen ELSE memory
      current == IF unavailable THEN record.seen ELSE known
  IN /\ Idle
     /\ memory = None => ~record.lost
     /\ known # None
     /\ memory' = current /\ unavailable' = FALSE
     /\ record' = IF unavailable THEN Confirmed(record) ELSE record
     /\ IF Ended(known) \/ current = None \/ current.destination # known.destination
          THEN UNCHANGED <<closed, work>>
          ELSE /\ closed' = TRUE
               /\ work' = IF held THEN "reconcile" ELSE "await"
     /\ UNCHANGED <<frames, service, data, pointer, held, request, stuck,
                    acknowledged, budget>>

Resume ==
  /\ work = "await" /\ Drained
  /\ held' = TRUE /\ work' = "reconcile"
  /\ UNCHANGED <<barrier, service, data, files, memory, unavailable, request, stuck,
                 acknowledged, budget>>

-----------------------------------------------------------------------------
(* The process *)

\* What a new process starts with.
Down(pointerFile, recordFile) ==
  /\ mode' = "down" /\ root' = None /\ session' = FALSE
  /\ frames' = NoFrames /\ closed' = FALSE
  /\ pointer' = [pointerFile EXCEPT !.lost = FALSE]
  /\ record' = [recordFile EXCEPT !.lost = FALSE]
  /\ memory' = None /\ unavailable' = FALSE /\ held' = FALSE
  /\ work' = "idle" /\ request' = None /\ stuck' = FALSE
  /\ UNCHANGED <<data, acknowledged>>

\* requestRestart: an orderly shutdown ends the process; one that has failed
\* fails again.  After a committed migration the failure is recorded.
Shutdown ==
  /\ work \in {"restart", "leave"}
  /\ \/ /\ ~stuck
        /\ Down(pointer, record)
        /\ UNCHANGED budget
     \/ /\ IF stuck THEN UNCHANGED budget ELSE Fault
        /\ stuck' = TRUE
        /\ work' = IF work = "restart" THEN "note" ELSE "idle"
        /\ UNCHANGED <<barrier, service, data, files, memory, unavailable, held,
                       request, acknowledged>>

\* The operator ends a process whose shutdown has failed.
Kill ==
  /\ stuck
  /\ Down(pointer, record)
  /\ UNCHANGED budget

\* A power loss takes back what is not known to be on the disk, or not.
Survivors(file) == {file, [file EXCEPT !.seen = file.kept]}

Crash(power) ==
  /\ mode # "down"
  /\ budget.crashes < MaxCrashes
  /\ IF power
       THEN \E p \in Survivors(pointer), r \in Survivors(record) :
              Down([p EXCEPT !.kept = p.seen], [r EXCEPT !.kept = r.seen])
       ELSE Down(pointer, record)
  /\ budget' = [budget EXCEPT !.crashes = @ + 1]

Boot ==
  /\ mode = "down"
  /\ mode' = "starting" /\ work' = "load"
  /\ UNCHANGED <<barrier, root, session, data, files, memory, unavailable, held,
                 request, stuck, acknowledged, budget>>

\* A request to the recovery server.
Retry ==
  /\ mode = "recovery" /\ work = "idle"
  /\ work' = "load"
  /\ UNCHANGED <<barrier, service, data, files, memory, unavailable, held, request,
                 stuck, acknowledged, budget>>

\* recoverOnStartup: the record is read and confirmed before anything is served.
Load ==
  /\ work = "load"
  /\ record' = Confirmed(record) /\ memory' = record.seen
  /\ unavailable' = FALSE
  /\ IF Ended(record.seen)
       THEN work' = "settle" /\ UNCHANGED <<held, closed>>
       ELSE work' = "reconcile" /\ held' = TRUE /\ closed' = TRUE
  /\ UNCHANGED <<frames, service, data, pointer, request, stuck, acknowledged, budget>>

\* Without a pending migration the other recovery server opens, which the
\* operator ends; it never opens when the record could not be read at all.
LoadFails ==
  /\ work = "load"
  /\ Fault
  /\ \/ mode' = "recovery" /\ work' = "idle"
     \/ /\ mode = "starting"
        /\ Ended(record.seen)
        /\ mode' = "down" /\ work' = "idle"
  /\ UNCHANGED <<barrier, root, session, data, files, memory, unavailable, held,
                 request, stuck, acknowledged>>

Serve ==
  /\ work = "serve"
  /\ mode' = "serving" /\ root' = pointer.seen.root
  /\ work' = "idle"
  /\ UNCHANGED <<barrier, session, data, files, memory, unavailable, held, request,
                 stuck, acknowledged, budget>>

-----------------------------------------------------------------------------

TypeOK ==
  /\ BarrierTypeOK
  /\ mode \in {"down", "starting", "recovery", "serving"}
  /\ root \in Root \cup {None} /\ (mode = "serving" <=> root # None)
  /\ session \in BOOLEAN
  /\ data \in [Root -> {None} \cup SUBSET Write]
  /\ pointer \in File(Configuration)
  /\ record \in File(ValidRecord \cup {None})
  /\ memory \in Record \cup {None}
  /\ {unavailable, held, stuck} \subseteq BOOLEAN
  /\ work \in {"idle", "announce", "drain", "begin copy", "allocate", "own", "copy",
               "begin verify", "verify", "begin commit", "commit", "begin restart",
               "restart", "note", "reconcile", "observe", "fail", "prove", "complete",
               "undecided", "rest", "settle", "abort", "leave", "await", "load", "serve"}
  /\ request # None =>
       work = "announce" /\ request.by \in Request /\ request.draft \in ValidRecord
  /\ acknowledged \subseteq Write
  /\ budget \in [updates : 0..MaxUpdates, faults : 0..MaxFaults,
                crashes : 0..MaxCrashes]

Init ==
  /\ BarrierInit
  /\ mode = "down" /\ root = None /\ session = FALSE
  /\ data = [r \in Root |-> IF r = FirstRoot THEN {} ELSE None]
  /\ pointer = Stored([root |-> FirstRoot, settings |-> 0])
  /\ record = Stored(None)
  /\ memory = None /\ unavailable = FALSE /\ held = FALSE
  /\ work = "idle" /\ request = None /\ stuck = FALSE
  /\ acknowledged = {}
  /\ budget = [updates |-> 0, faults |-> 0, crashes |-> 0]

RequestStep ==
  \/ \E r \in Request :
       EnterRequest(r) \/ ExtendRequest(r) \/ WriteContent(r) \/ OpenSession(r)
       \/ UpdateSettings(r)
  \/ \E r \in Request, frame \in Frame : FinishFrame(r, frame)
  \/ CloseSession
  \/ \E r \in Request, destination \in Root : Start(r, destination)
  \/ Ask

\* What the process does by itself.
ProcessStep ==
  \/ Execute
  \/ Settlement
  \/ Resume
  \/ Mark("note", memory, "idle")
  \/ Shutdown
  \/ Load \/ LoadFails
  \/ Serve \/ Try("serve", "leave")

Next == RequestStep \/ ProcessStep \/ Boot \/ Retry \/ Kill \/ \E power \in BOOLEAN : Crash(power)

\* Handlers end, the coordinator goes on, the supervisor starts the server
\* again, and the operator tries the recovery and ends what cannot shut down.
Fairness ==
  /\ WF_vars(ProcessStep)
  /\ WF_vars(Boot) /\ WF_vars(Retry) /\ WF_vars(Kill)
  /\ \A r \in Request, frame \in Frame : WF_vars(FinishFrame(r, frame))

Spec == Init /\ [][Next]_vars /\ Fairness

-----------------------------------------------------------------------------
(* Properties *)

\* No write of a request that was admitted is lost: whatever is served, and
\* from whichever directory, before, during and after a migration, through
\* failures, deaths and power losses, holds all of them (commitDataRootChange,
\* verifyTarget, reconcileDataRootChange).
WritesAreKept ==
  mode = "serving" => acknowledged \subseteq data[root]

Moving ==
  /\ mode = "serving" /\ memory # None
  /\ memory.status \in {"copying", "verifying", "committing", "restarting"}

\* Between the drained barrier and its end a migration is alone: no request or
\* task of one, no agent session and no device login is active
\* (docs/service-runtime.md:116-118).
MigrationIsAlone ==
  Moving => closed /\ ~session /\ \A r \in Request : frames[r] = {}

\* The configuration was changed under a migration, by a request that was
\* admitted before the barrier closed: neither outcome can be proved.
Overtaken ==
  /\ ~Ended(record.seen)
  /\ pointer.seen \notin {record.seen.base, Target(record.seen)}

Available == mode = "serving" /\ ~closed

\* Whatever fails, the server serves again, with the window open, unless the
\* migration was overtaken (#reconcile, recoverOnStartup, index.ts:83-95).
ServiceReturns == <>Overtaken \/ []<>Available

\* docs/product-requirements.md:126: a migration that failed before it was
\* committed goes on with the source.
UncommittedFailureKeepsSource ==
  (mode = "recovery" /\ pointer.seen.root = FirstRoot) ~> (mode = "serving")
=============================================================================
