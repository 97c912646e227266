---------------------- MODULE DataRootMigration_proofs ----------------------
(***************************************************************************)
(* Proofs about the data root migration, for every set of directories and  *)
(* requests and every bound on writes, settings, faults and crashes: its   *)
(* types, that no write is lost, and that a migration is alone.            *)
(*                                                                         *)
(* Neither property is inductive.  That the served directory holds every   *)
(* write rests on what the two control files may say, to a reader and on   *)
(* the disk, at every step of the coordinator: both the seen and the kept  *)
(* pointer always name a directory that holds every write, because the     *)
(* pointer moves only after the destination was compared with the source   *)
(* while nothing could write, and because the two may differ only while    *)
(* the record says that a migration is pending.  So the invariant relates  *)
(* the place of the coordinator in its program (work) to the mode of the   *)
(* process, the lease, the barrier, the record and the pointer.            *)
(***************************************************************************)
EXTENDS DataRootMigration, FiniteSetTheorems, TLAPS

\* The places of the coordinator between the lease and the restart (#run).
Executing == {"begin copy", "allocate", "own", "copy", "begin verify", "verify",
              "begin commit", "commit", "begin restart", "restart", "note"}

\* The places of a reconciliation that has the lease (#reconcile).
Reconciling == {"reconcile", "observe", "fail", "prove", "complete", "undecided", "rest"}

\* No request, task or stream of one is active.
NoFrame == \A r \in Request : frames[r] = {}

\* A migration runs only in a serving process, the record is loaded and a
\* migration completed only outside one, and nothing is admitted outside one.
WorkFitsMode ==
  /\ work \in Executing \cup {"announce", "drain", "await"} => mode = "serving"
  /\ work = "load" => mode \in {"starting", "recovery"}
  /\ work = "complete" => mode \in {"starting", "recovery"}
  /\ work = "serve" => mode = "starting"
  /\ mode = "down" => work = "idle"
  /\ mode # "serving" => NoFrame /\ ~session

\* The lease is held behind a closed and drained barrier, by every step that
\* runs or reconciles a migration; under it no session begins, so a migration
\* that moves is alone.
LeaseIsExclusive ==
  /\ held => closed /\ NoFrame
  /\ work \in {"drain", "await"} => closed
  /\ work \in Executing \cup Reconciling => held
  /\ work \in Executing => ~session
  /\ mode = "serving" => \A m \in {memory, record.seen} :
       m # None /\ m.status \in {"copying", "verifying", "committing", "restarting"}
         => held /\ ~session

\* The coordinator holds the record a reader of the file sees, except after a
\* write it cannot vouch for; where it works on a migration there is one, and
\* it has not ended before its settlement.
RecordIsKnown ==
  /\ unavailable => work \in {"abort", "leave", "idle", "load"}
  /\ work = "abort" => unavailable
  /\ mode = "serving" /\ ~unavailable => memory = record.seen
  /\ work \in Executing \cup Reconciling \cup {"drain", "await"} =>
       memory = record.seen /\ memory # None
  /\ work \in (Executing \cup Reconciling \cup {"drain"}) \ {"reconcile"} => ~Ended(memory)
  /\ work \in {"settle", "serve"} => memory = record.seen /\ Ended(memory)
  /\ work = "announce" => Ended(memory)

\* Two records of one migration.
SameMove(m, n) == m.base = n.base /\ m.destination = n.destination

\* A pending migration starts at the directory that is served, whichever of the
\* coordinator's record and the file's is asked.
MoveIsFromHere ==
  /\ work = "abort" => memory # None /\ record.seen # None /\ SameMove(record.seen, memory)
  /\ mode = "serving" =>
       /\ ~Ended(memory) => record.seen # None /\ SameMove(record.seen, memory)
       /\ \A m \in {memory, record.seen} : ~Ended(m) => m.base.root = root
       /\ work \in {"await", "reconcile", "abort"} => memory.base.root = root
       /\ work = "announce" => request.draft.base.root = root

\* The record the coordinator holds is one the parser accepts; the destination
\* is owned before it is filled, and has a digest before the pointer moves.
RecordIsValid ==
  /\ memory \in ValidRecord \cup {None}
  /\ work = "announce" => request.by \in Request /\ request.draft \in ValidRecord
                          /\ request.draft.status = "preparing"
  /\ work \in {"copy", "begin verify", "verify", "begin commit", "commit", "begin restart",
               "restart", "note", "complete"} => memory.owned
  /\ work \in {"commit", "begin restart", "restart", "note", "complete"} =>
       memory.digest # None

\* The directory holds every acknowledged write.
Holds(r) == data[r] \in SUBSET Write /\ acknowledged \subseteq data[r]

\* Wherever the pointer shows, to a reader or after a power loss, every write
\* is held; so it is where the server serves, and at a destination that was
\* verified.
PointedToHolds ==
  /\ Holds(pointer.seen.root) /\ Holds(pointer.kept.root)
  /\ mode = "serving" => Holds(root)
  /\ work \in {"begin commit", "commit"} => Holds(memory.destination)

\* What a reader sees of the pointer and what is on the disk name the same
\* directory whenever no migration is pending, and the served one as long as
\* anything can write; a reconciliation decides on a pointer that is on the
\* disk.
PointerIsSettled ==
  /\ Ended(record.seen) => pointer.seen.root = pointer.kept.root
  /\ mode = "serving" /\ (~closed \/ session \/ ~NoFrame) =>
       pointer.seen.root = root /\ pointer.kept.root = root
  /\ work \in {"fail", "prove", "complete"} => pointer.kept = pointer.seen
  /\ work = "fail" => pointer.seen = memory.base
  /\ work \in {"prove", "complete"} => pointer.seen = Target(memory)
  /\ work = "settle" /\ mode = "serving" => pointer.seen.root = root

\* The settings were updated no more often than the bound counts.
SettingsAreCounted ==
  /\ pointer.seen.settings <= budget.updates /\ pointer.kept.settings <= budget.updates

\* The inductive invariant.
IInv ==
  /\ TypeOK /\ WorkFitsMode /\ LeaseIsExclusive /\ RecordIsKnown /\ MoveIsFromHere
  /\ RecordIsValid /\ PointedToHolds /\ PointerIsSettled /\ SettingsAreCounted

\* The counters the bounds are stated with.
Budgets == [updates : 0..MaxUpdates, faults : 0..MaxFaults, crashes : 0..MaxCrashes]

\* What a record the parser accepts consists of.
LEMMA RecordFields ==
  ASSUME NEW m \in ValidRecord
  PROVE  /\ m # None /\ m \in Record
         /\ m.status \in Status /\ m.base \in Configuration
         /\ m.base.root \in Root /\ m.destination \in Root
         /\ m.destination # m.base.root
         /\ m.base.root # None /\ m.destination # None
         /\ Target(m) \in Configuration /\ Target(m).root = m.destination
         /\ Target(m).settings = m.base.settings
  BY RecordAssumption, NoneAssumption
     DEF ValidRecord, Valid, Record, Configuration, Target

\* What a bootstrap configuration consists of.
LEMMA ConfigurationFields ==
  ASSUME NEW c \in Configuration
  PROVE  c.root \in Root /\ c.settings \in 0..MaxUpdates
  BY DEF Configuration

\* What a control file consists of, and what reconcile() makes of it.
LEMMA FileFields ==
  ASSUME NEW C, NEW f \in File(C)
  PROVE  /\ f.seen \in C /\ f.kept \in C
         /\ Confirmed(f) \in File(C)
         /\ Confirmed(f).seen = f.seen /\ Confirmed(f).kept = f.seen
  BY DEF File, Confirmed, Stored

\* A control file that was replaced and put on the disk.
LEMMA StoredFile ==
  ASSUME NEW C, NEW v \in C
  PROVE  /\ Stored(v) \in File(C)
         /\ Stored(v).seen = v /\ Stored(v).kept = v
  BY DEF File, Stored

\* A control file that was replaced, with its directory not synchronised.
LEMMA UnconfirmedFile ==
  ASSUME NEW C, NEW f \in File(C), NEW v \in C
  PROVE  /\ Unconfirmed(f, v) \in File(C)
         /\ Unconfirmed(f, v).seen = v /\ Unconfirmed(f, v).kept = f.kept
  BY DEF File, Unconfirmed

\* A control file that was replaced, in either way.
LEMMA ReplacedFile ==
  ASSUME NEW C, NEW f \in File(C), NEW v \in C, NEW g,
         g = Stored(v) \/ g = Unconfirmed(f, v)
  PROVE  /\ g \in File(C)
         /\ g.seen = v /\ g.kept \in {f.kept, v}
<1>1. CASE g = Stored(v)
  BY <1>1, StoredFile
<1>2. CASE g = Unconfirmed(f, v)
  BY <1>2, UnconfirmedFile
<1> QED BY <1>1, <1>2

\* The record file after #persist, in either way.
LEMMA RecordReplaced ==
  ASSUME record \in File(ValidRecord \cup {None}), NEW m \in ValidRecord,
         record' = Stored(m) \/ record' = Unconfirmed(record, m)
  PROVE  record' \in File(ValidRecord \cup {None}) /\ record'.seen = m
<1>1. m \in ValidRecord \cup {None}
  OBVIOUS
<1> QED BY <1>1, ReplacedFile

\* A record with another status is the record of the same migration.
LEMMA WithStatus ==
  ASSUME memory \in ValidRecord, NEW s \in Status,
         s \in {"committing", "restarting", "completed"} => memory.owned /\ memory.digest # None
  PROVE  /\ With(s) \in ValidRecord /\ With(s).status = s
         /\ With(s).base = memory.base /\ With(s).destination = memory.destination
         /\ With(s).owned = memory.owned /\ With(s).digest = memory.digest
         /\ Ended(With(s)) <=> s \in Terminal
  BY RecordAssumption DEF With, ValidRecord, Valid, Record, Ended

\* The next write is within the bound.
LEMMA WriteNumbers ==
  ASSUME NEW S \in SUBSET Write, Cardinality(S) < MaxWrites
  PROVE  Cardinality(S) + 1 \in Write
<1>1. IsFiniteSet(Write)
  BY FS_Interval, MigrationBoundAssumption DEF Write
<1>2. IsFiniteSet(S)
  BY <1>1, FS_Subset
<1> QED BY <1>2, FS_CardinalityType, MigrationBoundAssumption DEF Write

\* A fault changes only its own counter.
LEMMA FaultIsCounted ==
  ASSUME budget \in Budgets, Fault
  PROVE  budget' \in Budgets /\ budget'.updates = budget.updates
  BY MigrationBoundAssumption DEF Budgets, Fault

\* A configuration whose settings are updated points where it did.
LEMMA SettingsUpdated ==
  ASSUME NEW c \in Configuration, budget \in Budgets, c.settings <= budget.updates,
         budget.updates < MaxUpdates
  PROVE  LET next == [c EXCEPT !.settings = @ + 1] IN
           /\ next \in Configuration /\ next.root = c.root
           /\ next.settings <= budget.updates + 1
  BY MigrationBoundAssumption DEF Configuration, Budgets


\* The first start: one directory, no migration, nothing written.
LEMMA InitStep ==
  ASSUME Init
  PROVE  IInv
<1>1. /\ pointer \in File(Configuration) /\ pointer.seen.settings <= budget.updates
      /\ pointer.kept.settings <= budget.updates
      /\ pointer.seen.root = FirstRoot /\ pointer.kept.root = FirstRoot
      /\ budget \in Budgets
  BY RootAssumption, MigrationBoundAssumption DEF Init, Stored, File, Configuration, Budgets
<1>2. record \in File(ValidRecord \cup {None}) /\ record.seen = None
  BY DEF Init, Stored, File
<1>3. data \in [Root -> {None} \cup SUBSET Write] /\ data[FirstRoot] = {}
  BY RootAssumption DEF Init
<1> USE DEF IInv, TypeOK, BarrierTypeOK, WorkFitsMode, Executing, Reconciling, NoFrame,
            LeaseIsExclusive, RecordIsKnown, MoveIsFromHere, SameMove, RecordIsValid,
            PointedToHolds, Holds, PointerIsSettled, SettingsAreCounted, Budgets,
            barrier, service, files, coordinator,
            Init, BarrierInit, NoFrames
<1>11. TypeOK /\ WorkFitsMode BY <1>1, <1>2, <1>3
<1>12. LeaseIsExclusive /\ RecordIsKnown BY <1>1, <1>2, <1>3
<1>13. MoveIsFromHere /\ RecordIsValid BY <1>1, <1>2, <1>3
<1>14. PointedToHolds /\ PointerIsSettled /\ SettingsAreCounted BY <1>1, <1>2, <1>3
<1> QED BY <1>11, <1>12, <1>13, <1>14 DEF IInv

\* A request is admitted while the barrier is open.
LEMMA EnterRequestStep ==
  ASSUME IInv, NEW r \in Request, EnterRequest(r)
  PROVE  IInv'
<1> USE DEF IInv, TypeOK, BarrierTypeOK, WorkFitsMode, Executing, Reconciling, NoFrame,
            LeaseIsExclusive, RecordIsKnown, MoveIsFromHere, SameMove, RecordIsValid,
            PointedToHolds, Holds, PointerIsSettled, SettingsAreCounted, Budgets,
            barrier, service, files, coordinator,
            EnterRequest, Enter, Frame
<1>11. TypeOK' /\ WorkFitsMode' OBVIOUS
<1>12. LeaseIsExclusive' /\ RecordIsKnown' OBVIOUS
<1>13. MoveIsFromHere' /\ RecordIsValid' OBVIOUS
<1>14. PointedToHolds' /\ PointerIsSettled' /\ SettingsAreCounted' OBVIOUS
<1> QED BY <1>11, <1>12, <1>13, <1>14 DEF IInv

\* An admitted request starts a task or a stream.
LEMMA ExtendRequestStep ==
  ASSUME IInv, NEW r \in Request, ExtendRequest(r)
  PROVE  IInv'
<1> USE DEF IInv, TypeOK, BarrierTypeOK, WorkFitsMode, Executing, Reconciling, NoFrame,
            LeaseIsExclusive, RecordIsKnown, MoveIsFromHere, SameMove, RecordIsValid,
            PointedToHolds, Holds, PointerIsSettled, SettingsAreCounted, Budgets,
            barrier, service, files, coordinator,
            ExtendRequest, Extend, Frame
<1>11. TypeOK' OBVIOUS
<1>12. WorkFitsMode' OBVIOUS
<1>13. LeaseIsExclusive' OBVIOUS
<1>14. RecordIsKnown' OBVIOUS
<1>15. MoveIsFromHere' OBVIOUS
<1>16. RecordIsValid' OBVIOUS
<1>17. PointedToHolds' /\ PointerIsSettled' /\ SettingsAreCounted' OBVIOUS
<1> QED BY <1>11, <1>12, <1>13, <1>14, <1>15, <1>16, <1>17 DEF IInv

\* A part of an admitted request ends.
LEMMA FinishFrameStep ==
  ASSUME IInv, NEW r \in Request, NEW frame \in Frame, FinishFrame(r, frame)
  PROVE  IInv'
<1> USE DEF IInv, TypeOK, BarrierTypeOK, WorkFitsMode, Executing, Reconciling, NoFrame,
            LeaseIsExclusive, RecordIsKnown, MoveIsFromHere, SameMove, RecordIsValid,
            PointedToHolds, Holds, PointerIsSettled, SettingsAreCounted, Budgets,
            barrier, service, files, coordinator,
            FinishFrame, Finish
<1>11. TypeOK' /\ WorkFitsMode' OBVIOUS
<1>12. LeaseIsExclusive' /\ RecordIsKnown' OBVIOUS
<1>13. MoveIsFromHere' /\ RecordIsValid' OBVIOUS
<1>14. PointedToHolds' /\ PointerIsSettled' /\ SettingsAreCounted' OBVIOUS
<1> QED BY <1>11, <1>12, <1>13, <1>14 DEF IInv

\* A request writes to the served directory, to which the pointer shows at that
\* moment, seen and kept.
LEMMA WriteContentStep ==
  ASSUME IInv, NEW r \in Request, WriteContent(r)
  PROVE  IInv'
<1> DEFINE write == Cardinality(acknowledged) + 1
<1>1. write \in Write
  BY WriteNumbers DEF IInv, TypeOK, WriteContent
<1>2. frames[r] # {} /\ ~NoFrame
  BY DEF WriteContent, Handling, NoFrame
<1>3. /\ mode = "serving" /\ ~held
      /\ root = pointer.seen.root /\ root = pointer.kept.root
      /\ data[root] \in SUBSET Write /\ acknowledged \subseteq data[root]
      /\ root \in Root
  BY <1>2, NoneAssumption
     DEF IInv, TypeOK, WorkFitsMode, LeaseIsExclusive, PointerIsSettled,
         PointedToHolds, Holds
<1>4. /\ data' = [data EXCEPT ![root] = @ \cup {write}]
      /\ acknowledged' = acknowledged \cup {write}
      /\ UNCHANGED <<barrier, service, files, coordinator, budget>>
  BY DEF WriteContent
<1> HIDE DEF write
<1> USE DEF IInv, TypeOK, BarrierTypeOK, WorkFitsMode, Executing, Reconciling, NoFrame,
            LeaseIsExclusive, RecordIsKnown, MoveIsFromHere, SameMove, RecordIsValid,
            PointedToHolds, Holds, PointerIsSettled, SettingsAreCounted, Budgets,
            barrier, service, files, coordinator
<1>11. TypeOK' /\ WorkFitsMode' BY <1>1, <1>2, <1>3, <1>4
<1>12. LeaseIsExclusive' /\ RecordIsKnown' BY <1>1, <1>2, <1>3, <1>4
<1>13. MoveIsFromHere' /\ RecordIsValid' BY <1>1, <1>2, <1>3, <1>4
<1>14. PointerIsSettled' /\ SettingsAreCounted' BY <1>1, <1>2, <1>3, <1>4
<1>15. PointedToHolds'
  <2>1. UNCHANGED <<root, pointer, work>>
    BY <1>4
  <2>3. Holds(root)'
    <3>1. data'[root] = data[root] \cup {write}
      BY <1>3, <1>4
    <3> HIDE DEF IInv
    <3> QED BY <1>1, <1>3, <1>4, <2>1, <3>1
  <2>2. work \notin {"begin commit", "commit"}
    BY <1>3
  <2> QED BY <1>3, <2>1, <2>2, <2>3
<1> QED BY <1>11, <1>12, <1>13, <1>14, <1>15 DEF IInv

\* A session begins: only in an admitted request, so never under the lease.
LEMMA OpenSessionStep ==
  ASSUME IInv, NEW r \in Request, OpenSession(r)
  PROVE  IInv'
<1> USE DEF IInv, TypeOK, BarrierTypeOK, WorkFitsMode, Executing, Reconciling, NoFrame,
            LeaseIsExclusive, RecordIsKnown, MoveIsFromHere, SameMove, RecordIsValid,
            PointedToHolds, Holds, PointerIsSettled, SettingsAreCounted, Budgets,
            barrier, service, files, coordinator,
            OpenSession, Handling
<1>11. TypeOK' /\ WorkFitsMode' OBVIOUS
<1>12. LeaseIsExclusive' /\ RecordIsKnown' OBVIOUS
<1>13. MoveIsFromHere' /\ RecordIsValid' OBVIOUS
<1>14. PointedToHolds' /\ PointerIsSettled' /\ SettingsAreCounted' OBVIOUS
<1> QED BY <1>11, <1>12, <1>13, <1>14 DEF IInv

\* A session ends.
LEMMA CloseSessionStep ==
  ASSUME IInv, CloseSession
  PROVE  IInv'
<1> USE DEF IInv, TypeOK, BarrierTypeOK, WorkFitsMode, Executing, Reconciling, NoFrame,
            LeaseIsExclusive, RecordIsKnown, MoveIsFromHere, SameMove, RecordIsValid,
            PointedToHolds, Holds, PointerIsSettled, SettingsAreCounted, Budgets,
            barrier, service, files, coordinator,
            CloseSession
<1>11. TypeOK' /\ WorkFitsMode' OBVIOUS
<1>12. LeaseIsExclusive' /\ RecordIsKnown' OBVIOUS
<1>13. MoveIsFromHere' /\ RecordIsValid' OBVIOUS
<1>14. PointedToHolds' /\ PointerIsSettled' /\ SettingsAreCounted' OBVIOUS
<1> QED BY <1>11, <1>12, <1>13, <1>14 DEF IInv

\* A settings update replaces the pointer by one that names the same directory.
LEMMA UpdateSettingsStep ==
  ASSUME IInv, NEW r \in Request, UpdateSettings(r)
  PROVE  IInv'
<1> DEFINE next == [pointer.seen EXCEPT !.settings = @ + 1]
<1>0. /\ budget \in Budgets /\ pointer \in File(Configuration)
      /\ pointer.seen.settings <= budget.updates /\ pointer.kept.settings <= budget.updates
  BY DEF IInv, TypeOK, Budgets, SettingsAreCounted
<1>1. /\ budget.updates < MaxUpdates
      /\ \/ pointer' = Stored(next) /\ budget' = [budget EXCEPT !.updates = @ + 1]
         \/ /\ budget.faults < MaxFaults
            /\ pointer' = Unconfirmed(pointer, next)
            /\ budget' = [updates |-> budget.updates + 1, faults |-> budget.faults + 1,
                          crashes |-> budget.crashes]
  BY DEF UpdateSettings
<1>2. pointer.seen \in Configuration /\ pointer.kept \in Configuration
  BY <1>0, FileFields
<1>3. /\ next \in Configuration /\ next.root = pointer.seen.root
      /\ next.settings <= budget.updates + 1
  BY <1>0, <1>1, <1>2, SettingsUpdated
<1>4. budget' \in Budgets /\ budget'.updates = budget.updates + 1
  BY <1>0, <1>1, MigrationBoundAssumption DEF Budgets
<1> HIDE DEF next
<1>5. /\ pointer' \in File(Configuration)
      /\ pointer'.seen = next /\ pointer'.kept \in {pointer.kept, next}
  BY <1>0, <1>1, <1>3, ReplacedFile
<1>6. pointer'.kept.settings <= budget.updates + 1
  BY <1>0, <1>2, <1>3, <1>5, ConfigurationFields, MigrationBoundAssumption DEF Budgets
<1>7. frames[r] # {} /\ ~NoFrame
  BY DEF UpdateSettings, Handling, NoFrame
<1>8. UNCHANGED <<barrier, service, data, record, coordinator, acknowledged>>
  BY DEF UpdateSettings
<1> USE DEF IInv, TypeOK, BarrierTypeOK, WorkFitsMode, Executing, Reconciling, NoFrame,
            LeaseIsExclusive, RecordIsKnown, MoveIsFromHere, SameMove, RecordIsValid,
            PointedToHolds, Holds, PointerIsSettled, SettingsAreCounted, Budgets,
            barrier, service, files, coordinator
<1>11. TypeOK' /\ WorkFitsMode' BY <1>3, <1>4, <1>5, <1>6, <1>7, <1>8
<1>12. LeaseIsExclusive' /\ RecordIsKnown' BY <1>3, <1>4, <1>5, <1>6, <1>7, <1>8
<1>13. MoveIsFromHere' /\ RecordIsValid' BY <1>3, <1>4, <1>5, <1>6, <1>7, <1>8
<1>14. PointedToHolds' /\ PointerIsSettled' /\ SettingsAreCounted'
  BY <1>3, <1>4, <1>5, <1>6, <1>7, <1>8
<1> QED BY <1>11, <1>12, <1>13, <1>14 DEF IInv

\* A migration is drafted from the configuration a reader sees.
LEMMA StartStep ==
  ASSUME IInv, NEW r \in Request, NEW destination \in Root, Start(r, destination)
  PROVE  IInv'
<1>1. pointer.seen \in Configuration /\ pointer.seen.root # destination
  BY FileFields, NoneAssumption DEF Write, Start, IInv, TypeOK, PointedToHolds, Holds
<1>2. /\ request'.by = r /\ request'.draft \in ValidRecord
      /\ request'.draft.status = "preparing" /\ request'.draft.base = pointer.seen
  BY <1>1 DEF ValidRecord, Record, Valid, Status, Start
<1> USE DEF IInv, TypeOK, BarrierTypeOK, WorkFitsMode, Executing, Reconciling, NoFrame,
            LeaseIsExclusive, RecordIsKnown, MoveIsFromHere, SameMove, RecordIsValid,
            PointedToHolds, Holds, PointerIsSettled, SettingsAreCounted, Budgets,
            barrier, service, files, coordinator,
            Start, Idle
<1>11. TypeOK' /\ WorkFitsMode' BY <1>2
<1>12. LeaseIsExclusive' /\ RecordIsKnown' BY <1>2
<1>13. MoveIsFromHere' /\ RecordIsValid' BY <1>2
<1>14. PointedToHolds' /\ PointerIsSettled' /\ SettingsAreCounted' BY <1>2
<1> QED BY <1>11, <1>12, <1>13, <1>14 DEF IInv

\* The first record is on the disk and the barrier closes.
LEMMA AnnouncedStep ==
  ASSUME IInv, Announce, work' # "idle"
  PROVE  IInv'
<1>1. /\ request.draft \in ValidRecord /\ request.by \in Request
      /\ request.draft.status = "preparing" /\ work = "announce" /\ mode = "serving"
  BY DEF Announce, IInv, RecordIsValid, WorkFitsMode
<1>2. /\ request.draft # None /\ ~Ended(request.draft)
      /\ request.draft.status \notin {"copying", "verifying", "committing", "restarting"}
  BY <1>1, RecordFields DEF Ended, Terminal
<1>3. /\ request' = None
      /\ frames' = [frames EXCEPT ![request.by] = @ \ {"request"}]
      /\ UNCHANGED <<service, data, pointer, held, stuck, acknowledged>>
  BY DEF Announce
<1>4. pointer.seen.root = pointer.kept.root
  BY <1>1 DEF IInv, RecordIsKnown, PointerIsSettled

<1>5. /\ record' = Stored(request.draft) /\ memory' = request.draft
      /\ closed' = TRUE /\ work' = "drain" /\ UNCHANGED <<unavailable, budget>>
  BY DEF Announce
<1>6. record' \in File(ValidRecord \cup {None}) /\ record'.seen = request.draft
  BY <1>1, <1>5, RecordReplaced DEF IInv, TypeOK
<1> USE DEF IInv, TypeOK, BarrierTypeOK, WorkFitsMode, Executing, Reconciling, NoFrame,
            LeaseIsExclusive, RecordIsKnown, MoveIsFromHere, SameMove, RecordIsValid,
            PointedToHolds, Holds, PointerIsSettled, SettingsAreCounted, Budgets,
            barrier, service, files, coordinator
<1>11. TypeOK' /\ WorkFitsMode' BY <1>1, <1>2, <1>3, <1>4, <1>5, <1>6, RecordFields
<1>12. LeaseIsExclusive' /\ RecordIsKnown'
  BY <1>1, <1>2, <1>3, <1>4, <1>5, <1>6, RecordFields
<1>13. MoveIsFromHere' /\ RecordIsValid'
  BY <1>1, <1>2, <1>3, <1>4, <1>5, <1>6, RecordFields
<1>14. PointedToHolds' /\ PointerIsSettled' /\ SettingsAreCounted'
  BY <1>1, <1>2, <1>3, <1>4, <1>5, <1>6, RecordFields
<1> QED BY <1>11, <1>12, <1>13, <1>14 DEF IInv

\* The first record could not be written: the window stays open and the record
\* is one the coordinator cannot vouch for.
LEMMA AnnounceFailsStep ==
  ASSUME IInv, Announce, work' = "idle"
  PROVE  IInv'
<1>1. /\ request.draft \in ValidRecord /\ request.by \in Request
      /\ request.draft.status = "preparing" /\ work = "announce" /\ mode = "serving"
  BY DEF Announce, IInv, RecordIsValid, WorkFitsMode
<1>2. /\ request.draft # None /\ ~Ended(request.draft)
      /\ request.draft.status \notin {"copying", "verifying", "committing", "restarting"}
  BY <1>1, RecordFields DEF Ended, Terminal
<1>3. /\ request' = None
      /\ frames' = [frames EXCEPT ![request.by] = @ \ {"request"}]
      /\ UNCHANGED <<service, data, pointer, held, stuck, acknowledged>>
  BY DEF Announce
<1>4. pointer.seen.root = pointer.kept.root
  BY <1>1 DEF IInv, RecordIsKnown, PointerIsSettled

<1>5. /\ record' = record \/ record' = Unconfirmed(record, request.draft)
      /\ unavailable' = TRUE /\ work' = "idle" /\ UNCHANGED <<memory, closed>>
      /\ Fault
  BY DEF Announce
<1>6. /\ record' \in File(ValidRecord \cup {None})
      /\ record'.seen = record.seen \/ record'.seen = request.draft
  BY <1>1, <1>5, RecordReplaced DEF IInv, TypeOK
<1>7. budget' \in Budgets /\ budget'.updates = budget.updates
  BY <1>5, FaultIsCounted DEF IInv, TypeOK, Budgets
<1> USE DEF IInv, TypeOK, BarrierTypeOK, WorkFitsMode, Executing, Reconciling, NoFrame,
            LeaseIsExclusive, RecordIsKnown, MoveIsFromHere, SameMove, RecordIsValid,
            PointedToHolds, Holds, PointerIsSettled, SettingsAreCounted, Budgets,
            barrier, service, files, coordinator
<1>11. TypeOK' /\ WorkFitsMode' BY <1>1, <1>2, <1>3, <1>4, <1>5, <1>6, <1>7
<1>12. LeaseIsExclusive' /\ RecordIsKnown' BY <1>1, <1>2, <1>3, <1>4, <1>5, <1>6, <1>7
<1>13. MoveIsFromHere' /\ RecordIsValid' BY <1>1, <1>2, <1>3, <1>4, <1>5, <1>6, <1>7
<1>14. PointedToHolds' /\ PointerIsSettled' /\ SettingsAreCounted'
  BY <1>1, <1>2, <1>3, <1>4, <1>5, <1>6, <1>7
<1> QED BY <1>11, <1>12, <1>13, <1>14 DEF IInv

\* #persist fails anywhere in a migration: a reader may see the old record or
\* the next one, and both are records of the same move.
LEMMA PersistFailsStep ==
  ASSUME IInv, NEW next \in ValidRecord, SameMove(next, memory),
         work \in (Executing \cup Reconciling) \ {"rest"},
         next.status \in {"copying", "verifying", "committing", "restarting"} => ~session,
         Ended(next) => pointer.seen.root = pointer.kept.root,
         record' = record \/ record' = Unconfirmed(record, next),
         unavailable' = TRUE, work' = "abort", Fault, UNCHANGED memory,
         UNCHANGED <<barrier, service, data, pointer, held, request, stuck, acknowledged>>
  PROVE  IInv'
<1>1. /\ record' \in File(ValidRecord \cup {None})
      /\ record'.seen = record.seen \/ record'.seen = next
  BY RecordReplaced DEF IInv, TypeOK
<1>2. budget' \in Budgets /\ budget'.updates = budget.updates
  BY FaultIsCounted DEF IInv, TypeOK, Budgets
<1>3. /\ memory # None /\ memory = record.seen /\ held
      /\ next # None /\ next.base = memory.base /\ next.destination = memory.destination
      /\ mode = "serving" => memory.base.root = root /\ next.base.root = root
  BY RecordFields DEF IInv, RecordIsKnown, LeaseIsExclusive, MoveIsFromHere, SameMove,
                      Executing, Reconciling
<1> USE DEF IInv, TypeOK, BarrierTypeOK, WorkFitsMode, Executing, Reconciling, NoFrame,
            LeaseIsExclusive, RecordIsKnown, MoveIsFromHere, SameMove, RecordIsValid,
            PointedToHolds, Holds, PointerIsSettled, SettingsAreCounted, Budgets,
            barrier, service, files, coordinator
<1>11. TypeOK' /\ WorkFitsMode' BY <1>1, <1>2, <1>3, RecordFields
<1>12. LeaseIsExclusive' /\ RecordIsKnown' BY <1>1, <1>2, <1>3, RecordFields
<1>13. RecordIsValid' BY <1>1, <1>2, <1>3, RecordFields
<1>14. MoveIsFromHere'
  <2>1. CASE record'.seen = record.seen
    BY <1>1, <1>3, <2>1
  <2>2. CASE record'.seen = next
    BY <1>1, <1>3, <2>2
  <2> QED BY <1>1, <2>1, <2>2
<1>15. PointedToHolds' /\ PointerIsSettled' /\ SettingsAreCounted'
  BY <1>1, <1>2, <1>3, RecordFields
<1> QED BY <1>11, <1>12, <1>13, <1>14, <1>15 DEF IInv

\* #persist succeeds: what the next place of the coordinator needs is in the
\* record that was written.
LEMMA PersistedStep ==
  ASSUME IInv, NEW next \in ValidRecord, SameMove(next, memory),
         work \in (Executing \cup Reconciling) \ {"rest"},
         NEW then \in {"allocate", "copy", "verify", "commit", "restart", "observe",
                       "settle", "rest", "idle"},
         record' = Stored(next), memory' = next, work' = then,
         UNCHANGED <<unavailable, budget>>,
         UNCHANGED <<barrier, service, data, pointer, held, request, stuck, acknowledged>>,
         next.status \in {"copying", "verifying", "committing", "restarting"} => ~session,
         then \in Executing => mode = "serving" /\ ~session,
         then \in {"copy", "verify", "commit", "restart"} => next.owned,
         then \in {"commit", "restart"} => next.digest # None,
         Ended(next) <=> then = "settle",
         Ended(next) => pointer.seen.root = pointer.kept.root,
         then = "settle" /\ mode = "serving" => pointer.seen.root = root,
         then = "commit" => Holds(next.destination)
  PROVE  IInv'
<1>1. record' \in File(ValidRecord \cup {None}) /\ record'.seen = next
  BY RecordReplaced DEF IInv, TypeOK
<1>2. /\ memory # None /\ memory = record.seen /\ held
      /\ next # None /\ next.base = memory.base /\ next.destination = memory.destination
      /\ mode = "serving" => memory.base.root = root /\ next.base.root = root
  BY RecordFields DEF IInv, RecordIsKnown, LeaseIsExclusive, MoveIsFromHere, SameMove,
                      Executing, Reconciling
<1>3. ~unavailable
  BY DEF IInv, RecordIsKnown, Executing, Reconciling
<1> USE DEF IInv, TypeOK, BarrierTypeOK, WorkFitsMode, Executing, Reconciling, NoFrame,
            LeaseIsExclusive, RecordIsKnown, MoveIsFromHere, SameMove, RecordIsValid,
            PointedToHolds, Holds, PointerIsSettled, SettingsAreCounted, Budgets,
            barrier, service, files, coordinator
<1>11. TypeOK' /\ WorkFitsMode' BY <1>1, <1>2, <1>3, RecordFields
<1>12. LeaseIsExclusive' BY <1>1, <1>2, <1>3, RecordFields
<1>13. RecordIsKnown'
  <2>1. CASE then = "settle"
    BY <1>1, <1>2, <1>3, <2>1, RecordFields
  <2>2. CASE then # "settle"
    BY <1>1, <1>2, <1>3, <2>2, RecordFields
  <2> QED BY <2>1, <2>2
<1>14. MoveIsFromHere'
  <2>1. /\ memory' = next /\ record'.seen = next /\ next # None
        /\ mode' = mode /\ root' = root
        /\ work' \notin {"abort", "await", "reconcile", "announce"}
        /\ mode = "serving" => next.base.root = root
    BY <1>1, <1>2
  <2> HIDE DEF IInv, TypeOK
  <2> QED BY <2>1
<1>15. RecordIsValid' BY <1>1, <1>2, <1>3, RecordFields
<1>16. PointedToHolds' /\ PointerIsSettled' /\ SettingsAreCounted'
  BY <1>1, <1>2, <1>3, RecordFields
<1> QED BY <1>11, <1>12, <1>13, <1>14, <1>15, <1>16 DEF IInv

\* The last frame has ended and the lease is taken.
LEMMA DrainStep ==
  ASSUME IInv, Drain
  PROVE  IInv'
<1> USE DEF IInv, TypeOK, BarrierTypeOK, WorkFitsMode, Executing, Reconciling, NoFrame,
            LeaseIsExclusive, RecordIsKnown, MoveIsFromHere, SameMove, RecordIsValid,
            PointedToHolds, Holds, PointerIsSettled, SettingsAreCounted, Budgets,
            barrier, service, files, coordinator,
            Drain, Drained
<1>11. TypeOK' /\ WorkFitsMode' OBVIOUS
<1>12. LeaseIsExclusive' /\ RecordIsKnown' OBVIOUS
<1>13. MoveIsFromHere' /\ RecordIsValid' OBVIOUS
<1>14. PointedToHolds' /\ PointerIsSettled' /\ SettingsAreCounted' OBVIOUS
<1> QED BY <1>11, <1>12, <1>13, <1>14 DEF IInv

\* The destination is created where no directory was, so not where the pointer
\* shows.
LEMMA AllocateStep ==
  ASSUME IInv, Allocate
  PROVE  IInv'
<1>1. /\ memory \in ValidRecord /\ data[memory.destination] = None
      /\ data' = [data EXCEPT ![memory.destination] = {}]
      /\ work = "allocate" /\ work' = "own" /\ mode = "serving"
      /\ UNCHANGED <<barrier, service, files, memory, unavailable, held, request, stuck,
                     acknowledged, budget>>
  BY DEF Allocate, IInv, RecordIsKnown, RecordIsValid, WorkFitsMode, Executing
<1>2. \A r \in Root : data[r] \in SUBSET Write => r # memory.destination
  BY <1>1, NoneAssumption DEF Write
<1>3. memory.destination \in Root
  BY <1>1, RecordFields
<1> USE DEF IInv, TypeOK, BarrierTypeOK, WorkFitsMode, Executing, Reconciling, NoFrame,
            LeaseIsExclusive, RecordIsKnown, MoveIsFromHere, SameMove, RecordIsValid,
            PointedToHolds, Holds, PointerIsSettled, SettingsAreCounted, Budgets,
            barrier, service, files, coordinator
<1>11. TypeOK' /\ WorkFitsMode' BY <1>1, <1>2, <1>3
<1>12. LeaseIsExclusive' /\ RecordIsKnown' BY <1>1, <1>2, <1>3
<1>13. MoveIsFromHere' /\ RecordIsValid' BY <1>1, <1>2, <1>3
<1>14. PointerIsSettled' /\ SettingsAreCounted' BY <1>1, <1>2, <1>3
<1>15. PointedToHolds'
  <2>1. pointer.seen.root \in Root /\ pointer.kept.root \in Root /\ root \in Root
    BY <1>1, FileFields, ConfigurationFields, NoneAssumption
  <2> QED BY <1>1, <1>2, <1>3, <2>1
<1> QED BY <1>11, <1>12, <1>13, <1>14, <1>15 DEF IInv

\* The destination receives what the source holds, so every write.
LEMMA CopyStep ==
  ASSUME IInv, Copy
  PROVE  IInv'
<1>1. /\ memory \in ValidRecord /\ mode = "serving" /\ memory.base.root = root
      /\ work = "copy" /\ work' = "begin verify"
      /\ data' = [data EXCEPT ![memory.destination] = data[root]]
      /\ UNCHANGED <<barrier, service, files, memory, unavailable, held, request, stuck,
                     acknowledged, budget>>
  BY DEF Copy, IInv, RecordIsKnown, RecordIsValid, WorkFitsMode, MoveIsFromHere, Executing
<1>2. Holds(root) /\ memory.destination \in Root
  BY <1>1, RecordFields DEF IInv, PointedToHolds
<1> USE DEF IInv, TypeOK, BarrierTypeOK, WorkFitsMode, Executing, Reconciling, NoFrame,
            LeaseIsExclusive, RecordIsKnown, MoveIsFromHere, SameMove, RecordIsValid,
            PointedToHolds, Holds, PointerIsSettled, SettingsAreCounted, Budgets,
            barrier, service, files, coordinator
<1>11. TypeOK' /\ WorkFitsMode' BY <1>1, <1>2
<1>12. LeaseIsExclusive' /\ RecordIsKnown' BY <1>1, <1>2
<1>13. MoveIsFromHere' /\ RecordIsValid' BY <1>1, <1>2
<1>14. PointerIsSettled' /\ SettingsAreCounted' BY <1>1, <1>2
<1>15. PointedToHolds'
  <2>1. \A r \in Root : Holds(r) => Holds(r)'
    BY <1>1, <1>2
  <2>2. pointer.seen.root \in Root /\ pointer.kept.root \in Root /\ root \in Root
    BY <1>1, FileFields, ConfigurationFields, NoneAssumption
  <2> QED BY <1>1, <1>2, <2>1, <2>2
<1> QED BY <1>11, <1>12, <1>13, <1>14, <1>15 DEF IInv

\* The destination goes on to the commit only with the content of the source.
LEMMA VerifyStep ==
  ASSUME IInv, Verify
  PROVE  IInv'
<1> USE DEF IInv, TypeOK, BarrierTypeOK, WorkFitsMode, Executing, Reconciling, NoFrame,
            LeaseIsExclusive, RecordIsKnown, MoveIsFromHere, SameMove, RecordIsValid,
            PointedToHolds, Holds, PointerIsSettled, SettingsAreCounted, Budgets,
            barrier, service, files, coordinator,
            Verify
<1>11. TypeOK' /\ WorkFitsMode' OBVIOUS
<1>12. LeaseIsExclusive' /\ RecordIsKnown' OBVIOUS
<1>13. MoveIsFromHere' /\ RecordIsValid' OBVIOUS
<1>14. PointedToHolds' /\ PointerIsSettled' /\ SettingsAreCounted' OBVIOUS
<1> QED BY <1>11, <1>12, <1>13, <1>14 DEF IInv

\* Work outside the control files fails.
LEMMA TryStep ==
  ASSUME IInv, work' \in {"reconcile", "undecided", "leave"},
         work \in {"allocate", "copy", "verify", "observe", "fail", "prove", "serve"},
         work = "serve" <=> work' = "leave",
         Fault,
         UNCHANGED <<barrier, service, data, files, memory, unavailable, held, request,
                     stuck, acknowledged>>
  PROVE  IInv'
<1>1. budget' \in Budgets /\ budget'.updates = budget.updates
  BY FaultIsCounted DEF IInv, TypeOK, Budgets
<1> USE DEF IInv, TypeOK, BarrierTypeOK, WorkFitsMode, Executing, Reconciling, NoFrame,
            LeaseIsExclusive, RecordIsKnown, MoveIsFromHere, SameMove, RecordIsValid,
            PointedToHolds, Holds, PointerIsSettled, SettingsAreCounted, Budgets,
            barrier, service, files, coordinator
<1>11. TypeOK' /\ WorkFitsMode' BY <1>1
<1>12. LeaseIsExclusive' /\ RecordIsKnown' BY <1>1
<1>13. MoveIsFromHere' /\ RecordIsValid' BY <1>1
<1>14. PointedToHolds' /\ PointerIsSettled' /\ SettingsAreCounted' BY <1>1
<1> QED BY <1>11, <1>12, <1>13, <1>14 DEF IInv

\* The pointer moves, is not known to have moved, or is left alone; whichever
\* of the two configurations it names, its directory holds every write.
LEMMA CommitStep ==
  ASSUME IInv, Commit
  PROVE  IInv'
<1>1. /\ memory \in ValidRecord /\ memory = record.seen /\ ~Ended(memory)
      /\ pointer \in File(Configuration) /\ budget \in Budgets /\ work = "commit"
      /\ mode = "serving" /\ held /\ ~session /\ closed /\ NoFrame
      /\ Holds(memory.destination)
  BY DEF Commit, IInv, TypeOK, RecordIsKnown, RecordIsValid, WorkFitsMode, LeaseIsExclusive,
         PointedToHolds, Executing, Budgets
<1>2. Target(memory) \in Configuration /\ Target(memory).root = memory.destination
      /\ Target(memory).settings = memory.base.settings
  BY <1>1, RecordFields
<1>3. UNCHANGED <<barrier, service, data, record, memory, unavailable, held, request,
                  stuck, acknowledged>>
  BY DEF Commit
<1>4. /\ work' = "begin restart" \/ work' = "reconcile"
      /\ budget' = budget \/ Fault
  BY DEF Commit
<1>5. budget' \in Budgets /\ budget'.updates = budget.updates
  BY <1>1, <1>4, FaultIsCounted
<1>6. /\ pointer' \in File(Configuration)
      /\ pointer'.seen = pointer.seen \/ pointer'.seen = Target(memory)
      /\ pointer'.kept = pointer.kept \/ pointer'.kept = Target(memory)
      /\ pointer'.seen # pointer.seen \/ pointer'.kept # pointer.kept =>
           pointer.seen = memory.base
  <2>1. CASE pointer' = Stored(Target(memory)) \/ pointer' = Unconfirmed(pointer, Target(memory))
    <3>1. pointer' \in File(Configuration) /\ pointer'.seen = Target(memory)
          /\ pointer'.kept \in {pointer.kept, Target(memory)}
      BY <1>1, <1>2, <2>1, ReplacedFile
    <3>2. pointer' # pointer => pointer.seen = memory.base
      BY DEF Commit
    <3> QED BY <3>1, <3>2
  <2>2. CASE pointer' = pointer
    BY <1>1, <2>2
  <2> QED BY <2>1, <2>2 DEF Commit
<1>7. pointer'.seen.settings <= budget.updates /\ pointer'.kept.settings <= budget.updates
  BY <1>2, <1>6 DEF IInv, SettingsAreCounted
<1>8. memory.owned /\ memory.digest # None
  BY <1>1 DEF IInv, RecordIsValid
<1> USE DEF IInv, TypeOK, BarrierTypeOK, WorkFitsMode, Executing, Reconciling, NoFrame,
            LeaseIsExclusive, RecordIsKnown, MoveIsFromHere, SameMove, RecordIsValid,
            PointedToHolds, Holds, PointerIsSettled, SettingsAreCounted, Budgets,
            barrier, service, files, coordinator
<1>11. TypeOK' /\ WorkFitsMode' BY <1>1, <1>2, <1>3, <1>4, <1>5, <1>6, <1>7, <1>8
<1>12. LeaseIsExclusive' /\ RecordIsKnown'
  BY <1>1, <1>2, <1>3, <1>4, <1>5, <1>6, <1>7, <1>8
<1>13. MoveIsFromHere' /\ RecordIsValid' BY <1>1, <1>2, <1>3, <1>4, <1>5, <1>6, <1>7, <1>8
<1>14. PointedToHolds' /\ PointerIsSettled' /\ SettingsAreCounted'
  BY <1>1, <1>2, <1>3, <1>4, <1>5, <1>6, <1>7, <1>8
<1> QED BY <1>11, <1>12, <1>13, <1>14 DEF IInv

\* A reconciliation reads the pointer and confirms one it knows.
LEMMA ObserveStep ==
  ASSUME IInv, Observe
  PROVE  IInv'
<1>1. /\ memory \in ValidRecord /\ memory = record.seen /\ ~Ended(memory)
      /\ pointer \in File(Configuration) /\ work = "observe" /\ held /\ closed /\ NoFrame
      /\ mode = "serving" => memory.base.root = root
  BY DEF Observe, IInv, TypeOK, RecordIsKnown, RecordIsValid, LeaseIsExclusive,
     MoveIsFromHere,
         Reconciling
<1>2. pointer' \in File(Configuration) /\ pointer'.seen = pointer.seen
  BY <1>1, FileFields DEF Observe
<1>4. \/ pointer'.kept = pointer.kept /\ work' = "undecided"
      \/ pointer'.kept = pointer.seen /\ pointer.seen = memory.base /\ work' = "fail"
      \/ pointer'.kept = pointer.seen /\ pointer.seen = Target(memory) /\ work' = "prove"
  BY <1>1, FileFields DEF Observe
<1>3. UNCHANGED <<barrier, service, data, record, memory, unavailable, held, request,
                 stuck, acknowledged, budget>>
  BY DEF Observe
<1> USE DEF IInv, TypeOK, BarrierTypeOK, WorkFitsMode, Executing, Reconciling, NoFrame,
            LeaseIsExclusive, RecordIsKnown, MoveIsFromHere, SameMove, RecordIsValid,
            PointedToHolds, Holds, PointerIsSettled, SettingsAreCounted, Budgets,
            barrier, service, files, coordinator
<1>11. TypeOK' /\ WorkFitsMode' BY <1>1, <1>2, <1>3, <1>4
<1>12. LeaseIsExclusive' /\ RecordIsKnown' BY <1>1, <1>2, <1>3, <1>4
<1>13. MoveIsFromHere' /\ RecordIsValid' BY <1>1, <1>2, <1>3, <1>4
<1>14. PointedToHolds' /\ PointerIsSettled' /\ SettingsAreCounted'
  BY <1>1, <1>2, <1>3, <1>4
<1> QED BY <1>11, <1>12, <1>13, <1>14 DEF IInv

\* A reconciliation proves the destination it found committed.
LEMMA ProveStep ==
  ASSUME IInv, Prove
  PROVE  IInv'
<1>1. /\ memory \in ValidRecord /\ memory = record.seen /\ ~Ended(memory) /\ work = "prove"
      /\ pointer.seen = Target(memory) /\ memory.owned \in BOOLEAN
      /\ mode = "serving" => memory.base.root = root
      /\ mode \in {"starting", "recovery", "serving"}
  BY DEF Prove, IInv, TypeOK, RecordIsKnown, RecordIsValid, MoveIsFromHere,
         PointerIsSettled, WorkFitsMode, Reconciling,
         ValidRecord, Record
<1>2. mode = "serving" => ~session
  BY <1>1, RecordFields DEF IInv, PointerIsSettled
<1>3. UNCHANGED <<barrier, service, data, files, memory, unavailable, held, request,
                 stuck, acknowledged, budget>>
  BY DEF Prove
<1>4. \/ work' = "undecided"
      \/ /\ memory.owned /\ memory.digest # None
         /\ \/ mode = "serving" /\ work' = "begin restart"
            \/ mode # "serving" /\ work' = "complete"
  BY DEF Prove
<1> USE DEF IInv, TypeOK, BarrierTypeOK, WorkFitsMode, Executing, Reconciling, NoFrame,
            LeaseIsExclusive, RecordIsKnown, MoveIsFromHere, SameMove, RecordIsValid,
            PointedToHolds, Holds, PointerIsSettled, SettingsAreCounted, Budgets,
            barrier, service, files, coordinator
<1>11. TypeOK' /\ WorkFitsMode' BY <1>1, <1>2, <1>3, <1>4
<1>12. LeaseIsExclusive' /\ RecordIsKnown' BY <1>1, <1>2, <1>3, <1>4
<1>13. MoveIsFromHere' /\ RecordIsValid' BY <1>1, <1>2, <1>3, <1>4
<1>14. PointedToHolds' /\ PointerIsSettled' /\ SettingsAreCounted'
  BY <1>1, <1>2, <1>3, <1>4
<1> QED BY <1>11, <1>12, <1>13, <1>14 DEF IInv

\* The migration has ended and the window opens.
LEMMA SettleStep ==
  ASSUME IInv, Settle
  PROVE  IInv'
<1>1. Ended(memory) /\ memory = record.seen
      /\ \A m \in {memory, record.seen} : m # None =>
           m.status \notin {"copying", "verifying", "committing", "restarting"}
  BY DEF Settle, IInv, RecordIsKnown, Ended, Terminal
<1> USE DEF IInv, TypeOK, BarrierTypeOK, WorkFitsMode, Executing, Reconciling, NoFrame,
            LeaseIsExclusive, RecordIsKnown, MoveIsFromHere, SameMove, RecordIsValid,
            PointedToHolds, Holds, PointerIsSettled, SettingsAreCounted, Budgets,
            barrier, service, files, coordinator,
            Settle
<1>11. TypeOK' /\ WorkFitsMode' BY <1>1
<1>12. LeaseIsExclusive' /\ RecordIsKnown' BY <1>1
<1>13. MoveIsFromHere' /\ RecordIsValid' BY <1>1
<1>14. PointedToHolds' /\ PointerIsSettled' /\ SettingsAreCounted' BY <1>1
<1> QED BY <1>11, <1>12, <1>13, <1>14 DEF IInv

\* After a write of the record failed the coordinator gives up.
LEMMA AbortStep ==
  ASSUME IInv, Abort
  PROVE  IInv'
<1>1. /\ memory \in ValidRecord /\ work = "abort" /\ record.seen \in ValidRecord
      /\ SameMove(record.seen, memory)
      /\ mode = "serving" => memory.base.root = root
  BY FileFields DEF Abort, IInv, TypeOK, RecordIsValid, MoveIsFromHere
<1>2. "recovery-required" \in Status
  BY DEF Status
<1>3. With("recovery-required") \in ValidRecord
  BY <1>1, <1>2, WithStatus
<1>4. With("recovery-required").status = "recovery-required"
  BY <1>1, <1>2, WithStatus
<1>5. SameMove(record.seen, With("recovery-required"))
  BY <1>1, <1>2, WithStatus DEF SameMove
<1>6. /\ record.seen # None /\ With("recovery-required") # None
      /\ With("recovery-required") \in Record
  BY <1>1, <1>3, RecordFields
<1>7. mode = "serving" => With("recovery-required").base.root = root
  BY <1>1, <1>2, WithStatus
<1> USE DEF IInv, TypeOK, BarrierTypeOK, WorkFitsMode, Executing, Reconciling, NoFrame,
            LeaseIsExclusive, RecordIsKnown, MoveIsFromHere, SameMove, RecordIsValid,
            PointedToHolds, Holds, PointerIsSettled, SettingsAreCounted, Budgets,
            barrier, service, files, coordinator,
            Abort
<1>11. TypeOK' BY <1>1, <1>3, <1>4, <1>5, <1>6, <1>7
<1>12. WorkFitsMode' BY <1>1, <1>3, <1>4, <1>5, <1>6, <1>7
<1>13. LeaseIsExclusive' BY <1>1, <1>3, <1>4, <1>5, <1>6, <1>7
<1>14. RecordIsKnown' BY <1>1, <1>3, <1>4, <1>5, <1>6, <1>7
<1>15. MoveIsFromHere' BY <1>1, <1>3, <1>4, <1>5, <1>6, <1>7
<1>16. RecordIsValid' BY <1>1, <1>3, <1>4, <1>5, <1>6, <1>7
<1>17. PointedToHolds' /\ PointerIsSettled' /\ SettingsAreCounted'
  BY <1>1, <1>3, <1>4, <1>5, <1>6, <1>7
<1> QED BY <1>11, <1>12, <1>13, <1>14, <1>15, <1>16, <1>17 DEF IInv

\* A reconciliation that decided nothing leaves, or waits in recovery.
LEMMA RestStep ==
  ASSUME IInv, Rest
  PROVE  IInv'
<1> USE DEF IInv, TypeOK, BarrierTypeOK, WorkFitsMode, Executing, Reconciling, NoFrame,
            LeaseIsExclusive, RecordIsKnown, MoveIsFromHere, SameMove, RecordIsValid,
            PointedToHolds, Holds, PointerIsSettled, SettingsAreCounted, Budgets,
            barrier, service, files, coordinator,
            Rest
<1>11. TypeOK' /\ WorkFitsMode' OBVIOUS
<1>12. LeaseIsExclusive' /\ RecordIsKnown' OBVIOUS
<1>13. MoveIsFromHere' /\ RecordIsValid' OBVIOUS
<1>14. PointedToHolds' /\ PointerIsSettled' /\ SettingsAreCounted' OBVIOUS
<1> QED BY <1>11, <1>12, <1>13, <1>14 DEF IInv

\* A reconciliation that was asked for has drained the barrier.
LEMMA ResumeStep ==
  ASSUME IInv, Resume
  PROVE  IInv'
<1> USE DEF IInv, TypeOK, BarrierTypeOK, WorkFitsMode, Executing, Reconciling, NoFrame,
            LeaseIsExclusive, RecordIsKnown, MoveIsFromHere, SameMove, RecordIsValid,
            PointedToHolds, Holds, PointerIsSettled, SettingsAreCounted, Budgets,
            barrier, service, files, coordinator,
            Resume, Drained
<1>11. TypeOK' /\ WorkFitsMode' OBVIOUS
<1>12. LeaseIsExclusive' /\ RecordIsKnown' OBVIOUS
<1>13. MoveIsFromHere' /\ RecordIsValid' OBVIOUS
<1>14. PointedToHolds' /\ PointerIsSettled' /\ SettingsAreCounted' OBVIOUS
<1> QED BY <1>11, <1>12, <1>13, <1>14 DEF IInv

\* The owner asks for a reconciliation, of the record that is on the disk.
LEMMA AskStep ==
  ASSUME IInv, Ask
  PROVE  IInv'
<1>1. /\ mode = "serving" /\ work = "idle" /\ record \in File(ValidRecord \cup {None})
      /\ memory = None \/ memory \in ValidRecord
      /\ record.seen = None \/ record.seen \in ValidRecord
      /\ ~unavailable => memory = record.seen
  BY FileFields DEF Ask, Idle, IInv, TypeOK, RecordIsKnown, RecordIsValid
<1>2. record' \in File(ValidRecord \cup {None}) /\ record'.seen = record.seen
  BY <1>1, FileFields DEF Ask
<1>3. memory' = record.seen /\ unavailable' = FALSE
  BY <1>1 DEF Ask
<1>4. /\ UNCHANGED <<frames, service, data, pointer, held, request, stuck, acknowledged, budget>>
      /\ \/ UNCHANGED <<closed, work>>
         \/ /\ record.seen # None /\ record.seen.base.root = root
            /\ closed' = TRUE
            /\ (work' = "reconcile" /\ held) \/ (work' = "await" /\ ~held)
  <2>1. CASE UNCHANGED <<closed, work>>
    BY <2>1 DEF Ask
  <2>2. CASE ~UNCHANGED <<closed, work>>
    <3> DEFINE known == IF memory = None THEN record.seen ELSE memory
    <3>1. ~Ended(known) /\ known # None /\ record.seen # None
      BY <1>1, <2>2 DEF Ask
    <3>2. memory # None => SameMove(record.seen, memory) /\ memory.base.root = root
      BY <1>1, <3>1 DEF IInv, MoveIsFromHere
    <3>3. memory = None => record.seen.base.root = root
      BY <1>1, <3>1 DEF IInv, MoveIsFromHere
    <3> QED BY <2>2, <3>1, <3>2, <3>3 DEF Ask, SameMove
  <2> QED BY <2>1, <2>2
<1>5. ~Ended(record.seen) => record.seen # None /\ record.seen.base.root = root
  BY <1>1 DEF Ended, IInv, MoveIsFromHere
<1> USE DEF IInv, TypeOK, BarrierTypeOK, WorkFitsMode, Executing, Reconciling, NoFrame,
            LeaseIsExclusive, RecordIsKnown, MoveIsFromHere, SameMove, RecordIsValid,
            PointedToHolds, Holds, PointerIsSettled, SettingsAreCounted, Budgets,
            barrier, service, files, coordinator
<1>11. TypeOK' /\ WorkFitsMode' BY <1>1, <1>2, <1>3, <1>4, RecordFields
<1>12. LeaseIsExclusive' BY <1>1, <1>2, <1>3, <1>4, RecordFields
<1>13. RecordIsKnown'
  <2>1. CASE UNCHANGED <<closed, work>>
    BY <1>1, <1>2, <1>3, <2>1
  <2>2. CASE work' = "reconcile" \/ work' = "await"
    <3>1. record.seen # None
      BY <1>1, <1>4, <2>2
    <3> QED BY <1>1, <1>2, <1>3, <2>2, <3>1
  <2> QED BY <1>4, <2>1, <2>2
<1>14. RecordIsValid' BY <1>1, <1>2, <1>3, <1>4, RecordFields
<1>15. MoveIsFromHere' BY <1>1, <1>2, <1>3, <1>4, <1>5
<1>16. PointedToHolds' /\ PointerIsSettled' /\ SettingsAreCounted'
  BY <1>1, <1>2, <1>3, <1>4, RecordFields
<1> QED BY <1>11, <1>12, <1>13, <1>14, <1>15, <1>16 DEF IInv

\* The start of the server reads the record and confirms it.
LEMMA LoadStep ==
  ASSUME IInv, Load
  PROVE  IInv'
<1>1. /\ mode \in {"starting", "recovery"} /\ work = "load" /\ NoFrame /\ ~session
      /\ record \in File(ValidRecord \cup {None})
      /\ record.seen = None \/ record.seen \in ValidRecord
  BY FileFields DEF Load, IInv, TypeOK, WorkFitsMode
<1>2. record' \in File(ValidRecord \cup {None}) /\ record'.seen = record.seen
  BY <1>1, FileFields DEF Load
<1>3. /\ memory' = record.seen /\ unavailable' = FALSE
      /\ UNCHANGED <<frames, service, data, pointer, request, stuck, acknowledged, budget>>
      /\ \/ Ended(record.seen) /\ work' = "settle" /\ UNCHANGED <<held, closed>>
         \/ ~Ended(record.seen) /\ work' = "reconcile" /\ held' = TRUE /\ closed' = TRUE
  BY DEF Load
<1>4. ~Ended(record.seen) => record.seen # None
  BY DEF Ended
<1> USE DEF IInv, TypeOK, BarrierTypeOK, WorkFitsMode, Executing, Reconciling, NoFrame,
            LeaseIsExclusive, RecordIsKnown, MoveIsFromHere, SameMove, RecordIsValid,
            PointedToHolds, Holds, PointerIsSettled, SettingsAreCounted, Budgets,
            barrier, service, files, coordinator
<1>11. TypeOK' /\ WorkFitsMode' BY <1>1, <1>2, <1>3, <1>4, RecordFields
<1>12. RecordIsKnown' BY <1>1, <1>2, <1>3, <1>4, RecordFields
<1>13. LeaseIsExclusive'
  <2>1. CASE Ended(record.seen)
    BY <1>1, <1>3, <2>1
  <2>2. CASE ~Ended(record.seen)
    BY <1>1, <1>3, <2>2
  <2> QED BY <2>1, <2>2
<1>14. MoveIsFromHere' /\ RecordIsValid' BY <1>1, <1>2, <1>3, <1>4, RecordFields
<1>15. PointedToHolds' /\ PointerIsSettled' /\ SettingsAreCounted'
  BY <1>1, <1>2, <1>3, <1>4, RecordFields
<1> QED BY <1>11, <1>12, <1>13, <1>14, <1>15 DEF IInv

\* The start of the server cannot read the record.
LEMMA LoadFailsStep ==
  ASSUME IInv, LoadFails
  PROVE  IInv'
<1>1. /\ work = "load" /\ work' = "idle" /\ mode \in {"starting", "recovery"}
      /\ mode' \in {"recovery", "down"}
      /\ UNCHANGED <<barrier, root, session, data, files, memory, unavailable, held,
                     request, stuck, acknowledged>>
  BY DEF LoadFails, IInv, WorkFitsMode
<1>2. budget' \in Budgets /\ budget'.updates = budget.updates
  BY FaultIsCounted DEF LoadFails, IInv, TypeOK, Budgets
<1> USE DEF IInv, TypeOK, BarrierTypeOK, WorkFitsMode, Executing, Reconciling, NoFrame,
            LeaseIsExclusive, RecordIsKnown, MoveIsFromHere, SameMove, RecordIsValid,
            PointedToHolds, Holds, PointerIsSettled, SettingsAreCounted, Budgets,
            barrier, service, files, coordinator
<1>11. TypeOK' /\ WorkFitsMode' BY <1>1, <1>2
<1>12. LeaseIsExclusive' /\ RecordIsKnown' BY <1>1, <1>2
<1>13. MoveIsFromHere' /\ RecordIsValid' BY <1>1, <1>2
<1>14. PointedToHolds' /\ PointerIsSettled' /\ SettingsAreCounted' BY <1>1, <1>2
<1> QED BY <1>11, <1>12, <1>13, <1>14 DEF IInv

\* The server serves the directory the pointer names.
LEMMA ServeStep ==
  ASSUME IInv, Serve
  PROVE  IInv'
<1>1. /\ mode = "starting" /\ work = "serve" /\ NoFrame /\ ~session
      /\ memory = record.seen /\ Ended(memory) /\ ~unavailable
      /\ pointer.seen.root = pointer.kept.root
      /\ pointer.seen.root \in Root /\ Holds(pointer.seen.root)
  BY FileFields, ConfigurationFields
     DEF Serve, IInv, TypeOK, WorkFitsMode, RecordIsKnown, PointerIsSettled, PointedToHolds
<1>2. memory # None =>
        memory.status \notin {"copying", "verifying", "committing", "restarting"}
  BY <1>1 DEF Ended, Terminal
<1>3. pointer.seen.root # None
  BY <1>1, NoneAssumption
<1> USE DEF IInv, TypeOK, BarrierTypeOK, WorkFitsMode, Executing, Reconciling, NoFrame,
            LeaseIsExclusive, RecordIsKnown, MoveIsFromHere, SameMove, RecordIsValid,
            PointedToHolds, Holds, PointerIsSettled, SettingsAreCounted, Budgets,
            barrier, service, files, coordinator,
            Serve
<1>11. TypeOK' /\ WorkFitsMode' BY <1>1, <1>2, <1>3
<1>12. LeaseIsExclusive' /\ RecordIsKnown' BY <1>1, <1>2, <1>3
<1>13. MoveIsFromHere' /\ RecordIsValid' BY <1>1, <1>2, <1>3
<1>14. PointedToHolds' /\ PointerIsSettled' /\ SettingsAreCounted' BY <1>1, <1>2, <1>3
<1> QED BY <1>11, <1>12, <1>13, <1>14 DEF IInv

\* The supervisor starts the process.
LEMMA BootStep ==
  ASSUME IInv, Boot
  PROVE  IInv'
<1> USE DEF IInv, TypeOK, BarrierTypeOK, WorkFitsMode, Executing, Reconciling, NoFrame,
            LeaseIsExclusive, RecordIsKnown, MoveIsFromHere, SameMove, RecordIsValid,
            PointedToHolds, Holds, PointerIsSettled, SettingsAreCounted, Budgets,
            barrier, service, files, coordinator,
            Boot
<1>11. TypeOK' /\ WorkFitsMode' OBVIOUS
<1>12. LeaseIsExclusive' /\ RecordIsKnown' OBVIOUS
<1>13. MoveIsFromHere' /\ RecordIsValid' OBVIOUS
<1>14. PointedToHolds' /\ PointerIsSettled' /\ SettingsAreCounted' OBVIOUS
<1> QED BY <1>11, <1>12, <1>13, <1>14 DEF IInv

\* A recovery server tries again.
LEMMA RetryStep ==
  ASSUME IInv, Retry
  PROVE  IInv'
<1> USE DEF IInv, TypeOK, BarrierTypeOK, WorkFitsMode, Executing, Reconciling, NoFrame,
            LeaseIsExclusive, RecordIsKnown, MoveIsFromHere, SameMove, RecordIsValid,
            PointedToHolds, Holds, PointerIsSettled, SettingsAreCounted, Budgets,
            barrier, service, files, coordinator,
            Retry
<1>11. TypeOK' /\ WorkFitsMode' OBVIOUS
<1>12. LeaseIsExclusive' /\ RecordIsKnown' OBVIOUS
<1>13. MoveIsFromHere' /\ RecordIsValid' OBVIOUS
<1>14. PointedToHolds' /\ PointerIsSettled' /\ SettingsAreCounted' OBVIOUS
<1> QED BY <1>11, <1>12, <1>13, <1>14 DEF IInv

\* An orderly shutdown fails and the process goes on.
LEMMA ShutdownFailsStep ==
  ASSUME IInv, work' = IF work = "restart" THEN "note" ELSE "idle",
         work \in {"restart", "leave"}, stuck' = TRUE, budget' = budget \/ Fault,
         UNCHANGED <<barrier, service, data, files, memory, unavailable, held,
                     request, acknowledged>>
  PROVE  IInv'
<1>1. budget' \in Budgets /\ budget'.updates = budget.updates
  BY FaultIsCounted DEF IInv, TypeOK, Budgets
<1> USE DEF IInv, TypeOK, BarrierTypeOK, WorkFitsMode, Executing, Reconciling, NoFrame,
            LeaseIsExclusive, RecordIsKnown, MoveIsFromHere, SameMove, RecordIsValid,
            PointedToHolds, Holds, PointerIsSettled, SettingsAreCounted, Budgets,
            barrier, service, files, coordinator
<1>11. TypeOK' /\ WorkFitsMode' BY <1>1
<1>12. LeaseIsExclusive' /\ RecordIsKnown' BY <1>1
<1>13. MoveIsFromHere' /\ RecordIsValid' BY <1>1
<1>14. PointedToHolds' /\ PointerIsSettled' /\ SettingsAreCounted' BY <1>1
<1> QED BY <1>11, <1>12, <1>13, <1>14 DEF IInv

\* The process ends with its control files as they are or as a power loss
\* leaves them.
LEMMA DownStep ==
  ASSUME IInv, NEW p \in File(Configuration), NEW r \in File(ValidRecord \cup {None}), Down(p, r),
         p.seen \in {pointer.seen, pointer.kept}, p.kept \in {pointer.seen, pointer.kept},
         Ended(r.seen) => p.seen.root = p.kept.root,
         budget' \in Budgets, budget'.updates = budget.updates
  PROVE  IInv'
<1>1. /\ pointer' \in File(Configuration) /\ pointer'.seen = p.seen /\ pointer'.kept = p.kept
      /\ record' \in File(ValidRecord \cup {None}) /\ record'.seen = r.seen
  BY DEF Down, File
<1>2. /\ mode' = "down" /\ root' = None /\ session' = FALSE
      /\ frames' = NoFrames /\ closed' = FALSE
      /\ memory' = None /\ unavailable' = FALSE /\ held' = FALSE
      /\ work' = "idle" /\ request' = None /\ stuck' = FALSE
      /\ UNCHANGED <<data, acknowledged>>
  BY DEF Down
<1> USE DEF IInv, TypeOK, BarrierTypeOK, WorkFitsMode, Executing, Reconciling, NoFrame,
            LeaseIsExclusive, RecordIsKnown, MoveIsFromHere, SameMove, RecordIsValid,
            PointedToHolds, Holds, PointerIsSettled, SettingsAreCounted, Budgets,
            barrier, service, files, coordinator,
            NoFrames
<1>11. TypeOK' /\ WorkFitsMode' BY <1>1, <1>2
<1>12. LeaseIsExclusive' /\ RecordIsKnown' BY <1>1, <1>2
<1>13. MoveIsFromHere' /\ RecordIsValid' BY <1>1, <1>2
<1>14. PointedToHolds' /\ PointerIsSettled' /\ SettingsAreCounted' BY <1>1, <1>2
<1> QED BY <1>11, <1>12, <1>13, <1>14 DEF IInv

\* Nothing changes.
LEMMA StutterStep ==
  ASSUME IInv, UNCHANGED vars
  PROVE  IInv'
<1> USE DEF IInv, TypeOK, BarrierTypeOK, WorkFitsMode, Executing, Reconciling, NoFrame,
            LeaseIsExclusive, RecordIsKnown, MoveIsFromHere, SameMove, RecordIsValid,
            PointedToHolds, Holds, PointerIsSettled, SettingsAreCounted, Budgets,
            barrier, service, files, coordinator,
            vars
<1>11. TypeOK' OBVIOUS
<1>12. WorkFitsMode' OBVIOUS
<1>13. LeaseIsExclusive' OBVIOUS
<1>14. RecordIsKnown' OBVIOUS
<1>15. MoveIsFromHere' OBVIOUS
<1>16. RecordIsValid' OBVIOUS
<1>17. PointedToHolds' /\ PointerIsSettled' /\ SettingsAreCounted' OBVIOUS
<1> QED BY <1>11, <1>12, <1>13, <1>14, <1>15, <1>16, <1>17 DEF IInv

\* The record says that the copy begins.
LEMMA BeginCopyStep ==
  ASSUME IInv, Mark("begin copy", With("copying"), "allocate")
  PROVE  IInv'
<1>1. /\ memory \in ValidRecord /\ work = "begin copy"
      /\ mode = "serving" /\ ~session
  BY DEF Mark, IInv, RecordIsKnown, RecordIsValid, WorkFitsMode, LeaseIsExclusive,
     MoveIsFromHere,
         PointerIsSettled, PointedToHolds, Executing, Reconciling
<1>2. "copying" \in Status
  BY DEF Status, Terminal
<1>3. /\ With("copying") \in ValidRecord /\ SameMove(With("copying"), memory)
      /\ With("copying").status = "copying" /\ ~Ended(With("copying"))
      /\ With("copying").owned = memory.owned /\ With("copying").digest = memory.digest
  BY <1>1, <1>2, WithStatus DEF SameMove, Terminal
<1>8. CASE /\ record' = Stored(With("copying"))
           /\ memory' = With("copying")
           /\ work' = "allocate" /\ UNCHANGED <<unavailable, budget>>
  BY <1>1, <1>2, <1>3, <1>8, PersistedStep DEF Mark, Executing, Reconciling
<1>9. CASE /\ \/ record' = record
              \/ record' = Unconfirmed(record, With("copying"))
           /\ unavailable' = TRUE /\ work' = "abort" /\ Fault /\ UNCHANGED memory
  BY <1>1, <1>2, <1>3, <1>9, PersistFailsStep DEF Mark, Executing, Reconciling
<1> QED
  BY <1>8, <1>9 DEF Mark, Persist

\* The record says that the verification begins.
LEMMA BeginVerifyStep ==
  ASSUME IInv, Mark("begin verify", With("verifying"), "verify")
  PROVE  IInv'
<1>1. /\ memory \in ValidRecord /\ work = "begin verify"
      /\ mode = "serving" /\ ~session /\ memory.owned
  BY DEF Mark, IInv, RecordIsKnown, RecordIsValid, WorkFitsMode, LeaseIsExclusive,
     MoveIsFromHere,
         PointerIsSettled, PointedToHolds, Executing, Reconciling
<1>2. "verifying" \in Status
  BY DEF Status, Terminal
<1>3. /\ With("verifying") \in ValidRecord /\ SameMove(With("verifying"), memory)
      /\ With("verifying").status = "verifying" /\ ~Ended(With("verifying"))
      /\ With("verifying").owned = memory.owned /\ With("verifying").digest = memory.digest
  BY <1>1, <1>2, WithStatus DEF SameMove, Terminal
<1>8. CASE /\ record' = Stored(With("verifying"))
           /\ memory' = With("verifying")
           /\ work' = "verify" /\ UNCHANGED <<unavailable, budget>>
  BY <1>1, <1>2, <1>3, <1>8, PersistedStep DEF Mark, Executing, Reconciling
<1>9. CASE /\ \/ record' = record
              \/ record' = Unconfirmed(record, With("verifying"))
           /\ unavailable' = TRUE /\ work' = "abort" /\ Fault /\ UNCHANGED memory
  BY <1>1, <1>2, <1>3, <1>9, PersistFailsStep DEF Mark, Executing, Reconciling
<1> QED
  BY <1>8, <1>9 DEF Mark, Persist

\* The record says that the restart begins.
LEMMA BeginRestartStep ==
  ASSUME IInv, Mark("begin restart", With("restarting"), "restart")
  PROVE  IInv'
<1>1. /\ memory \in ValidRecord /\ work = "begin restart"
      /\ mode = "serving" /\ ~session /\ memory.owned /\ memory.digest # None
  BY DEF Mark, IInv, RecordIsKnown, RecordIsValid, WorkFitsMode, LeaseIsExclusive,
     MoveIsFromHere,
         PointerIsSettled, PointedToHolds, Executing, Reconciling
<1>2. "restarting" \in Status
  BY DEF Status, Terminal
<1>3. /\ With("restarting") \in ValidRecord /\ SameMove(With("restarting"), memory)
      /\ With("restarting").status = "restarting" /\ ~Ended(With("restarting"))
      /\ With("restarting").owned = memory.owned
      /\ With("restarting").digest = memory.digest
  BY <1>1, <1>2, WithStatus DEF SameMove, Terminal
<1>8. CASE /\ record' = Stored(With("restarting"))
           /\ memory' = With("restarting")
           /\ work' = "restart" /\ UNCHANGED <<unavailable, budget>>
  BY <1>1, <1>2, <1>3, <1>8, PersistedStep DEF Mark, Executing, Reconciling
<1>9. CASE /\ \/ record' = record
              \/ record' = Unconfirmed(record, With("restarting"))
           /\ unavailable' = TRUE /\ work' = "abort" /\ Fault /\ UNCHANGED memory
  BY <1>1, <1>2, <1>3, <1>9, PersistFailsStep DEF Mark, Executing, Reconciling
<1> QED
  BY <1>8, <1>9 DEF Mark, Persist

\* The record says that a reconciliation begins.
LEMMA ReconcileStep ==
  ASSUME IInv, Mark("reconcile", With("reconciling"), "observe")
  PROVE  IInv'
<1>1. /\ memory \in ValidRecord /\ work = "reconcile"
      /\ TRUE
  BY DEF Mark, IInv, RecordIsKnown, RecordIsValid, WorkFitsMode, LeaseIsExclusive,
     MoveIsFromHere,
         PointerIsSettled, PointedToHolds, Executing, Reconciling
<1>2. "reconciling" \in Status
  BY DEF Status, Terminal
<1>3. /\ With("reconciling") \in ValidRecord /\ SameMove(With("reconciling"), memory)
      /\ With("reconciling").status = "reconciling" /\ ~Ended(With("reconciling"))
      /\ With("reconciling").owned = memory.owned
      /\ With("reconciling").digest = memory.digest
  BY <1>1, <1>2, WithStatus DEF SameMove, Terminal
<1>8. CASE /\ record' = Stored(With("reconciling"))
           /\ memory' = With("reconciling")
           /\ work' = "observe" /\ UNCHANGED <<unavailable, budget>>
  BY <1>1, <1>2, <1>3, <1>8, PersistedStep DEF Mark, Executing, Reconciling
<1>9. CASE /\ \/ record' = record
              \/ record' = Unconfirmed(record, With("reconciling"))
           /\ unavailable' = TRUE /\ work' = "abort" /\ Fault /\ UNCHANGED memory
  BY <1>1, <1>2, <1>3, <1>9, PersistFailsStep DEF Mark, Executing, Reconciling
<1> QED
  BY <1>8, <1>9 DEF Mark, Persist

\* The record says that an operator must decide.
LEMMA UndecidedStep ==
  ASSUME IInv, Mark("undecided", With("recovery-required"), "rest")
  PROVE  IInv'
<1>1. /\ memory \in ValidRecord /\ work = "undecided"
      /\ TRUE
  BY DEF Mark, IInv, RecordIsKnown, RecordIsValid, WorkFitsMode, LeaseIsExclusive,
     MoveIsFromHere,
         PointerIsSettled, PointedToHolds, Executing, Reconciling
<1>2. "recovery-required" \in Status
  BY DEF Status, Terminal
<1>3. /\ With("recovery-required") \in ValidRecord /\ SameMove(With("recovery-required"), memory)
      /\ With("recovery-required").status = "recovery-required"
      /\ ~Ended(With("recovery-required"))
      /\ With("recovery-required").owned = memory.owned
      /\ With("recovery-required").digest = memory.digest
  BY <1>1, <1>2, WithStatus DEF SameMove, Terminal
<1>8. CASE /\ record' = Stored(With("recovery-required"))
           /\ memory' = With("recovery-required")
           /\ work' = "rest" /\ UNCHANGED <<unavailable, budget>>
  BY <1>1, <1>2, <1>3, <1>8, PersistedStep DEF Mark, Executing, Reconciling
<1>9. CASE /\ \/ record' = record
              \/ record' = Unconfirmed(record, With("recovery-required"))
           /\ unavailable' = TRUE /\ work' = "abort" /\ Fault /\ UNCHANGED memory
  BY <1>1, <1>2, <1>3, <1>9, PersistFailsStep DEF Mark, Executing, Reconciling
<1> QED
  BY <1>8, <1>9 DEF Mark, Persist

\* The record says that the migration failed: the pointer is at its source.
LEMMA FailStep ==
  ASSUME IInv, Mark("fail", With("failed"), "settle")
  PROVE  IInv'
<1>1. /\ memory \in ValidRecord /\ work = "fail"
      /\ pointer.kept = pointer.seen /\ (mode = "serving" => pointer.seen.root = root)
  BY DEF Mark, IInv, RecordIsKnown, RecordIsValid, WorkFitsMode, LeaseIsExclusive,
     MoveIsFromHere,
         PointerIsSettled, PointedToHolds, Executing, Reconciling
<1>2. "failed" \in Status
  BY DEF Status, Terminal
<1>3. /\ With("failed") \in ValidRecord /\ SameMove(With("failed"), memory)
      /\ With("failed").status = "failed" /\ Ended(With("failed"))
      /\ With("failed").owned = memory.owned /\ With("failed").digest = memory.digest
  BY <1>1, <1>2, WithStatus DEF SameMove, Terminal
<1>8. CASE /\ record' = Stored(With("failed"))
           /\ memory' = With("failed")
           /\ work' = "settle" /\ UNCHANGED <<unavailable, budget>>
  BY <1>1, <1>2, <1>3, <1>8, PersistedStep DEF Mark, Executing, Reconciling
<1>9. CASE /\ \/ record' = record
              \/ record' = Unconfirmed(record, With("failed"))
           /\ unavailable' = TRUE /\ work' = "abort" /\ Fault /\ UNCHANGED memory
  BY <1>1, <1>2, <1>3, <1>9, PersistFailsStep DEF Mark, Executing, Reconciling
<1> QED
  BY <1>8, <1>9 DEF Mark, Persist

\* The record says that the migration is complete: the pointer is at its
\* destination.
LEMMA CompleteStep ==
  ASSUME IInv, Mark("complete", With("completed"), "settle")
  PROVE  IInv'
<1>1. /\ memory \in ValidRecord /\ work = "complete"
      /\ pointer.kept = pointer.seen /\ mode # "serving" /\ memory.owned
      /\ memory.digest # None
  BY DEF Mark, IInv, RecordIsKnown, RecordIsValid, WorkFitsMode, LeaseIsExclusive,
     MoveIsFromHere,
         PointerIsSettled, PointedToHolds, Executing, Reconciling
<1>2. "completed" \in Status
  BY DEF Status, Terminal
<1>3. /\ With("completed") \in ValidRecord /\ SameMove(With("completed"), memory)
      /\ With("completed").status = "completed" /\ Ended(With("completed"))
      /\ With("completed").owned = memory.owned /\ With("completed").digest = memory.digest
  BY <1>1, <1>2, WithStatus DEF SameMove, Terminal
<1>8. CASE /\ record' = Stored(With("completed"))
           /\ memory' = With("completed")
           /\ work' = "settle" /\ UNCHANGED <<unavailable, budget>>
  BY <1>1, <1>2, <1>3, <1>8, PersistedStep DEF Mark, Executing, Reconciling
<1>9. CASE /\ \/ record' = record
              \/ record' = Unconfirmed(record, With("completed"))
           /\ unavailable' = TRUE /\ work' = "abort" /\ Fault /\ UNCHANGED memory
  BY <1>1, <1>2, <1>3, <1>9, PersistFailsStep DEF Mark, Executing, Reconciling
<1> QED
  BY <1>8, <1>9 DEF Mark, Persist

\* The record says that the destination is owned.
LEMMA OwnStep ==
  ASSUME IInv, Mark("own", [memory EXCEPT !.owned = TRUE], "copy")
  PROVE  IInv'
<1>1. /\ memory \in ValidRecord /\ work = "own"
      /\ mode = "serving" /\ ~session /\ ~Ended(memory)
  BY DEF Mark, IInv, RecordIsKnown, RecordIsValid, WorkFitsMode, LeaseIsExclusive, Executing
<1>2. /\ [memory EXCEPT !.owned = TRUE] \in ValidRecord
      /\ SameMove([memory EXCEPT !.owned = TRUE], memory)
      /\ [memory EXCEPT !.owned = TRUE].owned
      /\ [memory EXCEPT !.owned = TRUE].status = memory.status
  BY <1>1 DEF SameMove, ValidRecord, Valid, Record
<1>3. ~Ended([memory EXCEPT !.owned = TRUE])
  BY <1>1, <1>2, RecordFields DEF Ended
<1>8. CASE /\ record' = Stored([memory EXCEPT !.owned = TRUE])
           /\ memory' = [memory EXCEPT !.owned = TRUE]
           /\ work' = "copy" /\ UNCHANGED <<unavailable, budget>>
  BY <1>1, <1>2, <1>3, <1>8, PersistedStep DEF Mark, Executing, Reconciling
<1>9. CASE /\ \/ record' = record
              \/ record' = Unconfirmed(record, [memory EXCEPT !.owned = TRUE])
           /\ unavailable' = TRUE /\ work' = "abort" /\ Fault /\ UNCHANGED memory
  BY <1>1, <1>2, <1>3, <1>9, PersistFailsStep DEF Mark, Executing, Reconciling
<1> QED
  BY <1>8, <1>9 DEF Mark, Persist

\* The record says that the commit begins, with the digest of the destination.
LEMMA BeginCommitStep ==
  ASSUME IInv, Mark("begin commit", Committing, "commit")
  PROVE  IInv'
<1>1. /\ memory \in ValidRecord /\ work = "begin commit" /\ memory.owned
      /\ mode = "serving" /\ ~session /\ Holds(memory.destination)
  BY DEF Mark, IInv, RecordIsKnown, RecordIsValid, WorkFitsMode, LeaseIsExclusive,
         PointedToHolds, Executing
<1>2. data[memory.destination] \in SUBSET Write /\ data[memory.destination] # None
  BY <1>1, NoneAssumption DEF Holds, Write
<1>3. /\ Committing \in ValidRecord /\ SameMove(Committing, memory)
      /\ Committing.owned /\ Committing.digest # None /\ ~Ended(Committing)
      /\ Committing.destination = memory.destination
  <2>1. Committing = [status |-> "committing", base |-> memory.base,
                      destination |-> memory.destination, owned |-> memory.owned,
                      digest |-> data[memory.destination]]
    <3>1. With("committing") = [memory EXCEPT !.status = "committing"]
      BY DEF With
    <3>2. memory = [status |-> memory.status, base |-> memory.base,
                    destination |-> memory.destination, owned |-> memory.owned,
                    digest |-> memory.digest]
      BY <1>1 DEF ValidRecord, Record
    <3>3. With("committing") = [status |-> "committing", base |-> memory.base,
                                destination |-> memory.destination, owned |-> memory.owned,
                                digest |-> memory.digest]
      BY <3>1, <3>2
    <3> DEFINE w == With("committing")
               d == data[memory.destination]
    <3>4. Committing = [w EXCEPT !.digest = d]
      BY DEF Committing
    <3>5. w = [status |-> "committing", base |-> memory.base, destination |-> memory.destination,
               owned |-> memory.owned, digest |-> memory.digest]
      BY <3>3
    <3> HIDE DEF w, d
    <3>6. Committing = [status |-> "committing", base |-> memory.base,
                        destination |-> memory.destination, owned |-> memory.owned,
                        digest |-> d]
      BY <3>4, <3>5
    <3> QED BY <3>6 DEF d
  <2>2. Committing \in ValidRecord
    BY <1>1, <1>2, <2>1 DEF ValidRecord, Valid, Record, Status
  <2> QED BY <1>1, <1>2, <2>1, <2>2, RecordFields DEF SameMove, Ended, Terminal
<1>8. CASE /\ record' = Stored(Committing)
           /\ memory' = Committing
           /\ work' = "commit" /\ UNCHANGED <<unavailable, budget>>
  BY <1>1, <1>2, <1>3, <1>8, PersistedStep DEF Mark, Executing, Reconciling
<1>9. CASE /\ \/ record' = record
              \/ record' = Unconfirmed(record, Committing)
           /\ unavailable' = TRUE /\ work' = "abort" /\ Fault /\ UNCHANGED memory
  BY <1>1, <1>2, <1>3, <1>9, PersistFailsStep DEF Mark, Executing, Reconciling
<1> QED
  BY <1>8, <1>9 DEF Mark, Persist

\* A shutdown after the commit failed, and the record says so.
LEMMA NoteStep ==
  ASSUME IInv, Mark("note", memory, "idle")
  PROVE  IInv'
<1>1. memory \in ValidRecord /\ work = "note" /\ ~session
  BY DEF Mark, IInv, RecordIsKnown, RecordIsValid, LeaseIsExclusive, Executing
<1>2. ~Ended(memory)
  BY <1>1 DEF IInv, RecordIsKnown, Executing
<1>3. SameMove(memory, memory)
  BY DEF SameMove
<1>8. CASE /\ record' = Stored(memory)
           /\ memory' = memory
           /\ work' = "idle" /\ UNCHANGED <<unavailable, budget>>
  BY <1>1, <1>2, <1>3, <1>8, PersistedStep DEF Mark, Executing, Reconciling
<1>9. CASE /\ \/ record' = record
              \/ record' = Unconfirmed(record, memory)
           /\ unavailable' = TRUE /\ work' = "abort" /\ Fault /\ UNCHANGED memory
  BY <1>1, <1>2, <1>3, <1>9, PersistFailsStep DEF Mark, Executing, Reconciling
<1> QED
  BY <1>8, <1>9 DEF Mark, Persist

\* The process restarts in an orderly way, or fails to.
LEMMA ShutdownStep ==
  ASSUME IInv, Shutdown
  PROVE  IInv'
<1>1. CASE Down(pointer, record) /\ UNCHANGED budget
  <2>1. /\ pointer \in File(Configuration) /\ record \in File(ValidRecord \cup {None})
        /\ Ended(record.seen) => pointer.seen.root = pointer.kept.root
        /\ budget \in Budgets
    BY DEF IInv, TypeOK, PointerIsSettled, Budgets
  <2> QED BY <1>1, <2>1, DownStep
<1>2. CASE ~(Down(pointer, record) /\ UNCHANGED budget)
  BY <1>2, ShutdownFailsStep DEF Shutdown
<1> QED BY <1>1, <1>2 DEF Shutdown

\* The operator ends a process that cannot shut down.
LEMMA KillStep ==
  ASSUME IInv, Kill
  PROVE  IInv'
<1>1. /\ pointer \in File(Configuration) /\ record \in File(ValidRecord \cup {None})
      /\ Ended(record.seen) => pointer.seen.root = pointer.kept.root
      /\ budget \in Budgets
  BY DEF IInv, TypeOK, PointerIsSettled, Budgets
<1> QED BY <1>1, DownStep DEF Kill

\* What a power loss leaves of a control file.
LEMMA Survivor ==
  ASSUME NEW C, NEW f \in File(C), NEW s \in Survivors(f)
  PROVE  LET left == [s EXCEPT !.kept = s.seen] IN
           /\ left \in File(C) /\ left.seen \in {f.seen, f.kept} /\ left.kept = left.seen
  BY DEF Survivors, File

\* The process dies, with the power or without.
LEMMA CrashStep ==
  ASSUME IInv, NEW power \in BOOLEAN, Crash(power)
  PROVE  IInv'
<1>1. /\ pointer \in File(Configuration) /\ record \in File(ValidRecord \cup {None})
      /\ Ended(record.seen) => pointer.seen.root = pointer.kept.root
      /\ budget \in Budgets
  BY DEF IInv, TypeOK, PointerIsSettled, Budgets
<1>2. budget' \in Budgets /\ budget'.updates = budget.updates
  BY <1>1, MigrationBoundAssumption DEF Crash, Budgets
<1>3. CASE power
  <2>1. PICK p \in Survivors(pointer), r \in Survivors(record) :
          Down([p EXCEPT !.kept = p.seen], [r EXCEPT !.kept = r.seen])
    BY <1>3 DEF Crash
  <2> DEFINE pf == [p EXCEPT !.kept = p.seen]
             rf == [r EXCEPT !.kept = r.seen]
  <2>2. pf \in File(Configuration) /\ pf.seen \in {pointer.seen, pointer.kept} /\ pf.kept = pf.seen
    BY <1>1, Survivor
  <2>3. rf \in File(ValidRecord \cup {None})
    BY <1>1, Survivor
  <2>4. Down(pf, rf)
    BY <2>1
  <2> HIDE DEF pf, rf
  <2> QED BY <1>2, <2>2, <2>3, <2>4, DownStep
<1>4. CASE ~power
  BY <1>1, <1>2, <1>4, DownStep DEF Crash
<1> QED BY <1>3, <1>4

\* The invariant holds in every behaviour of the specification.
THEOREM MigrationInvariant == Spec => []IInv
<1>1. Init => IInv
  BY InitStep
<1>2. IInv /\ [Next]_vars => IInv'
  <2> SUFFICES ASSUME IInv, [Next]_vars PROVE IInv'
    OBVIOUS
  <2>1. CASE RequestStep
    BY <2>1, EnterRequestStep, ExtendRequestStep, FinishFrameStep, WriteContentStep,
       OpenSessionStep, CloseSessionStep, UpdateSettingsStep, StartStep, AskStep
    DEF RequestStep
  <2>2. CASE Execute
    <3>1. Announce => IInv'
      BY AnnouncedStep, AnnounceFailsStep
    <3>2. \A step, failed : Try(step, failed) /\ step \in {"allocate", "copy", "verify"}
            /\ failed = "reconcile" => IInv'
      BY TryStep DEF Try
    <3> QED
      BY <2>2, <3>1, <3>2, DrainStep, BeginCopyStep, AllocateStep, OwnStep, CopyStep,
         BeginVerifyStep, VerifyStep, BeginCommitStep, CommitStep, BeginRestartStep
      DEF Execute
  <2>3. CASE Settlement
    <3>1. \A step, failed : Try(step, failed) /\ step \in {"observe", "fail", "prove"}
            /\ failed = "undecided" => IInv'
      BY TryStep DEF Try
    <3> QED
      BY <2>3, <3>1, ReconcileStep, ObserveStep, FailStep, ProveStep, CompleteStep,
         UndecidedStep, SettleStep, AbortStep, RestStep
      DEF Settlement
  <2>4. CASE Try("serve", "leave")
    BY <2>4, TryStep DEF Try
  <2>5. CASE ProcessStep
    BY <2>2, <2>3, <2>4, <2>5, ResumeStep, NoteStep, ShutdownStep, LoadStep, LoadFailsStep,
       ServeStep
    DEF ProcessStep
  <2> QED
    BY <2>1, <2>5, BootStep, RetryStep, KillStep, CrashStep, StutterStep DEF Next
<1> QED
  BY <1>1, <1>2, PTL DEF Spec

\* Every variable has its type in every reachable state.
THEOREM TypeCorrect == Spec => []TypeOK
<1>1. IInv => TypeOK
  BY DEF IInv
<1> QED BY <1>1, MigrationInvariant, PTL

\* Whatever is served holds every write of every request that was admitted,
\* through migrations, failures, deaths and power losses (commitDataRootChange,
\* verifyTarget, reconcileDataRootChange).
THEOREM NoWriteIsLost == Spec => []WritesAreKept
<1>1. IInv => WritesAreKept
  BY DEF IInv, PointedToHolds, Holds, WritesAreKept
<1> QED BY <1>1, MigrationInvariant, PTL

\* While a migration moves the data the barrier is closed and no request, task,
\* agent session or device login is active (docs/service-runtime.md:116-118).
THEOREM MigrationsAreAlone == Spec => []MigrationIsAlone
<1>1. IInv => MigrationIsAlone
  BY DEF IInv, LeaseIsExclusive, NoFrame, MigrationIsAlone, Moving
<1> QED BY <1>1, MigrationInvariant, PTL
=============================================================================
