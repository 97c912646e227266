----------------------- MODULE WorkingTreeTransaction -----------------------
(***************************************************************************)
(* The Workspace on disk: a tree of files and repository.json, the head,   *)
(* which names the revision of the tree                                    *)
(* (src/infrastructure/server/repository/workspace/local).  A commit       *)
(* changes many files and the head.  It first writes a transaction         *)
(* directory with the old and the new files (backup, staged) and a         *)
(* manifest; then it replaces the files one by one, then the head, which   *)
(* is the commit point, then it removes the directory.  Opening a          *)
(* repository rolls every directory it finds back or forward.              *)
(*                                                                         *)
(* A process holds the lease of the repository and runs one operation at a *)
(* time.  It can die anywhere, and every step can fail.  The user may edit *)
(* the visible files with other programs at any time; a load adopts what   *)
(* it finds as a new revision.                                             *)
(*                                                                         *)
(* A revision is a hash of the tree, so trees stand for revisions.  The    *)
(* absence of a file is one of the values it can have; the directories of  *)
(* the tree follow from its files and are left out.                        *)
(***************************************************************************)
EXTENDS Naturals, FiniteSets

CONSTANTS
  Path,        \* files of the repository other than its head
  Value,       \* contents of a file, absence among them
  MaxCommits,  \* bound: commits
  MaxEdits,    \* bound: edits by other programs
  MaxFaults,   \* bound: removals, synchronisations and rollbacks that fail
  None         \* no transaction

ASSUME ValueAssumption == Value # {}
ASSUME BoundAssumption ==
  MaxCommits \in Nat /\ MaxEdits \in Nat /\ MaxFaults \in Nat

Tree == [Path -> Value]

\* A transaction directory.  `from' is the tree it was planned from, which is
\* not the base's when it adopts what other programs wrote.
Transactions ==
  [base : Tree, from : Tree, target : Tree,
   manifest : {"none", "torn", "whole"},
   payload : BOOLEAN]     \* backup and staged are complete
ASSUME TransactionAssumption == None \notin Transactions

VARIABLES
  files,       \* the visible files
  head,        \* the revision repository.json names
  headOnDisk,  \* the one it names after a power loss
  left,        \* transaction directories that nobody works on
  pc,          \* where the process is
  txn,         \* the transaction it works on
  todo,        \* files that this phase has not replaced yet
  to,          \* where a recovery goes: "from" or "target"
  promised,    \* history: trees that the callers may find, given the answers
  damage,      \* history: what went wrong besides the process dying
  budget       \* bound: commits, edits and faults so far

disk == <<files, head, headOnDisk, left>>
process == <<pc, txn, todo, to>>
vars == <<disk, process, promised, damage, budget>>

Damages == {"manifest", "payload", "removal", "rollback", "sync", "edit"}

TypeOK ==
  /\ files \in Tree /\ head \in Tree /\ headOnDisk \in Tree
  /\ left \subseteq Transactions
  /\ pc \in {"closed", "recover", "restore", "restored", "open", "stage",
             "manifest", "prepared", "apply", "cleanup", "rollback",
             "undone", "refused"}
  /\ txn \in Transactions \cup {None}
  /\ (txn = None) = (pc \in {"closed", "recover", "open", "refused"})
  /\ todo \subseteq Path
  /\ to \in {"from", "target"}
  /\ promised \subseteq Tree
  /\ damage \subseteq Damages
  /\ budget \in [commits : 0..MaxCommits, edits : 0..MaxEdits,
                faults : 0..MaxFaults]

Init ==
  /\ files \in {[p \in Path |-> v] : v \in Value}
  /\ head = files /\ headOnDisk = files
  /\ left = {}
  /\ pc = "closed" /\ txn = None /\ todo = {} /\ to = "from"
  /\ promised = {head} /\ damage = {}
  /\ budget = [commits |-> 0, edits |-> 0, faults |-> 0]

\* The manifest's operations but the head's.
Planned(t) == {p \in Path : t.from[p] # t.target[p]}

Holding(t, manifest, payload) ==
  [t EXCEPT !.manifest = manifest, !.payload = payload]

\* A directory without a manifest means nothing, whatever else is in it.
Unprepared(t) == Holding(t, "none", FALSE)

\* What a recursive removal that does not finish can leave of a directory: it
\* removes the entries in no particular order.
Remains(t) == {t, [t EXCEPT !.payload = FALSE], Unprepared(t)}

\* A removal is under way.
Removing == pc \in {"restored", "cleanup", "undone"}

\* What a process that dies leaves of its transaction: a manifest is not
\* written at once, and before backup and staged are synchronised a power loss
\* can take files from them.
Debris(power) ==
  IF pc = "manifest"
  THEN {Holding(txn, wrote.manifest, wrote.payload) :
          wrote \in [manifest : {"none", "torn", "whole"},
                     payload : IF power THEN BOOLEAN ELSE {TRUE}]}
  ELSE {txn} \cup {t \in Remains(txn) : Removing}

\* What is wrong with a directory: recovery cannot read it.
Harm(t) ==
  {d \in {"manifest"} : t.manifest = "torn"}
    \cup {d \in {"payload"} : t.manifest = "whole" /\ ~t.payload}

\* The process lets go of its transaction.
Goto(place) == pc' = place /\ txn' = None /\ todo' = {} /\ UNCHANGED to

Fault(kind) ==
  /\ budget.faults < MaxFaults
  /\ damage' = damage \cup {kind}
  /\ budget' = [budget EXCEPT !.faults = @ + 1]

\* A removal fails: the process goes on and leaves what there is.
RemovalFails == Fault("removal") /\ \E t \in Remains(txn) : left' = left \cup {t}

\* The operation that ran ends with an error: its caller does not find what it
\* wanted, unless it is what was there before.
Refused(t) == promised' = (promised \ {t.target}) \cup {t.base}

-----------------------------------------------------------------------------
(* recoverLocalWorkingTreeTransactions, when a store is opened *)

Open ==
  /\ pc \in {"closed", "refused"}
  /\ Goto("recover")
  /\ UNCHANGED <<disk, promised, damage, budget>>

\* Without a manifest nothing was changed yet.
RecoverUnprepared(t) ==
  /\ pc = "recover" /\ t.manifest = "none"
  /\ left' = left \ {t}
  /\ UNCHANGED <<files, head, headOnDisk, process, promised, damage, budget>>

\* The head decides whether the transaction is rolled back or forward.
Recover(t) ==
  /\ pc = "recover" /\ t.manifest = "whole" /\ t.payload
  /\ head \in {t.base, t.target}
  /\ pc' = "restore" /\ txn' = t /\ todo' = Planned(t)
  /\ to' = IF head = t.base THEN "from" ELSE "target"
  /\ left' = left \ {t}
  /\ UNCHANGED <<files, head, headOnDisk, promised, damage, budget>>

\* A manifest that cannot be parsed, a payload that is not complete, or a
\* head that the transaction does not know.
RecoverRefuses(t) ==
  /\ pc = "recover"
  /\ \/ t.manifest = "torn"
     \/ t.manifest = "whole" /\ (~t.payload \/ head \notin {t.base, t.target})
  /\ Goto("refused")
  /\ UNCHANGED <<disk, promised, damage, budget>>

\* Mutant: only the old content is known.
KnownOld(p) == files[p] = txn.from[p]

\* applyFile knows the old content and the new one, and nothing else.
Known(p) == files[p] \in {txn.from[p], txn.target[p]}

RestoreFile(p) ==
  /\ pc = "restore" /\ p \in todo /\ Known(p)
  /\ files' = [files EXCEPT ![p] = txn[to][p]]
  /\ todo' = todo \ {p}
  /\ UNCHANGED <<head, headOnDisk, left, pc, txn, to, promised, damage, budget>>

\* The head comes last and is written again, durably.
RestoreHead ==
  LET revision == IF to = "from" THEN txn.base ELSE txn.target IN
  /\ pc = "restore" /\ todo = {}
  /\ head' = revision /\ headOnDisk' = revision
  /\ pc' = "restored"
  /\ UNCHANGED <<files, left, txn, todo, to, promised, damage, budget>>

RestoreEnds ==
  /\ pc = "restored"
  /\ Goto("recover")
  /\ UNCHANGED <<disk, promised, damage, budget>>

RestoreRefuses ==
  /\ pc = "restore"
  /\ \E p \in todo : ~Known(p)
  /\ left' = left \cup {txn}
  /\ Goto("refused")
  /\ UNCHANGED <<files, head, headOnDisk, promised, damage, budget>>

\* The callers find out what became of their commits.
Opened ==
  /\ pc = "recover" /\ left = {}
  /\ Goto("open")
  /\ promised' = promised \cap {head}
  /\ UNCHANGED <<disk, damage, budget>>

-----------------------------------------------------------------------------
(* commitLocalWorkingTreeTransaction *)

Start(base, target) ==
  /\ pc' = "stage"
  /\ txn' = [base |-> base, from |-> files, target |-> target,
             manifest |-> "none", payload |-> TRUE]
  /\ todo' = {} /\ UNCHANGED to

\* A load or a commit finds files that are not the head's: scanAndSynchronize
\* commits what it found.
Adopt ==
  /\ pc = "open" /\ files # head
  /\ Start(head, files)
  /\ UNCHANGED <<disk, promised, damage, budget>>

Commit(target) ==
  /\ pc = "open" /\ files = head
  /\ budget.commits < MaxCommits
  /\ target # head
  /\ Start(head, target)
  /\ promised' = {head, target}
  /\ budget' = [budget EXCEPT !.commits = @ + 1]
  /\ UNCHANGED <<disk, damage>>

\* writeFileDurably creates the manifest under its own name.
WriteManifest ==
  /\ pc = "stage"
  /\ pc' = "manifest" /\ txn' = [txn EXCEPT !.manifest = "torn"]
  /\ UNCHANGED <<disk, todo, to, promised, damage, budget>>

ManifestDurable ==
  /\ pc = "manifest"
  /\ pc' = "prepared" /\ txn' = [txn EXCEPT !.manifest = "whole"]
  /\ UNCHANGED <<disk, todo, to, promised, damage, budget>>

\* Nobody changed the files since they were captured.
StartApply ==
  /\ pc = "prepared" /\ files = txn.from
  /\ pc' = "apply" /\ todo' = Planned(txn)
  /\ UNCHANGED <<disk, txn, to, promised, damage, budget>>

\* A step before that fails, or the files did change: the directory is removed,
\* as far as it can be.
Abandon ==
  /\ pc \in {"stage", "manifest", "prepared"}
  /\ RemovalFails \/ UNCHANGED <<left, damage, budget>>
  /\ Refused(txn)
  /\ Goto("open")
  /\ UNCHANGED <<files, head, headOnDisk>>

ApplyFile(p) ==
  /\ pc = "apply" /\ p \in todo /\ Known(p)
  /\ files' = [files EXCEPT ![p] = txn.target[p]]
  /\ todo' = todo \ {p}
  /\ UNCHANGED <<head, headOnDisk, left, pc, txn, to, promised, damage, budget>>

\* Mutant: the head is replaced while files are still to be.
PublishEarly ==
  /\ pc = "apply"
  /\ head' = txn.target /\ headOnDisk' = txn.target
  /\ pc' = "cleanup"
  /\ UNCHANGED <<files, left, txn, todo, to, promised, damage, budget>>

\* The files are the target's: the head is replaced.
Publish ==
  /\ pc = "apply" /\ todo = {} /\ files = txn.target
  /\ head' = txn.target /\ headOnDisk' = txn.target
  /\ pc' = "cleanup"
  /\ UNCHANGED <<files, left, txn, todo, to, promised, damage, budget>>

\* The head is in place but its directory could not be synchronised: the
\* commit is reported as done, unless the head cannot be read either, and the
\* directory is left.
PublishUnsynchronized ==
  /\ pc = "apply" /\ todo = {} /\ files = txn.target
  /\ head' = txn.target
  /\ left' = left \cup {txn}
  /\ promised' = {txn.target} \/ Refused(txn)
  /\ Fault("sync")
  /\ Goto("open")
  /\ UNCHANGED <<files, headOnDisk>>

\* A step fails, or a file is neither the old one nor the new one.
ApplyFails ==
  /\ pc = "apply"
  /\ pc' = "rollback" /\ todo' = Planned(txn)
  /\ UNCHANGED <<disk, txn, to, promised, damage, budget>>

\* Mutant: the process does not let go of the transaction it has committed.
CleanupHolding ==
  /\ pc = "cleanup"
  /\ RemovalFails \/ UNCHANGED <<left, damage, budget>>
  /\ promised' = {txn.target}
  /\ pc' = "open" /\ todo' = {}
  /\ UNCHANGED <<files, head, headOnDisk, txn, to>>

\* The commit is done, whether its directory can be removed or not.
Cleanup ==
  /\ pc = "cleanup"
  /\ RemovalFails \/ UNCHANGED <<left, damage, budget>>
  /\ promised' = {txn.target}
  /\ Goto("open")
  /\ UNCHANGED <<files, head, headOnDisk>>

RollbackFile(p) ==
  /\ pc = "rollback" /\ p \in todo /\ Known(p)
  /\ files' = [files EXCEPT ![p] = txn.from[p]]
  /\ todo' = todo \ {p}
  /\ UNCHANGED <<head, headOnDisk, left, pc, txn, to, promised, damage, budget>>

RollbackHead ==
  /\ pc = "rollback" /\ todo = {}
  /\ head' = txn.base /\ headOnDisk' = txn.base
  /\ pc' = "undone"
  /\ UNCHANGED <<files, left, txn, todo, to, promised, damage, budget>>

RollbackEnds ==
  /\ pc = "undone"
  /\ Refused(txn)
  /\ Goto("open")
  /\ UNCHANGED <<disk, damage, budget>>

\* The rollback meets a file it does not know or a step that fails.  The
\* process goes on; the directory stays for the next one.
RollbackFails ==
  /\ pc \in {"rollback", "undone"}
  /\ \E t \in IF pc = "undone" THEN Remains(txn) ELSE {txn} :
       left' = left \cup {t}
  /\ Fault("rollback")
  /\ Refused(txn)
  /\ Goto("open")
  /\ UNCHANGED <<files, head, headOnDisk>>

-----------------------------------------------------------------------------
(* The process dies, the power goes, other programs write *)

\* The process dies, or a recovery fails and is tried again later.
Crash(power) ==
  /\ pc \notin {"closed", "refused"}
  /\ IF power THEN /\ head' \in {head, headOnDisk} /\ headOnDisk' = head'
              ELSE UNCHANGED <<head, headOnDisk>>
  /\ \/ /\ txn = None \/ Removing
        /\ UNCHANGED <<left, damage>>
     \/ /\ txn # None
        /\ \E t \in Debris(power) :
             left' = left \cup {t} /\ damage' = damage \cup Harm(t)
  /\ Goto("closed")
  /\ UNCHANGED <<files, promised, budget>>

Edit(p, v) ==
  /\ budget.edits < MaxEdits
  /\ files[p] # v
  /\ files' = [files EXCEPT ![p] = v]
  /\ damage' = damage \cup {"edit"}
  /\ budget' = [budget EXCEPT !.edits = @ + 1]
  /\ UNCHANGED <<head, headOnDisk, left, process, promised>>

-----------------------------------------------------------------------------
RecoveryStep ==
  \/ \E t \in left : RecoverUnprepared(t) \/ Recover(t) \/ RecoverRefuses(t)
  \/ \E p \in Path : RestoreFile(p)
  \/ RestoreHead \/ RestoreEnds \/ RestoreRefuses \/ Opened

CommitStep ==
  \/ WriteManifest \/ ManifestDurable \/ StartApply \/ Abandon
  \/ \E p \in Path : ApplyFile(p) \/ RollbackFile(p)
  \/ Publish \/ PublishUnsynchronized \/ ApplyFails \/ Cleanup
  \/ RollbackHead \/ RollbackEnds \/ RollbackFails

Next ==
  \/ Open \/ RecoveryStep
  \/ Adopt \/ (\E target \in Tree : Commit(target)) \/ CommitStep
  \/ \E power \in BOOLEAN : Crash(power)
  \/ \E p \in Path, v \in Value : Edit(p, v)

Spec == Init /\ [][Next]_vars

-----------------------------------------------------------------------------
(* Properties *)

\* Whatever died or failed on the way, a store that is open shows one revision
\* whole, and it is one that its callers expect: the last commit that was
\* answered, or one whose answer was lost; never a commit that was reported
\* as failed, and never a part of one
\* (commitLocalWorkingTreeTransaction and recoverLocalWorkingTreeTransactions).
\* What is excepted: files changed by other programs, a rollback that did not
\* finish, and a head whose directory could not be synchronised.
AllOrNothing ==
  pc = "open" /\ damage \cap {"rollback", "sync", "edit"} = {}
    => files = head /\ head \in promised

\* A repository that only this program writes to can be opened again after any
\* crash, also of a recovery, unless a transaction directory was damaged
\* before: its manifest torn, its payload or its removal incomplete, its
\* rollback unfinished, its head not synchronised.
RefusesOnlyDamage ==
  pc = "refused" => damage # {}

\* workspaceFileStore.test.ts:775: a writer that is killed at any phase of the
\* transaction is recovered as a complete old or new tree.
KilledWriterRecovers ==
  pc = "refused" => damage \ {"manifest"} # {}
=============================================================================
