------------------- MODULE WorkingTreeTransaction_proofs --------------------
(***************************************************************************)
(* Proofs about the transactions of the working tree, for every set of     *)
(* files, every set of contents and every bound on commits, edits and      *)
(* faults: their types, that an open repository shows one revision whole,  *)
(* and that a repository that nothing harmed can be opened.                *)
(*                                                                         *)
(* Neither property is inductive: both speak of an open or a refused       *)
(* repository, and what is on the disk then was left by a process that     *)
(* died anywhere, perhaps several times, recoveries included. The          *)
(* invariant follows the files while they differ from the head. Whatever   *)
(* differs is still to be replaced by the phase that is under way, or it   *)
(* is covered by a directory that was left with a whole manifest           *)
(* (Mendable); and the head names the tree a transaction goes to, forward  *)
(* or back (HeadDecides). So a recovery that has emptied the list of       *)
(* directories has mended every file. That nothing is refused rests on the *)
(* same, on the directories being readable, and on there being none while  *)
(* a repository is open (Unharmed).                                        *)
(***************************************************************************)
EXTENDS WorkingTreeTransaction, TLAPS

\* What AllOrNothing excepts did not happen.
Quiet == damage \cap {"rollback", "sync", "edit"} = {}

\* A directory from which a recovery can restore either tree.
Complete(t) == t.manifest = "whole" /\ t.payload

\* What the directory of the transaction under way holds: its manifest is
\* written after the backup and the staged files, and before any file is
\* replaced.
Written ==
  txn # None =>
    /\ pc = "stage" => txn.manifest = "none"
    /\ pc = "manifest" => txn.manifest = "torn"
    /\ pc \notin {"stage", "manifest"} => txn.manifest = "whole"
    /\ txn.payload
    /\ todo \subseteq Planned(txn)

\* The head is on the disk, is one the callers expect and stands for the tree
\* that the transaction under way starts from or goes to: its base until it is
\* published, its target after that. A transaction starts from the tree of its
\* base.
HeadDecides ==
  Quiet =>
    /\ headOnDisk = head /\ head \in promised
    /\ \A t \in left : t.from = t.base
    /\ txn # None => txn.from = txn.base
    /\ pc \in {"stage", "manifest", "prepared", "apply", "rollback", "undone"} =>
         head = txn.base
    /\ pc \in {"stage", "manifest", "prepared", "apply"} => txn.target \in promised
    /\ pc = "cleanup" => head = txn.target
    /\ pc \in {"restore", "restored"} /\ to = "from" => head = txn.base
    /\ pc \in {"restore", "restored"} /\ to = "target" => head = txn.target

\* A directory was left that restores the file.
Covered(p) == \E t \in left : t.manifest = "whole" /\ p \in Planned(t)

\* Each file is the one before the transaction or the one after it.
Between(t) == \A p \in Path : files[p] \in {t.from[p], t.target[p]}

\* Only files that this phase still has to replace, or that a directory covers,
\* differ from the head's.
Mendable ==
  Quiet =>
    /\ pc \in {"open", "stage", "manifest", "prepared", "cleanup", "undone"} => files = head
    /\ pc = "apply" =>
         Between(txn) /\ \A p \in Path : files[p] # head[p] => p \notin todo
    /\ pc = "rollback" =>
         Between(txn) /\ \A p \in Path : files[p] # head[p] => p \in todo
    /\ pc = "restore" => \A p \in Path : files[p] # head[p] => p \in todo \/ Covered(p)
    /\ pc \in {"restored", "closed", "recover", "refused"} =>
         \A p \in Path : files[p] # head[p] => Covered(p)

\* A recovery does not refuse the directory.
Sound(t) ==
  t.manifest = "none" \/ (Complete(t) /\ head \in {t.base, t.target} /\ Between(t))

\* If nothing went wrong but that the process died, no directory is refused,
\* and none is left once the repository is open.
Unharmed ==
  damage = {} =>
    /\ pc # "refused"
    /\ pc \in {"closed", "recover", "restore", "restored"} => \A t \in left : Sound(t)
    /\ pc \in {"restore", "restored"} => Sound(txn)
    /\ pc \notin {"closed", "recover", "restore", "restored"} => left = {}

\* The inductive invariant.
IInv == TypeOK /\ Written /\ HeadDecides /\ Mendable /\ Unharmed

\* Where the process can be.
Places == {"closed", "recover", "restore", "restored", "open", "stage", "manifest",
           "prepared", "apply", "cleanup", "rollback", "undone", "refused"}

\* Where it works on no transaction.
Idle == {"closed", "recover", "open", "refused"}

\* The counters of the bounds.
Budgets == [commits : 0..MaxCommits, edits : 0..MaxEdits, faults : 0..MaxFaults]

\* The type invariant, place by place.
LEMMA TypeFacts ==
  ASSUME TypeOK
  PROVE  /\ files \in Tree /\ head \in Tree /\ headOnDisk \in Tree
         /\ left \subseteq Transactions /\ pc \in Places
         /\ pc \in Idle => txn = None
         /\ pc \notin Idle => txn \in Transactions /\ txn # None
         /\ todo \subseteq Path /\ to \in {"from", "target"} /\ promised \subseteq Tree
         /\ damage \subseteq Damages /\ budget \in Budgets
  BY DEF TypeOK, Places, Idle, Budgets

\* The type invariant from its parts.
LEMMA TypeHolds ==
  ASSUME files' \in Tree, head' \in Tree, headOnDisk' \in Tree,
         left' \subseteq Transactions, pc' \in Places,
         pc' \in Idle => txn' = None,
         pc' \notin Idle => txn' \in Transactions,
         todo' \subseteq Path, to' \in {"from", "target"}, promised' \subseteq Tree,
         damage' \subseteq Damages, budget' \in Budgets
  PROVE  TypeOK'
  BY TransactionAssumption DEF TypeOK, Places, Idle, Budgets

\* What a transaction directory consists of.
LEMMA TransactionFields ==
  ASSUME NEW t \in Transactions
  PROVE  /\ t # None /\ t.base \in Tree /\ t.from \in Tree /\ t.target \in Tree
         /\ t.manifest \in {"none", "torn", "whole"} /\ t.payload \in BOOLEAN
         /\ Planned(t) \subseteq Path
  BY TransactionAssumption DEF Transactions, Planned

\* Two directories of one move from tree to tree.
SameMove(s, t) == s.base = t.base /\ s.from = t.from /\ s.target = t.target

\* What an interrupted removal leaves is of the same move and is untouched or
\* has lost a part of its payload.
LEMMA RemainsFields ==
  ASSUME NEW t \in Transactions, NEW r \in Remains(t)
  PROVE  /\ r \in Transactions /\ SameMove(r, t)
         /\ r = t \/ ~r.payload
<1>1. CASE r = t
  BY <1>1 DEF SameMove
<1>2. CASE r = [t EXCEPT !.payload = FALSE]
  BY <1>2 DEF Transactions, SameMove
<1>3. CASE r = Holding(t, "none", FALSE)
  BY <1>3 DEF Holding, Transactions, SameMove
<1> QED BY <1>1, <1>2, <1>3 DEF Remains, Unprepared

\* A fault is recorded and stays within the bound.
LEMMA FaultCounted ==
  ASSUME TypeOK, NEW kind \in Damages, Fault(kind)
  PROVE  /\ damage' = damage \cup {kind} /\ damage' \subseteq Damages
         /\ budget' \in Budgets
  BY BoundAssumption DEF TypeOK, Fault, Budgets

\* What a removal of the transaction's directory leaves.
LEMMA RemovalLeaves ==
  ASSUME TypeOK, txn \in Transactions,
         RemovalFails \/ UNCHANGED <<left, damage, budget>>
  PROVE  /\ left' \subseteq Transactions /\ left \subseteq left'
         /\ \A t \in left' : t \in left \/ SameMove(t, txn)
         /\ damage' \in {damage, damage \cup {"removal"}}
         /\ damage' \subseteq Damages /\ budget' \in Budgets
         /\ damage' = {} => left' = left
<1>1. CASE RemovalFails
  <2>1. /\ damage' = damage \cup {"removal"} /\ damage' \subseteq Damages
        /\ budget' \in Budgets
    BY <1>1, FaultCounted DEF RemovalFails, Damages
  <2>2. PICK t \in Remains(txn) : left' = left \cup {t}
    BY <1>1 DEF RemovalFails
  <2> QED BY <2>1, <2>2, RemainsFields, TypeFacts
<1>2. CASE UNCHANGED <<left, damage, budget>>
  BY <1>2, TypeFacts
<1> QED BY <1>1, <1>2

\* A transaction is planned from the files as they are.
LEMMA Started ==
  ASSUME TypeOK, NEW base \in Tree, NEW target \in Tree, Start(base, target)
  PROVE  /\ pc' = "stage" /\ txn' \in Transactions /\ todo' = {} /\ to' = to
         /\ txn'.base = base /\ txn'.from = files /\ txn'.target = target
         /\ txn'.manifest = "none" /\ txn'.payload
  BY TypeFacts DEF Start, Transactions

\* What a process that dies leaves of its transaction: all of it, unless its
\* manifest was being written or its directory removed.
LEMMA DebrisFields ==
  ASSUME TypeOK, Written, txn \in Transactions, NEW power \in BOOLEAN, NEW t \in Debris(power)
  PROVE  /\ t \in Transactions /\ SameMove(t, txn)
         /\ pc \notin {"manifest", "restored", "cleanup", "undone"} => t = txn
         /\ Complete(t) => pc \in {"manifest"} \/ t = txn
         /\ Harm(t) = {} => t.manifest = "none" \/ Complete(t)
         /\ Harm(t) \subseteq {"manifest", "payload"}
<1>1. CASE t = txn /\ pc # "manifest"
  BY <1>1, TransactionFields DEF SameMove, Harm, Complete
<1>2. CASE t \in Remains(txn) /\ Removing
  BY <1>2, RemainsFields, TransactionFields DEF SameMove, Harm, Complete, Removing
<1>3. ASSUME NEW m \in {"none", "torn", "whole"}, NEW w \in BOOLEAN,
             t = Holding(txn, m, w)
      PROVE  /\ t \in Transactions /\ SameMove(t, txn)
             /\ t.manifest = m /\ t.payload = w
  BY <1>3 DEF Holding, SameMove, Transactions
<1>4. CASE pc = "manifest"
  <2>1. PICK m \in {"none", "torn", "whole"}, w \in BOOLEAN : t = Holding(txn, m, w)
    BY <1>4 DEF Debris
  <2> QED BY <1>3, <1>4, <2>1, TransactionFields DEF Harm, Complete
<1> QED BY <1>1, <1>2, <1>4 DEF Debris

\* A process opens the repository.
LEMMA OpenStep ==
  ASSUME IInv, Open
  PROVE  IInv'
<1> USE TypeFacts, TransactionFields DEF IInv, Places, Idle, Open, Goto, disk
<1>1. TypeOK'
  BY TypeHolds
<1>2. Written'
  BY DEF Written, Planned
<1>3. HeadDecides'
  BY DEF HeadDecides, Quiet
<1>4. Mendable'
  BY DEF Written, HeadDecides, Mendable, Quiet, Covered, Between, Planned
<1>5. Unharmed'
  BY DEF Written, HeadDecides, Mendable, Unharmed, Quiet, Sound, Complete, Between,
     Planned
<1> QED BY <1>1, <1>2, <1>3, <1>4, <1>5 DEF IInv

\* A directory without a manifest covers no file.
LEMMA RecoverUnpreparedStep ==
  ASSUME IInv, NEW t \in left, RecoverUnprepared(t)
  PROVE  IInv'
<1> USE TypeFacts, TransactionFields DEF IInv, Places, Idle, RecoverUnprepared,
        process
<1>1. TypeOK'
  BY TypeHolds
<1>2. Written'
  BY DEF Written, Planned
<1>3. HeadDecides'
  BY DEF HeadDecides, Quiet
<1>4. Mendable'
  BY DEF Written, HeadDecides, Mendable, Quiet, Covered, Between, Planned
<1>5. Unharmed'
  BY DEF Written, HeadDecides, Mendable, Unharmed, Quiet, Sound, Complete, Between,
     Planned
<1> QED BY <1>1, <1>2, <1>3, <1>4, <1>5 DEF IInv

\* A recovery takes a directory up: what it covered is now to be replaced.
LEMMA RecoverStep ==
  ASSUME IInv, NEW t \in left, Recover(t)
  PROVE  IInv'
<1> USE TypeFacts, TransactionFields DEF IInv, Places, Idle, Recover
<1>1. TypeOK'
  BY TypeHolds
<1>2. Written'
  BY DEF Written, Planned
<1>3. HeadDecides'
  BY DEF HeadDecides, Quiet
<1>4. Mendable'
  BY DEF Written, HeadDecides, Mendable, Quiet, Covered, Between, Planned
<1>5. Unharmed'
  BY DEF Written, HeadDecides, Mendable, Unharmed, Quiet, Sound, Complete, Between,
     Planned
<1> QED BY <1>1, <1>2, <1>3, <1>4, <1>5 DEF IInv

\* A recovery refuses a directory, which something harmed.
LEMMA RecoverRefusesStep ==
  ASSUME IInv, NEW t \in left, RecoverRefuses(t)
  PROVE  IInv'
<1> USE TypeFacts, TransactionFields DEF IInv, Places, Idle, RecoverRefuses, Goto,
        disk
<1>1. TypeOK'
  BY TypeHolds
<1>2. Written'
  BY DEF Written, Planned
<1>3. HeadDecides'
  BY DEF HeadDecides, Quiet
<1>4. Mendable'
  BY DEF Written, HeadDecides, Mendable, Quiet, Covered, Between, Planned
<1>5. Unharmed'
  BY DEF Written, HeadDecides, Mendable, Unharmed, Quiet, Sound, Complete, Between,
     Planned
<1> QED BY <1>1, <1>2, <1>3, <1>4, <1>5 DEF IInv

\* A recovery replaces a file by the head's.
LEMMA RestoreFileStep ==
  ASSUME IInv, NEW p \in Path, RestoreFile(p)
  PROVE  IInv'
<1> USE TypeFacts, TransactionFields DEF IInv, Places, Idle, RestoreFile,
        Transactions, Tree
<1>1. TypeOK'
  BY TypeHolds
<1>2. Written'
  BY DEF Written, Planned
<1>3. HeadDecides'
  BY DEF HeadDecides, Quiet
<1>4. Mendable'
  BY DEF Written, HeadDecides, Mendable, Quiet, Covered, Between, Planned
<1>5. Unharmed'
  BY DEF Written, HeadDecides, Mendable, Unharmed, Quiet, Sound, Complete, Between,
     Planned
<1> QED BY <1>1, <1>2, <1>3, <1>4, <1>5 DEF IInv

\* A recovery writes the head it found.
LEMMA RestoreHeadStep ==
  ASSUME IInv, RestoreHead
  PROVE  IInv'
<1> USE TypeFacts, TransactionFields DEF IInv, Places, Idle, RestoreHead
<1>1. TypeOK'
  BY TypeHolds
<1>2. Written'
  BY DEF Written, Planned
<1>3. HeadDecides'
  BY DEF HeadDecides, Quiet
<1>4. Mendable'
  BY DEF Written, HeadDecides, Mendable, Quiet, Covered, Between, Planned
<1>5. Unharmed'
  BY DEF Written, HeadDecides, Mendable, Unharmed, Quiet, Sound, Complete, Between,
     Planned
<1> QED BY <1>1, <1>2, <1>3, <1>4, <1>5 DEF IInv

\* A recovery is done with a directory: the others cover what is left.
LEMMA RestoreEndsStep ==
  ASSUME IInv, RestoreEnds
  PROVE  IInv'
<1> USE TypeFacts, TransactionFields DEF IInv, Places, Idle, RestoreEnds, Goto,
        disk
<1>1. TypeOK'
  BY TypeHolds
<1>2. Written'
  BY DEF Written, Planned
<1>3. HeadDecides'
  BY DEF HeadDecides, Quiet
<1>4. Mendable'
  BY DEF Written, HeadDecides, Mendable, Quiet, Covered, Between, Planned
<1>5. Unharmed'
  BY DEF Written, HeadDecides, Mendable, Unharmed, Quiet, Sound, Complete, Between,
     Planned
<1> QED BY <1>1, <1>2, <1>3, <1>4, <1>5 DEF IInv

\* A recovery meets a file it does not know, which another program wrote.
LEMMA RestoreRefusesStep ==
  ASSUME IInv, RestoreRefuses
  PROVE  IInv'
<1> USE TypeFacts, TransactionFields DEF IInv, Places, Idle, RestoreRefuses, Goto,
        Known
<1>1. TypeOK'
  BY TypeHolds
<1>2. Written'
  BY DEF Written, Planned
<1>3. HeadDecides'
  BY DEF HeadDecides, Quiet
<1>4. Mendable'
  BY DEF Written, HeadDecides, Mendable, Quiet, Covered, Between, Planned
<1>5. Unharmed'
  BY DEF Written, HeadDecides, Mendable, Unharmed, Quiet, Sound, Complete, Between,
     Planned
<1> QED BY <1>1, <1>2, <1>3, <1>4, <1>5 DEF IInv

\* No directory is left, so every file is the head's.
LEMMA OpenedStep ==
  ASSUME IInv, Opened
  PROVE  IInv'
<1>1. left = {} /\ pc = "recover" /\ head \in [Path -> Value] /\ files \in [Path -> Value]
  BY TypeFacts DEF IInv, Opened, Tree
<1>2. Quiet => files = head
  BY <1>1 DEF IInv, Mendable, Covered
<1> USE <1>1, <1>2, TypeFacts, TransactionFields DEF IInv, Places, Idle, Opened,
        Goto, disk
<1>3. TypeOK'
  BY TypeHolds
<1>4. Written'
  BY DEF Written, Planned
<1>5. HeadDecides'
  BY DEF HeadDecides, Quiet
<1>6. Mendable'
  BY DEF Written, HeadDecides, Mendable, Quiet, Covered, Between, Planned
<1>7. Unharmed'
  BY DEF Written, HeadDecides, Mendable, Unharmed, Quiet, Sound, Complete, Between,
     Planned
<1> QED BY <1>3, <1>4, <1>5, <1>6, <1>7 DEF IInv

\* Files that differ from the head's are adopted: other programs wrote them.
LEMMA AdoptStep ==
  ASSUME IInv, Adopt
  PROVE  IInv'
<1>1. /\ pc' = "stage" /\ txn' \in Transactions /\ todo' = {} /\ to' = to
      /\ txn'.base = head /\ txn'.from = files /\ txn'.target = files
      /\ txn'.manifest = "none" /\ txn'.payload
      /\ pc = "open" /\ UNCHANGED <<files, head, headOnDisk, left, promised, damage, budget>>
  BY Started, TypeFacts DEF IInv, Adopt, disk
<1> USE <1>1, TypeFacts DEF IInv, Places, Idle, Adopt, Mendable
<1>2. TypeOK'
  BY TypeHolds
<1>3. Written'
  BY DEF Written, Planned
<1>4. HeadDecides'
  BY DEF HeadDecides, Quiet
<1>5. Mendable'
  BY DEF Written, HeadDecides, Quiet, Covered, Between, Planned
<1>6. Unharmed'
  BY DEF Written, HeadDecides, Unharmed, Quiet, Sound, Complete, Between, Planned
<1> QED BY <1>2, <1>3, <1>4, <1>5, <1>6 DEF IInv

\* A commit starts from the head.
LEMMA CommitStartStep ==
  ASSUME IInv, NEW target \in Tree, Commit(target)
  PROVE  IInv'
<1>1. /\ pc' = "stage" /\ txn' \in Transactions /\ todo' = {} /\ to' = to
      /\ txn'.base = head /\ txn'.from = files /\ txn'.target = target
      /\ txn'.manifest = "none" /\ txn'.payload
      /\ pc = "open" /\ UNCHANGED <<files, head, headOnDisk, left, damage>>
  BY Started, TypeFacts DEF IInv, Commit, disk
<1>2. /\ files = head /\ promised' = {head, target} /\ budget' \in Budgets
  BY TypeFacts, BoundAssumption DEF IInv, Commit, Budgets
<1> USE <1>1, <1>2, TypeFacts DEF IInv, Places, Idle
<1>3. TypeOK'
  BY TypeHolds
<1>4. Written'
  BY DEF Written, Planned
<1>5. HeadDecides'
  BY DEF HeadDecides, Quiet
<1>6. Mendable'
  BY DEF Written, HeadDecides, Mendable, Quiet, Covered, Between, Planned
<1>7. Unharmed'
  BY DEF Written, HeadDecides, Mendable, Unharmed, Quiet, Sound, Complete, Between,
     Planned
<1> QED BY <1>3, <1>4, <1>5, <1>6, <1>7 DEF IInv

\* The manifest is created.
LEMMA WriteManifestStep ==
  ASSUME IInv, WriteManifest
  PROVE  IInv'
<1>1. /\ pc = "stage" /\ pc' = "manifest" /\ txn' \in Transactions /\ SameMove(txn', txn)
      /\ txn'.manifest = "torn" /\ txn'.payload = txn.payload /\ Planned(txn') = Planned(txn)
      /\ UNCHANGED <<files, head, headOnDisk, left, todo, to, promised, damage, budget>>
  <2> DEFINE n == [txn EXCEPT !.manifest = "torn"]
  <2>1. txn \in Transactions /\ pc = "stage" /\ pc' = "manifest" /\ txn' = n
    BY TypeFacts DEF IInv, WriteManifest, Idle
  <2>2. /\ n \in Transactions /\ n.manifest = "torn" /\ n.payload = txn.payload
        /\ SameMove(n, txn)
    BY <2>1 DEF Transactions, SameMove
  <2> HIDE DEF n
  <2> QED BY <2>1, <2>2 DEF WriteManifest, disk, SameMove, Planned
<1> USE <1>1, TypeFacts, TransactionFields DEF IInv, Places, Idle, SameMove
<1>2. TypeOK'
  BY TypeHolds
<1>3. Written'
  BY DEF Written, Planned
<1>4. HeadDecides'
  BY DEF HeadDecides, Quiet
<1>5. Mendable'
  BY DEF Written, HeadDecides, Mendable, Quiet, Covered, Between, Planned
<1>6. Unharmed'
  BY DEF Written, HeadDecides, Mendable, Unharmed, Quiet, Sound, Complete, Between,
     Planned
<1> QED BY <1>2, <1>3, <1>4, <1>5, <1>6 DEF IInv

\* The manifest is whole.
LEMMA ManifestDurableStep ==
  ASSUME IInv, ManifestDurable
  PROVE  IInv'
<1>1. /\ pc = "manifest" /\ pc' = "prepared" /\ txn' \in Transactions /\ SameMove(txn', txn)
      /\ txn'.manifest = "whole" /\ txn'.payload = txn.payload /\ Planned(txn') = Planned(txn)
      /\ UNCHANGED <<files, head, headOnDisk, left, todo, to, promised, damage, budget>>
  <2> DEFINE n == [txn EXCEPT !.manifest = "whole"]
  <2>1. txn \in Transactions /\ pc = "manifest" /\ pc' = "prepared" /\ txn' = n
    BY TypeFacts DEF IInv, ManifestDurable, Idle
  <2>2. /\ n \in Transactions /\ n.manifest = "whole" /\ n.payload = txn.payload
        /\ SameMove(n, txn)
    BY <2>1 DEF Transactions, SameMove
  <2> HIDE DEF n
  <2> QED BY <2>1, <2>2 DEF ManifestDurable, disk, SameMove, Planned
<1> USE <1>1, TypeFacts, TransactionFields DEF IInv, Places, Idle, SameMove
<1>2. TypeOK'
  BY TypeHolds
<1>3. Written'
  BY DEF Written, Planned
<1>4. HeadDecides'
  BY DEF HeadDecides, Quiet
<1>5. Mendable'
  BY DEF Written, HeadDecides, Mendable, Quiet, Covered, Between, Planned
<1>6. Unharmed'
  BY DEF Written, HeadDecides, Mendable, Unharmed, Quiet, Sound, Complete, Between,
     Planned
<1> QED BY <1>2, <1>3, <1>4, <1>5, <1>6 DEF IInv

\* The files are the ones the transaction was planned from.
LEMMA StartApplyStep ==
  ASSUME IInv, StartApply
  PROVE  IInv'
<1> USE TypeFacts, TransactionFields DEF IInv, Places, Idle, StartApply, disk
<1>1. TypeOK'
  BY TypeHolds
<1>2. Written'
  BY DEF Written, Planned
<1>3. HeadDecides'
  BY DEF HeadDecides, Quiet
<1>4. Mendable'
  BY DEF Written, HeadDecides, Mendable, Quiet, Covered, Between, Planned
<1>5. Unharmed'
  BY DEF Written, HeadDecides, Mendable, Unharmed, Quiet, Sound, Complete, Between,
     Planned
<1> QED BY <1>1, <1>2, <1>3, <1>4, <1>5 DEF IInv

\* The transaction ends before it changed a file.
LEMMA AbandonStep ==
  ASSUME IInv, Abandon
  PROVE  IInv'
<1>1. /\ txn \in Transactions /\ txn.base \in Tree /\ txn.target \in Tree
      /\ left' \subseteq Transactions /\ left \subseteq left'
      /\ \A t \in left' : t \in left \/ SameMove(t, txn)
      /\ damage' \in {damage, damage \cup {"removal"}}
      /\ damage' \subseteq Damages /\ budget' \in Budgets
      /\ damage' = {} => left' = left
  BY RemovalLeaves, TypeFacts, TransactionFields DEF IInv, Abandon, Idle
<1> USE <1>1, TypeFacts DEF IInv, Places, Idle, Abandon, Goto, Refused, SameMove
<1>2. TypeOK'
  BY TypeHolds
<1>3. Written'
  BY DEF Written, Planned
<1>4. HeadDecides'
  BY DEF HeadDecides, Quiet
<1>5. Mendable'
  BY DEF Written, HeadDecides, Mendable, Quiet, Covered, Between, Planned
<1>6. Unharmed'
  BY DEF Written, HeadDecides, Mendable, Unharmed, Quiet, Sound, Complete, Between,
     Planned
<1> QED BY <1>2, <1>3, <1>4, <1>5, <1>6 DEF IInv

\* A file is replaced by the new one.
LEMMA ApplyFileStep ==
  ASSUME IInv, NEW p \in Path, ApplyFile(p)
  PROVE  IInv'
<1> USE TypeFacts, TransactionFields DEF IInv, Places, Idle, ApplyFile, Known,
        Tree
<1>1. TypeOK'
  BY TypeHolds
<1>2. Written'
  BY DEF Written, Planned
<1>3. HeadDecides'
  BY DEF HeadDecides, Quiet
<1>4. Mendable'
  BY DEF Written, HeadDecides, Mendable, Quiet, Covered, Between, Planned
<1>5. Unharmed'
  BY DEF Written, HeadDecides, Mendable, Unharmed, Quiet, Sound, Complete, Between,
     Planned
<1> QED BY <1>1, <1>2, <1>3, <1>4, <1>5 DEF IInv

\* The head follows when every file is new.
LEMMA PublishStep ==
  ASSUME IInv, Publish
  PROVE  IInv'
<1> USE TypeFacts, TransactionFields DEF IInv, Places, Idle, Publish
<1>1. TypeOK'
  BY TypeHolds
<1>2. Written'
  BY DEF Written, Planned
<1>3. HeadDecides'
  BY DEF HeadDecides, Quiet
<1>4. Mendable'
  BY DEF Written, HeadDecides, Mendable, Quiet, Covered, Between, Planned
<1>5. Unharmed'
  BY DEF Written, HeadDecides, Mendable, Unharmed, Quiet, Sound, Complete, Between,
     Planned
<1> QED BY <1>1, <1>2, <1>3, <1>4, <1>5 DEF IInv

\* The head follows but may not outlive the power.
LEMMA PublishUnsynchronizedStep ==
  ASSUME IInv, PublishUnsynchronized
  PROVE  IInv'
<1>1. /\ damage' = damage \cup {"sync"} /\ damage' \subseteq Damages /\ budget' \in Budgets
  BY FaultCounted DEF IInv, PublishUnsynchronized, Damages
<1> USE <1>1, TypeFacts, TransactionFields DEF IInv, Places, Idle,
        PublishUnsynchronized, Goto, Refused
<1>2. TypeOK'
  BY TypeHolds
<1>3. Written'
  BY DEF Written, Planned
<1>4. HeadDecides'
  BY DEF HeadDecides, Quiet
<1>5. Mendable'
  BY DEF Written, HeadDecides, Mendable, Quiet, Covered, Between, Planned
<1>6. Unharmed'
  BY DEF Written, HeadDecides, Mendable, Unharmed, Quiet, Sound, Complete, Between,
     Planned
<1> QED BY <1>2, <1>3, <1>4, <1>5, <1>6 DEF IInv

\* Every file that was replaced is to be put back.
LEMMA ApplyFailsStep ==
  ASSUME IInv, ApplyFails
  PROVE  IInv'
<1> USE TypeFacts, TransactionFields DEF IInv, Places, Idle, ApplyFails, disk,
        Tree
<1>1. TypeOK'
  BY TypeHolds
<1>2. Written'
  BY DEF Written, Planned
<1>3. HeadDecides'
  BY DEF HeadDecides, Quiet
<1>4. Mendable'
  BY DEF Written, HeadDecides, Mendable, Quiet, Covered, Between, Planned
<1>5. Unharmed'
  BY DEF Written, HeadDecides, Mendable, Unharmed, Quiet, Sound, Complete, Between,
     Planned
<1> QED BY <1>1, <1>2, <1>3, <1>4, <1>5 DEF IInv

\* The directory of a published transaction is removed, or left.
LEMMA CleanupStep ==
  ASSUME IInv, Cleanup
  PROVE  IInv'
<1>1. /\ txn \in Transactions /\ txn.base \in Tree /\ txn.target \in Tree
      /\ left' \subseteq Transactions /\ left \subseteq left'
      /\ \A t \in left' : t \in left \/ SameMove(t, txn)
      /\ damage' \in {damage, damage \cup {"removal"}}
      /\ damage' \subseteq Damages /\ budget' \in Budgets
      /\ damage' = {} => left' = left
  BY RemovalLeaves, TypeFacts, TransactionFields DEF IInv, Cleanup, Idle
<1> USE <1>1, TypeFacts DEF IInv, Places, Idle, Cleanup, Goto, SameMove
<1>2. TypeOK'
  BY TypeHolds
<1>3. Written'
  BY DEF Written, Planned
<1>4. HeadDecides'
  BY DEF HeadDecides, Quiet
<1>5. Mendable'
  BY DEF Written, HeadDecides, Mendable, Quiet, Covered, Between, Planned
<1>6. Unharmed'
  BY DEF Written, HeadDecides, Mendable, Unharmed, Quiet, Sound, Complete, Between,
     Planned
<1> QED BY <1>2, <1>3, <1>4, <1>5, <1>6 DEF IInv

\* A file is put back.
LEMMA RollbackFileStep ==
  ASSUME IInv, NEW p \in Path, RollbackFile(p)
  PROVE  IInv'
<1> USE TypeFacts, TransactionFields DEF IInv, Places, Idle, RollbackFile, Known,
        Tree
<1>1. TypeOK'
  BY TypeHolds
<1>2. Written'
  BY DEF Written, Planned
<1>3. HeadDecides'
  BY DEF HeadDecides, Quiet
<1>4. Mendable'
  BY DEF Written, HeadDecides, Mendable, Quiet, Covered, Between, Planned
<1>5. Unharmed'
  BY DEF Written, HeadDecides, Mendable, Unharmed, Quiet, Sound, Complete, Between,
     Planned
<1> QED BY <1>1, <1>2, <1>3, <1>4, <1>5 DEF IInv

\* The head is written as it was.
LEMMA RollbackHeadStep ==
  ASSUME IInv, RollbackHead
  PROVE  IInv'
<1> USE TypeFacts, TransactionFields DEF IInv, Places, Idle, RollbackHead, Tree
<1>1. TypeOK'
  BY TypeHolds
<1>2. Written'
  BY DEF Written, Planned
<1>3. HeadDecides'
  BY DEF HeadDecides, Quiet
<1>4. Mendable'
  BY DEF Written, HeadDecides, Mendable, Quiet, Covered, Between, Planned
<1>5. Unharmed'
  BY DEF Written, HeadDecides, Mendable, Unharmed, Quiet, Sound, Complete, Between,
     Planned
<1> QED BY <1>1, <1>2, <1>3, <1>4, <1>5 DEF IInv

\* The transaction is undone.
LEMMA RollbackEndsStep ==
  ASSUME IInv, RollbackEnds
  PROVE  IInv'
<1> USE TypeFacts, TransactionFields DEF IInv, Places, Idle, RollbackEnds, Goto,
        Refused, disk
<1>1. TypeOK'
  BY TypeHolds
<1>2. Written'
  BY DEF Written, Planned
<1>3. HeadDecides'
  BY DEF HeadDecides, Quiet
<1>4. Mendable'
  BY DEF Written, HeadDecides, Mendable, Quiet, Covered, Between, Planned
<1>5. Unharmed'
  BY DEF Written, HeadDecides, Mendable, Unharmed, Quiet, Sound, Complete, Between,
     Planned
<1> QED BY <1>1, <1>2, <1>3, <1>4, <1>5 DEF IInv

\* The rollback does not finish.
LEMMA RollbackFailsStep ==
  ASSUME IInv, RollbackFails
  PROVE  IInv'
<1>1. /\ damage' = damage \cup {"rollback"} /\ damage' \subseteq Damages /\ budget' \in Budgets
  BY FaultCounted DEF IInv, RollbackFails, Damages
<1>2. PICK t \in Transactions : left' = left \cup {t}
  BY TypeFacts, RemainsFields DEF IInv, RollbackFails, Idle
<1> USE <1>1, <1>2, TypeFacts, TransactionFields DEF IInv, Places, Idle,
        RollbackFails, Goto, Refused
<1>3. TypeOK'
  BY TypeHolds
<1>4. Written'
  BY DEF Written, Planned
<1>5. HeadDecides'
  BY DEF HeadDecides, Quiet
<1>6. Mendable'
  BY DEF Written, HeadDecides, Mendable, Quiet, Covered, Between, Planned
<1>7. Unharmed'
  BY DEF Written, HeadDecides, Mendable, Unharmed, Quiet, Sound, Complete, Between,
     Planned
<1> QED BY <1>3, <1>4, <1>5, <1>6, <1>7 DEF IInv

\* Another program writes a file.
LEMMA EditStep ==
  ASSUME IInv, NEW p \in Path, NEW v \in Value, Edit(p, v)
  PROVE  IInv'
<1>1. /\ files' = [files EXCEPT ![p] = v] /\ damage' = damage \cup {"edit"}
      /\ budget' \in Budgets /\ UNCHANGED <<head, headOnDisk, left, process, promised>>
  BY TypeFacts, BoundAssumption DEF IInv, Edit, Budgets
<1>2. files' \in Tree /\ damage' \subseteq Damages
  BY <1>1, TypeFacts DEF IInv, Tree, Damages
<1> USE DEF process
<1> USE <1>1, <1>2, TypeFacts DEF IInv, Places, Idle
<1>3. TypeOK'
  BY TypeHolds
<1>4. Written'
  BY DEF Written, Planned
<1>5. HeadDecides'
  BY DEF HeadDecides, Quiet
<1>6. Mendable'
  BY DEF Written, HeadDecides, Mendable, Quiet, Covered, Between, Planned
<1>7. Unharmed'
  BY DEF Written, HeadDecides, Mendable, Unharmed, Quiet, Sound, Complete, Between,
     Planned
<1> QED BY <1>3, <1>4, <1>5, <1>6, <1>7 DEF IInv

\* Nothing changes.
LEMMA StutterStep ==
  ASSUME IInv, UNCHANGED vars
  PROVE  IInv'
<1> USE TypeFacts, TransactionFields DEF IInv, Places, Idle, vars, disk, process
<1>1. TypeOK'
  BY TypeHolds
<1>2. Written'
  BY DEF Written, Planned
<1>3. HeadDecides'
  BY DEF HeadDecides, Quiet
<1>4. Mendable'
  BY DEF Written, HeadDecides, Mendable, Quiet, Covered, Between, Planned
<1>5. Unharmed'
  BY DEF Written, HeadDecides, Mendable, Unharmed, Quiet, Sound, Complete, Between,
     Planned
<1> QED BY <1>1, <1>2, <1>3, <1>4, <1>5 DEF IInv

\* The process dies, with the power or without: the directory it leaves covers
\* the files it had still to replace or had replaced.
LEMMA CrashStep ==
  ASSUME IInv, NEW power \in BOOLEAN, Crash(power)
  PROVE  IInv'
<1>1. /\ pc' = "closed" /\ txn' = None /\ todo' = {} /\ pc \notin {"closed", "refused"}
      /\ UNCHANGED <<to, files, promised, budget>>
      /\ head' \in {head, headOnDisk} /\ headOnDisk' \in {head, headOnDisk}
      /\ head = headOnDisk => headOnDisk' = head
  BY DEF Crash, Goto
<1>2. \/ /\ txn = None \/ pc \in {"restored", "cleanup", "undone"}
         /\ left' = left /\ damage' = damage
      \/ /\ txn \in Transactions
         /\ \E t \in Transactions :
              /\ left' = left \cup {t} /\ SameMove(t, txn) /\ damage \subseteq damage'
              /\ damage' \subseteq damage \cup {"manifest", "payload"}
              /\ pc \notin {"manifest", "restored", "cleanup", "undone"} => t = txn
              /\ Complete(t) => pc = "manifest" \/ t = txn
              /\ damage' = {} => t.manifest = "none" \/ Complete(t)
  <2>1. CASE (txn = None \/ Removing) /\ UNCHANGED <<left, damage>>
    BY <2>1 DEF Removing
  <2>2. ASSUME txn # None, NEW t \in Debris(power), left' = left \cup {t},
               damage' = damage \cup Harm(t)
        PROVE  /\ txn \in Transactions
               /\ \E u \in Transactions :
                    /\ left' = left \cup {u} /\ SameMove(u, txn) /\ damage \subseteq damage'
                    /\ damage' \subseteq damage \cup {"manifest", "payload"}
                    /\ pc \notin {"manifest", "restored", "cleanup", "undone"} => u = txn
                    /\ Complete(u) => pc = "manifest" \/ u = txn
                    /\ damage' = {} => u.manifest = "none" \/ Complete(u)
    BY <2>2, DebrisFields, TypeFacts DEF IInv, TypeOK
  <2> QED BY <2>1, <2>2 DEF Crash
<1>3. head' \in Tree /\ headOnDisk' \in Tree /\ left' \subseteq Transactions
  BY <1>1, <1>2, TypeFacts DEF IInv
<1>4. damage' \subseteq Damages
  BY <1>1, <1>2, TypeFacts DEF IInv, Damages
<1> USE <1>1, <1>2, TypeFacts, TransactionFields DEF IInv, Places, Idle, SameMove,
        Sound, Complete
<1>5. TypeOK'
  BY <1>1, <1>3, <1>4, TypeFacts, TypeHolds DEF IInv, Places, Idle
<1>6. Written'
  BY DEF Written, Planned
<1>7. HeadDecides'
  BY DEF HeadDecides, Quiet
<1>8. Mendable'
  BY DEF Written, HeadDecides, Mendable, Quiet, Covered, Between, Planned
<1>9. Unharmed'
  BY DEF Written, HeadDecides, Mendable, Unharmed, Quiet, Between, Planned
<1> QED BY <1>5, <1>6, <1>7, <1>8, <1>9 DEF IInv

\* A repository that has just been created.
LEMMA InitStep ==
  ASSUME Init
  PROVE  IInv
<1>1. files \in Tree /\ head = files /\ headOnDisk = files /\ promised = {head}
  BY DEF Init, Tree
<1>2. TypeOK
  BY <1>1, BoundAssumption DEF Init, TypeOK
<1> QED
  BY <1>1, <1>2 DEF Init, IInv, Written, HeadDecides, Mendable, Unharmed

\* The invariant holds in every behaviour of the specification.
THEOREM TransactionInvariant == Spec => []IInv
<1>1. Init => IInv
  BY InitStep
<1>2. ASSUME IInv, [Next]_vars
      PROVE  IInv'
  <2>1. CASE RecoveryStep
    BY <1>2, <2>1, RecoverUnpreparedStep, RecoverStep, RecoverRefusesStep,
       RestoreFileStep, RestoreHeadStep, RestoreEndsStep, RestoreRefusesStep, OpenedStep
    DEF RecoveryStep
  <2>2. CASE CommitStep
    BY <1>2, <2>2, WriteManifestStep, ManifestDurableStep, StartApplyStep, AbandonStep,
       ApplyFileStep, PublishStep, PublishUnsynchronizedStep, ApplyFailsStep, CleanupStep,
       RollbackFileStep, RollbackHeadStep, RollbackEndsStep, RollbackFailsStep
    DEF CommitStep
  <2> QED
    BY <1>2, <2>1, <2>2, OpenStep, AdoptStep, CommitStartStep, CrashStep, EditStep,
       StutterStep
    DEF Next
<1> QED BY <1>1, <1>2, PTL DEF Spec

\* Every variable has its type in every reachable state.
THEOREM TypeCorrect == Spec => []TypeOK
<1>1. IInv => TypeOK
  BY DEF IInv
<1> QED BY <1>1, TransactionInvariant, PTL

\* Whatever died or failed on the way, an open repository shows one revision
\* whole, and one that its callers expect (commitLocalWorkingTreeTransaction
\* and recoverLocalWorkingTreeTransactions), unless other programs wrote to it,
\* a rollback did not finish or a head was not synchronised.
THEOREM WholeTreeOrNothing == Spec => []AllOrNothing
<1>1. IInv => AllOrNothing
  BY DEF IInv, AllOrNothing, Quiet, HeadDecides, Mendable
<1> QED BY <1>1, TransactionInvariant, PTL

\* A repository is refused only if something went wrong besides the process
\* dying (recoverLocalWorkingTreeTransactions).
THEOREM OnlyDamageIsRefused == Spec => []RefusesOnlyDamage
<1>1. IInv => RefusesOnlyDamage
  BY DEF IInv, Unharmed, RefusesOnlyDamage
<1> QED BY <1>1, TransactionInvariant, PTL
=============================================================================
