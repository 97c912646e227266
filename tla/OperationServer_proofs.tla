----------------------- MODULE OperationServer_proofs -----------------------
(***************************************************************************)
(* Proofs about the server that runs content operations and agent          *)
(* proposals over one content store, for every set of operations and       *)
(* proposals, every set of contents and every bound on saves, faults and   *)
(* crashes: its types, that a change happens at most once, that every      *)
(* definite answer is the one true answer, that evidence outlives the      *)
(* power, and that nothing changes a content without consent.              *)
(*                                                                         *)
(* None of these is inductive.  An answer is true because of the call of   *)
(* the store it was made from (CallIsTrue), and stays true because every   *)
(* place that can still give an answer (the receipt a reader sees, the one *)
(* on the disk, the one in memory, a result on its way to its receipt, a   *)
(* query that has read one) holds the same one (Claims, OneTruth).  A      *)
(* receipt that is lost with the power was not acted on, because the       *)
(* intent and the marker that it is prepared were on the disk before the   *)
(* store was called (Untouched, Evidence, Executing).  For a proposal the  *)
(* same holds of its ledger entry (Agrees, Committing).                    *)
(*                                                                         *)
(* Every action belongs to one operation or proposal, so each is proved    *)
(* about the values at that one (a lemma ...Step), and frame lemmas carry  *)
(* the invariant for all the others (OnlyAt, OnlyOf).                      *)
(***************************************************************************)
EXTENDS OperationServer, FiniteSetTheorems, TLAPS

\* The outcomes that say what happened (the others are indeterminate).
Definite == {"committed", "conflict", "failed"}

\* The change of an actor happened, and no power loss can take it back.
Stays(a) == effects[a] = 1 /\ a \notin lost /\ a \notin unsynced

\* What a status says of the change: committed says that it happened and stays,
\* a refusal that it did not happen.
IsTrue(a, status) ==
  /\ status = "committed" => Stays(a)
  /\ status \in {"conflict", "stale", "failed", "rejected"} => effects[a] = 0

\* What the store says of a call: a change happens once, while its call goes
\* from pending to applied, and is on the disk when the call is committed.
CallIsTrue(a) ==
  /\ effects[a] \in {0, 1}
  /\ effects[a] = 0 => a \notin lost /\ a \notin unsynced
  /\ call[a].status \in {"pending", "unchanged", "conflict", "failed"} => effects[a] = 0
  /\ call[a].status \in {"applied", "committed"} => effects[a] = 1 /\ a \notin lost
  /\ call[a].status = "committed" => a \notin unsynced

\* Every definite answer an operation was given or may still be given without a
\* new execution: to its caller, from the receipt in the file, on the disk or
\* in memory, from a result on its way to the receipt, from a query that has
\* read one.
Claims(o) ==
  {a \in Answers :
     /\ a.status \in Definite
     /\ \/ a \in told[o]
        \/ receipt[o] # None /\ a = Projected(receipt[o])
        \/ kept[o] # None /\ a = Projected(kept[o])
        \/ known[o] # None /\ a = Projected(known[o])
        \/ run[o].pc \in {"save", "audit", "close"} /\ a = Projected(run[o].result)
        \/ query[o].pc = "seen" /\ a = Projected(query[o].receipt)}

\* There is one such answer, and it is true.
OneTruth(o) ==
  /\ \A a, b \in Claims(o) : a = b
  /\ \A a \in Claims(o) : IsTrue(o, a.status)

\* Without a receipt in the file nothing has begun.
Untouched(o) ==
  receipt[o] = None =>
    /\ kept[o] = None /\ known[o] = None /\ told[o] = {}
    /\ query[o].pc # "seen" /\ run[o].pc \in {"idle", "read", "admit", "reserve"}

\* Without a receipt on the disk nothing happened and nothing was answered; a
\* change that happened has a prepared receipt, in the file and on the disk.
Evidence(o) ==
  /\ kept[o] = None => Claims(o) = {} /\ effects[o] = 0
  /\ effects[o] = 1 => kept[o].prepared /\ receipt[o].prepared

\* What a place in the execution of an operation (#run) knows: before the
\* reservation there is no receipt; until the commit the receipt is pending and
\* on the disk, and nothing was answered; the store has a call exactly during
\* the commit; a result that changed something is prepared.
Executing(o) ==
  /\ run[o].pc \in {"admit", "reserve"} => receipt[o] = None
  /\ run[o].pc \in {"load", "prepare", "commit"} =>
       /\ receipt[o] = kept[o] /\ receipt[o] # None /\ receipt[o].status = "pending"
       /\ known[o] = None /\ told[o] = {} /\ Claims(o) = {}
  /\ run[o].pc \in {"load", "prepare"} => effects[o] = 0
  /\ run[o].pc = "commit" <=> call[o] # store!Idle
  /\ run[o].pc = "commit" => receipt[o].prepared
  /\ run[o].pc \in {"save", "audit", "close"} =>
       /\ kept[o] # None
       /\ effects[o] = 1 => run[o].result.prepared

\* The invariant of one operation.
OperationInv(o) == OneTruth(o) /\ Untouched(o) /\ Evidence(o) /\ Executing(o)

\* What the status of a proposal says is true of its consents and its change,
\* and so is its entry in the ledger, as a reader sees it and as it is on the
\* disk.
Agrees(p) ==
  /\ proposal[p] # None =>
       /\ IsTrue(p, proposal[p].status)
       /\ proposal[p].status = "pending" => consent[p] = {}
       /\ proposal[p].status = "awaiting-destructive-confirmation" => consent[p] = {"approve"}
       /\ proposal[p].status = "approved" => Consented(p)
       /\ proposal[p].status \in {"pending", "awaiting-destructive-confirmation"} => effects[p] = 0
       /\ proposal[p].status = "approved" /\ commit[p] \in {"idle", "begin", "execute"} =>
            effects[p] = 0
  /\ entry[p] # None => IsTrue(p, entry[p])
  /\ entryKept[p] # None => IsTrue(p, entryKept[p])

\* What a place in the commit of a proposal knows: it was approved; the store
\* is called after its entry was recorded as pending on the disk; a result is
\* true.
Committing(p) ==
  /\ commit[p] # "idle" => proposal[p] # None /\ proposal[p].status = "approved"
  /\ commit[p] \in {"execute", "store"} => entry[p] = "pending" /\ entryKept[p] = "pending"
  /\ commit[p] = "store" <=> call[p] # store!Idle
  /\ commit[p] \in Results => IsTrue(p, commit[p])

\* The invariant of one proposal.
ProposalInv(p) == Agrees(p) /\ Committing(p)

\* The inductive invariant.
IInv ==
  /\ TypeOK
  /\ \A a \in Actor : CallIsTrue(a)
  /\ \A o \in Operation : OperationInv(o)
  /\ \A p \in Proposal : ProposalInv(p)

-----------------------------------------------------------------------------

\* What the execution of an operation consists of in each of its places.
LEMMA RunFields ==
  ASSUME NEW r \in {Idle} \cup Runs \cup Endings
  PROVE  /\ r.pc \in {"idle", "read", "admit", "reserve", "load", "prepare", "commit",
                      "save", "audit", "close"}
         /\ r.pc = "idle" <=> r = Idle
         /\ r.pc \in {"read", "admit", "reserve", "load", "prepare", "commit"} =>
              r \in Runs /\ r.base \in Contents
         /\ r.pc \in {"save", "audit", "close"} =>
              r \in Endings /\ r.result \in Receipts
  BY DEF Idle, Runs, Endings

\* An execution that moves on keeps its base.
LEMMA RunMoves ==
  ASSUME NEW r \in Runs, NEW pc \in {"read", "admit", "reserve", "load", "prepare", "commit"}
  PROVE  [r EXCEPT !.pc = pc] \in Runs /\ [r EXCEPT !.pc = pc].pc = pc
  BY DEF Runs

\* An execution whose result was saved keeps its result.
LEMMA EndingMoves ==
  ASSUME NEW r \in Endings
  PROVE  LET n == [r EXCEPT !.pc = "audit"] IN
           n \in Endings /\ n.pc = "audit" /\ n.result = r.result
  BY DEF Endings

\* What a query consists of in each of its places.
LEMMA QueryFields ==
  ASSUME NEW q \in {Idle} \cup Queries
  PROVE  /\ q.pc \in {"idle", "asked", "seen"}
         /\ q.pc = "seen" => q.receipt \in Receipts
  BY DEF Idle, Queries

\* What a receipt consists of; a definite answer from it is its status.
LEMMA ReceiptFields ==
  ASSUME NEW r \in Receipts
  PROVE  /\ r # None /\ r.base \in Contents /\ r.prepared \in BOOLEAN
         /\ r.status \in {"pending"} \cup Outcomes
         /\ Projected(r) \in Answers
         /\ Projected(r).status \in Definite => r.status = Projected(r).status
  BY ReceiptAssumption DEF Receipts, Projected, Answers, Outcomes, Definite

\* A receipt answers the same whatever became of its audit.
LEMMA AuditedReceipt ==
  ASSUME NEW r \in Receipts, NEW a \in {"pending", "recorded", "failed"}
  PROVE  LET n == [r EXCEPT !.audit = a] IN
           n \in Receipts /\ Projected(n) = Projected(r) /\ n.prepared = r.prepared
  BY DEF Receipts, Projected

\* A receipt that is marked as prepared keeps its status.
LEMMA PreparedReceipt ==
  ASSUME NEW r \in Receipts
  PROVE  LET n == [r EXCEPT !.prepared = TRUE] IN
           n \in Receipts /\ n.status = r.status /\ n.prepared
  BY DEF Receipts

\* A step that leaves an operation alone, and takes no change of it back, keeps
\* its invariant.
LEMMA OperationFrame ==
  ASSUME NEW o \in Operation, OperationInv(o),
         receipt'[o] = receipt[o], kept'[o] = kept[o], known'[o] = known[o],
         run'[o] = run[o], query'[o] = query[o], told'[o] = told[o],
         call'[o] = call[o], effects'[o] = effects[o],
         o \in lost' => o \in lost, o \in unsynced' => o \in unsynced
  PROVE  OperationInv(o)'
  BY DEF OperationInv, OneTruth, Claims, IsTrue, Stays, Untouched, Evidence, Executing

\* A step that leaves a proposal alone keeps its invariant; its entry may be
\* forgotten while it is not committing, and may reach the disk.
LEMMA ProposalFrame ==
  ASSUME NEW p \in Proposal, ProposalInv(p),
         proposal'[p] = proposal[p], commit'[p] = commit[p], consent'[p] = consent[p],
         entry'[p] = entry[p] \/ (entry'[p] = None /\ commit[p] = "idle"),
         entryKept'[p] = entryKept[p] \/ entryKept'[p] = entry'[p],
         call'[p] = call[p], effects'[p] = effects[p],
         p \in lost' => p \in lost, p \in unsynced' => p \in unsynced
  PROVE  ProposalInv(p)'
  BY DEF ProposalInv, Agrees, Committing, IsTrue, Stays, Consented

\* A step that leaves a call alone keeps what the store says of it.
LEMMA CallFrame ==
  ASSUME NEW a \in Actor, CallIsTrue(a),
         call'[a] = call[a], effects'[a] = effects[a],
         a \in lost' => a \in lost, a \in unsynced' => a \in unsynced
  PROVE  CallIsTrue(a)'
  BY DEF CallIsTrue

\* The step changes the records of one operation only.
OnlyAt(o) ==
  /\ receipt' = [receipt EXCEPT ![o] = receipt'[o]]
  /\ kept' = [kept EXCEPT ![o] = kept'[o]]
  /\ known' = [known EXCEPT ![o] = known'[o]]
  /\ run' = [run EXCEPT ![o] = run'[o]]
  /\ query' = [query EXCEPT ![o] = query'[o]]
  /\ told' = [told EXCEPT ![o] = told'[o]]
  /\ audited' \subseteq Operation

\* Such a step keeps the types if the new values have theirs.
LEMMA OperationTypes ==
  ASSUME OperationTypeOK, NEW o \in Operation, OnlyAt(o),
         receipt'[o] \in Receipts \cup {None}, kept'[o] \in Receipts \cup {None},
         known'[o] \in Receipts \cup {None}, run'[o] \in {Idle} \cup Runs \cup Endings,
         query'[o] \in {Idle} \cup Queries, told'[o] \subseteq Answers
  PROVE  OperationTypeOK'
  BY DEF OperationTypeOK, OnlyAt

\* The step changes the records of one proposal only; the ledger is one file,
\* so of the others an entry may be forgotten or reach the disk.
OnlyOf(p) ==
  /\ proposal' = [proposal EXCEPT ![p] = proposal'[p]]
  /\ commit' = [commit EXCEPT ![p] = commit'[p]]
  /\ consent' = [consent EXCEPT ![p] = consent'[p]]
  /\ \A q \in Proposal \ {p} :
       /\ entry'[q] = entry[q] \/ (entry'[q] = None /\ commit[q] = "idle")
       /\ entryKept'[q] = entryKept[q] \/ entryKept'[q] = entry'[q]

\* Such a step keeps the types if the new values have theirs.
LEMMA ProposalTypes ==
  ASSUME ProposalTypeOK, NEW p \in Proposal, OnlyOf(p),
         proposal'[p] \in Staged \cup {None},
         commit'[p] \in {"idle", "begin", "execute", "store", "revoke"} \cup Results,
         consent'[p] \subseteq {"approve", "confirm", "reject"},
         entry' \in [Proposal -> Entries], entryKept' \in [Proposal -> Entries]
  PROVE  ProposalTypeOK'
  BY DEF ProposalTypeOK, OnlyOf

\* What a proposal consists of.
LEMMA StagedFields ==
  ASSUME NEW r \in Staged
  PROVE  /\ r # None /\ r.base \in Contents /\ r.next \in Contents
         /\ r.destructive \in BOOLEAN /\ r.status \in Statuses
  BY StatusAssumption DEF Staged

\* A proposal gets a new status and keeps the rest.
LEMMA PutChanges ==
  ASSUME ProposalTypeOK, NEW p \in Proposal, proposal[p] # None,
         NEW s \in Statuses, Put(p, s)
  PROVE  /\ proposal' = [proposal EXCEPT ![p] = proposal'[p]]
         /\ proposal'[p] \in Staged /\ proposal'[p] # None
         /\ proposal'[p].status = s
         /\ proposal'[p].destructive = proposal[p].destructive
<1>1. proposal[p] \in Staged /\ proposal \in [Proposal -> Staged \cup {None}]
  BY DEF ProposalTypeOK
<1> DEFINE n == [proposal[p] EXCEPT !.status = s]
<1>2. /\ n \in Staged /\ n.status = s /\ n.destructive = proposal[p].destructive
      /\ proposal' = [proposal EXCEPT ![p] = n]
  BY <1>1 DEF Staged, Put
<1> HIDE DEF n
<1> QED BY <1>1, <1>2, StagedFields

\* What a write of the ledger leaves, whether it succeeds or not: each entry is
\* the old one or the new one, and what is on the disk was there or is what a
\* reader sees.
LEMMA LedgerLeft ==
  ASSUME ProposalTypeOK, NEW e \in [Proposal -> Entries],
         LedgerWritten(e) \/ LedgerFails(e)
  PROVE  /\ entry' \in [Proposal -> Entries] /\ entryKept' \in [Proposal -> Entries]
         /\ \A q \in Proposal :
              /\ entry'[q] \in {entry[q], e[q]}
              /\ entryKept'[q] \in {entryKept[q], entry'[q]}
  BY DEF ProposalTypeOK, LedgerWritten, LedgerFails, Fault

\* The place of an operation that is not executed.
LEMMA IdleFields == Idle.pc = "idle"
  BY DEF Idle

\* A caller starts an operation, or is answered from memory.
LEMMA CallStep ==
  ASSUME IInv, NEW o \in Operation, NEW base \in Contents, Call(o, base)
  PROVE  OperationTypeOK' /\ OnlyAt(o) /\ OperationInv(o)'
<1>1. /\ OperationTypeOK /\ OperationInv(o)
      /\ run[o] \in {Idle} \cup Runs \cup Endings
      /\ query[o] \in {Idle} \cup Queries
      /\ receipt[o] \in Receipts \cup {None}
      /\ kept[o] \in Receipts \cup {None}
      /\ known[o] \in Receipts \cup {None} /\ told[o] \subseteq Answers
  BY DEF IInv, TypeOK, OperationTypeOK
<1>2. UNCHANGED traces /\ UNCHANGED call
  BY DEF Call, served, stored, InFlight, Runs
<1>3. OnlyAt(o)
  BY <1>1 DEF Call, OperationTypeOK, TellSame, Tell, Go, OnlyAt, InFlight, Runs
<1>4. /\ run[o].pc = "idle" /\ receipt'[o] = receipt[o] /\ kept'[o] = kept[o]
      /\ known'[o] = known[o] /\ query'[o] = query[o]
      /\ \/ /\ known[o] # None /\ run'[o] = run[o]
            /\ told'[o] = told[o] \/ told'[o] = told[o] \cup {Projected(known[o])}
         \/ known[o] = None /\ run'[o] \in Runs /\ run'[o].pc = "read" /\ told'[o] = told[o]
  BY <1>1, RunFields, QueryFields DEF Call, OperationTypeOK, TellSame, Tell, Go,
     InFlight, Runs
<1>5. OperationTypeOK'
  BY <1>1, <1>3, <1>4, OperationTypes, ReceiptFields, RunFields, QueryFields
<1>6. Claims(o)' \subseteq Claims(o)
  BY <1>1, <1>4, RunFields, QueryFields, IdleFields
     DEF Claims, OperationInv, Untouched, Executing
<1>7. OneTruth(o)'
  BY <1>1, <1>2, <1>6 DEF OperationInv, OneTruth, IsTrue, Stays, traces
<1>8. Untouched(o)'
  BY <1>1, <1>4, RunFields, QueryFields, ReceiptFields, IdleFields DEF OperationInv,
     Untouched, Executing
<1>9. Evidence(o)'
  BY <1>1, <1>2, <1>4, <1>6, ReceiptFields DEF OperationInv, Evidence, Untouched,
     Executing, traces
<1>10. Executing(o)'
  BY <1>1, <1>2, <1>4, <1>6, RunFields, IdleFields, ReceiptFields DEF OperationInv,
     Untouched, Evidence, Executing, traces
<1> QED BY <1>3, <1>5, <1>7, <1>8, <1>9, <1>10 DEF OperationInv

\* The receipt in the file answers a repeated call.
LEMMA ReadReceiptStep ==
  ASSUME IInv, NEW o \in Operation, ReadReceipt(o)
  PROVE  OperationTypeOK' /\ OnlyAt(o) /\ OperationInv(o)'
<1>1. /\ OperationTypeOK /\ OperationInv(o)
      /\ run[o] \in {Idle} \cup Runs \cup Endings
      /\ query[o] \in {Idle} \cup Queries
      /\ receipt[o] \in Receipts \cup {None}
      /\ kept[o] \in Receipts \cup {None}
      /\ known[o] \in Receipts \cup {None} /\ told[o] \subseteq Answers
  BY DEF IInv, TypeOK, OperationTypeOK
<1>2. UNCHANGED traces /\ UNCHANGED call
  BY DEF ReadReceipt, served, stored
<1>3. OnlyAt(o)
  BY <1>1 DEF ReadReceipt, OperationTypeOK, TellSame, Tell, Go, OnlyAt
<1>a. [run[o] EXCEPT !.pc = "admit"] \in Runs /\ [run[o] EXCEPT !.pc = "admit"].pc = "admit"
  BY <1>1, RunFields, RunMoves DEF ReadReceipt
<1>4. /\ run[o].pc = "read" /\ receipt'[o] = receipt[o] /\ kept'[o] = kept[o]
      /\ known'[o] = known[o] /\ query'[o] = query[o]
      /\ \/ /\ receipt[o] # None /\ run'[o] = Idle
            /\ told'[o] = told[o] \/ told'[o] = told[o] \cup {Projected(receipt[o])}
         \/ receipt[o] = None /\ run'[o] \in Runs /\ run'[o].pc = "admit" /\ told'[o] = told[o]
  BY <1>1, <1>a, RunFields, QueryFields DEF ReadReceipt, OperationTypeOK, TellSame,
     Tell, Go
<1>5. OperationTypeOK'
  BY <1>1, <1>3, <1>4, OperationTypes, ReceiptFields, RunFields, QueryFields
<1>6. Claims(o)' \subseteq Claims(o)
  BY <1>1, <1>4, RunFields, QueryFields, IdleFields
     DEF Claims, OperationInv, Untouched, Executing
<1>7. OneTruth(o)'
  BY <1>1, <1>2, <1>6 DEF OperationInv, OneTruth, IsTrue, Stays, traces
<1>8. Untouched(o)'
  BY <1>1, <1>4, RunFields, QueryFields, ReceiptFields, IdleFields DEF OperationInv,
     Untouched, Executing
<1>9. Evidence(o)'
  BY <1>1, <1>2, <1>4, <1>6, ReceiptFields DEF OperationInv, Evidence, Untouched,
     Executing, traces
<1>10. Executing(o)'
  BY <1>1, <1>2, <1>4, <1>6, RunFields, IdleFields, ReceiptFields DEF OperationInv,
     Untouched, Evidence, Executing, traces
<1> QED BY <1>3, <1>5, <1>7, <1>8, <1>9, <1>10 DEF OperationInv

\* The admission refuses an operation or lets it pass.
LEMMA AdmitStep ==
  ASSUME IInv, NEW o \in Operation, Admit(o)
  PROVE  OperationTypeOK' /\ OnlyAt(o) /\ OperationInv(o)'
<1>1. /\ OperationTypeOK /\ OperationInv(o)
      /\ run[o] \in {Idle} \cup Runs \cup Endings
      /\ query[o] \in {Idle} \cup Queries
      /\ receipt[o] \in Receipts \cup {None}
      /\ kept[o] \in Receipts \cup {None}
      /\ known[o] \in Receipts \cup {None} /\ told[o] \subseteq Answers
  BY DEF IInv, TypeOK, OperationTypeOK
<1>2. UNCHANGED traces /\ UNCHANGED call
  BY DEF Admit, served, stored
<1>3. OnlyAt(o)
  BY <1>1 DEF Admit, OperationTypeOK, TellSame, Tell, Go, OnlyAt
<1>a. [run[o] EXCEPT !.pc = "reserve"] \in Runs /\ [run[o] EXCEPT !.pc = "reserve"].pc = "reserve"
  BY <1>1, RunFields, RunMoves DEF Admit
<1>4. /\ run[o].pc = "admit" /\ receipt'[o] = receipt[o] /\ kept'[o] = kept[o]
      /\ known'[o] = known[o] /\ query'[o] = query[o] /\ told'[o] = told[o]
      /\ run'[o] = Idle \/ (run'[o] \in Runs /\ run'[o].pc = "reserve")
  BY <1>1, <1>a, RunFields, QueryFields DEF Admit, OperationTypeOK, TellSame, Tell, Go
<1>5. OperationTypeOK'
  BY <1>1, <1>3, <1>4, OperationTypes, ReceiptFields, RunFields, QueryFields
<1>6. Claims(o)' \subseteq Claims(o)
  BY <1>1, <1>4, RunFields, QueryFields, IdleFields
     DEF Claims, OperationInv, Untouched, Executing
<1>7. OneTruth(o)'
  BY <1>1, <1>2, <1>6 DEF OperationInv, OneTruth, IsTrue, Stays, traces
<1>8. Untouched(o)'
  BY <1>1, <1>4, RunFields, QueryFields, ReceiptFields, IdleFields DEF OperationInv,
     Untouched, Executing
<1>9. Evidence(o)'
  BY <1>1, <1>2, <1>4, <1>6, ReceiptFields DEF OperationInv, Evidence, Untouched,
     Executing, traces
<1>10. Executing(o)'
  BY <1>1, <1>2, <1>4, <1>6, RunFields, IdleFields, ReceiptFields DEF OperationInv,
     Untouched, Evidence, Executing, traces
<1> QED BY <1>3, <1>5, <1>7, <1>8, <1>9, <1>10 DEF OperationInv

\* The intent is written before anything else: on the disk it starts an
\* execution, after a fault it may be in the file.
LEMMA ReserveStep ==
  ASSUME IInv, NEW o \in Operation, Reserve(o)
  PROVE  OperationTypeOK' /\ OnlyAt(o) /\ OperationInv(o)'
<1>1. /\ OperationTypeOK /\ OperationInv(o)
      /\ run[o] \in {Idle} \cup Runs \cup Endings
      /\ query[o] \in {Idle} \cup Queries
      /\ receipt[o] \in Receipts \cup {None}
      /\ kept[o] \in Receipts \cup {None}
      /\ known[o] \in Receipts \cup {None} /\ told[o] \subseteq Answers
  BY DEF IInv, TypeOK, OperationTypeOK
<1>2. UNCHANGED traces /\ UNCHANGED call
  BY DEF Reserve, served, stored, Written, WriteFails, Fault
<1>3. OnlyAt(o)
  BY <1>1 DEF Reserve, OperationTypeOK, TellSame, Tell, Go, OnlyAt, Written,
     WriteFails, Fault
<1> DEFINE intent == [base |-> run[o].base, status |-> "pending",
                      prepared |-> FALSE, audit |-> "pending"]
<1>a. intent \in Receipts /\ intent.status = "pending"
  BY <1>1, RunFields DEF Reserve, Receipts
<1>b. [run[o] EXCEPT !.pc = "load"] \in Runs /\ [run[o] EXCEPT !.pc = "load"].pc = "load"
  BY <1>1, RunFields, RunMoves DEF Reserve
<1>c. receipt[o] = None
  BY <1>1 DEF Reserve, OperationInv, Executing
<1>d. /\ run[o].pc = "reserve" /\ UNCHANGED <<known, query, told>>
      /\ \/ Written(o, intent) /\ Go(o, [run[o] EXCEPT !.pc = "load"])
         \/ WriteFails(o, intent) /\ Go(o, Idle)
  BY <1>c DEF Reserve
<1> HIDE DEF intent
<1>e. ASSUME Written(o, intent), Go(o, [run[o] EXCEPT !.pc = "load"])
      PROVE  /\ receipt'[o] = intent /\ kept'[o] = intent
             /\ run'[o] \in Runs /\ run'[o].pc = "load"
  <2>1. receipt'[o] = intent /\ kept'[o] = intent
    BY <1>1, <1>e DEF Written, OperationTypeOK
  <2>2. run'[o] \in Runs /\ run'[o].pc = "load"
    BY <1>1, <1>b, <1>e DEF Go, OperationTypeOK
  <2> QED BY <2>1, <2>2
<1>f. ASSUME WriteFails(o, intent), Go(o, Idle)
      PROVE  /\ receipt'[o] \in {receipt[o], intent} /\ kept'[o] = kept[o]
             /\ run'[o] = Idle
  <2>1. receipt'[o] \in {receipt[o], intent} /\ kept'[o] = kept[o]
    BY <1>1, <1>f DEF WriteFails, OperationTypeOK
  <2>2. run'[o] = Idle
    BY <1>1, <1>f DEF Go, OperationTypeOK
  <2> QED BY <2>1, <2>2
<1>4. /\ run[o].pc = "reserve" /\ known'[o] = known[o] /\ query'[o] = query[o]
      /\ told'[o] = told[o]
      /\ \/ /\ receipt'[o] \in Receipts /\ receipt'[o].status = "pending" /\ kept'[o] = receipt'[o]
            /\ run'[o] \in Runs /\ run'[o].pc = "load"
         \/ /\ receipt'[o] = receipt[o] \/ (receipt'[o] \in Receipts /\ receipt'[o].status = "pending")
            /\ kept'[o] = kept[o] /\ run'[o] = Idle
  BY <1>1, <1>a, <1>c, <1>d, <1>e, <1>f, RunFields, QueryFields DEF OperationTypeOK
<1>5. OperationTypeOK'
  BY <1>1, <1>3, <1>4, OperationTypes, ReceiptFields, RunFields, QueryFields
<1>6. Claims(o)' \subseteq Claims(o)
  BY <1>1, <1>4, ReceiptFields, RunFields, QueryFields, IdleFields
     DEF Claims, OperationInv, Untouched, Executing, Definite
<1>7. OneTruth(o)'
  BY <1>1, <1>2, <1>6 DEF OperationInv, OneTruth, IsTrue, Stays, traces
<1>8. Untouched(o)'
  BY <1>1, <1>4, RunFields, QueryFields, ReceiptFields, IdleFields DEF OperationInv,
     Untouched, Executing
<1>9. Evidence(o)'
  BY <1>1, <1>2, <1>4, <1>6, ReceiptFields DEF OperationInv, Evidence, Untouched,
     Executing, traces
<1>10. Executing(o)'
  BY <1>1, <1>2, <1>4, <1>6, RunFields, IdleFields, ReceiptFields DEF OperationInv,
     Untouched, Evidence, Executing, traces
<1> QED BY <1>3, <1>5, <1>7, <1>8, <1>9, <1>10 DEF OperationInv

\* A query reads the receipt.
LEMMA LookStep ==
  ASSUME IInv, NEW o \in Operation, Look(o)
  PROVE  OperationTypeOK' /\ OnlyAt(o) /\ OperationInv(o)'
<1>1. /\ OperationTypeOK /\ OperationInv(o)
      /\ run[o] \in {Idle} \cup Runs \cup Endings
      /\ query[o] \in {Idle} \cup Queries
      /\ receipt[o] \in Receipts \cup {None}
      /\ kept[o] \in Receipts \cup {None}
      /\ known[o] \in Receipts \cup {None} /\ told[o] \subseteq Answers
  BY DEF IInv, TypeOK, OperationTypeOK
<1>2. UNCHANGED traces /\ UNCHANGED call
  BY DEF Look, served, stored, Queries
<1>3. OnlyAt(o)
  BY <1>1 DEF Look, OperationTypeOK, TellSame, Tell, Go, OnlyAt, Queries
<1>4. /\ query[o].pc = "asked" /\ receipt'[o] = receipt[o] /\ kept'[o] = kept[o]
      /\ known'[o] = known[o] /\ run'[o] = run[o] /\ told'[o] = told[o]
      /\ \/ query'[o] = Idle
         \/ /\ receipt[o] # None /\ query'[o] \in Queries /\ query'[o].pc = "seen"
            /\ query'[o].receipt = receipt[o]
  BY <1>1, RunFields, QueryFields DEF Look, OperationTypeOK, TellSame, Tell, Go, Queries
<1>5. OperationTypeOK'
  BY <1>1, <1>3, <1>4, OperationTypes, ReceiptFields, RunFields, QueryFields
<1>6. Claims(o)' \subseteq Claims(o)
  BY <1>1, <1>4, RunFields, QueryFields, IdleFields
     DEF Claims, OperationInv, Untouched, Executing
<1>7. OneTruth(o)'
  BY <1>1, <1>2, <1>6 DEF OperationInv, OneTruth, IsTrue, Stays, traces
<1>8. Untouched(o)'
  BY <1>1, <1>4, RunFields, QueryFields, ReceiptFields, IdleFields DEF OperationInv,
     Untouched, Executing
<1>9. Evidence(o)'
  BY <1>1, <1>2, <1>4, <1>6, ReceiptFields DEF OperationInv, Evidence, Untouched,
     Executing, traces
<1>10. Executing(o)'
  BY <1>1, <1>2, <1>4, <1>6, RunFields, IdleFields, ReceiptFields DEF OperationInv,
     Untouched, Evidence, Executing, traces
<1> QED BY <1>3, <1>5, <1>7, <1>8, <1>9, <1>10 DEF OperationInv

\* A query starts, or is answered from memory.
LEMMA AskStep ==
  ASSUME IInv, NEW o \in Operation, Ask(o)
  PROVE  OperationTypeOK' /\ OnlyAt(o) /\ OperationInv(o)'
<1>1. /\ OperationTypeOK /\ OperationInv(o)
      /\ run[o] \in {Idle} \cup Runs \cup Endings
      /\ query[o] \in {Idle} \cup Queries
      /\ receipt[o] \in Receipts \cup {None}
      /\ kept[o] \in Receipts \cup {None}
      /\ known[o] \in Receipts \cup {None} /\ told[o] \subseteq Answers
  BY DEF IInv, TypeOK, OperationTypeOK
<1>2. UNCHANGED traces /\ UNCHANGED call
  BY DEF Ask, served, stored, Queries
<1>3. OnlyAt(o)
  BY <1>1 DEF Ask, OperationTypeOK, TellSame, Tell, Go, OnlyAt, Queries
<1>4. /\ query[o] = Idle /\ receipt'[o] = receipt[o] /\ kept'[o] = kept[o]
      /\ known'[o] = known[o] /\ run'[o] = run[o]
      /\ \/ known[o] # None /\ told'[o] = told[o] \cup {Projected(known[o])} /\ query'[o] = query[o]
         \/ told'[o] = told[o] /\ query'[o] \in Queries /\ query'[o].pc = "asked"
  BY <1>1, RunFields, QueryFields DEF Ask, OperationTypeOK, TellSame, Tell, Go, Queries
<1>5. OperationTypeOK'
  BY <1>1, <1>3, <1>4, OperationTypes, ReceiptFields, RunFields, QueryFields
<1>6. Claims(o)' \subseteq Claims(o)
  BY <1>1, <1>4, RunFields, QueryFields, IdleFields
     DEF Claims, OperationInv, Untouched, Executing
<1>7. OneTruth(o)'
  BY <1>1, <1>2, <1>6 DEF OperationInv, OneTruth, IsTrue, Stays, traces
<1>8. Untouched(o)'
  BY <1>1, <1>4, RunFields, QueryFields, ReceiptFields, IdleFields DEF OperationInv,
     Untouched, Executing
<1>9. Evidence(o)'
  BY <1>1, <1>2, <1>4, <1>6, ReceiptFields DEF OperationInv, Evidence, Untouched,
     Executing, traces
<1>10. Executing(o)'
  BY <1>1, <1>2, <1>4, <1>6, RunFields, IdleFields, ReceiptFields DEF OperationInv,
     Untouched, Evidence, Executing, traces
<1> QED BY <1>3, <1>5, <1>7, <1>8, <1>9, <1>10 DEF OperationInv

\* A query answers with the receipt it has read, unless an execution is under
\* way.
LEMMA ReplyStep ==
  ASSUME IInv, NEW o \in Operation, Reply(o)
  PROVE  OperationTypeOK' /\ OnlyAt(o) /\ OperationInv(o)'
<1>1. /\ OperationTypeOK /\ OperationInv(o)
      /\ run[o] \in {Idle} \cup Runs \cup Endings
      /\ query[o] \in {Idle} \cup Queries
      /\ receipt[o] \in Receipts \cup {None}
      /\ kept[o] \in Receipts \cup {None}
      /\ known[o] \in Receipts \cup {None} /\ told[o] \subseteq Answers
  BY DEF IInv, TypeOK, OperationTypeOK
<1>2. UNCHANGED traces /\ UNCHANGED call
  BY DEF Reply, served, stored, InFlight
<1>3. OnlyAt(o)
  BY <1>1 DEF Reply, OperationTypeOK, TellSame, Tell, Go, OnlyAt, InFlight
<1>4. /\ query[o].pc = "seen" /\ receipt'[o] = receipt[o] /\ kept'[o] = kept[o]
      /\ known'[o] = known[o] /\ run'[o] = run[o] /\ query'[o] = Idle
      /\ \/ told'[o] = told[o]
         \/ run[o] = Idle /\ told'[o] = told[o] \cup {Projected(query[o].receipt)}
  BY <1>1, RunFields, QueryFields DEF Reply, OperationTypeOK, TellSame, Tell, Go, InFlight
<1>5. OperationTypeOK'
  BY <1>1, <1>3, <1>4, OperationTypes, ReceiptFields, RunFields, QueryFields
<1>6. Claims(o)' \subseteq Claims(o)
  BY <1>1, <1>4, RunFields, QueryFields, IdleFields
     DEF Claims, OperationInv, Untouched, Executing
<1>7. OneTruth(o)'
  BY <1>1, <1>2, <1>6 DEF OperationInv, OneTruth, IsTrue, Stays, traces
<1>8. Untouched(o)'
  BY <1>1, <1>4, RunFields, QueryFields, ReceiptFields, IdleFields DEF OperationInv,
     Untouched, Executing
<1>9. Evidence(o)'
  BY <1>1, <1>2, <1>4, <1>6, ReceiptFields DEF OperationInv, Evidence, Untouched,
     Executing, traces
<1>10. Executing(o)'
  BY <1>1, <1>2, <1>4, <1>6, RunFields, IdleFields, ReceiptFields DEF OperationInv,
     Untouched, Evidence, Executing, traces
<1> QED BY <1>3, <1>5, <1>7, <1>8, <1>9, <1>10 DEF OperationInv

\* The result replaces the intent: in the file and on the disk, perhaps in the
\* file, or not at all; it is the answer in each case.
LEMMA SaveResultStep ==
  ASSUME IInv, NEW o \in Operation, SaveResult(o)
  PROVE  OperationTypeOK' /\ OnlyAt(o) /\ OperationInv(o)'
<1>1. /\ OperationTypeOK /\ OperationInv(o)
      /\ run[o] \in {Idle} \cup Runs \cup Endings
      /\ query[o] \in {Idle} \cup Queries
      /\ receipt[o] \in Receipts \cup {None}
      /\ kept[o] \in Receipts \cup {None}
      /\ known[o] \in Receipts \cup {None} /\ told[o] \subseteq Answers
  BY DEF IInv, TypeOK, OperationTypeOK
<1>2. UNCHANGED traces /\ UNCHANGED call
  BY DEF SaveResult, served, stored, Written, WriteFails, Fault, Undurable
<1>3. OnlyAt(o)
  BY <1>1 DEF SaveResult, OperationTypeOK, TellSame, Tell, Go, OnlyAt, Written,
     WriteFails, Fault, Undurable
<1>a. LET n == [run[o] EXCEPT !.pc = "audit"] IN
        n \in Endings /\ n.pc = "audit" /\ n.result = run[o].result
  BY <1>1, RunFields, EndingMoves DEF SaveResult
<1>b. LET n == [run[o].result EXCEPT !.audit = "failed"] IN
        n \in Receipts /\ Projected(n) = Projected(run[o].result)
  BY <1>1, RunFields, AuditedReceipt DEF SaveResult
<1>4. /\ run[o].pc = "save" /\ query'[o] = query[o]
      /\ run[o].result \in Receipts
      /\ \/ /\ receipt'[o] = run[o].result /\ kept'[o] = run[o].result /\ known'[o] = known[o] /\ told'[o] = told[o]
            /\ run'[o] \in Endings /\ run'[o].pc = "audit"
            /\ run'[o].result = run[o].result
         \/ /\ receipt'[o] = receipt[o] \/ receipt'[o] = run[o].result
            /\ kept'[o] = kept[o]
            /\ known'[o] \in Receipts /\ Projected(known'[o]) = Projected(run[o].result)
               /\ told'[o] = told[o] \cup {Projected(run[o].result)} /\ run'[o] = Idle
  BY <1>1, <1>a, <1>b, RunFields, QueryFields DEF SaveResult, OperationTypeOK,
     TellSame, Tell, Go, Written, WriteFails, Fault, Undurable
<1>5. OperationTypeOK'
  BY <1>1, <1>3, <1>4, OperationTypes, ReceiptFields, RunFields, QueryFields
<1>6. Claims(o)' \subseteq Claims(o)
  BY <1>1, <1>4, RunFields, QueryFields, IdleFields
     DEF Claims, OperationInv, Untouched, Executing
<1>7. OneTruth(o)'
  BY <1>1, <1>2, <1>6 DEF OperationInv, OneTruth, IsTrue, Stays, traces
<1>8. Untouched(o)'
  BY <1>1, <1>4, RunFields, QueryFields, ReceiptFields, IdleFields DEF OperationInv,
     Untouched, Executing
<1>9. Evidence(o)'
  BY <1>1, <1>2, <1>4, <1>6, ReceiptFields DEF OperationInv, Evidence, Untouched,
     Executing, traces
<1>10. Executing(o)'
  BY <1>1, <1>2, <1>4, <1>6, RunFields, IdleFields, ReceiptFields DEF OperationInv,
     Untouched, Evidence, Executing, traces
<1> QED BY <1>3, <1>5, <1>7, <1>8, <1>9, <1>10 DEF OperationInv

\* The audit of a receipt changes nothing of its answer.
LEMMA AuditStep ==
  ASSUME IInv, NEW o \in Operation, Audit(o)
  PROVE  OperationTypeOK' /\ OnlyAt(o) /\ OperationInv(o)'
<1>1. /\ OperationTypeOK /\ OperationInv(o)
      /\ run[o] \in {Idle} \cup Runs \cup Endings
      /\ query[o] \in {Idle} \cup Queries
      /\ receipt[o] \in Receipts \cup {None}
      /\ kept[o] \in Receipts \cup {None}
      /\ known[o] \in Receipts \cup {None} /\ told[o] \subseteq Answers
  BY DEF IInv, TypeOK, OperationTypeOK
<1>2. UNCHANGED traces /\ UNCHANGED call
  BY DEF Audit, served, stored, Undurable
<1>3. OnlyAt(o)
  BY <1>1 DEF Audit, OperationTypeOK, TellSame, Tell, Go, OnlyAt, Undurable
<1> DEFINE saved == [run[o].result EXCEPT !.audit = "recorded"]
           ending == [pc |-> "close", result |-> saved]
<1>a. /\ saved \in Receipts /\ Projected(saved) = Projected(run[o].result)
      /\ saved.prepared = run[o].result.prepared
  BY <1>1, RunFields, AuditedReceipt DEF Audit
<1>b. LET n == [run[o].result EXCEPT !.audit = "failed"] IN
        n \in Receipts /\ Projected(n) = Projected(run[o].result)
  BY <1>1, RunFields, AuditedReceipt DEF Audit
<1>c. ending \in Endings /\ ending.pc = "close" /\ ending.result = saved
  BY <1>a DEF Endings
<1>d. /\ run[o].pc = "audit" /\ UNCHANGED <<receipt, kept, query>>
      /\ \/ Go(o, ending) /\ UNCHANGED <<known, told>>
         \/ Undurable(o)
  BY DEF Audit
<1> HIDE DEF saved, ending
<1>4. /\ run[o].pc = "audit" /\ query'[o] = query[o] /\ receipt'[o] = receipt[o]
      /\ kept'[o] = kept[o]
      /\ run[o].result \in Receipts
      /\ \/ /\ known'[o] = known[o] /\ told'[o] = told[o] /\ run'[o] \in Endings /\ run'[o].pc = "close"
            /\ Projected(run'[o].result) = Projected(run[o].result)
            /\ run'[o].result.prepared = run[o].result.prepared
         \/ /\ known'[o] \in Receipts /\ Projected(known'[o]) = Projected(run[o].result)
               /\ told'[o] = told[o] \cup {Projected(run[o].result)} /\ run'[o] = Idle
  BY <1>1, <1>a, <1>b, <1>c, <1>d, RunFields, QueryFields DEF OperationTypeOK,
     TellSame, Tell, Go, Undurable
<1>5. OperationTypeOK'
  BY <1>1, <1>3, <1>4, OperationTypes, ReceiptFields, RunFields, QueryFields
<1>6. Claims(o)' \subseteq Claims(o)
  BY <1>1, <1>4, RunFields, QueryFields, IdleFields
     DEF Claims, OperationInv, Untouched, Executing
<1>7. OneTruth(o)'
  BY <1>1, <1>2, <1>6 DEF OperationInv, OneTruth, IsTrue, Stays, traces
<1>8. Untouched(o)'
  BY <1>1, <1>4, RunFields, QueryFields, ReceiptFields, IdleFields DEF OperationInv,
     Untouched, Executing
<1>9. Evidence(o)'
  BY <1>1, <1>2, <1>4, <1>6, ReceiptFields DEF OperationInv, Evidence, Untouched,
     Executing, traces
<1>10. Executing(o)'
  BY <1>1, <1>2, <1>4, <1>6, RunFields, IdleFields, ReceiptFields DEF OperationInv,
     Untouched, Evidence, Executing, traces
<1> QED BY <1>3, <1>5, <1>7, <1>8, <1>9, <1>10 DEF OperationInv

\* The answer is given and remembered.
LEMMA CloseStep ==
  ASSUME IInv, NEW o \in Operation, Close(o)
  PROVE  OperationTypeOK' /\ OnlyAt(o) /\ OperationInv(o)'
<1>1. /\ OperationTypeOK /\ OperationInv(o)
      /\ run[o] \in {Idle} \cup Runs \cup Endings
      /\ query[o] \in {Idle} \cup Queries
      /\ receipt[o] \in Receipts \cup {None}
      /\ kept[o] \in Receipts \cup {None}
      /\ known[o] \in Receipts \cup {None} /\ told[o] \subseteq Answers
  BY DEF IInv, TypeOK, OperationTypeOK
<1>2. UNCHANGED traces /\ UNCHANGED call
  BY DEF Close, served, stored, Written, WriteFails, Fault, Undurable
<1>3. OnlyAt(o)
  BY <1>1 DEF Close, OperationTypeOK, TellSame, Tell, Go, OnlyAt, Written, WriteFails,
     Fault, Undurable
<1>b. LET n == [run[o].result EXCEPT !.audit = "failed"] IN
        n \in Receipts /\ Projected(n) = Projected(run[o].result)
  BY <1>1, RunFields, AuditedReceipt DEF Close
<1>4. /\ run[o].pc = "close" /\ query'[o] = query[o]
      /\ run[o].result \in Receipts
      /\ \/ /\ receipt'[o] = run[o].result /\ kept'[o] = run[o].result /\ known'[o] = known[o]
            /\ told'[o] = told[o] \cup {Projected(run[o].result)} /\ run'[o] = Idle
         \/ /\ receipt'[o] = receipt[o] \/ receipt'[o] = run[o].result
            /\ kept'[o] = kept[o]
            /\ known'[o] \in Receipts /\ Projected(known'[o]) = Projected(run[o].result)
               /\ told'[o] = told[o] \cup {Projected(run[o].result)} /\ run'[o] = Idle
  BY <1>1, <1>b, RunFields, QueryFields DEF Close, OperationTypeOK, TellSame, Tell, Go,
     Written, WriteFails, Fault, Undurable
<1>5. OperationTypeOK'
  BY <1>1, <1>3, <1>4, OperationTypes, ReceiptFields, RunFields, QueryFields
<1>6. Claims(o)' \subseteq Claims(o)
  BY <1>1, <1>4, RunFields, QueryFields, IdleFields
     DEF Claims, OperationInv, Untouched, Executing
<1>7. OneTruth(o)'
  BY <1>1, <1>2, <1>6 DEF OperationInv, OneTruth, IsTrue, Stays, traces
<1>8. Untouched(o)'
  BY <1>1, <1>4, RunFields, QueryFields, ReceiptFields, IdleFields DEF OperationInv,
     Untouched, Executing
<1>9. Evidence(o)'
  BY <1>1, <1>2, <1>4, <1>6, ReceiptFields DEF OperationInv, Evidence, Untouched,
     Executing, traces
<1>10. Executing(o)'
  BY <1>1, <1>2, <1>4, <1>6, RunFields, IdleFields, ReceiptFields DEF OperationInv,
     Untouched, Evidence, Executing, traces
<1> QED BY <1>3, <1>5, <1>7, <1>8, <1>9, <1>10 DEF OperationInv

\* The content is loaded, or the operation fails before it changed anything.
LEMMA LoadStep ==
  ASSUME IInv, NEW o \in Operation, Load(o)
  PROVE  OperationTypeOK' /\ OnlyAt(o) /\ OperationInv(o)'
<1>1. /\ OperationTypeOK /\ OperationInv(o)
      /\ run[o] \in {Idle} \cup Runs \cup Endings
      /\ query[o] \in {Idle} \cup Queries
      /\ receipt[o] \in Receipts \cup {None}
      /\ kept[o] \in Receipts \cup {None}
      /\ known[o] \in Receipts \cup {None} /\ told[o] \subseteq Answers
      /\ o \in Actor /\ call \in [Actor -> {store!Idle} \cup store!Calls]
      /\ CallIsTrue(o)
  BY OperationAssumption DEF IInv, TypeOK, OperationTypeOK, ServedTypeOK, store!TypeOK
<1>2. UNCHANGED traces
  BY DEF Load, served, stored, Conclude, served, stored
<1>3. OnlyAt(o)
  BY <1>1 DEF Load, OperationTypeOK, TellSame, Tell, Go, OnlyAt, Conclude, served, stored
<1> DEFINE ending(status) == [pc |-> "save", result |-> [base |-> run[o].base, status |-> status,
                                                        prepared |-> FALSE, audit |-> "pending"]]
<1>a. [run[o] EXCEPT !.pc = "prepare"] \in Runs /\ [run[o] EXCEPT !.pc = "prepare"].pc = "prepare"
  BY <1>1, RunFields, RunMoves DEF Load
<1>b. \A s \in {"conflict", "failed"} :
        /\ ending(s) \in Endings /\ ending(s).pc = "save"
        /\ ending(s).result.status = s /\ ~ending(s).result.prepared
  BY <1>1, RunFields DEF Load, Endings, Receipts, Outcomes
<1>c. /\ run[o].pc = "load" /\ UNCHANGED <<receipt, kept, known, query, told, served>>
      /\ \/ Go(o, ending("conflict")) \/ Go(o, ending("failed"))
         \/ Go(o, [run[o] EXCEPT !.pc = "prepare"])
  BY DEF Load, Conclude
<1> HIDE DEF ending
<1>4. /\ run[o].pc = "load" /\ receipt'[o] = receipt[o] /\ kept'[o] = kept[o]
      /\ known'[o] = known[o] /\ query'[o] = query[o] /\ told'[o] = told[o]
      /\ UNCHANGED call
      /\ \/ run'[o] \in Runs /\ run'[o].pc = "prepare"
         \/ /\ run'[o] \in Endings /\ run'[o].pc = "save"
            /\ run'[o].result.status \in {"conflict", "failed"}
            /\ ~run'[o].result.prepared
  BY <1>1, <1>a, <1>b, <1>c, RunFields, QueryFields DEF Go, OperationTypeOK, Conclude,
     served, stored
<1>5. OperationTypeOK'
  BY <1>1, <1>3, <1>4, OperationTypes, ReceiptFields, RunFields, QueryFields
<1>6. \A a \in Claims(o)' : run'[o].pc = "save" /\ a = Projected(run'[o].result)
  BY <1>1, <1>4, RunFields, QueryFields, ReceiptFields
     DEF Claims, OperationInv, Untouched, Executing, Definite
<1>7. OneTruth(o)'
  <2>1. run'[o].pc = "save" => IsTrue(o, run[o].result.status)'
    BY <1>1, <1>2, <1>4, RunFields DEF OperationInv, Executing, IsTrue, Stays, traces
  <2>2. run'[o].pc = "save" => run'[o].result \in Receipts
    BY <1>1, <1>4, RunFields
  <2>3. \A a \in Claims(o)' : a.status \in Definite
    BY DEF Claims
  <2> QED BY <1>6, <2>1, <2>2, <2>3, ReceiptFields DEF OneTruth
<1>8. Untouched(o)'
  BY <1>1, <1>4, RunFields, QueryFields, ReceiptFields DEF OperationInv, Untouched,
     Executing
<1>9. Evidence(o)'
  BY <1>1, <1>2, <1>4, <1>6, ReceiptFields
     DEF OperationInv, Evidence, Untouched, Executing, traces
<1>10. Executing(o)'
  BY <1>1, <1>2, <1>4, <1>6, RunFields, ReceiptFields
     DEF OperationInv, Untouched, Evidence, Executing, traces, store!Idle
<1> QED BY <1>3, <1>5, <1>7, <1>8, <1>9, <1>10 DEF OperationInv

\* The receipt is marked as prepared before the store is called, or the
\* operation ends without a change.
LEMMA PrepareStep ==
  ASSUME IInv, NEW o \in Operation, Prepare(o)
  PROVE  OperationTypeOK' /\ OnlyAt(o) /\ OperationInv(o)'
<1>1. /\ OperationTypeOK /\ OperationInv(o)
      /\ run[o] \in {Idle} \cup Runs \cup Endings
      /\ query[o] \in {Idle} \cup Queries
      /\ receipt[o] \in Receipts \cup {None}
      /\ kept[o] \in Receipts \cup {None}
      /\ known[o] \in Receipts \cup {None} /\ told[o] \subseteq Answers
      /\ o \in Actor /\ call \in [Actor -> {store!Idle} \cup store!Calls]
      /\ CallIsTrue(o)
  BY OperationAssumption DEF IInv, TypeOK, OperationTypeOK, ServedTypeOK, store!TypeOK
<1>2. UNCHANGED traces
  BY DEF Prepare, served, stored, Conclude, Written, WriteFails, Fault
<1>3. OnlyAt(o)
  BY <1>1 DEF Prepare, OperationTypeOK, TellSame, Tell, Go, OnlyAt, Conclude, Written,
     WriteFails, Fault
<1> DEFINE ending == [pc |-> "save", result |-> [base |-> run[o].base, status |-> "failed",
                                                prepared |-> FALSE, audit |-> "pending"]]
           evidence == [receipt[o] EXCEPT !.prepared = TRUE]
           execution == [run[o] EXCEPT !.pc = "commit"]
<1>a. /\ run[o].pc = "prepare" /\ receipt[o] \in Receipts /\ receipt[o].status = "pending"
      /\ call[o] = store!Idle
      /\ UNCHANGED <<known, query, told>>
      /\ evidence \in Receipts /\ evidence.status = "pending" /\ evidence.prepared
  BY <1>1, RunFields, PreparedReceipt, ReceiptFields DEF Prepare, OperationInv, Executing
<1>b. execution \in Runs /\ execution.pc = "commit"
  BY <1>1, RunFields, RunMoves DEF Prepare
<1>c. /\ ending \in Endings /\ ending.pc = "save"
      /\ ending.result.status = "failed" /\ ~ending.result.prepared
  BY <1>1, RunFields DEF Prepare, Endings, Receipts, Outcomes
<1>d. \/ /\ Written(o, evidence) /\ Go(o, execution)
         /\ \E next \in Contents : store!Invoke(o, run[o].base, next)
      \/ WriteFails(o, evidence) /\ Go(o, ending) /\ UNCHANGED call
      \/ Go(o, ending) /\ UNCHANGED <<receipt, kept, call>>
  BY DEF Prepare, Conclude, stored
<1> HIDE DEF ending, evidence, execution
<1>e. ASSUME NEW next \in Contents, store!Invoke(o, run[o].base, next)
      PROVE  call'[o] # store!Idle
  <2>1. call'[o] = [status |-> "pending", base |-> run[o].base, next |-> next]
    BY <1>1, <1>e DEF store!Invoke
  <2> QED BY <2>1 DEF store!Idle
<1>f. ASSUME Written(o, evidence), Go(o, execution),
             \E next \in Contents : store!Invoke(o, run[o].base, next)
      PROVE  /\ receipt'[o] = evidence /\ kept'[o] = evidence
             /\ run'[o] \in Runs /\ run'[o].pc = "commit" /\ call'[o] # store!Idle
  BY <1>1, <1>b, <1>e, <1>f DEF Written, Go, OperationTypeOK
<1>g. /\ Go(o, ending) => run'[o] = ending /\ run'[o].pc = "save" /\ run'[o] \in Endings
                            /\ run'[o].result.status = "failed"
                            /\ ~run'[o].result.prepared
      /\ WriteFails(o, evidence) => receipt'[o] \in {receipt[o], evidence} /\ kept'[o] = kept[o]
  BY <1>1, <1>c DEF Go, WriteFails, OperationTypeOK
<1>4. /\ run[o].pc = "prepare" /\ known'[o] = known[o] /\ query'[o] = query[o]
      /\ told'[o] = told[o]
      /\ run'[o].pc = "commit" <=> call'[o] # store!Idle
      /\ \/ /\ receipt'[o] \in Receipts /\ receipt'[o].status = "pending"
            /\ receipt'[o].prepared /\ kept'[o] = receipt'[o]
            /\ run'[o] \in Runs /\ run'[o].pc = "commit"
         \/ /\ receipt'[o] \in Receipts /\ receipt'[o].status = "pending" /\ kept'[o] = kept[o]
            /\ run'[o] \in Endings /\ run'[o].pc = "save"
            /\ run'[o].result.status \in {"conflict", "failed"}
            /\ ~run'[o].result.prepared
  BY <1>1, <1>a, <1>d, <1>f, <1>g, RunFields, QueryFields DEF OperationTypeOK,
     Conclude, Written, WriteFails, Fault
<1>5. OperationTypeOK'
  BY <1>1, <1>3, <1>4, OperationTypes, ReceiptFields, RunFields, QueryFields
<1>6. \A a \in Claims(o)' : run'[o].pc = "save" /\ a = Projected(run'[o].result)
  BY <1>1, <1>4, RunFields, QueryFields, ReceiptFields
     DEF Claims, OperationInv, Untouched, Executing, Definite
<1>7. OneTruth(o)'
  <2>1. run'[o].pc = "save" => IsTrue(o, run[o].result.status)'
    BY <1>1, <1>2, <1>4, RunFields DEF OperationInv, Executing, IsTrue, Stays, traces
  <2>2. run'[o].pc = "save" => run'[o].result \in Receipts
    BY <1>1, <1>4, RunFields
  <2>3. \A a \in Claims(o)' : a.status \in Definite
    BY DEF Claims
  <2> QED BY <1>6, <2>1, <2>2, <2>3, ReceiptFields DEF OneTruth
<1>8. Untouched(o)'
  BY <1>1, <1>4, RunFields, QueryFields, ReceiptFields DEF OperationInv, Untouched,
     Executing
<1>9. Evidence(o)'
  BY <1>1, <1>2, <1>4, <1>6, ReceiptFields
     DEF OperationInv, Evidence, Untouched, Executing, traces
<1>10. Executing(o)'
  BY <1>1, <1>2, <1>4, <1>6, RunFields, ReceiptFields
     DEF OperationInv, Untouched, Evidence, Executing, traces, store!Idle
<1> QED BY <1>3, <1>5, <1>7, <1>8, <1>9, <1>10 DEF OperationInv

\* The answer of the store becomes the result.
LEMMA ConclusionStep ==
  ASSUME IInv, NEW o \in Operation, Conclusion(o)
  PROVE  OperationTypeOK' /\ OnlyAt(o) /\ OperationInv(o)'
<1>1. /\ OperationTypeOK /\ OperationInv(o)
      /\ run[o] \in {Idle} \cup Runs \cup Endings
      /\ query[o] \in {Idle} \cup Queries
      /\ receipt[o] \in Receipts \cup {None}
      /\ kept[o] \in Receipts \cup {None}
      /\ known[o] \in Receipts \cup {None} /\ told[o] \subseteq Answers
      /\ o \in Actor /\ call \in [Actor -> {store!Idle} \cup store!Calls]
      /\ CallIsTrue(o)
  BY OperationAssumption DEF IInv, TypeOK, OperationTypeOK, ServedTypeOK, store!TypeOK
<1>2. UNCHANGED traces
  BY DEF Conclusion, served, stored, Conclude, store!Finish
<1>3. OnlyAt(o)
  BY <1>1 DEF Conclusion, OperationTypeOK, TellSame, Tell, Go, OnlyAt, Conclude,
     store!Finish
<1> DEFINE ending == [pc |-> "save",
                      result |-> [base |-> run[o].base, status |-> Outcome(call[o].status),
                                  prepared |-> TRUE, audit |-> "pending"]]
<1>a. /\ ending \in Endings /\ ending.pc = "save"
      /\ ending.result.status = Outcome(call[o].status) /\ ending.result.prepared
  BY <1>1, RunFields DEF Conclusion, Outcome, Endings, Receipts, Outcomes, store!Answers
<1>c. /\ run[o].pc = "commit" /\ UNCHANGED <<receipt, kept, known, query, told>>
      /\ call' = [call EXCEPT ![o] = store!Idle] /\ call[o].status \in store!Answers
      /\ Go(o, ending)
  BY DEF Conclusion, Conclude, store!Finish
<1> HIDE DEF ending
<1>4. /\ run[o].pc = "commit" /\ receipt'[o] = receipt[o] /\ kept'[o] = kept[o]
      /\ known'[o] = known[o] /\ query'[o] = query[o] /\ told'[o] = told[o]
      /\ call'[o] = store!Idle /\ call[o].status \in store!Answers
      /\ run'[o] \in Endings /\ run'[o].pc = "save"
      /\ run'[o].result.status = Outcome(call[o].status)
      /\ run'[o].result.prepared
  BY <1>1, <1>a, <1>c, RunFields, QueryFields DEF Go, OperationTypeOK, Conclude,
     store!Finish
<1>5. OperationTypeOK'
  BY <1>1, <1>3, <1>4, OperationTypes, ReceiptFields, RunFields, QueryFields
<1>6. \A a \in Claims(o)' : run'[o].pc = "save" /\ a = Projected(run'[o].result)
  BY <1>1, <1>4, RunFields, QueryFields, ReceiptFields
     DEF Claims, OperationInv, Untouched, Executing, Definite
<1>7. OneTruth(o)'
  <2>1. run'[o].pc = "save" => IsTrue(o, run[o].result.status)'
    BY <1>1, <1>2, <1>4, RunFields DEF OperationInv, Executing, IsTrue, Stays, traces,
       CallIsTrue, Outcome, store!Answers
  <2>2. run'[o].pc = "save" => run'[o].result \in Receipts
    BY <1>1, <1>4, RunFields
  <2>3. \A a \in Claims(o)' : a.status \in Definite
    BY DEF Claims
  <2> QED BY <1>6, <2>1, <2>2, <2>3, ReceiptFields DEF OneTruth
<1>8. Untouched(o)'
  BY <1>1, <1>4, RunFields, QueryFields, ReceiptFields DEF OperationInv, Untouched,
     Executing
<1>9. Evidence(o)'
  BY <1>1, <1>2, <1>4, <1>6, ReceiptFields
     DEF OperationInv, Evidence, Untouched, Executing, traces
<1>10. Executing(o)'
  BY <1>1, <1>2, <1>4, <1>6, RunFields, ReceiptFields
     DEF OperationInv, Untouched, Evidence, Executing, traces, store!Idle
<1> QED BY <1>3, <1>5, <1>7, <1>8, <1>9, <1>10 DEF OperationInv

\* A proposal is staged under an identity the ledger does not know to have
\* changed anything.
LEMMA StageStep ==
  ASSUME IInv, NEW p \in Proposal, NEW next \in Contents,
         NEW destructive \in BOOLEAN, Stage(p, next, destructive)
  PROVE  ProposalTypeOK' /\ OnlyOf(p) /\ ProposalInv(p)'
<1>1. /\ ProposalTypeOK /\ ProposalInv(p) /\ CallIsTrue(p)
      /\ proposal[p] # None => proposal[p] \in Staged
      /\ entry[p] \in Entries /\ entryKept[p] \in Entries
      /\ p \in Actor /\ call \in [Actor -> {store!Idle} \cup store!Calls]
      /\ consent[p] \subseteq {"approve", "confirm", "reject"}
      /\ commit[p] \in {"idle", "begin", "execute", "store", "revoke"} \cup Results
  BY ProposalAssumption DEF IInv, TypeOK, ProposalTypeOK, ServedTypeOK, store!TypeOK
<1>2. UNCHANGED traces
  BY DEF Stage, served, served, stored
<1> DEFINE n == [base |-> content, next |-> next, destructive |-> destructive,
                 status |-> "pending"]
<1>a. n \in Staged /\ n.status = "pending"
  BY DEF IInv, TypeOK, ServedTypeOK, store!TypeOK, Staged, Statuses
<1>b. /\ proposal[p] = None /\ effects[p] = 0 /\ consent[p] = {}
      /\ proposal' = [proposal EXCEPT ![p] = n]
      /\ UNCHANGED <<entry, entryKept, commit, consent, served>>
  BY DEF Stage
<1> HIDE DEF n
<1>3. /\ proposal[p] = None /\ effects[p] = 0 /\ consent[p] = {}
      /\ proposal'[p] \in Staged /\ proposal'[p] # None /\ proposal'[p].status = "pending"
      /\ commit'[p] = commit[p] /\ consent'[p] = consent[p] /\ entry'[p] = entry[p]
      /\ entryKept'[p] = entryKept[p] /\ call'[p] = call[p]
  BY <1>1, <1>a, <1>b, StagedFields DEF ProposalTypeOK, served, stored
<1>4. OnlyOf(p)
  BY <1>1, <1>a, <1>b, <1>3 DEF OnlyOf, ProposalTypeOK, served, stored
<1>5. entry' \in [Proposal -> Entries] /\ entryKept' \in [Proposal -> Entries]
  BY <1>1, <1>a, <1>b, <1>3 DEF ProposalTypeOK, served, stored
<1>6. ProposalTypeOK'
  BY <1>1, <1>3, <1>4, <1>5, ProposalTypes DEF Results, Terminal
<1>7. Agrees(p)'
  BY <1>1, <1>2, <1>3, StagedFields
     DEF ProposalInv, Agrees, Committing, CallIsTrue, IsTrue, Stays, Consented, traces,
        Results, Terminal
<1>8. Committing(p)'
  BY <1>1, <1>2, <1>3, StagedFields
     DEF ProposalInv, Agrees, Committing, CallIsTrue, IsTrue, Stays, traces, Results,
        Terminal
<1> QED BY <1>4, <1>6, <1>7, <1>8 DEF ProposalInv

\* The owner approves, and confirms later what is destructive.
LEMMA ApproveStep ==
  ASSUME IInv, NEW p \in Proposal, Approve(p)
  PROVE  ProposalTypeOK' /\ OnlyOf(p) /\ ProposalInv(p)'
<1>1. /\ ProposalTypeOK /\ ProposalInv(p) /\ CallIsTrue(p)
      /\ proposal[p] # None => proposal[p] \in Staged
      /\ entry[p] \in Entries /\ entryKept[p] \in Entries
      /\ p \in Actor /\ call \in [Actor -> {store!Idle} \cup store!Calls]
      /\ consent[p] \subseteq {"approve", "confirm", "reject"}
      /\ commit[p] \in {"idle", "begin", "execute", "store", "revoke"} \cup Results
  BY ProposalAssumption DEF IInv, TypeOK, ProposalTypeOK, ServedTypeOK, store!TypeOK
<1>2. UNCHANGED traces
  BY DEF Approve, served, served, stored, Statuses
<1>a. \A s \in Statuses : Put(p, s) =>
        /\ proposal' = [proposal EXCEPT ![p] = proposal'[p]]
        /\ proposal'[p] \in Staged /\ proposal'[p] # None /\ proposal'[p].status = s
        /\ proposal'[p].destructive = proposal[p].destructive
  BY <1>1, PutChanges DEF Approve
<1>3. /\ entry'[p] = entry[p] /\ entryKept'[p] = entryKept[p] /\ call'[p] = call[p]
      /\ proposal[p] # None /\ proposal'[p] \in Staged /\ proposal'[p] # None
      /\ consent'[p] = consent[p] \cup {"approve"}
      /\ proposal'[p].destructive = proposal[p].destructive
      /\ \/ /\ proposal[p].status = "pending" /\ proposal[p].destructive
            /\ proposal'[p].status = "awaiting-destructive-confirmation"
            /\ commit'[p] = commit[p]
         \/ /\ proposal[p].status = "pending" /\ ~proposal[p].destructive
            /\ proposal'[p].status = "approved" /\ commit'[p] = "begin"
         \/ /\ proposal[p].status = "approved" /\ commit[p] = "idle"
            /\ proposal'[p] = proposal[p] /\ commit'[p] = "begin"
  BY <1>1, <1>a, StagedFields DEF Approve, ProposalTypeOK, Move, Agreed, served,
     stored, Statuses
<1>4. OnlyOf(p)
  BY <1>1, <1>a, <1>3 DEF OnlyOf, Approve, ProposalTypeOK, Move, Agreed, served,
     stored, Statuses
<1>5. entry' \in [Proposal -> Entries] /\ entryKept' \in [Proposal -> Entries]
  BY <1>1, <1>a, <1>3 DEF Approve, ProposalTypeOK, served, stored, Statuses
<1>6. ProposalTypeOK'
  BY <1>1, <1>3, <1>4, <1>5, ProposalTypes DEF Results, Terminal
<1>7. Agrees(p)'
  BY <1>1, <1>2, <1>3, StagedFields
     DEF ProposalInv, Agrees, Committing, CallIsTrue, IsTrue, Stays, Consented, traces,
        Results, Terminal
<1>8. Committing(p)'
  BY <1>1, <1>2, <1>3, StagedFields
     DEF ProposalInv, Agrees, Committing, CallIsTrue, IsTrue, Stays, traces, Results,
        Terminal
<1> QED BY <1>4, <1>6, <1>7, <1>8 DEF ProposalInv

\* The owner rejects, or the proposal expires, before anything changed.
LEMMA DeclineStep ==
  ASSUME IInv, NEW p \in Proposal, Decline(p)
  PROVE  ProposalTypeOK' /\ OnlyOf(p) /\ ProposalInv(p)'
<1>1. /\ ProposalTypeOK /\ ProposalInv(p) /\ CallIsTrue(p)
      /\ proposal[p] # None => proposal[p] \in Staged
      /\ entry[p] \in Entries /\ entryKept[p] \in Entries
      /\ p \in Actor /\ call \in [Actor -> {store!Idle} \cup store!Calls]
      /\ consent[p] \subseteq {"approve", "confirm", "reject"}
      /\ commit[p] \in {"idle", "begin", "execute", "store", "revoke"} \cup Results
  BY ProposalAssumption DEF IInv, TypeOK, ProposalTypeOK, ServedTypeOK, store!TypeOK
<1>2. UNCHANGED traces
  BY DEF Decline, served, served, stored, Statuses
<1>a. \A s \in Statuses : Put(p, s) =>
        /\ proposal' = [proposal EXCEPT ![p] = proposal'[p]]
        /\ proposal'[p] \in Staged /\ proposal'[p] # None /\ proposal'[p].status = s
        /\ proposal'[p].destructive = proposal[p].destructive
  BY <1>1, PutChanges DEF Decline
<1>3. /\ entry'[p] = entry[p] /\ entryKept'[p] = entryKept[p] /\ call'[p] = call[p]
      /\ commit'[p] = commit[p]
      /\ proposal[p] # None /\ proposal[p].status = "pending"
      /\ proposal'[p] \in Staged /\ proposal'[p] # None
      /\ proposal'[p].status = "rejected"
      /\ consent'[p] = consent[p] \cup {"reject"}
  BY <1>1, <1>a, StagedFields DEF Decline, ProposalTypeOK, Move, Agreed, served,
     stored, Statuses
<1>4. OnlyOf(p)
  BY <1>1, <1>a, <1>3 DEF OnlyOf, Decline, ProposalTypeOK, Move, Agreed, served,
     stored, Statuses
<1>5. entry' \in [Proposal -> Entries] /\ entryKept' \in [Proposal -> Entries]
  BY <1>1, <1>a, <1>3 DEF Decline, ProposalTypeOK, served, stored, Statuses
<1>6. ProposalTypeOK'
  BY <1>1, <1>3, <1>4, <1>5, ProposalTypes DEF Results, Terminal
<1>7. Agrees(p)'
  BY <1>1, <1>2, <1>3, StagedFields
     DEF ProposalInv, Agrees, Committing, CallIsTrue, IsTrue, Stays, Consented, traces,
        Results, Terminal
<1>8. Committing(p)'
  BY <1>1, <1>2, <1>3, StagedFields
     DEF ProposalInv, Agrees, Committing, CallIsTrue, IsTrue, Stays, traces, Results,
        Terminal
<1> QED BY <1>4, <1>6, <1>7, <1>8 DEF ProposalInv

\* The owner confirms, or the proposal expires.
LEMMA ConfirmDestructionStep ==
  ASSUME IInv, NEW p \in Proposal, ConfirmDestruction(p)
  PROVE  ProposalTypeOK' /\ OnlyOf(p) /\ ProposalInv(p)'
<1>1. /\ ProposalTypeOK /\ ProposalInv(p) /\ CallIsTrue(p)
      /\ proposal[p] # None => proposal[p] \in Staged
      /\ entry[p] \in Entries /\ entryKept[p] \in Entries
      /\ p \in Actor /\ call \in [Actor -> {store!Idle} \cup store!Calls]
      /\ consent[p] \subseteq {"approve", "confirm", "reject"}
      /\ commit[p] \in {"idle", "begin", "execute", "store", "revoke"} \cup Results
  BY ProposalAssumption DEF IInv, TypeOK, ProposalTypeOK, ServedTypeOK, store!TypeOK
<1>2. UNCHANGED traces
  BY DEF ConfirmDestruction, served, served, stored, Statuses
<1>a. \A s \in Statuses : Put(p, s) =>
        /\ proposal' = [proposal EXCEPT ![p] = proposal'[p]]
        /\ proposal'[p] \in Staged /\ proposal'[p] # None /\ proposal'[p].status = s
        /\ proposal'[p].destructive = proposal[p].destructive
  BY <1>1, PutChanges DEF ConfirmDestruction
<1>3. /\ entry'[p] = entry[p] /\ entryKept'[p] = entryKept[p] /\ call'[p] = call[p]
      /\ proposal[p] # None
      /\ proposal[p].status = "awaiting-destructive-confirmation"
      /\ proposal'[p] \in Staged /\ proposal'[p] # None
      /\ proposal'[p].status = "approved"
      /\ commit'[p] = "begin"
      /\ consent'[p] = consent[p] \cup {"confirm"}
  BY <1>1, <1>a, StagedFields DEF ConfirmDestruction, ProposalTypeOK, Move, Agreed,
     served, stored, Statuses
<1>4. OnlyOf(p)
  BY <1>1, <1>a, <1>3 DEF OnlyOf, ConfirmDestruction, ProposalTypeOK, Move, Agreed,
     served, stored, Statuses
<1>5. entry' \in [Proposal -> Entries] /\ entryKept' \in [Proposal -> Entries]
  BY <1>1, <1>a, <1>3 DEF ConfirmDestruction, ProposalTypeOK, served, stored, Statuses
<1>6. ProposalTypeOK'
  BY <1>1, <1>3, <1>4, <1>5, ProposalTypes DEF Results, Terminal
<1>7. Agrees(p)'
  BY <1>1, <1>2, <1>3, StagedFields
     DEF ProposalInv, Agrees, Committing, CallIsTrue, IsTrue, Stays, Consented, traces,
        Results, Terminal
<1>8. Committing(p)'
  BY <1>1, <1>2, <1>3, StagedFields
     DEF ProposalInv, Agrees, Committing, CallIsTrue, IsTrue, Stays, traces, Results,
        Terminal
<1> QED BY <1>4, <1>6, <1>7, <1>8 DEF ProposalInv

\* The store is called for the approved change, or the session has gone.
LEMMA ExecuteStep ==
  ASSUME IInv, NEW p \in Proposal, Execute(p)
  PROVE  ProposalTypeOK' /\ OnlyOf(p) /\ ProposalInv(p)'
<1>1. /\ ProposalTypeOK /\ ProposalInv(p) /\ CallIsTrue(p)
      /\ proposal[p] # None => proposal[p] \in Staged
      /\ entry[p] \in Entries /\ entryKept[p] \in Entries
      /\ p \in Actor /\ call \in [Actor -> {store!Idle} \cup store!Calls]
      /\ consent[p] \subseteq {"approve", "confirm", "reject"}
      /\ commit[p] \in {"idle", "begin", "execute", "store", "revoke"} \cup Results
  BY ProposalAssumption DEF IInv, TypeOK, ProposalTypeOK, ServedTypeOK, store!TypeOK
<1>2. UNCHANGED traces
  BY DEF Execute, served
<1>a. /\ commit[p] = "execute" /\ UNCHANGED <<proposal, entry, entryKept, consent>>
      /\ \/ /\ Move(p, "store")
            /\ \E b, n \in Contents : store!Invoke(p, b, n)
         \/ Move(p, "failed") /\ UNCHANGED call
  <2>1. proposal[p] \in Staged /\ proposal[p].base \in Contents /\ proposal[p].next \in Contents
    BY <1>1, StagedFields DEF Execute, ProposalInv, Committing
  <2> QED BY <2>1 DEF Execute, stored
<1>b. ASSUME NEW b, NEW n, store!Invoke(p, b, n)
      PROVE  call'[p] # store!Idle
  <2>1. call'[p] = [status |-> "pending", base |-> b, next |-> n]
    BY <1>1, <1>b DEF store!Invoke
  <2> QED BY <2>1 DEF store!Idle
<1>3. /\ entry'[p] = entry[p] /\ entryKept'[p] = entryKept[p]
      /\ proposal'[p] = proposal[p] /\ consent'[p] = consent[p] /\ commit[p] = "execute"
      /\ \/ commit'[p] = "store" /\ call'[p] # store!Idle
         \/ commit'[p] = "failed" /\ call'[p] = call[p]
  BY <1>1, <1>a, <1>b, StagedFields DEF ProposalTypeOK, Move
<1>4. OnlyOf(p)
  BY <1>1, <1>a, <1>b, <1>3 DEF OnlyOf, ProposalTypeOK, Move
<1>5. entry' \in [Proposal -> Entries] /\ entryKept' \in [Proposal -> Entries]
  BY <1>1, <1>a, <1>b, <1>3 DEF ProposalTypeOK, Move
<1>6. ProposalTypeOK'
  BY <1>1, <1>3, <1>4, <1>5, ProposalTypes DEF Results, Terminal
<1>7. Agrees(p)'
  BY <1>1, <1>2, <1>3, StagedFields
     DEF ProposalInv, Agrees, Committing, CallIsTrue, IsTrue, Stays, Consented, traces,
        Results, Terminal
<1>8. Committing(p)'
  BY <1>1, <1>2, <1>3, StagedFields
     DEF ProposalInv, Agrees, Committing, CallIsTrue, IsTrue, Stays, traces, Results,
        Terminal
<1> QED BY <1>4, <1>6, <1>7, <1>8 DEF ProposalInv

\* The answer of the store becomes the result of the commit.
LEMMA ExecutedStep ==
  ASSUME IInv, NEW p \in Proposal, Executed(p)
  PROVE  ProposalTypeOK' /\ OnlyOf(p) /\ ProposalInv(p)'
<1>1. /\ ProposalTypeOK /\ ProposalInv(p) /\ CallIsTrue(p)
      /\ proposal[p] # None => proposal[p] \in Staged
      /\ entry[p] \in Entries /\ entryKept[p] \in Entries
      /\ p \in Actor /\ call \in [Actor -> {store!Idle} \cup store!Calls]
      /\ consent[p] \subseteq {"approve", "confirm", "reject"}
      /\ commit[p] \in {"idle", "begin", "execute", "store", "revoke"} \cup Results
  BY ProposalAssumption DEF IInv, TypeOK, ProposalTypeOK, ServedTypeOK, store!TypeOK
<1>2. UNCHANGED traces
  BY DEF Executed, served, store!Finish, Verdict, store!Answers
<1>3. /\ entry'[p] = entry[p] /\ entryKept'[p] = entryKept[p]
      /\ proposal'[p] = proposal[p] /\ consent'[p] = consent[p] /\ commit[p] = "store"
      /\ call[p].status \in store!Answers /\ call'[p] = store!Idle
      /\ commit'[p] = Verdict(call[p].status)
      /\ commit'[p] \in {"committed", "stale", "revoke", "failed"}
      /\ commit'[p] = "committed" => call[p].status = "committed"
      /\ commit'[p] = "stale" => call[p].status = "conflict"
      /\ commit'[p] = "failed" => call[p].status \in {"unchanged", "failed"}
  BY <1>1, StagedFields DEF Executed, ProposalTypeOK, Move, Agreed, store!Finish,
     Verdict, store!Answers
<1>4. OnlyOf(p)
  BY <1>1, <1>3 DEF OnlyOf, Executed, ProposalTypeOK, Move, Agreed, store!Finish,
     Verdict, store!Answers
<1>5. entry' \in [Proposal -> Entries] /\ entryKept' \in [Proposal -> Entries]
  BY <1>1, <1>3 DEF Executed, ProposalTypeOK, store!Finish, Verdict, store!Answers
<1>6. ProposalTypeOK'
  BY <1>1, <1>3, <1>4, <1>5, ProposalTypes DEF Results, Terminal
<1>7. Agrees(p)'
  BY <1>1, <1>2, <1>3, StagedFields
     DEF ProposalInv, Agrees, Committing, CallIsTrue, IsTrue, Stays, Consented, traces,
        Results, Terminal
<1>8. Committing(p)'
  BY <1>1, <1>2, <1>3, StagedFields
     DEF ProposalInv, Agrees, Committing, CallIsTrue, IsTrue, Stays, traces, Results,
        Terminal
<1> QED BY <1>4, <1>6, <1>7, <1>8 DEF ProposalInv

\* The result is written to the ledger and becomes the status; what could not
\* be written is indeterminate to a reader of the ledger.
LEMMA FinalizeStep ==
  ASSUME IInv, NEW p \in Proposal, Finalize(p)
  PROVE  ProposalTypeOK' /\ OnlyOf(p) /\ ProposalInv(p)'
<1>1. /\ ProposalTypeOK /\ ProposalInv(p) /\ CallIsTrue(p)
      /\ proposal[p] # None => proposal[p] \in Staged
      /\ entry[p] \in Entries /\ entryKept[p] \in Entries
      /\ p \in Actor /\ call \in [Actor -> {store!Idle} \cup store!Calls]
      /\ consent[p] \subseteq {"approve", "confirm", "reject"}
      /\ commit[p] \in {"idle", "begin", "execute", "store", "revoke"} \cup Results
  BY ProposalAssumption DEF IInv, TypeOK, ProposalTypeOK, ServedTypeOK, store!TypeOK
<1>2. UNCHANGED traces
  BY DEF Finalize, served, stored
<1> DEFINE e == Record(entry, p, commit[p])
<1>a. /\ commit[p] \in Results /\ UNCHANGED <<consent, stored>>
      /\ LedgerWritten(e) \/ LedgerFails(e)
      /\ \/ Put(p, commit[p]) /\ Move(p, "idle")
         \/ commit[p] # "committed" /\ EndsInError(p)
  BY DEF Finalize, End
<1>b. /\ e \in [Proposal -> Entries] /\ e[p] = commit[p]
      /\ \A q \in Proposal \ {p} : e[q] = entry[q]
      /\ commit[p] \in Statuses /\ commit[p] # "idle" /\ proposal[p] # None
  BY <1>1, <1>a DEF Record, Entries, Results, Terminal, Statuses, ProposalTypeOK,
                    ProposalInv, Committing
<1> HIDE DEF e
<1>c. /\ entry' \in [Proposal -> Entries] /\ entryKept' \in [Proposal -> Entries]
      /\ \A q \in Proposal : /\ entry'[q] \in {entry[q], e[q]}
                             /\ entryKept'[q] \in {entryKept[q], entry'[q]}
  BY <1>1, <1>a, <1>b, LedgerLeft
<1>d. Put(p, commit[p]) =>
        /\ proposal' = [proposal EXCEPT ![p] = proposal'[p]]
        /\ proposal'[p] \in Staged /\ proposal'[p] # None
        /\ proposal'[p].status = commit[p]
  BY <1>1, <1>b, PutChanges
<1>3. /\ commit[p] \in Results /\ consent'[p] = consent[p] /\ call'[p] = call[p]
      /\ commit'[p] = "idle"
      /\ entry'[p] \in {entry[p], commit[p]}
      /\ entryKept'[p] \in {entryKept[p], entry'[p]}
      /\ proposal'[p] # None /\ proposal'[p] \in Staged
      /\ \/ proposal'[p].status = commit[p]
         \/ commit[p] # "committed" /\ proposal'[p] = proposal[p]
  BY <1>1, <1>a, <1>b, <1>c, <1>d, StagedFields DEF Move, ProposalTypeOK, EndsInError,
     stored
<1>4. OnlyOf(p)
  BY <1>1, <1>a, <1>b, <1>c, <1>d, <1>3 DEF OnlyOf, Move, ProposalTypeOK, EndsInError,
     stored
<1>5. entry' \in [Proposal -> Entries] /\ entryKept' \in [Proposal -> Entries]
  BY <1>1, <1>a, <1>b, <1>c, <1>d, <1>3 DEF Move, ProposalTypeOK, EndsInError, stored
<1>6. ProposalTypeOK'
  BY <1>1, <1>3, <1>4, <1>5, ProposalTypes DEF Results, Terminal
<1>7. Agrees(p)'
  BY <1>1, <1>2, <1>3, StagedFields
     DEF ProposalInv, Agrees, Committing, CallIsTrue, IsTrue, Stays, Consented, traces,
        Results, Terminal
<1>8. Committing(p)'
  BY <1>1, <1>2, <1>3, StagedFields
     DEF ProposalInv, Agrees, Committing, CallIsTrue, IsTrue, Stays, traces, Results,
        Terminal
<1> QED BY <1>4, <1>6, <1>7, <1>8 DEF ProposalInv

\* The session has gone before the store was called: the entry says so.
LEMMA RevokeStep ==
  ASSUME IInv, NEW p \in Proposal, Revoke(p)
  PROVE  ProposalTypeOK' /\ OnlyOf(p) /\ ProposalInv(p)'
<1>1. /\ ProposalTypeOK /\ ProposalInv(p) /\ CallIsTrue(p)
      /\ proposal[p] # None => proposal[p] \in Staged
      /\ entry[p] \in Entries /\ entryKept[p] \in Entries
      /\ p \in Actor /\ call \in [Actor -> {store!Idle} \cup store!Calls]
      /\ consent[p] \subseteq {"approve", "confirm", "reject"}
      /\ commit[p] \in {"idle", "begin", "execute", "store", "revoke"} \cup Results
  BY ProposalAssumption DEF IInv, TypeOK, ProposalTypeOK, ServedTypeOK, store!TypeOK
<1>2. UNCHANGED traces
  BY DEF Revoke, served, stored
<1> DEFINE e == Record(entry, p, "indeterminate")
<1>a. /\ commit[p] = "revoke" /\ UNCHANGED <<consent, stored>>
      /\ LedgerWritten(e) \/ LedgerFails(e)
      /\ Put(p, "indeterminate") /\ Move(p, "idle")
  BY DEF Revoke, End
<1>b. /\ e \in [Proposal -> Entries] /\ e[p] = "indeterminate"
      /\ \A q \in Proposal \ {p} : e[q] = entry[q]
      /\ "indeterminate" \in Statuses /\ proposal[p] # None
  BY <1>1, <1>a DEF Record, Entries, Results, Terminal, Statuses, ProposalTypeOK,
                    ProposalInv, Committing
<1> HIDE DEF e
<1>c. /\ entry' \in [Proposal -> Entries] /\ entryKept' \in [Proposal -> Entries]
      /\ \A q \in Proposal : /\ entry'[q] \in {entry[q], e[q]}
                             /\ entryKept'[q] \in {entryKept[q], entry'[q]}
  BY <1>1, <1>a, <1>b, LedgerLeft
<1>d. /\ proposal' = [proposal EXCEPT ![p] = proposal'[p]]
      /\ proposal'[p] \in Staged /\ proposal'[p] # None
      /\ proposal'[p].status = "indeterminate"
  BY <1>1, <1>a, <1>b, PutChanges
<1>3. /\ commit[p] = "revoke" /\ consent'[p] = consent[p] /\ call'[p] = call[p]
      /\ commit'[p] = "idle"
      /\ entry'[p] \in {entry[p], "indeterminate"}
      /\ entryKept'[p] \in {entryKept[p], entry'[p]}
      /\ proposal'[p] # None /\ proposal'[p] \in Staged
      /\ proposal'[p].status = "indeterminate"
  BY <1>1, <1>a, <1>b, <1>c, <1>d, StagedFields DEF Move, ProposalTypeOK, stored
<1>4. OnlyOf(p)
  BY <1>1, <1>a, <1>b, <1>c, <1>d, <1>3 DEF OnlyOf, Move, ProposalTypeOK, stored
<1>5. entry' \in [Proposal -> Entries] /\ entryKept' \in [Proposal -> Entries]
  BY <1>1, <1>a, <1>b, <1>c, <1>d, <1>3 DEF Move, ProposalTypeOK, stored
<1>6. ProposalTypeOK'
  BY <1>1, <1>3, <1>4, <1>5, ProposalTypes DEF Results, Terminal
<1>7. Agrees(p)'
  BY <1>1, <1>2, <1>3, StagedFields
     DEF ProposalInv, Agrees, Committing, CallIsTrue, IsTrue, Stays, Consented, traces,
        Results, Terminal
<1>8. Committing(p)'
  BY <1>1, <1>2, <1>3, StagedFields
     DEF ProposalInv, Agrees, Committing, CallIsTrue, IsTrue, Stays, traces, Results,
        Terminal
<1> QED BY <1>4, <1>6, <1>7, <1>8 DEF ProposalInv

\* The commit is recorded as pending on the disk before it starts; a recorded
\* commit is answered from its entry and not repeated.
LEMMA BeginStep ==
  ASSUME IInv, NEW p \in Proposal, Begin(p)
  PROVE  ProposalTypeOK' /\ OnlyOf(p) /\ ProposalInv(p)'
<1>1. /\ ProposalTypeOK /\ ProposalInv(p)
      /\ proposal[p] \in Staged /\ proposal[p].status = "approved" /\ effects[p] = 0
      /\ entry[p] \in Entries /\ commit[p] = "begin"
      /\ consent[p] \subseteq {"approve", "confirm", "reject"}
  BY StagedFields DEF IInv, TypeOK, ProposalTypeOK, ProposalInv, Agrees, Committing, Begin
<1>2. UNCHANGED <<traces, consent, call>>
  BY DEF Begin, stored
<1>3. PICK forgotten \in SUBSET (Proposal \ {p}) :
        LET e == Record(Retained(forgotten), p, BeginRecords(p))
        IN \/ /\ LedgerWritten(e)
              /\ IF entry[p] = None THEN Move(p, "execute") /\ UNCHANGED proposal
                 ELSE End(p, e[p])
           \/ LedgerFails(e) /\ EndsInError(p)
  BY DEF Begin
<1> DEFINE e == Record(Retained(forgotten), p, BeginRecords(p))
<1>4. /\ BeginRecords(p) \in Entries
      /\ entry[p] = None => BeginRecords(p) = "pending"
      /\ entry[p] # None => BeginRecords(p) \in Terminal
                            /\ (BeginRecords(p) = entry[p] \/ BeginRecords(p) = "indeterminate")
  BY <1>1, StatusAssumption DEF BeginRecords, Entries, Terminal
<1>5. /\ e \in [Proposal -> Entries] /\ e[p] = BeginRecords(p)
      /\ \A q \in Proposal \ {p} : e[q] = entry[q] \/ (e[q] = None /\ commit[q] = "idle")
  BY <1>1, <1>4 DEF Record, Retained, ProposalTypeOK, Entries
<1>6. \/ /\ LedgerWritten(e) /\ entry[p] = None
         /\ Move(p, "execute") /\ UNCHANGED proposal
      \/ LedgerWritten(e) /\ entry[p] # None /\ Put(p, e[p]) /\ Move(p, "idle")
      \/ LedgerFails(e) /\ Move(p, "idle") /\ UNCHANGED proposal
  BY <1>3 DEF End, EndsInError
<1> HIDE DEF e
<1>7. /\ entry' \in [Proposal -> Entries] /\ entryKept' \in [Proposal -> Entries]
      /\ \A q \in Proposal : /\ entry'[q] \in {entry[q], e[q]}
                             /\ entryKept'[q] \in {entryKept[q], entry'[q]}
  BY <1>1, <1>5, <1>6, LedgerLeft
<1>8. entry[p] # None /\ Put(p, e[p]) =>
        /\ proposal' = [proposal EXCEPT ![p] = proposal'[p]]
        /\ proposal'[p] \in Staged /\ proposal'[p] # None /\ proposal'[p].status = e[p]
  <2>1. proposal[p] # None
    BY <1>1, StagedFields
  <2>2. entry[p] # None => e[p] \in Statuses
    BY <1>4, <1>5 DEF Statuses
  <2> QED BY <1>1, <2>1, <2>2, PutChanges
<1>9. /\ commit' = [commit EXCEPT ![p] = commit'[p]] /\ proposal'[p] \in Staged
      /\ proposal' = [proposal EXCEPT ![p] = proposal'[p]] /\ proposal'[p] # None
      /\ \/ /\ entry'[p] = "pending" /\ entryKept'[p] = "pending"
            /\ commit'[p] = "execute" /\ proposal'[p] = proposal[p]
         \/ /\ commit'[p] = "idle" /\ entry[p] # None /\ proposal'[p].status = e[p]
         \/ commit'[p] = "idle" /\ proposal'[p] = proposal[p]
  <2>1. CASE LedgerWritten(e) /\ entry[p] = None /\ Move(p, "execute") /\ UNCHANGED proposal
    BY <1>1, <1>4, <1>5, <2>1, StagedFields DEF LedgerWritten, Move, ProposalTypeOK
  <2>2. CASE LedgerWritten(e) /\ entry[p] # None /\ Put(p, e[p]) /\ Move(p, "idle")
    BY <1>1, <1>8, <2>2 DEF Move, ProposalTypeOK
  <2>3. CASE LedgerFails(e) /\ Move(p, "idle") /\ UNCHANGED proposal
    BY <1>1, <2>3, StagedFields DEF Move, ProposalTypeOK
  <2> QED BY <1>6, <2>1, <2>2, <2>3
<1>10. OnlyOf(p)
  BY <1>1, <1>2, <1>5, <1>7, <1>9 DEF OnlyOf, ProposalTypeOK
<1>11. ProposalTypeOK'
  BY <1>1, <1>2, <1>7, <1>9, <1>10, ProposalTypes
<1>12. /\ effects' = effects /\ consent' = consent /\ call' = call
       /\ lost' = lost /\ unsynced' = unsynced
  BY <1>2 DEF traces
<1>13. /\ entry'[p] # None => IsTrue(p, entry'[p])
       /\ entryKept'[p] # None => IsTrue(p, entryKept'[p])
       /\ entry[p] # None => IsTrue(p, e[p])
  BY <1>1, <1>4, <1>5, <1>7 DEF ProposalInv, Agrees, IsTrue, Terminal
<1>14. Agrees(p)'
  BY <1>1, <1>4, <1>5, <1>9, <1>12, <1>13
     DEF ProposalInv, Agrees, IsTrue, Stays, Consented, Terminal
<1>15. Committing(p)'
  BY <1>1, <1>9, <1>12 DEF ProposalInv, Committing, Results
<1> QED BY <1>10, <1>11, <1>14, <1>15 DEF ProposalInv

\* A call of the store gets a new status and keeps the rest.
LEMMA CallFields ==
  ASSUME NEW c \in {store!Idle} \cup store!Calls, c.status # "idle",
         NEW s \in {"pending", "applied"} \cup store!Answers
  PROVE  LET n == [c EXCEPT !.status = s] IN
           n \in store!Calls /\ n.status = s /\ n # store!Idle /\ c # store!Idle
         /\ c.base \in Contents /\ c.next \in Contents
  BY DEF store!Idle, store!Calls, store!Answers

\* A fault stays within the bound.
LEMMA FaultCounted ==
  ASSUME ServedTypeOK, Fault
  PROVE  budget' \in [writes : 0..MaxWrites, faults : 0..MaxFaults, crashes : 0..MaxCrashes]
  BY ServedBoundAssumption DEF ServedTypeOK, Fault

\* What a step of the store changes: one call, and on its way from pending to
\* applied the content, once.
LEMMA StoreSteps ==
  ASSUME IInv, NEW a \in Actor, StoreStep(a)
  PROVE  /\ ServedTypeOK' /\ CallIsTrue(a)'
         /\ call[a] # store!Idle /\ call'[a] # store!Idle
         /\ \A b \in Actor \ {a} :
              /\ call'[b] = call[b] /\ effects'[b] = effects[b]
              /\ b \in lost' => b \in lost
              /\ b \in unsynced' => b \in unsynced
<1>1. /\ ServedTypeOK /\ CallIsTrue(a) /\ call[a] \in {store!Idle} \cup store!Calls
      /\ call \in [Actor -> {store!Idle} \cup store!Calls]
      /\ effects \in [Actor -> Nat]
      /\ content \in Contents /\ durable \in Contents
      /\ lost \subseteq Actor /\ unsynced \subseteq Actor
  BY DEF IInv, TypeOK, ServedTypeOK, store!TypeOK
<1>2. PICK s \in {"pending", "applied"} \cup store!Answers :
        /\ call' = [call EXCEPT ![a] = [call[a] EXCEPT !.status = s]]
        /\ call[a].status # "idle"
        /\ \/ /\ call[a].status = "pending" /\ s = "applied" /\ content' = call[a].next
              /\ effects' = [effects EXCEPT ![a] = @ + 1] /\ unsynced' = unsynced \cup {a}
              /\ UNCHANGED <<durable, ledger, lost, budget>>
           \/ /\ call[a].status = "applied" /\ s = "committed" /\ durable' = content
              /\ unsynced' = {}
              /\ UNCHANGED <<content, ledger, effects, lost, budget>>
           \/ /\ call[a].status = "pending" /\ s = "conflict"
              /\ UNCHANGED <<content, durable, ledger, traces, budget>>
           \/ /\ call[a].status = "pending" /\ s = "failed" /\ Fault
              /\ UNCHANGED <<content, durable, ledger, traces>>
           \/ /\ call[a].status \in {"pending", "applied"} /\ s = "unknown" /\ Fault
              /\ UNCHANGED <<content, durable, ledger, traces>>
  <2>1. CASE Apply(a)
    BY <2>1, Zenon DEF Apply, store!Apply, store!Becomes
  <2>2. CASE Synchronize(a)
    BY <2>2 DEF Synchronize, store!Commit, store!Becomes, store!Answers
  <2>3. CASE Reject(a)
    BY <2>3 DEF Reject, store!Answer, store!AnswerIsTrue, store!Becomes, store!Answers
  <2>4. CASE Break(a)
    BY <2>4 DEF Break, store!Answer, store!AnswerIsTrue, store!Becomes, store!Answers
  <2> QED BY <2>1, <2>2, <2>3, <2>4 DEF StoreStep
<1> DEFINE n == [call[a] EXCEPT !.status = s]
<1>3. /\ n \in store!Calls /\ n.status = s /\ n # store!Idle /\ call[a] # store!Idle
      /\ call[a].next \in Contents /\ call' = [call EXCEPT ![a] = n]
  BY <1>1, <1>2, CallFields
<1> HIDE DEF n
<1>4. call' \in [Actor -> {store!Idle} \cup store!Calls] /\ call'[a] = n
  BY <1>1, <1>3
<1>5. effects' \in [Actor -> Nat] /\ unsynced' \subseteq Actor /\ lost' = lost /\ ledger' = ledger
  BY <1>1, <1>2 DEF traces
<1>6. budget' \in [writes : 0..MaxWrites, faults : 0..MaxFaults, crashes : 0..MaxCrashes]
  BY <1>1, <1>2, FaultCounted DEF ServedTypeOK
<1>7. content' \in Contents /\ durable' \in Contents
  BY <1>1, <1>2, <1>3
<1>8. ServedTypeOK'
  BY <1>1, <1>4, <1>5, <1>6, <1>7 DEF ServedTypeOK, store!TypeOK
<1>9. CallIsTrue(a)'
  BY <1>1, <1>2, <1>3, <1>4, <1>5 DEF CallIsTrue, traces
<1>10. \A b \in Actor \ {a} :
         /\ call'[b] = call[b] /\ effects'[b] = effects[b]
         /\ b \in lost' => b \in lost
         /\ b \in unsynced' => b \in unsynced
  BY <1>1, <1>2, <1>3 DEF traces
<1> QED BY <1>3, <1>4, <1>8, <1>9, <1>10

\* A step of the store keeps the invariant: whoever waits for it has not
\* answered yet.
LEMMA StoreStepKeeps ==
  ASSUME IInv, NEW a \in Actor, StoreStep(a), UNCHANGED <<operations, proposals>>
  PROVE  IInv'
<1>1. /\ ServedTypeOK' /\ CallIsTrue(a)'
      /\ call[a] # store!Idle /\ call'[a] # store!Idle
      /\ \A b \in Actor \ {a} :
           /\ call'[b] = call[b] /\ effects'[b] = effects[b]
           /\ b \in lost' => b \in lost
           /\ b \in unsynced' => b \in unsynced
  BY StoreSteps
<1>2. \A b \in Actor : CallIsTrue(b)'
  BY <1>1, CallFrame DEF IInv
<1>3. TypeOK'
  <2>1. OperationTypeOK'
    BY DEF IInv, TypeOK, operations, OperationTypeOK
  <2>2. ProposalTypeOK'
    BY DEF IInv, TypeOK, proposals, ProposalTypeOK
  <2> QED BY <1>1, <2>1, <2>2 DEF TypeOK
<1>4. ASSUME NEW o \in Operation PROVE OperationInv(o)'
  <2>1. OperationInv(o) /\ o \in Actor
    BY OperationAssumption DEF IInv
  <2>2. CASE o # a
    BY <1>1, <2>1, <2>2, OperationFrame DEF operations
  <2>3. CASE o = a
    <3>1. run[o].pc = "commit"
      BY <1>1, <2>1, <2>3 DEF OperationInv, Executing
    <3>2. Claims(o)' = {} /\ Claims(o) = {}
      BY <2>1, <3>1 DEF OperationInv, Executing, Claims, operations
    <3> QED
      BY <1>1, <2>1, <2>3, <3>1, <3>2
      DEF OperationInv, OneTruth, Untouched, Evidence, Executing, operations
  <2> QED BY <2>2, <2>3
<1>5. ASSUME NEW p \in Proposal PROVE ProposalInv(p)'
  <2>1. ProposalInv(p) /\ p \in Actor
    BY ProposalAssumption DEF IInv
  <2>2. CASE p # a
    BY <1>1, <2>1, <2>2, ProposalFrame DEF proposals
  <2>3. CASE p = a
    BY <1>1, <2>1, <2>3, StatusAssumption
    DEF ProposalInv, Agrees, Committing, IsTrue, Consented, Results, proposals
  <2> QED BY <2>2, <2>3
<1> QED BY <1>2, <1>3, <1>4, <1>5 DEF IInv

\* A save of the user keeps the invariant.
LEMMA SaveKeeps ==
  ASSUME IInv, NEW value \in Contents, Save(value), UNCHANGED <<operations, proposals>>
  PROVE  IInv'
<1>1. /\ UNCHANGED <<call, effects, lost>> /\ unsynced' = {}
  BY DEF Save
<1>2. TypeOK'
  <2>1. ServedTypeOK'
    BY <1>1, ServedBoundAssumption DEF IInv, TypeOK, ServedTypeOK, store!TypeOK, Save
  <2>2. OperationTypeOK'
    BY DEF IInv, TypeOK, operations, OperationTypeOK
  <2>3. ProposalTypeOK'
    BY DEF IInv, TypeOK, proposals, ProposalTypeOK
  <2> QED BY <2>1, <2>2, <2>3 DEF TypeOK
<1>3. \A a \in Actor : CallIsTrue(a)'
  BY <1>1, CallFrame DEF IInv
<1>4. \A o \in Operation : OperationInv(o)'
  BY <1>1, OperationFrame DEF IInv, operations
<1>5. \A p \in Proposal : ProposalInv(p)'
  BY <1>1, ProposalFrame DEF IInv, proposals
<1> QED BY <1>2, <1>3, <1>4, <1>5 DEF IInv

\* The store is called for a change that has not happened.
LEMMA InvokeServed ==
  ASSUME IInv, NEW a \in Actor, NEW b \in Contents, NEW n \in Contents,
         store!Invoke(a, b, n), effects[a] = 0, UNCHANGED traces
  PROVE  /\ store!TypeOK' /\ CallIsTrue(a)'
         /\ \A c \in Actor \ {a} : call'[c] = call[c]
<1> DEFINE made == [status |-> "pending", base |-> b, next |-> n]
<1>1. made \in store!Calls /\ made.status = "pending"
  BY DEF store!Calls
<1>2. call' = [call EXCEPT ![a] = made] /\ UNCHANGED <<content, durable>>
  BY DEF store!Invoke
<1> HIDE DEF made
<1>3. store!TypeOK' /\ call'[a] = made /\ \A c \in Actor \ {a} : call'[c] = call[c]
  BY <1>1, <1>2 DEF IInv, TypeOK, ServedTypeOK, store!TypeOK
<1> QED BY <1>1, <1>3 DEF IInv, CallIsTrue, traces

\* The answer of the store is taken.
LEMMA FinishServed ==
  ASSUME IInv, NEW a \in Actor, store!Finish(a), UNCHANGED traces
  PROVE  /\ store!TypeOK' /\ CallIsTrue(a)'
         /\ \A c \in Actor \ {a} : call'[c] = call[c]
<1>1. call' = [call EXCEPT ![a] = store!Idle] /\ UNCHANGED <<content, durable>>
  BY DEF store!Finish
<1>2. store!TypeOK' /\ call'[a] = store!Idle /\ \A c \in Actor \ {a} : call'[c] = call[c]
  BY <1>1 DEF IInv, TypeOK, ServedTypeOK, store!TypeOK
<1> QED BY <1>2 DEF IInv, CallIsTrue, traces, store!Idle

\* A step that leaves the store alone.
LEMMA StoreLeft ==
  ASSUME IInv, NEW a \in Actor, UNCHANGED stored, UNCHANGED traces
  PROVE  /\ store!TypeOK' /\ CallIsTrue(a)'
         /\ \A c \in Actor \ {a} : call'[c] = call[c]
  BY DEF IInv, CallIsTrue, TypeOK, ServedTypeOK, store!TypeOK, stored, traces

\* What a step of an operation does to the store: it changes no content, and at
\* most its own call.
LEMMA OperationServed ==
  ASSUME IInv, NEW o \in Operation, OperationNext(o)
  PROVE  /\ ServedTypeOK' /\ CallIsTrue(o)' /\ UNCHANGED traces
         /\ \A c \in Actor \ {o} : call'[c] = call[c]
<1>1. o \in Actor /\ ServedTypeOK
  BY OperationAssumption DEF IInv, TypeOK
<1>2. /\ UNCHANGED traces /\ ledger' \in {"open", "closed", "unprepared"}
      /\ budget' = budget \/ Fault
      /\ \/ UNCHANGED stored
         \/ Prepare(o) /\ \E next \in Contents : store!Invoke(o, run[o].base, next)
         \/ store!Finish(o)
  <2>1. CASE RunStep(o)
    <3>1. CASE ReadReceipt(o) \/ Load(o)
      BY <1>1, <3>1 DEF ReadReceipt, Load, served, ServedTypeOK
    <3>2. CASE Admit(o) \/ Reserve(o)
      BY <1>1, <3>2 DEF Admit, Reserve, Written, WriteFails, traces, ServedTypeOK
    <3>3. CASE Prepare(o) \/ Conclusion(o)
      BY <1>1, <3>3 DEF Prepare, Conclusion, Written, WriteFails, traces, ServedTypeOK
    <3>4. CASE SaveResult(o) \/ Audit(o) \/ Close(o)
      BY <1>1, <3>4 DEF SaveResult, Audit, Close, Written, WriteFails, traces,
         ServedTypeOK
    <3> QED BY <2>1, <3>1, <3>2, <3>3, <3>4 DEF RunStep
  <2>2. CASE ~RunStep(o)
    BY <1>1, <2>2 DEF OperationNext, QueryStep, Call, Ask, Look, Reply, served,
       ServedTypeOK
  <2> QED BY <2>1, <2>2
<1>3. ServedTypeOK' <=> store!TypeOK'
  BY <1>1, <1>2, FaultCounted DEF ServedTypeOK, traces
<1>4. CASE UNCHANGED stored
  BY <1>1, <1>2, <1>3, <1>4, StoreLeft
<1>5. CASE Prepare(o) /\ \E next \in Contents : store!Invoke(o, run[o].base, next)
  <2>1. OperationInv(o) /\ run[o].pc = "prepare" /\ run[o] \in {Idle} \cup Runs \cup Endings
    BY <1>5 DEF IInv, TypeOK, OperationTypeOK, Prepare
  <2>2. effects[o] = 0 /\ run[o].base \in Contents
    BY <2>1, RunFields DEF OperationInv, Executing
  <2> QED BY <1>1, <1>2, <1>3, <1>5, <2>2, InvokeServed
<1>6. CASE store!Finish(o)
  BY <1>1, <1>2, <1>3, <1>6, FinishServed
<1> QED BY <1>2, <1>4, <1>5, <1>6

\* A step of an operation keeps the invariant.
LEMMA OperationKeeps ==
  ASSUME IInv, NEW o \in Operation, OperationNext(o), UNCHANGED proposals
  PROVE  IInv'
<1>1. OperationTypeOK' /\ OnlyAt(o) /\ OperationInv(o)'
  BY CallStep, AskStep, ReadReceiptStep, AdmitStep, ReserveStep, LoadStep, PrepareStep,
     ConclusionStep, SaveResultStep, AuditStep, CloseStep, LookStep, ReplyStep
  DEF OperationNext, RunStep, QueryStep
<1>2. /\ ServedTypeOK' /\ CallIsTrue(o)' /\ UNCHANGED traces
      /\ \A c \in Actor \ {o} : call'[c] = call[c]
  BY OperationServed
<1>3. TypeOK'
  <2>1. ProposalTypeOK'
    BY DEF IInv, TypeOK, proposals, ProposalTypeOK
  <2> QED BY <1>1, <1>2, <2>1 DEF TypeOK
<1>4. \A a \in Actor : CallIsTrue(a)'
  BY <1>2, CallFrame DEF IInv, traces
<1>5. ASSUME NEW q \in Operation, q # o PROVE OperationInv(q)'
  <2>1. OperationInv(q) /\ q \in Actor /\ OperationTypeOK
    BY OperationAssumption DEF IInv, TypeOK
  <2> QED BY <1>1, <1>2, <1>5, <2>1, OperationFrame DEF OnlyAt, OperationTypeOK, traces
<1>6. ASSUME NEW p \in Proposal PROVE ProposalInv(p)'
  <2>1. ProposalInv(p) /\ p \in Actor /\ p # o
    BY ProposalAssumption, ActorAssumption DEF IInv
  <2> QED BY <1>2, <2>1, ProposalFrame DEF proposals, traces
<1> QED BY <1>1, <1>3, <1>4, <1>5, <1>6 DEF IInv

\* What a step of a proposal does to the store: it changes no content, and at
\* most its own call.
LEMMA ProposalServed ==
  ASSUME IInv, NEW p \in Proposal, ProposalNext(p)
  PROVE  /\ ServedTypeOK' /\ CallIsTrue(p)' /\ UNCHANGED traces
         /\ \A c \in Actor \ {p} : call'[c] = call[c]
<1>1. p \in Actor /\ ServedTypeOK
  BY ProposalAssumption DEF IInv, TypeOK
<1>2. /\ UNCHANGED traces /\ ledger' \in {"open", "closed", "unprepared"}
      /\ budget' = budget \/ Fault
      /\ \/ UNCHANGED stored
         \/ Execute(p) /\ store!Invoke(p, proposal[p].base, proposal[p].next)
         \/ store!Finish(p)
  <2>1. CASE CommitStep(p)
    <3>1. CASE Begin(p)
      BY <1>1, <3>1 DEF Begin, LedgerWritten, LedgerFails, ServedTypeOK
    <3>2. CASE Execute(p) \/ Executed(p)
      BY <1>1, <3>2 DEF Execute, Executed, ServedTypeOK
    <3>3. CASE Finalize(p) \/ Revoke(p)
      BY <1>1, <3>3 DEF Finalize, Revoke, LedgerWritten, LedgerFails, ServedTypeOK
    <3> QED BY <2>1, <3>1, <3>2, <3>3 DEF CommitStep
  <2>2. CASE ~CommitStep(p)
    BY <1>1, <2>2
    DEF ProposalNext, Stage, Approve, Decline, ConfirmDestruction, served, ServedTypeOK
  <2> QED BY <2>1, <2>2
<1>3. ServedTypeOK' <=> store!TypeOK'
  BY <1>1, <1>2, FaultCounted DEF ServedTypeOK, traces
<1>4. CASE UNCHANGED stored
  BY <1>1, <1>2, <1>3, <1>4, StoreLeft
<1>5. CASE Execute(p) /\ store!Invoke(p, proposal[p].base, proposal[p].next)
  <2>1. /\ ProposalInv(p) /\ commit[p] = "execute"
        /\ proposal[p] \in Staged \cup {None}
    BY <1>5 DEF IInv, TypeOK, ProposalTypeOK, Execute
  <2>2. effects[p] = 0 /\ proposal[p] \in Staged
    BY <2>1 DEF ProposalInv, Agrees, Committing
  <2> QED BY <1>1, <1>2, <1>3, <1>5, <2>2, StagedFields, InvokeServed
<1>6. CASE store!Finish(p)
  BY <1>1, <1>2, <1>3, <1>6, FinishServed
<1> QED BY <1>2, <1>4, <1>5, <1>6

\* A step of a proposal keeps the invariant.
LEMMA ProposalKeeps ==
  ASSUME IInv, NEW p \in Proposal, ProposalNext(p), UNCHANGED operations
  PROVE  IInv'
<1>1. ProposalTypeOK' /\ OnlyOf(p) /\ ProposalInv(p)'
  BY StageStep, ApproveStep, DeclineStep, ConfirmDestructionStep, BeginStep, ExecuteStep,
     ExecutedStep, FinalizeStep, RevokeStep
  DEF ProposalNext, CommitStep
<1>2. /\ ServedTypeOK' /\ CallIsTrue(p)' /\ UNCHANGED traces
      /\ \A c \in Actor \ {p} : call'[c] = call[c]
  BY ProposalServed
<1>3. TypeOK'
  <2>1. OperationTypeOK'
    BY DEF IInv, TypeOK, operations, OperationTypeOK
  <2> QED BY <1>1, <1>2, <2>1 DEF TypeOK
<1>4. \A a \in Actor : CallIsTrue(a)'
  BY <1>2, CallFrame DEF IInv, traces
<1>5. ASSUME NEW q \in Proposal, q # p PROVE ProposalInv(q)'
  <2>1. ProposalInv(q) /\ q \in Actor /\ ProposalTypeOK
    BY ProposalAssumption DEF IInv, TypeOK
  <2> QED BY <1>1, <1>2, <1>5, <2>1, ProposalFrame DEF OnlyOf, ProposalTypeOK, traces
<1>6. ASSUME NEW o \in Operation PROVE OperationInv(o)'
  <2>1. OperationInv(o) /\ o \in Actor /\ o # p
    BY OperationAssumption, ActorAssumption DEF IInv
  <2> QED BY <1>2, <2>1, OperationFrame DEF operations, traces
<1> QED BY <1>1, <1>3, <1>4, <1>5, <1>6 DEF IInv

\* The death of the server keeps the invariant: what it forgets was not
\* promised, and what the power takes back was not on the disk.
LEMMA CrashKeeps ==
  ASSUME IInv, NEW power \in BOOLEAN, Crash(power)
  PROVE  IInv'
<1>1. /\ ServedTypeOK /\ OperationTypeOK /\ ProposalTypeOK
      /\ Restart(power) /\ OperationsRestart(power) /\ ProposalsRestart(power)
  BY DEF IInv, TypeOK, Crash
<1>2. /\ call' = [a \in Actor |-> store!Idle] /\ effects' = effects
      /\ content' \in Contents /\ durable' \in Contents
      /\ lost' \subseteq lost \cup unsynced /\ unsynced' \subseteq unsynced
      /\ ledger' \in {"open", "unprepared"}
  BY <1>1 DEF Restart, store!PowerLoss, ServedTypeOK, store!TypeOK
<1>3. budget' \in [writes : 0..MaxWrites, faults : 0..MaxFaults, crashes : 0..MaxCrashes]
  BY <1>1, ServedBoundAssumption DEF Restart, ServedTypeOK
<1>4. ServedTypeOK'
  BY <1>1, <1>2, <1>3 DEF ServedTypeOK, store!TypeOK
<1>5. ASSUME NEW a \in Actor PROVE CallIsTrue(a)'
  BY <1>2 DEF IInv, CallIsTrue, store!Idle
<1>6. /\ run' = [o \in Operation |-> Idle] /\ query' = [o \in Operation |-> Idle]
      /\ known' = [o \in Operation |-> None] /\ audited' = audited
      /\ receipt' \in [Operation -> Receipts \cup {None}]
      /\ kept' \in [Operation -> Receipts \cup {None}]
      /\ told' \in [Operation -> SUBSET Answers]
      /\ \A o \in Operation :
           /\ told'[o] \subseteq told[o]
           /\ \/ /\ receipt'[o] = receipt[o] /\ kept'[o] = kept[o] /\ told'[o] = told[o]
              \/ /\ receipt'[o] \in {receipt[o], kept[o]} /\ kept'[o] = receipt'[o]
                 /\ receipt'[o] = None => \A a \in told'[o] : a.status # "indeterminate"
  BY <1>1 DEF OperationsRestart, OperationTypeOK
<1>7. OperationTypeOK'
  BY <1>1, <1>6 DEF OperationTypeOK
<1>8. /\ proposal' = [p \in Proposal |-> None] /\ commit' = [p \in Proposal |-> "idle"]
      /\ entry' \in {entry, entryKept} /\ entryKept' \in {entry, entryKept}
      /\ consent' = consent
  BY <1>1 DEF ProposalsRestart
<1>9. ProposalTypeOK'
  BY <1>1, <1>8 DEF ProposalTypeOK
<1>10. ASSUME NEW o \in Operation PROVE OperationInv(o)'
  <2>1. /\ OperationInv(o) /\ o \in Actor /\ told[o] \subseteq Answers
        /\ run'[o].pc = "idle" /\ query'[o].pc = "idle" /\ known'[o] = None
        /\ call'[o] = store!Idle
    BY <1>1, <1>2, <1>6, OperationAssumption DEF IInv, OperationTypeOK, Idle
  <2>2. Claims(o)' \subseteq Claims(o)
    BY <1>6, <2>1 DEF Claims
  <2>3. OneTruth(o)'
    BY <1>2, <2>1, <2>2 DEF OperationInv, OneTruth, IsTrue, Stays
  <2>4. kept'[o] = None => Claims(o)' = {} /\ effects'[o] = 0
    BY <1>2, <1>6, <2>1, <2>2 DEF OperationInv, Evidence, Untouched
  <2>5. Evidence(o)'
    BY <1>2, <1>6, <2>1, <2>4 DEF OperationInv, Evidence
  <2>6. receipt'[o] = None => kept'[o] = None /\ told'[o] = {}
    <3>1. receipt'[o] = None => kept[o] = None /\ kept'[o] = None
      BY <1>6, <2>1 DEF OperationInv, Untouched
    <3>2. kept[o] = None => \A a \in told'[o] : a.status \notin Definite
      BY <1>6, <2>1 DEF OperationInv, Evidence, Claims
    <3>3. \A a \in told'[o] : a.status \in Definite \cup {"indeterminate"}
      BY <1>6, <2>1 DEF Answers, Outcomes, Definite
    <3> QED BY <1>6, <2>1, <3>1, <3>2, <3>3 DEF OperationInv, Untouched
  <2>7. Untouched(o)' /\ Executing(o)'
    BY <2>1, <2>6 DEF Untouched, Executing
  <2> QED BY <2>3, <2>5, <2>7 DEF OperationInv
<1>11. ASSUME NEW p \in Proposal PROVE ProposalInv(p)'
  <2>1. /\ ProposalInv(p) /\ p \in Actor /\ proposal'[p] = None /\ commit'[p] = "idle"
        /\ call'[p] = store!Idle
        /\ entry'[p] \in {entry[p], entryKept[p]}
        /\ entryKept'[p] \in {entry[p], entryKept[p]}
    BY <1>2, <1>8, ProposalAssumption DEF IInv
  <2>2. \A status : IsTrue(p, status) => IsTrue(p, status)'
    BY <1>2, <2>1 DEF IsTrue, Stays
  <2> QED BY <2>1, <2>2 DEF ProposalInv, Agrees, Committing, Results
<1> QED BY <1>4, <1>5, <1>7, <1>9, <1>10, <1>11 DEF IInv, TypeOK

\* A server that has just been set up.
LEMMA InitHolds ==
  ASSUME Init
  PROVE  IInv
<1>1. TypeOK
  <2>1. ServedTypeOK
    BY ServedBoundAssumption DEF Init, ServedInit, ServedTypeOK, store!Init, store!TypeOK
  <2>2. OperationTypeOK
    BY DEF Init, OperationInit, OperationTypeOK
  <2>3. ProposalTypeOK
    BY DEF Init, ProposalInit, ProposalTypeOK, Entries
  <2> QED BY <2>1, <2>2, <2>3 DEF TypeOK
<1>2. ASSUME NEW a \in Actor PROVE CallIsTrue(a)
  BY DEF Init, ServedInit, store!Init, store!Idle, CallIsTrue
<1>3. ASSUME NEW o \in Operation PROVE OperationInv(o)
  <2>1. /\ receipt[o] = None /\ kept[o] = None /\ known[o] = None /\ told[o] = {}
        /\ run[o].pc = "idle" /\ query[o].pc = "idle"
        /\ effects[o] = 0 /\ call[o] = store!Idle
    BY OperationAssumption DEF Init, ServedInit, OperationInit, store!Init, Idle
  <2>2. Claims(o) = {}
    BY <2>1 DEF Claims
  <2> QED BY <2>1, <2>2 DEF OperationInv, OneTruth, Untouched, Evidence, Executing
<1>4. ASSUME NEW p \in Proposal PROVE ProposalInv(p)
  BY ProposalAssumption
  DEF Init, ServedInit, ProposalInit, store!Init, ProposalInv, Agrees, Committing, Results
<1> QED BY <1>1, <1>2, <1>3, <1>4 DEF IInv

\* Nothing changes.
LEMMA StutterKeeps ==
  ASSUME IInv, UNCHANGED vars
  PROVE  IInv'
<1>1. UNCHANGED <<served, operations, proposals>>
  BY DEF vars
<1>2. TypeOK'
  BY <1>1 DEF IInv, TypeOK, ServedTypeOK, store!TypeOK, OperationTypeOK, ProposalTypeOK,
              served, stored, traces, operations, proposals
<1>3. \A a \in Actor : CallIsTrue(a)'
  BY <1>1, CallFrame DEF IInv, served, stored, traces
<1>4. \A o \in Operation : OperationInv(o)'
  BY <1>1, OperationFrame DEF IInv, served, stored, traces, operations
<1>5. \A p \in Proposal : ProposalInv(p)'
  BY <1>1, ProposalFrame DEF IInv, served, stored, traces, proposals
<1> QED BY <1>2, <1>3, <1>4, <1>5 DEF IInv

\* The invariant holds in every behaviour of the specification.
THEOREM ServerInvariant == Spec => []IInv
<1>1. Init => IInv
  BY InitHolds
<1>2. IInv /\ [Next]_vars => IInv'
  BY OperationKeeps, ProposalKeeps, StoreStepKeeps, SaveKeeps, CrashKeeps, StutterKeeps
  DEF Next, operations, proposals
<1> QED BY <1>1, <1>2, PTL DEF Spec

\* Every variable has its type in every reachable state.
THEOREM TypeCorrect == Spec => []TypeOK
<1>1. IInv => TypeOK
  BY DEF IInv
<1> QED BY <1>1, ServerInvariant, PTL

\* However often a call is repeated, before or after a restart, the change of
\* an operation or a proposal happens at most once (runContentOperation,
\* runIdempotent).
THEOREM ChangesOnceAtMost == Spec => []AtMostOnce
<1>1. IInv => AtMostOnce
  <2> SUFFICES ASSUME IInv, NEW a \in Actor
               PROVE  effects[a] <= 1
    BY DEF AtMostOnce
  <2>1. effects[a] \in {0, 1}
    BY DEF IInv, CallIsTrue
  <2> QED BY <2>1
<1> QED BY <1>1, ServerInvariant, PTL

\* A set without two elements has at most one.
LEMMA OneElement ==
  ASSUME NEW S, \A a, b \in S : a = b
  PROVE  Cardinality(S) <= 1
<1>1. CASE S = {}
  BY <1>1, FS_EmptySet
<1>2. CASE S # {}
  <2>1. PICK a : S = {a}
    BY <1>2
  <2> QED BY <2>1, FS_Singleton
<1> QED BY <1>1, <1>2

\* All definite answers an operation ever gets are one answer, also those to
\* queries and those after a restart, and it is true of the content
\* (runContentOperation, getContentOperation).
THEOREM OneTrueAnswer == Spec => []AnswersAreTrue
<1>1. ASSUME IInv, NEW o \in Operation
      PROVE  /\ Cardinality(Told(o, Definite)) <= 1
             /\ Told(o, {"committed"}) # {} => effects[o] = 1 /\ o \notin lost
             /\ Told(o, {"conflict", "failed"}) # {} => effects[o] = 0
  <2>1. OneTruth(o) /\ told[o] \subseteq Answers
    BY <1>1 DEF IInv, OperationInv, TypeOK, OperationTypeOK
  <2>2. Told(o, Definite) \subseteq Claims(o)
    BY <2>1 DEF Told, Claims
  <2>3. Cardinality(Told(o, Definite)) <= 1
    BY <2>1, <2>2, OneElement DEF OneTruth
  <2>4. \A a \in Told(o, Definite) : IsTrue(o, a.status)
    BY <2>1, <2>2 DEF OneTruth
  <2> QED BY <2>3, <2>4 DEF Told, Definite, IsTrue, Stays
<1>2. IInv => AnswersAreTrue
  BY <1>1 DEF AnswersAreTrue, Definite
<1> QED BY <1>2, ServerInvariant, PTL

\* A change that happened has a prepared receipt on the disk, so that no power
\* loss leaves a change nobody can account for (recordPrepared).
THEOREM EvidenceIsKept == Spec => []EvidenceOutlivesPower
<1>1. IInv => EvidenceOutlivesPower
  <2> SUFFICES ASSUME IInv, NEW o \in Operation, effects[o] > 0
               PROVE  kept[o] # None /\ kept[o].prepared
    BY DEF EvidenceOutlivesPower
  <2>1. effects[o] = 1 /\ Evidence(o)
    BY OperationAssumption DEF IInv, OperationInv, CallIsTrue
  <2> QED BY <2>1 DEF Evidence
<1> QED BY <1>1, ServerInvariant, PTL

\* While an operation may still change the content, nobody was given an answer
\* to it (getContentOperation beside #run).
THEOREM AnswersEndExecution == Spec => []AnsweredIsNotReplayed
<1>1. IInv => AnsweredIsNotReplayed
  BY DEF IInv, OperationInv, Executing, AnsweredIsNotReplayed
<1> QED BY <1>1, ServerInvariant, PTL

\* What a proposal shows, and what its ledger entry says, is what became of its
\* change (commitAgentProposalExactly, AgentOperationLedger).
THEOREM ProposalsAreTrue == Spec => []ProposalsTellTheTruth
<1>1. IInv => ProposalsTellTheTruth
  BY DEF IInv, ProposalInv, Agrees, IsTrue, Stays, TellsTheTruth, ProposalsTellTheTruth
<1> QED BY <1>1, ServerInvariant, PTL

\* A step changes a content on behalf of a proposal only after the owner
\* approved it, and confirmed it if it is destructive.
THEOREM ConsentComesFirst == Spec => OnlyConsentedChanges
<1>1. ASSUME IInv, [Next]_vars, NEW p \in Proposal, effects'[p] # effects[p]
      PROVE  Consented(p)
  <2>1. PICK a \in Actor : StoreStep(a)
    <3>1. \A o \in Operation : OperationNext(o) => effects' = effects
      BY <1>1, OperationServed DEF traces
    <3>2. \A q \in Proposal : ProposalNext(q) => effects' = effects
      BY <1>1, ProposalServed DEF traces
    <3>3. \A value \in Contents : Save(value) => effects' = effects
      BY DEF Save
    <3>4. \A power \in BOOLEAN : Crash(power) => effects' = effects
      BY DEF Crash, Restart
    <3>5. UNCHANGED vars => effects' = effects
      BY DEF vars, served, traces
    <3> QED BY <1>1, <3>1, <3>2, <3>3, <3>4, <3>5 DEF Next
  <2>2. call[a] # store!Idle /\ (a # p => effects'[p] = effects[p])
    BY <1>1, <2>1, StoreSteps, ProposalAssumption
  <2>3. call[p] # store!Idle
    BY <1>1, <2>2
  <2> QED BY <1>1, <2>3, StatusAssumption
     DEF IInv, ProposalInv, Agrees, Committing, Results
<1>2. IInv /\ [Next]_vars => [\A p \in Proposal : effects'[p] # effects[p] => Consented(p)]_vars
  BY <1>1
<1> QED BY <1>2, ServerInvariant, PTL DEF Spec, OnlyConsentedChanges
=============================================================================
