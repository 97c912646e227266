--------------------------- MODULE AgentProposals ---------------------------
(***************************************************************************)
(* Proposals of an agent: a staged content on a frozen base, decided by    *)
(* the owner and then committed once (agentProposal.ts,                    *)
(* proposalWorkflow.ts, proposalCommitter.ts, agentOperationLedger.ts).    *)
(* Proposals live in the memory of a session; their receipts live in the   *)
(* operation ledger, which is one file, written whole.                     *)
(*                                                                         *)
(* A decision reads the proposal, changes it and finds or starts the run   *)
(* of its commit without giving way, and so do the continuations of a run  *)
(* that has ended: each is one step.  A call that joins a run stores what  *)
(* the run's own call stores.                                              *)
(***************************************************************************)
EXTENDS ServedContent

CONSTANT Proposal   \* ids of proposals
ASSUME ProposalAssumption == Proposal \subseteq Actor

VARIABLES
  proposal,   \* the proposals of the session, with their status
  entry,      \* receipts of proposals in the ledger file
  entryKept,  \* those after a power loss
  commit,     \* where the commit of a proposal is (runIdempotent)
  consent     \* history: what the owner agreed to

proposals == <<proposal, entry, entryKept, commit, consent>>

Terminal == {"committed", "stale", "failed", "indeterminate"}
Statuses ==
  {"pending", "awaiting-destructive-confirmation", "approved", "rejected"}
    \cup Terminal
Staged == [base : Contents, next : Contents, destructive : BOOLEAN,
           status : Statuses]
Entries == {None, "pending"} \cup Terminal
Results == {"committed", "stale", "failed"}

\* None stands for no proposal and for no receipt.
ASSUME StatusAssumption == None \notin Staged \cup {"pending"} \cup Terminal

ProposalTypeOK ==
  /\ proposal \in [Proposal -> Staged \cup {None}]
  /\ entry \in [Proposal -> Entries]
  /\ entryKept \in [Proposal -> Entries]
  /\ commit \in [Proposal -> {"idle", "begin", "execute", "store",
                              "revoke"} \cup Results]
  /\ consent \in [Proposal -> SUBSET {"approve", "confirm", "reject"}]

ProposalInit ==
  /\ proposal = [p \in Proposal |-> None]
  /\ entry = [p \in Proposal |-> None]
  /\ entryKept = entry
  /\ commit = [p \in Proposal |-> "idle"]
  /\ consent = [p \in Proposal |-> {}]

Put(p, status) == proposal' = [proposal EXCEPT ![p].status = status]
Move(p, place) == commit' = [commit EXCEPT ![p] = place]
Agreed(p, act) == consent' = [consent EXCEPT ![p] = @ \cup {act}]

\* A write of the ledger.  If it fails, the file may have been replaced; then,
\* and at some other failures, nothing more is read or written.
LedgerWritten(entries) ==
  /\ ledger = "open"
  /\ entry' = entries /\ entryKept' = entries
  /\ UNCHANGED <<ledger, budget>>

LedgerFails(entries) ==
  /\ IF ledger = "open"
       THEN /\ Fault
            /\ \/ entry' = entries /\ ledger' = "closed"
               \/ UNCHANGED entry /\ ledger' \in {"open", "closed"}
       ELSE UNCHANGED <<entry, ledger, budget>>
  /\ UNCHANGED entryKept

-----------------------------------------------------------------------------
(* The session *)

\* The agent stages a change of what it has read.
Stage(p, next, destructive) ==
  /\ proposal[p] = None /\ effects[p] = 0 /\ entry[p] = None
  /\ consent[p] = {}
  /\ next # content
  /\ proposal' = [proposal EXCEPT ![p] =
                    [base |-> content, next |-> next,
                     destructive |-> destructive, status |-> "pending"]]
  /\ UNCHANGED <<entry, entryKept, commit, consent, served>>

\* Mutant: destruction needs no confirmation.
ApproveDestruction(p) ==
  /\ proposal[p] # None
  /\ proposal[p].status \in {"pending", "approved"} /\ commit[p] = "idle"
  /\ Put(p, "approved") /\ Move(p, "begin")
  /\ Agreed(p, "approve")
  /\ UNCHANGED <<entry, entryKept, served>>

\* The owner approves.  On a proposal that is approved already this tries its
\* commit again, unless that is under way.
Approve(p) ==
  /\ proposal[p] # None
  /\ \/ /\ proposal[p].status = "pending"
        /\ IF proposal[p].destructive
             THEN Put(p, "awaiting-destructive-confirmation") /\ UNCHANGED commit
             ELSE Put(p, "approved") /\ Move(p, "begin")
     \/ /\ proposal[p].status = "approved" /\ commit[p] = "idle"
        /\ Move(p, "begin")
        /\ UNCHANGED proposal
  /\ Agreed(p, "approve")
  /\ UNCHANGED <<entry, entryKept, served>>

Decline(p) ==
  /\ proposal[p] # None
  /\ proposal[p].status = "pending"
  /\ Put(p, "rejected")
  /\ Agreed(p, "reject")
  /\ UNCHANGED <<entry, entryKept, commit, served>>

ConfirmDestruction(p) ==
  /\ proposal[p] # None
  /\ proposal[p].status = "awaiting-destructive-confirmation"
  /\ Put(p, "approved")
  /\ Move(p, "begin")
  /\ Agreed(p, "confirm")
  /\ UNCHANGED <<entry, entryKept, served>>

-----------------------------------------------------------------------------
(* The commit *)

\* The commit has ended: the session stores its outcome, if it is one.
End(p, status) == Move(p, "idle") /\ Put(p, status)
EndsInError(p) == Move(p, "idle") /\ UNCHANGED proposal

\* Receipts that are not pending are forgotten after a day.  That a commit of
\* the same proposal began before then is not taken into account.
Retained(forgotten) ==
  [q \in Proposal |->
     IF q \in forgotten /\ entry[q] # "pending" /\ commit[q] = "idle"
       THEN None ELSE entry[q]]

Record(entries, p, status) == [entries EXCEPT ![p] = status]

\* #begin: what an earlier attempt left decides.  Only a proposal without a
\* receipt is executed; one that is pending is given up, as its attempt is over;
\* any other is answered from its receipt.
BeginRecords(p) ==
  CASE entry[p] = None      -> "pending"
    [] entry[p] = "pending" -> "indeterminate"
    [] OTHER                -> entry[p]

Begin(p) ==
  /\ commit[p] = "begin"
  /\ \E forgotten \in SUBSET (Proposal \ {p}) :
       LET entries == Retained(forgotten)
           begun == Record(entries, p, BeginRecords(p))
       IN \/ /\ LedgerWritten(begun)
             /\ IF entry[p] = None THEN Move(p, "execute") /\ UNCHANGED proposal
                ELSE End(p, begun[p])
          \/ LedgerFails(begun) /\ EndsInError(p)
  /\ UNCHANGED <<consent, stored, traces>>

\* commitAgentProposalExactly on the store, if there is one.
Execute(p) ==
  /\ commit[p] = "execute"
  /\ \/ /\ store!Invoke(p, proposal[p].base, proposal[p].next)
        /\ Move(p, "store")
     \/ Move(p, "failed") /\ UNCHANGED stored
  /\ UNCHANGED <<proposal, entry, entryKept, consent, ledger, traces, budget>>

\* Mutant: an unknown outcome counts as a failure.
VerdictCertain(answer) ==
  CASE answer = "committed" -> "committed"
    [] answer = "conflict"  -> "stale"
    [] OTHER                -> "failed"

Verdict(answer) ==
  CASE answer = "committed" -> "committed"
    [] answer = "conflict"  -> "stale"
    [] answer = "unknown"   -> "revoke"
    [] OTHER                -> "failed"

Executed(p) ==
  /\ commit[p] = "store"
  /\ call[p].status \in store!Answers
  /\ Move(p, Verdict(call[p].status))
  /\ store!Finish(p)
  /\ UNCHANGED <<proposal, entry, entryKept, consent, ledger, traces, budget>>

\* #finalize: a commit is a commit also when its receipt cannot be written.
Finalize(p) ==
  LET result == commit[p]
      entries == Record(entry, p, result)
  IN /\ result \in Results
     /\ \/ LedgerWritten(entries) /\ End(p, result)
        \/ /\ LedgerFails(entries)
           /\ IF result = "committed" THEN End(p, "committed")
              ELSE EndsInError(p)
     /\ UNCHANGED <<consent, stored, traces>>

\* #markIndeterminate, whose own failure is ignored.
Revoke(p) ==
  LET entries == Record(entry, p, "indeterminate")
  IN /\ commit[p] = "revoke"
     /\ LedgerWritten(entries) \/ LedgerFails(entries)
     /\ End(p, "indeterminate")
     /\ UNCHANGED <<consent, stored, traces>>

-----------------------------------------------------------------------------
\* Sessions end with the process, commits too; the ledger file stays, whole.
ProposalsRestart(power) ==
  /\ proposal' = [p \in Proposal |-> None]
  /\ commit' = [p \in Proposal |-> "idle"]
  /\ IF power
       THEN entry' \in {entry, entryKept} /\ entryKept' = entry'
       ELSE UNCHANGED <<entry, entryKept>>
  /\ UNCHANGED consent

CommitStep(p) ==
  Begin(p) \/ Execute(p) \/ Executed(p) \/ Finalize(p) \/ Revoke(p)

ProposalNext(p) ==
  \/ \E next \in Contents, destructive \in BOOLEAN : Stage(p, next, destructive)
  \/ Approve(p) \/ Decline(p) \/ ConfirmDestruction(p)
  \/ CommitStep(p)
=============================================================================
