--------------------------- MODULE OperationServer ---------------------------
(***************************************************************************)
(* One server: content operations and agent proposals on one content and   *)
(* one operation ledger (createServerContentService and                    *)
(* createServerAgentService of index.ts), next to the autosaves of the     *)
(* user's clients, with deaths of the process, power losses and failing    *)
(* writes.                                                                 *)
(***************************************************************************)
EXTENDS ContentOperations, AgentProposals, FiniteSets

ASSUME ActorAssumption ==
  Actor = Operation \cup Proposal /\ Operation \cap Proposal = {}

vars == <<served, operations, proposals>>

TypeOK == ServedTypeOK /\ OperationTypeOK /\ ProposalTypeOK

Init == ServedInit /\ OperationInit /\ ProposalInit

Crash(power) ==
  Restart(power) /\ OperationsRestart(power) /\ ProposalsRestart(power)

Next ==
  \/ \E o \in Operation : OperationNext(o) /\ UNCHANGED proposals
  \/ \E p \in Proposal : ProposalNext(p) /\ UNCHANGED operations
  \/ /\ \E a \in Actor : StoreStep(a)
     /\ UNCHANGED <<operations, proposals>>
  \/ /\ \E value \in Contents : Save(value)
     /\ UNCHANGED <<operations, proposals>>
  \/ \E power \in BOOLEAN : Crash(power)

Spec == Init /\ [][Next]_vars

-----------------------------------------------------------------------------
(* Properties *)

Told(o, statuses) == {a \in told[o] : a.status \in statuses}

\* However often an operation is called and a proposal is approved, with
\* whatever failures, deaths and restarts in between, and although other
\* writers may restore the content it was based on, it changes the content
\* once at most (runContentOperation, runIdempotent).
AtMostOnce == \A a \in Actor : effects[a] <= 1

\* All definite answers an operation ever gets are one answer, also those to
\* queries and those after a restart, and it is the truth: "committed" of a
\* change that was made and that no power loss takes back, "conflict" and
\* "failed" of one that was not and will not be made.
AnswersAreTrue ==
  \A o \in Operation :
    /\ Cardinality(Told(o, {"committed", "conflict", "failed"})) <= 1
    /\ Told(o, {"committed"}) # {} => effects[o] = 1 /\ o \notin lost
    /\ Told(o, {"conflict", "failed"}) # {} => effects[o] = 0

\* Whatever changed the content can be found out after a power loss: the
\* intent of the operation and what it was about to write are on the disk
\* before the store is called (recordPrepared), and stay there.
EvidenceOutlivesPower ==
  \A o \in Operation :
    effects[o] > 0 => kept[o] # None /\ kept[o].prepared

\* An operation that was answered, were it only with "indeterminate", is not
\* executed any more ("it will not be replayed", contentOperationLedger.ts:62).
AnsweredIsNotReplayed ==
  \A o \in Operation :
    run[o].pc \in {"load", "prepare", "commit"} => told[o] = {}

\* What the owner sees of a proposal is what became of it, and so is what the
\* ledger remembers of it: "committed" is a change that was made and stays,
\* "stale", "failed" and "rejected" are none.
TellsTheTruth(p, status) ==
  /\ status = "committed" => effects[p] = 1 /\ p \notin lost
  /\ status \in {"stale", "failed", "rejected"} => effects[p] = 0

ProposalsTellTheTruth ==
  \A p \in Proposal :
    /\ proposal[p] # None => TellsTheTruth(p, proposal[p].status)
    /\ entry[p] # None => TellsTheTruth(p, entry[p])

\* An agent changes nothing that the owner has not approved, and deletes
\* nothing that the owner has not confirmed as well.
Consented(p) ==
  /\ proposal[p] # None
  /\ "approve" \in consent[p] /\ "reject" \notin consent[p]
  /\ proposal[p].destructive => "confirm" \in consent[p]

OnlyConsentedChanges ==
  [][\A p \in Proposal : effects'[p] # effects[p] => Consented(p)]_vars
=============================================================================
