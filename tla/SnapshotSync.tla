---------------------------- MODULE SnapshotSync ----------------------------
(***************************************************************************)
(* The server side of browser synchronisation: executeSnapshotSync         *)
(* (src/application/sync/snapshotSync.ts) run by concurrent requests on    *)
(* one store, next to writers that commit by exact compare-and-set (the    *)
(* content API and approved Agent proposals).                              *)
(*                                                                         *)
(* A request sends the content its edits started from and the edited       *)
(* content.  The server merges the edit onto the current content and       *)
(* commits the result by compare-and-set, at most MaxAttempts times.       *)
(*                                                                         *)
(* The store is the one CasStore specifies and VersionedContentStore       *)
(* implements: its commit is one atomic step here.  A revision is a hash   *)
(* of a content, so contents stand for revisions.  What follows a commit   *)
(* in the handler (projectChanges, observeRevision, publish) runs before   *)
(* the store's next operation gets its file back, in the same step.        *)
(***************************************************************************)
EXTENDS ContentMerge, Naturals

CONSTANT
  Request      \* clients, each with at most one request under way

\* The literal bound of the attempt loop.
MaxAttempts == 3

VARIABLES
  current,   \* the content of the store
  terminal,  \* the store has stopped after an unknown commit outcome
  request    \* request[r]: the request of r

vars == <<current, terminal, request>>

Answers == {"loaded", "committed", "auto-merged", "unchanged", "invalid",
            "merge_conflict", "resource_conflict", "failed"}
Active == {"load", "commit"}
Requests ==
  [status  : Active \cup Answers,
   base    : Content,        \* base.content, whose hash is base.revision
   content : Content,        \* the edited content
   attempt : 0..MaxAttempts - 1, \* compare-and-sets that were lost
   seen    : Content,        \* the snapshot of this attempt
   desired : Content,        \* what this attempt wants to commit
   writes  : 0..MaxAttempts] \* history: commits of others since it was sent,
                             \* counted up to MaxAttempts

NoRequest == [status |-> "idle"]

TypeOK ==
  /\ current \in Content
  /\ terminal \in BOOLEAN
  /\ request \in [Request -> Requests \cup {NoRequest}]

Init ==
  /\ current \in Content
  /\ terminal = FALSE
  /\ request = [r \in Request |-> NoRequest]

\* Answers after which a client may send the same request again.
Resendable == {"committed", "auto-merged", "failed", "resource_conflict"}

\* A request without a snapshot: seen and desired say nothing.
Fresh(status, base, content, attempt, writes) ==
  [status |-> status, base |-> base, content |-> content, attempt |-> attempt,
   seen |-> base, desired |-> content, writes |-> writes]

\* An answered request keeps what a resend needs.
Answered(q, a) ==
  Fresh(a, q.base, IF a \in Resendable THEN q.content ELSE q.base, 0, 0)

Answer(r, a) == request' = [request EXCEPT ![r] = Answered(@, a)]

Done(r) == request[r].status \in Answers

\* What the requests but the writers notice of a write.
Noticed(requests, writers) ==
  [r \in Request |->
     IF r \in writers \/ requests[r].status \notin Active THEN requests[r]
     ELSE [requests[r] EXCEPT
             !.writes = IF @ < MaxAttempts THEN @ + 1 ELSE @]]

\* The store has the content c now; an exact writer is not among the requests.
Written(c, writers, requests) ==
  /\ current' = c
  /\ request' = Noticed(requests, writers)

-----------------------------------------------------------------------------
(* Requests *)

NewRequest(status, content) == Fresh(status, current, content, 0, 0)

Submit(r, status, content) ==
  /\ request[r] = NoRequest
  /\ request' = [request EXCEPT ![r] = NewRequest(status, content)]
  /\ UNCHANGED <<current, terminal>>

\* mode "commit": the client edits the content it knows to be current.  What
\* others commit before the server serves the request makes the base stale.
Send(r, content) == Submit(r, "load", content)

\* A base whose hash is not base.revision is refused before anything else.
SendInvalid(r) == Submit(r, "invalid", current)

\* mode "load"
LoadOnly(r) == ~terminal /\ Submit(r, "loaded", current)

\* Mutant: the client's content replaces whatever the snapshot holds.
DesiredUnmerged(q, snapshot) == q.content

\* What the request wants the store to hold, given its snapshot.
Desired(q, snapshot) ==
  IF snapshot = q.base THEN q.content
  ELSE MergedContent(q.base, q.content, snapshot, "none")

Attempting(q, snapshot) ==
  [status |-> "commit", base |-> q.base, content |-> q.content,
   attempt |-> q.attempt, seen |-> snapshot, desired |-> Desired(q, snapshot),
   writes |-> q.writes]

\* The first half of an attempt: load, merge, and leave when the units
\* overlap or nothing is left to write.
LoadAndMerge(r) ==
  LET q == request[r] IN
  /\ q.status = "load" /\ ~terminal
  /\ IF current # q.base /\ ~Merges(q.base, q.content, current)
     THEN Answer(r, "merge_conflict")
     ELSE IF Desired(q, current) = current
     THEN Answer(r, "unchanged")
     ELSE request' = [request EXCEPT ![r] = Attempting(q, current)]
  /\ UNCHANGED <<current, terminal>>

\* The second half: the compare-and-set succeeds.
Commit(r) ==
  LET q == request[r] IN
  /\ q.status = "commit" /\ ~terminal
  /\ current = q.seen
  /\ UNCHANGED terminal
  /\ Written(q.desired, {r},
       [request EXCEPT ![r] =
          Answered(q, IF q.seen = q.base THEN "committed" ELSE "auto-merged")])

\* Mutants: one attempt too many, one too few.
RetriesOnceMore(q) == q.attempt < MaxAttempts
RetriesOnceLess(q) == q.attempt + 2 < MaxAttempts

\* Another attempt is left, and it starts from a new snapshot.
Retries(q) == q.attempt + 1 < MaxAttempts
Recomputes(q) == Fresh("load", q.base, q.content, q.attempt + 1, q.writes)

\* The compare-and-set is lost: recompute, or give up after MaxAttempts.
LoseRace(r) ==
  LET q == request[r] IN
  /\ q.status = "commit" /\ ~terminal
  /\ current # q.seen
  /\ IF Retries(q) THEN request' = [request EXCEPT ![r] = Recomputes(q)]
     ELSE Answer(r, "resource_conflict")
  /\ UNCHANGED <<current, terminal>>

\* A store operation throws.  A commit whose outcome is unknown may have been
\* applied, and stops the store object.
StoreFails(r) ==
  /\ request[r].status \in Active
  /\ Answer(r, "failed")
  /\ UNCHANGED <<current, terminal>>

OutcomeUnknown(r) ==
  LET q == request[r] IN
  /\ q.status = "commit" /\ ~terminal
  /\ current = q.seen
  /\ terminal' = TRUE
  /\ \/ /\ Answer(r, "failed")
        /\ UNCHANGED current
     \/ Written(q.desired, {r}, [request EXCEPT ![r] = Answered(q, "failed")])

\* The client takes the answer and may ask again later.
Forget(r) ==
  /\ request[r] # NoRequest /\ Done(r)
  /\ request' = [request EXCEPT ![r] = NoRequest]
  /\ UNCHANGED <<current, terminal>>

\* The answer got lost: the client sends the same base and content again.
Resend(r) ==
  /\ request[r].status \in Resendable
  /\ request' = [request EXCEPT ![r] = Fresh("load", @.base, @.content, 0, 0)]
  /\ UNCHANGED <<current, terminal>>

-----------------------------------------------------------------------------
(* Exact compare-and-set writers, and the process *)

\* commitContentCommand, and commitAgentProposalExactly in the same way: what
\* was prepared on a snapshot is committed at the revision of that snapshot.
\* ContentOperations and AgentProposals have the steps around it.
ExactCommit(c) ==
  /\ ~terminal
  /\ c # current
  /\ Written(c, {}, request)
  /\ UNCHANGED terminal

\* The server process starts again; requests under way fail.
Restart ==
  /\ terminal' = FALSE
  /\ request' = [r \in Request |->
       IF request[r] = NoRequest \/ Done(r) THEN request[r]
       ELSE Answered(request[r], "failed")]
  /\ UNCHANGED current

-----------------------------------------------------------------------------
ServerStep(r) ==
  LoadAndMerge(r) \/ Commit(r) \/ LoseRace(r) \/ StoreFails(r)
  \/ OutcomeUnknown(r)

Next ==
  \/ \E r \in Request :
       \/ \E c \in Content : Send(r, c)
       \/ SendInvalid(r)
       \/ LoadOnly(r)
       \/ ServerStep(r)
       \/ Resend(r)
       \/ Forget(r)
  \/ \E c \in Content : ExactCommit(c)
  \/ Restart

Spec == Init /\ [][Next]_vars

-----------------------------------------------------------------------------
(* Properties *)

\* Whatever raced with it, a request writes the content it replaces with its
\* own edit applied, and nothing else: no edit of the client is lost, and no
\* edit that others made since the client's base is overwritten.
AppliesExactlyTheEdit(r) ==
  LET q == request[r] IN
  q.status = "commit" /\ request'[r].status \in {"committed", "auto-merged"} =>
    current' = [u \in Unit |-> IF q.content[u] # q.base[u]
                               THEN q.content[u] ELSE current[u]]

\* executeSnapshotSync, for every request and every step.
CommitAppliesExactlyTheEdit ==
  [][\A r \in Request : AppliesExactlyTheEdit(r)]_vars

\* A retryable resource_conflict is contention and nothing else: the content
\* was changed by others at least once for each of the attempts.
GivesUpContended(r) ==
  request[r].status \in Active /\ request'[r].status = "resource_conflict" =>
    request[r].writes = MaxAttempts

\* The attempt loop of executeSnapshotSync, for every request and every step.
ExhaustionMeansContention ==
  [][\A r \in Request : GivesUpContended(r)]_vars

\* A request whose edit the store holds already (a resend after a lost
\* answer) is not refused, unless the grammar is part of what changed.
RefusesUnappliedEdit(r) ==
  LET q == request[r] IN
  /\ q.status = "load" /\ request'[r].status = "merge_conflict"
  /\ q.content[Syntax] = q.base[Syntax] /\ current[Syntax] = q.base[Syntax]
  => \E u \in Unit : q.content[u] # q.base[u] /\ current[u] # q.content[u]

\* The merge in executeSnapshotSync, for every request and every step.
AppliedEditIsAccepted ==
  [][\A r \in Request : RefusesUnappliedEdit(r)]_vars
=============================================================================
