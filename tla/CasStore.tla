------------------------------ MODULE CasStore ------------------------------
(***************************************************************************)
(* What a versioned store promises the callers of its commit               *)
(* (VersionedContentStore in contentStore.ts): one content, changed only   *)
(* by compare-and-set, and answers that say what became of the call.       *)
(*                                                                         *)
(* The revision of a content is a hash of it (createRevision), so two      *)
(* contents have one revision exactly when they are equal, and this        *)
(* specification compares contents.                                        *)
(***************************************************************************)
CONSTANTS
  Caller,     \* store objects, each with at most one commit under way
  Contents    \* contents the store can hold

VARIABLES
  content,    \* what a read of the store returns
  durable,    \* what a read would return after a power loss
  call        \* the commit each caller has under way

vars == <<content, durable, call>>

Answers == {"committed", "unchanged", "conflict", "failed", "unknown"}
Idle == [status |-> "idle"]
Calls == [status : {"pending", "applied"} \cup Answers,
          base : Contents, next : Contents]

TypeOK ==
  /\ content \in Contents
  /\ durable \in Contents
  /\ call \in [Caller -> {Idle} \cup Calls]

Init ==
  /\ content \in Contents
  /\ durable = content
  /\ call = [p \in Caller |-> Idle]

Becomes(p, status) == call' = [call EXCEPT ![p].status = status]

Invoke(p, base, next) ==
  /\ call[p] = Idle
  /\ call' = [call EXCEPT ![p] = [status |-> "pending",
                                  base |-> base, next |-> next]]
  /\ UNCHANGED <<content, durable>>

\* The compare-and-set itself, the only step that changes the content.
Apply(p) ==
  /\ call[p].status = "pending"
  /\ content = call[p].base
  /\ content' = call[p].next
  /\ Becomes(p, "applied")
  /\ UNCHANGED durable

\* What was applied reaches the disk.
Flush(p) ==
  /\ call[p].status = "applied"
  /\ durable' = content
  /\ UNCHANGED <<content, call>>

\* Success is claimed of a write only, and not before it is on the disk.
Commit(p) ==
  /\ call[p].status = "applied"
  /\ durable' = content
  /\ Becomes(p, "committed")
  /\ UNCHANGED content

AnswerIsTrue(p, answer) ==
  CASE answer = "unchanged" -> /\ call[p].status = "pending"
                               /\ content = call[p].base
                               /\ content = call[p].next
    [] answer = "conflict"  -> /\ call[p].status = "pending"
                               /\ content # call[p].base
    [] answer = "failed"    -> call[p].status = "pending"
    [] answer = "unknown"   -> call[p].status \in {"pending", "applied"}

Answer(p, answer) ==
  /\ AnswerIsTrue(p, answer)
  /\ Becomes(p, answer)
  /\ UNCHANGED <<content, durable>>

Finish(p) ==
  /\ call[p].status \in Answers
  /\ call' = [call EXCEPT ![p] = Idle]
  /\ UNCHANGED <<content, durable>>

\* A caller that dies takes its call along; its write stays.
Abandon(p) ==
  /\ call' = [call EXCEPT ![p] = Idle]
  /\ UNCHANGED <<content, durable>>

PowerLoss ==
  /\ content' \in {content, durable}
  /\ durable' = content'
  /\ call' = [p \in Caller |-> Idle]

Next ==
  \/ \E p \in Caller :
       \/ \E b, n \in Contents : Invoke(p, b, n)
       \/ Apply(p)
       \/ Flush(p)
       \/ Commit(p)
       \/ \E a \in Answers \ {"committed"} : Answer(p, a)
       \/ Finish(p)
       \/ Abandon(p)
  \/ PowerLoss

Spec == Init /\ [][Next]_vars
=============================================================================
