------------------------ MODULE SnapshotSync_proofs -------------------------
(***************************************************************************)
(* SnapshotSync for any set of clients, units and values: what a request   *)
(* commits is its edit applied to the content it replaces, and it gives up *)
(* only when others won every attempt.                                     *)
(***************************************************************************)
EXTENDS SnapshotSync, ContentMerge_proofs

\* What a handler remembers between the halves of an attempt: the content it
\* wants is its edit merged onto its snapshot, and every attempt it lost, and
\* the one it is about to lose, was lost to a write by someone else.
Remembers(q, content) ==
  /\ q.attempt <= q.writes
  /\ q.status = "commit" =>
       /\ q.desired = Desired(q, q.seen)
       /\ q.seen # q.base => Merges(q.base, q.content, q.seen)
       /\ content # q.seen => q.attempt + 1 <= q.writes

IInv ==
  /\ TypeOK
  /\ \A r \in Request :
       request[r] # NoRequest => Remembers(request[r], current)

-----------------------------------------------------------------------------
(* Types *)

\* What a request wants to store is a content.
LEMMA DesiredType ==
  ASSUME NEW q \in Requests, NEW c \in Content
  PROVE  Desired(q, c) \in Content
BY MergedContentType DEF Desired, Requests

\* An answered request is a request.
LEMMA AnsweredType ==
  ASSUME NEW q \in Requests, NEW a \in Answers
  PROVE  /\ Answered(q, a) \in Requests
         /\ Answered(q, a).status = a
         /\ Answered(q, a).attempt = 0
         /\ Answered(q, a).writes = 0
BY DEF Answered, Fresh, Requests, Answers, MaxAttempts

\* What others notice of a write leaves requests and what they remember.
LEMMA NoticedType ==
  ASSUME NEW requests \in [Request -> Requests \cup {NoRequest}], NEW w
  PROVE  Noticed(requests, w) \in [Request -> Requests \cup {NoRequest}]
<1>1. ASSUME NEW r \in Request,
             ~(r \in w \/ requests[r].status \notin Active)
      PROVE  [requests[r] EXCEPT
                !.writes = IF @ < MaxAttempts THEN @ + 1 ELSE @] \in Requests
  <2>1. requests[r] \in Requests
    BY <1>1 DEF NoRequest, Active
  <2> QED
    BY <2>1 DEF Requests, MaxAttempts
<1> QED
  BY <1>1 DEF Noticed

\* A write adds one to what a waiting request noticed and changes nothing else
\* of it: whatever the content is now, the next loss is accounted for.
LEMMA NoticedRemembers ==
  ASSUME NEW requests \in [Request -> Requests \cup {NoRequest}], NEW w,
         NEW c, NEW r \in Request, requests[r] # NoRequest, r \notin w,
         NEW content, Remembers(requests[r], content)
  PROVE  Remembers(Noticed(requests, w)[r], c)
<1> DEFINE q == requests[r]
           n == Noticed(requests, w)[r]
<1>1. q \in Requests
  OBVIOUS
<1>2. CASE q.status \notin Active
  <2>1. n = q
    BY <1>2 DEF Noticed
  <2> QED
    BY <1>2, <2>1 DEF Remembers, Active
<1>3. CASE q.status \in Active
  <2>1. n = [q EXCEPT !.writes = IF @ < MaxAttempts THEN @ + 1 ELSE @]
    BY <1>3 DEF Noticed
  <2>2. /\ n.status = q.status /\ n.base = q.base /\ n.content = q.content
        /\ n.seen = q.seen /\ n.desired = q.desired /\ n.attempt = q.attempt
        /\ n.writes = IF q.writes < MaxAttempts THEN q.writes + 1 ELSE q.writes
    BY <1>1, <2>1 DEF Requests
  <2>3. q.attempt \in 0..MaxAttempts - 1 /\ q.writes \in 0..MaxAttempts
    BY <1>1 DEF Requests
  <2>4. n.attempt + 1 <= n.writes
    BY <2>2, <2>3 DEF Remembers, MaxAttempts
  <2> HIDE DEF n, q
  <2>5. n.attempt <= n.writes
    BY <2>2, <2>3, <2>4 DEF MaxAttempts
  <2>6. Remembers(q, content)
    BY DEF q
  <2>7. n.status = "commit" =>
          /\ n.desired = Desired(n, n.seen)
          /\ n.seen # n.base => Merges(n.base, n.content, n.seen)
    BY <2>2, <2>6 DEF Remembers, Desired
  <2>8. Remembers(n, c)
    BY <2>4, <2>5, <2>7 DEF Remembers
  <2> QED
    BY <2>8 DEF n
<1> QED
  BY <1>2, <1>3

\* A request without a snapshot remembers what it has to.
LEMMA FreshRemembers ==
  ASSUME NEW status, status # "commit", NEW b, NEW l, NEW content,
         NEW n, NEW w, n <= w
  PROVE  Remembers(Fresh(status, b, l, n, w), content)
BY DEF Remembers, Fresh

-----------------------------------------------------------------------------
(* Every step keeps the invariant *)

\* A write keeps the invariant when the writer's own request is fresh.
LEMMA WrittenKeeps ==
  ASSUME NEW c \in Content, NEW w,
         NEW requests \in [Request -> Requests \cup {NoRequest}],
         \A r \in Request \ w :
           requests[r] # NoRequest => Remembers(requests[r], current),
         \A r \in Request \cap w :
           requests[r] # NoRequest => Remembers(requests[r], c),
         Written(c, w, requests), terminal' \in BOOLEAN
  PROVE  IInv'
<1>1. current' = c /\ request' = Noticed(requests, w)
  BY DEF Written
<1>2. request' \in [Request -> Requests \cup {NoRequest}]
  BY <1>1, NoticedType
<1>3. ASSUME NEW r \in Request, request'[r] # NoRequest
      PROVE  Remembers(request'[r], c)
  <2>1. CASE r \in w
    <3>1. request'[r] = requests[r]
      BY <1>1, <2>1 DEF Noticed
    <3> QED
      BY <1>3, <2>1, <3>1
  <2>2. CASE r \notin w
    <3>1. CASE requests[r] = NoRequest
      <4>1. request'[r] = NoRequest
        BY <1>1, <2>2, <3>1 DEF Noticed, NoRequest, Active
      <4> QED
        BY <1>3, <4>1
    <3>2. CASE requests[r] # NoRequest
      BY <1>1, <2>2, <3>2, NoticedRemembers
    <3> QED
      BY <3>1, <3>2
  <2> QED
    BY <2>1, <2>2
<1> QED
  BY <1>1, <1>2, <1>3 DEF IInv, TypeOK

\* A step that changes one request and not the content keeps the invariant
\* when that request remembers what it has to.
LEMMA OneRequestKeeps ==
  ASSUME IInv, NEW r \in Request, NEW q \in Requests \cup {NoRequest},
         request' = [request EXCEPT ![r] = q],
         q # NoRequest => Remembers(q, current),
         current' = current, terminal' \in BOOLEAN
  PROVE  IInv'
<1>1. TypeOK'
  BY DEF IInv, TypeOK
<1>2. ASSUME NEW s \in Request, request'[s] # NoRequest
      PROVE  Remembers(request'[s], current')
  <2>1. CASE s = r
    <3>1. request'[s] = q
      BY <2>1 DEF IInv, TypeOK
    <3> QED
      BY <1>2, <3>1
  <2>2. CASE s # r
    <3>1. request'[s] = request[s]
      BY <2>2 DEF IInv, TypeOK
    <3> QED
      BY <1>2, <3>1 DEF IInv
  <2> QED
    BY <2>1, <2>2
<1> QED
  BY <1>1, <1>2 DEF IInv

\* An answer keeps the invariant.
LEMMA AnswerKeeps ==
  ASSUME IInv, NEW r \in Request, request[r] # NoRequest,
         NEW a \in Answers, Answer(r, a),
         current' = current, terminal' \in BOOLEAN
  PROVE  IInv'
<1>1. request[r] \in Requests
  BY DEF IInv, TypeOK
<1>2. Answered(request[r], a) \in Requests
  BY <1>1, AnsweredType
<1>3. a # "commit"
  BY DEF Answers
<1>4. Remembers(Answered(request[r], a), current)
  BY <1>3, FreshRemembers DEF Answered
<1>5. request' = [request EXCEPT ![r] = Answered(request[r], a)]
  BY DEF Answer
<1> QED
  BY <1>2, <1>4, <1>5, OneRequestKeeps

\* A new request starts without a snapshot and without lost attempts.
LEMMA SubmitKeeps ==
  ASSUME IInv, NEW r \in Request, NEW status \in {"load", "loaded", "invalid"},
         NEW content \in Content, Submit(r, status, content)
  PROVE  IInv'
<1>1. current \in Content /\ terminal' \in BOOLEAN /\ current' = current
  BY DEF IInv, TypeOK, Submit
<1>2. NewRequest(status, content) \in Requests
  BY <1>1 DEF NewRequest, Fresh, Requests, Active, Answers, MaxAttempts
<1>3. Remembers(NewRequest(status, content), current)
  BY FreshRemembers DEF NewRequest
<1> QED
  BY <1>1, <1>2, <1>3, OneRequestKeeps DEF Submit

\* The first half of an attempt takes the snapshot it merges onto.
LEMMA LoadAndMergeKeeps ==
  ASSUME IInv, NEW r \in Request, LoadAndMerge(r)
  PROVE  IInv'
<1> DEFINE q == request[r]
           n == Attempting(q, current)
<1>1. /\ q.status = "load" /\ q # NoRequest /\ current \in Content
      /\ current' = current /\ terminal' \in BOOLEAN
  BY DEF IInv, TypeOK, LoadAndMerge, NoRequest
<1>2. q \in Requests
  BY <1>1 DEF IInv, TypeOK
<1>3. CASE Answer(r, "merge_conflict") \/ Answer(r, "unchanged")
  BY <1>1, <1>3, AnswerKeeps DEF Answers
<1>4. CASE /\ current # q.base => Merges(q.base, q.content, current)
           /\ request' = [request EXCEPT ![r] = n]
  <2>1. n \in Requests
    BY <1>1, <1>2, DesiredType DEF Attempting, Requests, Active
  <2>2. q.attempt <= q.writes
    BY <1>1 DEF IInv, Remembers
  <2>3. Remembers(n, current)
    BY <1>4, <2>2 DEF Remembers, Attempting, Desired
  <2> QED
    BY <1>1, <1>4, <2>1, <2>3, OneRequestKeeps
<1> QED
  BY <1>3, <1>4 DEF LoadAndMerge

\* A commit, known or not, ends its request and is noticed by the others.
LEMMA CommitKeeps ==
  ASSUME IInv, NEW r \in Request, Commit(r) \/ OutcomeUnknown(r)
  PROVE  IInv'
<1> DEFINE q == request[r]
<1>1. q.status = "commit" /\ q # NoRequest
  BY DEF Commit, OutcomeUnknown, NoRequest
<1>0. terminal' \in BOOLEAN
  BY DEF IInv, TypeOK, Commit, OutcomeUnknown
<1>2. q \in Requests /\ q.desired \in Content
  BY <1>1 DEF IInv, TypeOK, Requests
<1>3. ASSUME NEW a \in Answers,
             Written(q.desired, {r}, [request EXCEPT ![r] = Answered(q, a)])
      PROVE  IInv'
  <2> DEFINE requests == [request EXCEPT ![r] = Answered(q, a)]
  <2>1. requests \in [Request -> Requests \cup {NoRequest}]
    BY <1>2, AnsweredType DEF IInv, TypeOK
  <2>2. \A s \in Request \ {r} :
          requests[s] # NoRequest => Remembers(requests[s], current)
    BY DEF IInv, TypeOK
  <2>3. a # "commit"
    BY DEF Answers
  <2>4. Remembers(Answered(q, a), q.desired)
    BY <2>3, FreshRemembers DEF Answered
  <2>5. \A s \in Request \cap {r} :
          requests[s] # NoRequest => Remembers(requests[s], q.desired)
    BY <2>4 DEF IInv, TypeOK
  <2> HIDE DEF requests
  <2> QED
    BY <1>0, <1>1, <1>2, <1>3, <2>1, <2>2, <2>5, WrittenKeeps DEF requests
<1>4. CASE Commit(r)
  BY <1>3, <1>4 DEF Commit, Answers
<1>5. CASE OutcomeUnknown(r) /\ UNCHANGED current
  BY <1>0, <1>1, <1>5, AnswerKeeps, <1>3 DEF OutcomeUnknown, Answers
<1>6. CASE OutcomeUnknown(r)
           /\ Written(q.desired, {r}, [request EXCEPT ![r] = Answered(q, "failed")])
  BY <1>3, <1>6 DEF Answers
<1> QED
  BY <1>4, <1>5, <1>6 DEF OutcomeUnknown

\* A lost compare-and-set was preceded by a write that the request noticed.
LEMMA LoseRaceKeeps ==
  ASSUME IInv, NEW r \in Request, LoseRace(r)
  PROVE  IInv'
<1> DEFINE q == request[r]
<1>1. /\ q.status = "commit" /\ q # NoRequest /\ current # q.seen
      /\ current' = current /\ terminal' \in BOOLEAN
  BY DEF IInv, TypeOK, LoseRace, NoRequest
<1>2. q \in Requests
  BY <1>1 DEF IInv, TypeOK
<1>3. CASE Answer(r, "resource_conflict")
  BY <1>1, <1>3, AnswerKeeps DEF Answers
<1>4. CASE Retries(q) /\ request' = [request EXCEPT ![r] = Recomputes(q)]
  <2>1. Recomputes(q) \in Requests
    BY <1>2, <1>4 DEF Recomputes, Fresh, Retries, Requests, Active, MaxAttempts
  <2>2. q.attempt + 1 <= q.writes
    BY <1>1 DEF IInv, Remembers
  <2>3. Remembers(Recomputes(q), current)
    BY <2>2, FreshRemembers DEF Recomputes
  <2> QED
    BY <1>1, <1>4, <2>1, <2>3, OneRequestKeeps
<1> QED
  BY <1>3, <1>4 DEF LoseRace

\* A request that is sent again starts like a new one.
LEMMA ResendKeeps ==
  ASSUME IInv, NEW r \in Request, Resend(r)
  PROVE  IInv'
<1> DEFINE q == request[r]
           n == Fresh("load", q.base, q.content, 0, 0)
<1>1. q # NoRequest /\ q \in Requests
  BY DEF IInv, TypeOK, Resend, Resendable, NoRequest
<1>2. n \in Requests
  BY <1>1 DEF Fresh, Requests, Active, MaxAttempts
<1>3. Remembers(n, current)
  BY FreshRemembers
<1>4. /\ request' = [request EXCEPT ![r] = n]
      /\ current' = current /\ terminal' \in BOOLEAN
  BY DEF Resend, IInv, TypeOK
<1> QED
  BY <1>2, <1>3, <1>4, OneRequestKeeps

\* A restart ends the requests under way.
LEMMA RestartKeeps ==
  ASSUME IInv, Restart
  PROVE  IInv'
<1>1. current' = current /\ terminal' \in BOOLEAN
  BY DEF Restart
<1>2. ASSUME NEW r \in Request
      PROVE  /\ request'[r] \in Requests \cup {NoRequest}
             /\ request'[r] # NoRequest => Remembers(request'[r], current)
  <2>1. CASE request[r] = NoRequest \/ Done(r)
    BY <2>1 DEF Restart, IInv, TypeOK
  <2>2. CASE ~(request[r] = NoRequest \/ Done(r))
    <3>1. request'[r] = Answered(request[r], "failed")
      BY <2>2 DEF Restart
    <3>2. request[r] \in Requests
      BY <2>2 DEF IInv, TypeOK
    <3>3. Remembers(Answered(request[r], "failed"), current)
      BY FreshRemembers DEF Answered
    <3> QED
      BY <3>1, <3>2, <3>3, AnsweredType DEF Answers
  <2> QED
    BY <2>1, <2>2
<1>3. request' = [r \in Request |-> request'[r]]
  BY DEF Restart
<1> QED
  BY <1>1, <1>2, <1>3 DEF IInv, TypeOK

\* Every step of executeSnapshotSync's requests and of their environment keeps
\* the invariant.
LEMMA StepKeeps ==
  ASSUME IInv, [Next]_vars
  PROVE  IInv'
<1>1. ASSUME NEW r \in Request, NEW c \in Content, Send(r, c)
      PROVE  IInv'
  BY <1>1, SubmitKeeps DEF Send
<1>2. ASSUME NEW r \in Request, SendInvalid(r) \/ LoadOnly(r)
      PROVE  IInv'
  <2>1. current \in Content
    BY DEF IInv, TypeOK
  <2> QED
    BY <1>2, <2>1, SubmitKeeps DEF SendInvalid, LoadOnly
<1>3. ASSUME NEW r \in Request, ServerStep(r)
      PROVE  IInv'
  <2>1. CASE StoreFails(r)
    <3>1. request[r] # NoRequest /\ current' = current /\ terminal' \in BOOLEAN
      BY <2>1 DEF StoreFails, Active, NoRequest, IInv, TypeOK
    <3> QED
      BY <2>1, <3>1, AnswerKeeps DEF StoreFails, Answers
  <2> QED
    BY <1>3, <2>1, LoadAndMergeKeeps, CommitKeeps, LoseRaceKeeps
      DEF ServerStep
<1>4. ASSUME NEW r \in Request, Forget(r)
      PROVE  IInv'
  <2>1. /\ request' = [request EXCEPT ![r] = NoRequest]
        /\ current' = current /\ terminal' \in BOOLEAN
    BY <1>4 DEF Forget, IInv, TypeOK
  <2> QED
    BY <2>1, OneRequestKeeps
<1>5. ASSUME NEW c \in Content, ExactCommit(c)
      PROVE  IInv'
  <2>1. /\ request \in [Request -> Requests \cup {NoRequest}]
        /\ terminal' \in BOOLEAN
        /\ \A r \in Request :
             request[r] # NoRequest => Remembers(request[r], current)
    BY <1>5 DEF ExactCommit, IInv, TypeOK
  <2> QED
    BY <1>5, <2>1, WrittenKeeps DEF ExactCommit
<1>6. CASE UNCHANGED vars
  BY <1>6 DEF vars, IInv, TypeOK
<1> QED
  BY <1>1, <1>2, <1>3, <1>4, <1>5, <1>6, ResendKeeps, RestartKeeps DEF Next

\* The invariant holds initially and is kept.
LEMMA Invariant == Spec => []IInv
<1>1. Init => IInv
  BY DEF Init, IInv, TypeOK
<1>2. IInv /\ [Next]_vars => IInv'
  BY StepKeeps
<1> QED
  BY <1>1, <1>2, PTL DEF Spec

\* For any clients, units and values: every variable of executeSnapshotSync's
\* model has its type, and no request makes more than MaxAttempts attempts.
THEOREM TypeCorrect == Spec => []TypeOK
<1>1. IInv => TypeOK
  BY DEF IInv
<1> QED
  BY <1>1, Invariant, PTL

-----------------------------------------------------------------------------
(* What a step does to the request of another *)

\* A step of one request leaves the status of the others.
LEMMA StatusOfOthers ==
  ASSUME IInv, NEW r \in Request, [Next]_vars,
         request'[r].status # request[r].status,
         request[r].status \in Active,
         request'[r].status # "failed"
  PROVE  LoadAndMerge(r) \/ Commit(r) \/ LoseRace(r)
<1> DEFINE q == request[r]
<1>0. request \in [Request -> Requests \cup {NoRequest}]
  BY DEF IInv, TypeOK
<1>1. ASSUME NEW requests \in [Request -> Requests \cup {NoRequest}], NEW w
      PROVE  Noticed(requests, w)[r].status = requests[r].status
  <2>1. CASE requests[r].status \in Active
    BY <1>1, <2>1 DEF Noticed, NoRequest, Active, Requests
  <2> QED
    BY <2>1 DEF Noticed
<1>2. ASSUME NEW s \in Request, s # r,
             \/ \E c \in Content : Send(s, c)
             \/ SendInvalid(s) \/ LoadOnly(s) \/ ServerStep(s)
             \/ Resend(s) \/ Forget(s)
      PROVE  FALSE
  <2>1. CASE \E v : request' = [request EXCEPT ![s] = v]
    BY <1>0, <1>2, <2>1
  <2>2. CASE Commit(s) \/ OutcomeUnknown(s)
    <3>1. request[s] \in Requests
      BY <1>0, <2>2 DEF Commit, OutcomeUnknown, NoRequest
    <3>2. ASSUME NEW a \in Answers,
                 Written(request[s].desired, {s},
                         [request EXCEPT ![s] = Answered(request[s], a)])
          PROVE  FALSE
      <4>1. [request EXCEPT ![s] = Answered(request[s], a)]
              \in [Request -> Requests \cup {NoRequest}]
        BY <1>0, <3>1, AnsweredType
      <4> QED
        BY <1>0, <1>1, <1>2, <3>2, <4>1 DEF Written
    <3> QED
      BY <2>1, <2>2, <3>2 DEF Commit, OutcomeUnknown, Answer, Answers
  <2> QED
    BY <1>2, <2>1, <2>2
      DEF Send, SendInvalid, LoadOnly, Submit, ServerStep, LoadAndMerge,
          LoseRace, StoreFails, Answer, Resend, Forget
<1>3. ~(\E c \in Content : ExactCommit(c))
  BY <1>0, <1>1 DEF ExactCommit, Written
<1>4. ~Restart
  <2>1. ASSUME Restart PROVE FALSE
    BY <2>1 DEF Restart, Answered, Fresh, NoRequest, Done, Active
  <2> QED
    BY <2>1
<1>5. request' # request
  OBVIOUS
<1>6. ~Forget(r) /\ ~Resend(r) /\ ~SendInvalid(r) /\ ~LoadOnly(r)
      /\ \A c \in Content : ~Send(r, c)
  BY DEF Forget, Resend, SendInvalid, LoadOnly, Send, Submit, Active, Done,
         Answers, Resendable, NoRequest
<1>7. ~StoreFails(r) /\ ~OutcomeUnknown(r)
  <2>1. ASSUME Answer(r, "failed") PROVE FALSE
    BY <1>0, <2>1 DEF Answer, Answered, Fresh
  <2>2. ASSUME OutcomeUnknown(r),
               Written(q.desired, {r}, [request EXCEPT ![r] = Answered(q, "failed")])
        PROVE  FALSE
    <3>1. Noticed([request EXCEPT ![r] = Answered(q, "failed")], {r})[r]
            = Answered(q, "failed")
      BY <1>0 DEF Noticed
    <3> QED
      BY <2>2, <3>1 DEF Written, Answered, Fresh
  <2> QED
    BY <2>1, <2>2 DEF StoreFails, OutcomeUnknown
<1> QED
  BY <1>2, <1>3, <1>4, <1>5, <1>6, <1>7 DEF Next, ServerStep, vars

\* For any clients, units and values: no edit is lost and none is overwritten,
\* however many writers commit between the halves of an attempt.
THEOREM CommitsAreExact == Spec => CommitAppliesExactlyTheEdit
<1>1. IInv /\ [Next]_vars => \A r \in Request : AppliesExactlyTheEdit(r)
  <2> SUFFICES ASSUME IInv, [Next]_vars, NEW r \in Request,
                      request[r].status = "commit",
                      request'[r].status \in {"committed", "auto-merged"}
               PROVE  current' = [u \in Unit |->
                        IF request[r].content[u] # request[r].base[u]
                        THEN request[r].content[u] ELSE current[u]]
    BY DEF AppliesExactlyTheEdit
  <2> DEFINE q == request[r]
  <2>1. /\ request \in [Request -> Requests \cup {NoRequest}]
        /\ q \in Requests
        /\ q.base \in Content /\ q.content \in Content /\ current \in Content
    BY DEF IInv, TypeOK, Requests, NoRequest
  <2>2. LoadAndMerge(r) \/ Commit(r) \/ LoseRace(r)
    BY StatusOfOthers DEF Active
  <2>3. ~LoadAndMerge(r)
    BY DEF LoadAndMerge
  <2>4. ~LoseRace(r)
    BY <2>1 DEF LoseRace, Answer, Answered, Recomputes, Fresh
  <2>5. current = q.seen /\ current' = q.desired
    BY <2>2, <2>3, <2>4 DEF Commit, Written
  <2>6. /\ current' = Desired(q, current)
        /\ current # q.base => Merges(q.base, q.content, current)
    BY <2>5 DEF IInv, Remembers, NoRequest
  <2>7. CASE current = q.base
    <3>1. current' = q.content
      BY <2>6, <2>7 DEF Desired
    <3> QED
      BY <2>1, <2>7, <3>1 DEF Content
  <2>8. CASE current # q.base
    BY <2>1, <2>6, <2>8, MergeAppliesTheEdit DEF Desired
  <2> QED
    BY <2>7, <2>8
<1> QED
  BY <1>1, Invariant, PTL DEF Spec, CommitAppliesExactlyTheEdit

\* For any clients, units and values: resource_conflict is answered only after
\* others committed at least once per attempt.
THEOREM GivesUpOnlyContended == Spec => ExhaustionMeansContention
<1>1. IInv /\ [Next]_vars => \A r \in Request : GivesUpContended(r)
  <2> SUFFICES ASSUME IInv, [Next]_vars, NEW r \in Request,
                      request[r].status \in Active,
                      request'[r].status = "resource_conflict"
               PROVE  request[r].writes = MaxAttempts
    BY DEF GivesUpContended
  <2> DEFINE q == request[r]
  <2>1. /\ request \in [Request -> Requests \cup {NoRequest}]
        /\ q \in Requests /\ q # NoRequest
    BY DEF IInv, TypeOK, NoRequest, Active
  <2>2. LoadAndMerge(r) \/ Commit(r) \/ LoseRace(r)
    BY StatusOfOthers DEF Active
  <2>3. ~LoadAndMerge(r)
    BY <2>1 DEF LoadAndMerge, Answer, Answered, Attempting, Fresh
  <2>4. ~Commit(r)
    <3>1. ASSUME NEW a \in {"committed", "auto-merged"},
                 Written(q.desired, {r},
                         [request EXCEPT ![r] = Answered(q, a)])
          PROVE  FALSE
      <4>1. Noticed([request EXCEPT ![r] = Answered(q, a)], {r})[r]
              = Answered(q, a)
        BY <2>1 DEF Noticed
      <4> QED
        BY <3>1, <4>1 DEF Written, Answered, Fresh
    <3> QED
      BY <3>1 DEF Commit
  <2>5. LoseRace(r)
    BY <2>2, <2>3, <2>4
  <2>6. ~Retries(q)
    BY <2>1, <2>5 DEF LoseRace, Recomputes, Fresh
  <2>7. q.attempt + 1 <= q.writes
    BY <2>1, <2>5 DEF LoseRace, IInv, Remembers
  <2>8. q.attempt \in 0..MaxAttempts - 1 /\ q.writes \in 0..MaxAttempts
    BY <2>1 DEF Requests
  <2> QED
    BY <2>6, <2>7, <2>8 DEF Retries, MaxAttempts
<1> QED
  BY <1>1, Invariant, PTL DEF Spec, ExhaustionMeansContention

\* For any clients, units and values: an edit that the store holds already is
\* never refused as a conflict of units.
THEOREM AppliedEditAccepted == Spec => AppliedEditIsAccepted
<1>1. IInv /\ [Next]_vars => \A r \in Request : RefusesUnappliedEdit(r)
  <2> SUFFICES ASSUME IInv, [Next]_vars, NEW r \in Request,
                      request[r].status = "load",
                      request'[r].status = "merge_conflict",
                      request[r].content[Syntax] = request[r].base[Syntax],
                      current[Syntax] = request[r].base[Syntax]
               PROVE  \E u \in Unit :
                        /\ request[r].content[u] # request[r].base[u]
                        /\ current[u] # request[r].content[u]
    BY DEF RefusesUnappliedEdit
  <2> DEFINE q == request[r]
  <2>1. /\ request \in [Request -> Requests \cup {NoRequest}]
        /\ q.base \in Content /\ q.content \in Content /\ current \in Content
    BY DEF IInv, TypeOK, Requests, NoRequest
  <2>2. LoadAndMerge(r)
    BY StatusOfOthers DEF Active, Commit, LoseRace
  <2>3. ~Merges(q.base, q.content, current)
    BY <2>1, <2>2 DEF LoadAndMerge, Answer, Answered, Attempting, Fresh
  <2>4. ~CrossesBarrier(q.base, q.content, current)
    BY BarrierByUnits
  <2> QED
    BY <2>1, <2>3, <2>4, MergesByUnits
<1> QED
  BY <1>1, Invariant, PTL DEF Spec, AppliedEditIsAccepted
=============================================================================
