-------------------- MODULE VersionedContentStore_proofs --------------------
(***************************************************************************)
(* Type correctness and mutual exclusion of the store objects, and that    *)
(* they implement CasStore, for any set of processes and contents and any  *)
(* length of the operation queues.                                         *)
(*                                                                         *)
(* Neither TypeOK nor OneWriter is inductive.  A rename gives the file a   *)
(* content only because the running operation is a commit (OperationFits); *)
(* a process that enters its critical places is alone there only because   *)
(* every process that is inside owns the lock (LockIsHeld).  The rename is *)
(* a compare-and-set because the file still has the content that was       *)
(* compared, and a second look at the file tells the two outcomes apart    *)
(* because the two contents differ (CommitIsOnItsWay).                     *)
(***************************************************************************)
EXTENDS VersionedContentStore, TLAPS

\* Only commits wait for the lock, write, or look at their outcome.
OperationFits ==
  \A p \in Proc : pc[p] \in {"lock"} \cup Critical => op[p] \in Commits

\* A process between its snapshot and its release owns the lock directory.
LockIsHeld == \A p \in Proc : pc[p] \in Critical => lock = p

-----------------------------------------------------------------------------

\* What a commit is called with: a base revision and a candidate.
LEMMA CommitFields ==
  ASSUME NEW o \in Commits
  PROVE  o \in Operations /\ o.kind = "commit"
         /\ o.base \in Contents /\ o.next \in Contents
  BY DEF Operations, Commits

\* The queue of a store object holds loads and commits.
LEMMA OperationKinds ==
  ASSUME NEW o \in Operations, o.kind # "load"
  PROVE  o \in Commits
  BY DEF Operations, Loads, Commits

\* The operation that is taken from the promise chain, and what it leaves.
LEMMA QueueEnds ==
  ASSUME NEW q \in Seq(Operations), q # <<>>
  PROVE  Head(q) \in Operations /\ Tail(q) \in Seq(Operations)
  OBVIOUS

-----------------------------------------------------------------------------

\* Every variable keeps its type, and every commit under way is one, through
\* each step of the stores, of the processes and of the environment.
THEOREM TypeInductive == Spec => [](TypeOK /\ OperationFits)
<1> DEFINE Inv == TypeOK /\ OperationFits
<1>1. Init => Inv
  BY DEF Init, TypeOK, OperationFits, Places, Critical, Answers
<1>2. Inv /\ [Next]_vars => Inv'
  <2> SUFFICES ASSUME Inv, [Next]_vars PROVE Inv'
    OBVIOUS
  <2> USE CommitFields DEF TypeOK, OperationFits, Places, Critical, Answers,
                           Goto, Says, Settle
  <2>1. ASSUME NEW p \in Proc, NEW o \in Operations, Enqueue(p, o)
        PROVE  Inv'
    BY <2>1 DEF Enqueue
  <2>2. ASSUME NEW p \in Proc, Start(p) PROVE Inv'
    <3>1. Head(queue[p]) \in Operations /\ Tail(queue[p]) \in Seq(Operations)
      BY <2>2, QueueEnds DEF Start
    <3>2. op'[p] \in Operations /\ op'[p] # NoOperation
      BY <2>2, <3>1, OperationAssumption DEF Start
    <3>3. pc'[p] \in {"load", "lock"}
      BY <2>2 DEF Start
    <3>4. pc'[p] = "lock" => op'[p] \in Commits
      BY <2>2, <3>1, OperationKinds DEF Start
    <3>5. \A q \in Proc : q # p => op'[q] = op[q] /\ pc'[q] = pc[q]
      BY <2>2 DEF Start
    <3>6. OperationFits'
      BY <3>3, <3>4, <3>5
    <3>7. \A q \in Proc : op'[q] = NoOperation <=> pc'[q] = "idle"
      BY <3>2, <3>3, <3>5
    <3> QED BY <2>2, <3>1, <3>6, <3>7 DEF Start
  <2>3. ASSUME NEW p \in Proc, RefuseTerminal(p) PROVE Inv'
    <3>1. Tail(queue[p]) \in Seq(Operations)
      BY <2>3, QueueEnds DEF RefuseTerminal
    <3> QED BY <2>3, <3>1 DEF RefuseTerminal
  <2>4. ASSUME NEW p \in Proc, Load(p) PROVE Inv'
    BY <2>4 DEF Load
  <2>5. ASSUME NEW p \in Proc, AcquireLock(p) PROVE Inv'
    BY <2>5 DEF AcquireLock
  <2>6. ASSUME NEW p \in Proc, LockBusy(p) PROVE Inv'
    BY <2>6 DEF LockBusy
  <2>7. ASSUME NEW p \in Proc, ReadAndCheck(p) PROVE Inv'
    BY <2>7 DEF ReadAndCheck
  <2>8. ASSUME NEW p \in Proc, ReadOrValidationFails(p) PROVE Inv'
    BY <2>8 DEF ReadOrValidationFails
  <2>9. ASSUME NEW p \in Proc, WriteFails(p) PROVE Inv'
    BY <2>9 DEF WriteFails
  <2>10. ASSUME NEW p \in Proc, Rename(p) PROVE Inv'
    BY <2>10 DEF Rename
  <2>11. ASSUME NEW p \in Proc, SynchronizeDirectory(p) PROVE Inv'
    BY <2>11 DEF SynchronizeDirectory
  <2>12. ASSUME NEW p \in Proc, SynchronizeFails(p) PROVE Inv'
    BY <2>12 DEF SynchronizeFails
  <2>13. ASSUME NEW p \in Proc, Observe(p) PROVE Inv'
    BY <2>13 DEF Observe
  <2>14. ASSUME NEW p \in Proc, ObserveFails(p) PROVE Inv'
    BY <2>14 DEF ObserveFails
  <2>15. ASSUME NEW p \in Proc, Recover(p) PROVE Inv'
    BY <2>15 DEF Recover
  <2>16. ASSUME NEW p \in Proc, Release(p) PROVE Inv'
    BY <2>16 DEF Release
  <2>17. ASSUME NEW p \in Proc, ReleaseFails(p) PROVE Inv'
    BY <2>17 DEF ReleaseFails
  <2>18. ASSUME NEW p \in Proc, Restart(p) PROVE Inv'
    BY <2>18 DEF Restart
  <2>19. CASE ExpireLock
    BY <2>19 DEF ExpireLock
  <2>20. CASE PowerLoss
    BY <2>20 DEF PowerLoss
  <2>21. CASE UNCHANGED vars
    BY <2>21 DEF vars
  <2> QED
    BY <2>1, <2>2, <2>3, <2>4, <2>5, <2>6, <2>7, <2>8, <2>9, <2>10,
       <2>11, <2>12, <2>13, <2>14, <2>15, <2>16, <2>17, <2>18, <2>19,
       <2>20, <2>21
    DEF Next, StoreStep, CommitStep
<1> QED
  BY <1>1, <1>2, PTL DEF Spec

\* The type invariant of the run MCVersionedContentStore.
THEOREM TypeCorrect == Spec => []TypeOK
<1>1. TypeOK /\ OperationFits => TypeOK
  OBVIOUS
<1> QED
  BY <1>1, TypeInductive, PTL

\* Whoever is inside a commit owns the lock, which is taken over only from a
\* process that is not inside one.
THEOREM LockInvariant == Spec => []LockIsHeld
<1> DEFINE Typed == TypeOK /\ OperationFits
<1>1. Init => LockIsHeld
  BY DEF Init, LockIsHeld, Critical
<1>2. Typed /\ LockIsHeld /\ [Next]_vars => LockIsHeld'
  <2> SUFFICES ASSUME Typed, LockIsHeld, [Next]_vars PROVE LockIsHeld'
    OBVIOUS
  <2> USE ProcAssumption DEF TypeOK, LockIsHeld, Critical, Places, Goto, Settle
  <2>1. ASSUME NEW p \in Proc, NEW o \in Operations, Enqueue(p, o)
        PROVE  LockIsHeld'
    BY <2>1 DEF Enqueue
  <2>2. ASSUME NEW p \in Proc, Start(p) PROVE LockIsHeld'
    BY <2>2 DEF Start
  <2>3. ASSUME NEW p \in Proc, RefuseTerminal(p) PROVE LockIsHeld'
    BY <2>3 DEF RefuseTerminal
  <2>4. ASSUME NEW p \in Proc, Load(p) PROVE LockIsHeld'
    BY <2>4 DEF Load
  <2>5. ASSUME NEW p \in Proc, AcquireLock(p) PROVE LockIsHeld'
    BY <2>5 DEF AcquireLock
  <2>6. ASSUME NEW p \in Proc, LockBusy(p) PROVE LockIsHeld'
    BY <2>6 DEF LockBusy
  <2>7. ASSUME NEW p \in Proc, ReadAndCheck(p) PROVE LockIsHeld'
    BY <2>7 DEF ReadAndCheck
  <2>8. ASSUME NEW p \in Proc, ReadOrValidationFails(p) PROVE LockIsHeld'
    BY <2>8 DEF ReadOrValidationFails
  <2>9. ASSUME NEW p \in Proc, WriteFails(p) PROVE LockIsHeld'
    BY <2>9 DEF WriteFails
  <2>10. ASSUME NEW p \in Proc, Rename(p) PROVE LockIsHeld'
    BY <2>10 DEF Rename
  <2>11. ASSUME NEW p \in Proc, SynchronizeDirectory(p) PROVE LockIsHeld'
    BY <2>11 DEF SynchronizeDirectory
  <2>12. ASSUME NEW p \in Proc, SynchronizeFails(p) PROVE LockIsHeld'
    BY <2>12 DEF SynchronizeFails
  <2>13. ASSUME NEW p \in Proc, Observe(p) PROVE LockIsHeld'
    BY <2>13 DEF Observe
  <2>14. ASSUME NEW p \in Proc, ObserveFails(p) PROVE LockIsHeld'
    BY <2>14 DEF ObserveFails
  <2>15. ASSUME NEW p \in Proc, Recover(p) PROVE LockIsHeld'
    BY <2>15 DEF Recover
  <2>16. ASSUME NEW p \in Proc, Release(p) PROVE LockIsHeld'
    BY <2>16 DEF Release
  <2>17. ASSUME NEW p \in Proc, ReleaseFails(p) PROVE LockIsHeld'
    BY <2>17 DEF ReleaseFails
  <2>18. ASSUME NEW p \in Proc, Restart(p) PROVE LockIsHeld'
    BY <2>18 DEF Restart
  <2>19. CASE ExpireLock
    BY <2>19 DEF ExpireLock
  <2>20. CASE PowerLoss
    BY <2>20 DEF PowerLoss
  <2>21. CASE UNCHANGED vars
    BY <2>21 DEF vars
  <2> QED
    BY <2>1, <2>2, <2>3, <2>4, <2>5, <2>6, <2>7, <2>8, <2>9, <2>10,
       <2>11, <2>12, <2>13, <2>14, <2>15, <2>16, <2>17, <2>18, <2>19,
       <2>20, <2>21
    DEF Next, StoreStep, CommitStep
<1> QED
  BY <1>1, <1>2, TypeInductive, PTL DEF Spec

\* Mutual exclusion of the commits of all processes, through failed releases,
\* stale locks, restarts and power losses.
THEOREM WritersExcludeEachOther == Spec => []OneWriter
<1>1. LockIsHeld => OneWriter
  BY DEF LockIsHeld, OneWriter
<1> QED
  BY <1>1, LockInvariant, PTL

-----------------------------------------------------------------------------

\* From the check of its base on, a commit knows what the file holds: nobody
\* else writes it while the lock is held.
CommitIsOnItsWay ==
  \A p \in Proc : pc[p] \in {"write", "sync", "observe", "recover"} =>
    /\ before[p] = op[p].base /\ op[p].next # op[p].base
    /\ pc[p] = "write" => file = op[p].base
    /\ pc[p] \in {"sync", "recover"} => file = op[p].next
    /\ pc[p] = "observe" => file \in {op[p].base, op[p].next}

StoreInv == TypeOK /\ OperationFits /\ LockIsHeld /\ CommitIsOnItsWay

\* What a commit knows stays true through each step of the stores, of the
\* processes and of the environment.
THEOREM StoreInvariant == Spec => []StoreInv
<1>1. Init => CommitIsOnItsWay
  BY DEF Init, CommitIsOnItsWay
<1>2. TypeOK /\ OperationFits /\ LockIsHeld /\ CommitIsOnItsWay /\ [Next]_vars
      => CommitIsOnItsWay'
  <2> SUFFICES ASSUME TypeOK, OperationFits, LockIsHeld, CommitIsOnItsWay,
                      [Next]_vars
               PROVE  CommitIsOnItsWay'
    OBVIOUS
  <2> USE DEF TypeOK, OperationFits, LockIsHeld, CommitIsOnItsWay, Critical,
              Places, Goto, Settle
  <2>1. ASSUME NEW p \in Proc, NEW o \in Operations, Enqueue(p, o)
        PROVE  CommitIsOnItsWay'
    BY <2>1 DEF Enqueue
  <2>2. ASSUME NEW p \in Proc, Start(p) PROVE CommitIsOnItsWay'
    <3>1. pc'[p] \in {"load", "lock"}
      BY <2>2 DEF Start
    <3>2. \A q \in Proc : q # p => op'[q] = op[q] /\ pc'[q] = pc[q]
      BY <2>2 DEF Start
    <3>3. file' = file /\ before' = before
      BY <2>2 DEF Start
    <3> QED BY <3>1, <3>2, <3>3
  <2>3. ASSUME NEW p \in Proc, RefuseTerminal(p) PROVE CommitIsOnItsWay'
    BY <2>3 DEF RefuseTerminal
  <2>4. ASSUME NEW p \in Proc, Load(p) PROVE CommitIsOnItsWay'
    BY <2>4 DEF Load
  <2>5. ASSUME NEW p \in Proc, AcquireLock(p) PROVE CommitIsOnItsWay'
    BY <2>5 DEF AcquireLock
  <2>6. ASSUME NEW p \in Proc, LockBusy(p) PROVE CommitIsOnItsWay'
    BY <2>6 DEF LockBusy
  <2>7. ASSUME NEW p \in Proc, ReadAndCheck(p) PROVE CommitIsOnItsWay'
    BY <2>7 DEF ReadAndCheck
  <2>8. ASSUME NEW p \in Proc, ReadOrValidationFails(p) PROVE CommitIsOnItsWay'
    BY <2>8 DEF ReadOrValidationFails
  <2>9. ASSUME NEW p \in Proc, WriteFails(p) PROVE CommitIsOnItsWay'
    BY <2>9 DEF WriteFails
  <2>10. ASSUME NEW p \in Proc, Rename(p) PROVE CommitIsOnItsWay'
    BY <2>10 DEF Rename
  <2>11. ASSUME NEW p \in Proc, SynchronizeDirectory(p) PROVE CommitIsOnItsWay'
    BY <2>11 DEF SynchronizeDirectory
  <2>12. ASSUME NEW p \in Proc, SynchronizeFails(p) PROVE CommitIsOnItsWay'
    BY <2>12 DEF SynchronizeFails
  <2>13. ASSUME NEW p \in Proc, Observe(p) PROVE CommitIsOnItsWay'
    BY <2>13 DEF Observe
  <2>14. ASSUME NEW p \in Proc, ObserveFails(p) PROVE CommitIsOnItsWay'
    BY <2>14 DEF ObserveFails
  <2>15. ASSUME NEW p \in Proc, Recover(p) PROVE CommitIsOnItsWay'
    BY <2>15 DEF Recover
  <2>16. ASSUME NEW p \in Proc, Release(p) PROVE CommitIsOnItsWay'
    BY <2>16 DEF Release
  <2>17. ASSUME NEW p \in Proc, ReleaseFails(p) PROVE CommitIsOnItsWay'
    BY <2>17 DEF ReleaseFails
  <2>18. ASSUME NEW p \in Proc, Restart(p) PROVE CommitIsOnItsWay'
    BY <2>18 DEF Restart
  <2>19. CASE ExpireLock
    BY <2>19 DEF ExpireLock
  <2>20. CASE PowerLoss
    BY <2>20 DEF PowerLoss
  <2>21. CASE UNCHANGED vars
    BY <2>21 DEF vars
  <2> QED
    BY <2>1, <2>2, <2>3, <2>4, <2>5, <2>6, <2>7, <2>8, <2>9, <2>10,
       <2>11, <2>12, <2>13, <2>14, <2>15, <2>16, <2>17, <2>18, <2>19,
       <2>20, <2>21
    DEF Next, StoreStep, CommitStep
<1> QED
  BY <1>1, <1>2, TypeInductive, LockInvariant, PTL DEF Spec, StoreInv

-----------------------------------------------------------------------------

\* A process whose place, operation and answer stay has the same call, unless
\* the file changes under a commit that is looking at its outcome.
LEMMA CallStays ==
  ASSUME NEW q \in Proc, pc'[q] = pc[q], op'[q] = op[q], answer'[q] = answer[q],
         file' = file \/ pc[q] \notin {"observe", "recover"}
  PROVE  CallOf(q)' = CallOf(q)
  BY DEF CallOf, CallStatus

\* A step of one process moves one call, here to another status.
LEMMA OneStatusMoves ==
  ASSUME NEW p \in Proc, NEW s,
         \A q \in Proc \ {p} : CallOf(q)' = CallOf(q),
         CallOf(p)' = [CallOf(p) EXCEPT !.status = s]
  PROVE  cas!Becomes(p, s)
  BY DEF cas!Becomes

\* A step of one process leaves the calls as they are.
LEMMA NoCallMoves ==
  ASSUME \A q \in Proc : CallOf(q)' = CallOf(q)
  PROVE  UNCHANGED [p \in Proc |-> CallOf(p)]
  OBVIOUS

\* A process that takes a commit from its queue invokes it.
LEMMA CallBegins ==
  ASSUME NEW p \in Proc, NEW b, NEW n,
         \A q \in Proc \ {p} : CallOf(q)' = CallOf(q),
         CallOf(p) = cas!Idle, UNCHANGED <<file, durable>>,
         CallOf(p)' = [status |-> "pending", base |-> b, next |-> n]
  PROVE  cas!Invoke(p, b, n)
  BY DEF cas!Invoke

\* A process that settles gives up its call.
LEMMA CallEnds ==
  ASSUME NEW p \in Proc,
         \A q \in Proc \ {p} : CallOf(q)' = CallOf(q),
         CallOf(p)' = cas!Idle, UNCHANGED <<file, durable>>
  PROVE  cas!Abandon(p)
  BY DEF cas!Abandon

\* The call of a commit that is under way.
LEMMA CallRecord ==
  ASSUME NEW p \in Proc, op[p] # NoOperation, pc[p] # "load"
  PROVE  CallOf(p) = [status |-> CallStatus(p), base |-> op[p].base, next |-> op[p].next]
  BY DEF CallOf

\* An answer is given to a call that is under way, and is true.
LEMMA AnswerGiven ==
  ASSUME NEW p \in Proc, NEW a \in cas!Answers \ {"committed"},
         op[p] # NoOperation, pc[p] # "load",
         \A q \in Proc \ {p} : CallOf(q)' = CallOf(q),
         CallOf(p)' = [CallOf(p) EXCEPT !.status = a],
         UNCHANGED <<file, durable>>,
         CallStatus(p) \in {"pending", "applied"},
         a # "unknown" => CallStatus(p) = "pending",
         a = "unchanged" => file = op[p].base /\ file = op[p].next,
         a = "conflict" => file # op[p].base
  PROVE  cas!Answer(p, a)
<1>1. cas!Becomes(p, a)
  BY OneStatusMoves
<1>2. [q \in Proc |-> CallOf(q)][p] =
        [status |-> CallStatus(p), base |-> op[p].base, next |-> op[p].next]
  BY CallRecord
<1>3. CASE a = "unchanged"
  BY <1>1, <1>2, <1>3 DEF cas!Answer, cas!AnswerIsTrue
<1>4. CASE a = "conflict"
  BY <1>1, <1>2, <1>4 DEF cas!Answer, cas!AnswerIsTrue
<1>5. CASE a = "failed"
  BY <1>1, <1>2, <1>5 DEF cas!Answer, cas!AnswerIsTrue
<1>6. CASE a = "unknown"
  BY <1>1, <1>2, <1>6 DEF cas!Answer, cas!AnswerIsTrue
<1> QED
  BY <1>3, <1>4, <1>5, <1>6 DEF cas!Answers

\* Every step of the store objects, of the processes and of the environment is
\* a step of the compare-and-set store, or none of its business.
THEOREM StoreImplementsCasStore == Spec => ImplementsCasStore
<1>1. Init => cas!Init
  BY DEF Init, cas!Init, cas!Idle, CallOf
<1>2. StoreInv /\ [Next]_vars => [cas!Next]_(cas!vars)
  <2> SUFFICES ASSUME StoreInv, [Next]_vars PROVE cas!Next \/ UNCHANGED cas!vars
    OBVIOUS
  <2> USE CommitFields, OperationAssumption
      DEF StoreInv, TypeOK, OperationFits, LockIsHeld, CommitIsOnItsWay,
          Critical, Places, Goto, Settle, Says
  <2>1. ASSUME NEW p \in Proc, NEW o \in Operations, Enqueue(p, o)
        PROVE  UNCHANGED cas!vars
    BY <2>1, CallStays, NoCallMoves DEF Enqueue, cas!vars
  <2>2. ASSUME NEW p \in Proc, Start(p) PROVE cas!Next \/ UNCHANGED cas!vars
    <3> DEFINE o == Head(queue[p])
    <3>1. /\ o \in Operations /\ op'[p] = o /\ UNCHANGED <<file, durable>>
          /\ pc'[p] = IF o.kind = "load" THEN "load" ELSE "lock"
      BY <2>2, QueueEnds DEF Start
    <3>2. \A q \in Proc \ {p} : CallOf(q)' = CallOf(q)
      <4> SUFFICES ASSUME NEW q \in Proc \ {p} PROVE CallOf(q)' = CallOf(q)
        OBVIOUS
      <4>1. pc'[q] = pc[q] /\ op'[q] = op[q] /\ answer'[q] = answer[q] /\ file' = file
        BY <2>2 DEF Start
      <4> QED BY <4>1, CallStays
    <3>3. CallOf(p) = cas!Idle
      BY <2>2 DEF Start, CallOf, cas!Idle
    <3>4. CASE o.kind = "load"
      <4>1. CallOf(p)' = CallOf(p)
        BY <3>1, <3>3, <3>4 DEF CallOf, cas!Idle
      <4> QED BY <3>1, <3>2, <4>1, NoCallMoves DEF cas!vars
    <3>5. CASE o.kind # "load"
      <4>1. o \in Commits /\ o # NoOperation
        BY <3>1, <3>5, OperationKinds
      <4>2. CallOf(p)' = [status |-> "pending", base |-> o.base, next |-> o.next]
        BY <3>1, <3>5, <4>1 DEF CallOf, CallStatus
      <4>3. cas!Invoke(p, o.base, o.next)
        BY <3>1, <3>2, <3>3, <4>2, CallBegins
      <4> QED BY <4>1, <4>3 DEF cas!Next
    <3> QED BY <3>4, <3>5
  <2>3. ASSUME NEW p \in Proc, RefuseTerminal(p) PROVE UNCHANGED cas!vars
    BY <2>3, CallStays, NoCallMoves DEF RefuseTerminal, cas!vars
  <2>4. ASSUME NEW p \in Proc, Load(p) PROVE cas!Next
    <3>1. CallOf(p)' = cas!Idle /\ UNCHANGED <<file, durable>>
      BY <2>4 DEF Load, CallOf, cas!Idle
    <3>2. \A q \in Proc \ {p} : CallOf(q)' = CallOf(q)
      BY <2>4, CallStays DEF Load
    <3> QED BY <3>1, <3>2, CallEnds DEF cas!Next
  <2>5. ASSUME NEW p \in Proc, AcquireLock(p) PROVE UNCHANGED cas!vars
    <3>1. CallOf(p)' = CallOf(p)
      BY <2>5 DEF AcquireLock, CallOf, CallStatus
    <3>2. \A q \in Proc \ {p} : CallOf(q)' = CallOf(q)
      BY <2>5, CallStays DEF AcquireLock
    <3> QED BY <2>5, <3>1, <3>2, NoCallMoves DEF AcquireLock, cas!vars
  <2>6. ASSUME NEW p \in Proc, LockBusy(p) PROVE cas!Next
    <3>1. CallOf(p)' = cas!Idle /\ UNCHANGED <<file, durable>>
      BY <2>6 DEF LockBusy, CallOf, cas!Idle
    <3>2. \A q \in Proc \ {p} : CallOf(q)' = CallOf(q)
      BY <2>6, CallStays DEF LockBusy
    <3> QED BY <3>1, <3>2, CallEnds DEF cas!Next
  <2>7. ASSUME NEW p \in Proc, ReadAndCheck(p) PROVE cas!Next \/ UNCHANGED cas!vars
    <3>1. /\ UNCHANGED <<file, durable>> /\ op[p] # NoOperation
          /\ CallStatus(p) = "pending" /\ pc[p] # "load"
      BY <2>7 DEF ReadAndCheck, CallStatus
    <3>2. \A q \in Proc \ {p} : CallOf(q)' = CallOf(q)
      BY <2>7, CallStays DEF ReadAndCheck
    <3>3. CASE pc'[p] = "write"
      <4>1. CallOf(p)' = CallOf(p)
        BY <2>7, <3>3 DEF ReadAndCheck, CallOf, CallStatus
      <4> QED BY <3>1, <3>2, <4>1, NoCallMoves DEF cas!vars
    <3>4. CASE pc'[p] = "release"
      <4>1. \/ answer'[p] = "conflict" /\ file # op[p].base
            \/ answer'[p] = "unchanged" /\ file = op[p].base /\ file = op[p].next
        BY <2>7, <3>4 DEF ReadAndCheck
      <4>2. CallOf(p)' = [CallOf(p) EXCEPT !.status = answer'[p]]
        <5>1. pc' = [pc EXCEPT ![p] = "release"] /\ op' = op
          BY <2>7, <3>4 DEF ReadAndCheck
        <5> QED BY <3>1, <5>1, CallRecord DEF CallOf, CallStatus
      <4>3. answer'[p] \in cas!Answers \ {"committed"}
        BY <4>1 DEF cas!Answers
      <4>4. cas!Answer(p, answer'[p])
        BY <3>1, <3>2, <4>1, <4>2, <4>3, AnswerGiven
      <4> QED BY <4>3, <4>4 DEF cas!Next
    <3> QED BY <2>7, <3>3, <3>4 DEF ReadAndCheck
  <2>8. ASSUME NEW p \in Proc, ReadOrValidationFails(p) PROVE cas!Next
    <3>1. /\ UNCHANGED <<file, durable>> /\ op[p] # NoOperation
          /\ CallStatus(p) = "pending" /\ pc[p] # "load"
      BY <2>8 DEF ReadOrValidationFails, CallStatus
    <3>2. \A q \in Proc \ {p} : CallOf(q)' = CallOf(q)
      BY <2>8, CallStays DEF ReadOrValidationFails
    <3>3. CallOf(p)' = [CallOf(p) EXCEPT !.status = "failed"]
      BY <2>8, <3>1 DEF ReadOrValidationFails, CallOf, CallStatus
    <3>4. "failed" \in cas!Answers \ {"committed"}
      BY DEF cas!Answers
    <3>5. cas!Answer(p, "failed")
      BY <3>1, <3>2, <3>3, <3>4, AnswerGiven
    <3> QED BY <3>4, <3>5 DEF cas!Next
  <2>9. ASSUME NEW p \in Proc, WriteFails(p) PROVE UNCHANGED cas!vars
    <3>1. CallOf(p)' = CallOf(p)
      BY <2>9 DEF WriteFails, CallOf, CallStatus
    <3>2. \A q \in Proc \ {p} : CallOf(q)' = CallOf(q)
      BY <2>9, CallStays DEF WriteFails
    <3> QED BY <2>9, <3>1, <3>2, NoCallMoves DEF WriteFails, cas!vars
  <2>10. ASSUME NEW p \in Proc, Rename(p) PROVE cas!Next
    <3>1. /\ file = op[p].base /\ file' = op[p].next /\ UNCHANGED durable
          /\ op[p] # NoOperation /\ CallStatus(p) = "pending" /\ pc[p] # "load"
      BY <2>10 DEF Rename, CallStatus
    <3>2. \A q \in Proc \ {p} : CallOf(q)' = CallOf(q)
      BY <2>10, CallStays DEF Rename
    <3>3. CallOf(p)' = [CallOf(p) EXCEPT !.status = "applied"]
      BY <2>10, <3>1 DEF Rename, CallOf, CallStatus
    <3>4. cas!Becomes(p, "applied")
      BY <3>2, <3>3, OneStatusMoves
    <3>5. [q \in Proc |-> CallOf(q)][p] =
            [status |-> "pending", base |-> op[p].base, next |-> op[p].next]
      BY <3>1, CallRecord
    <3>6. cas!Apply(p)
      BY <3>1, <3>4, <3>5 DEF cas!Apply
    <3> QED BY <3>6 DEF cas!Next
  <2>11. ASSUME NEW p \in Proc, SynchronizeDirectory(p) \/ Recover(p)
         PROVE  cas!Next
    <3>1. /\ UNCHANGED file /\ durable' = file
          /\ op[p] # NoOperation /\ CallStatus(p) = "applied" /\ pc[p] # "load"
      BY <2>11 DEF SynchronizeDirectory, Recover, CallStatus
    <3>2. \A q \in Proc \ {p} : CallOf(q)' = CallOf(q)
      BY <2>11, CallStays DEF SynchronizeDirectory, Recover
    <3>3. CallOf(p)' = [CallOf(p) EXCEPT !.status = "committed"]
      BY <2>11, <3>1 DEF SynchronizeDirectory, Recover, CallOf, CallStatus
    <3>4. cas!Becomes(p, "committed")
      BY <3>2, <3>3, OneStatusMoves
    <3>5. [q \in Proc |-> CallOf(q)][p] =
            [status |-> "applied", base |-> op[p].base, next |-> op[p].next]
      BY <3>1, CallRecord
    <3>6. cas!Commit(p)
      BY <3>1, <3>4, <3>5 DEF cas!Commit
    <3> QED BY <3>6 DEF cas!Next
  <2>12. ASSUME NEW p \in Proc, SynchronizeFails(p)
         PROVE  cas!Next \/ UNCHANGED cas!vars
    <3>1. /\ UNCHANGED file /\ durable' \in {durable, file}
          /\ op[p] # NoOperation /\ CallStatus(p) = "applied" /\ pc[p] # "load"
      BY <2>12 DEF SynchronizeFails, CallStatus
    <3>2. \A q \in Proc \ {p} : CallOf(q)' = CallOf(q)
      BY <2>12, CallStays DEF SynchronizeFails
    <3>3. CallOf(p)' = CallOf(p)
      BY <2>12, <3>1 DEF SynchronizeFails, CallOf, CallStatus
    <3>4. UNCHANGED [q \in Proc |-> CallOf(q)]
      BY <3>2, <3>3, NoCallMoves
    <3>5. [q \in Proc |-> CallOf(q)][p] =
            [status |-> "applied", base |-> op[p].base, next |-> op[p].next]
      BY <3>1, CallRecord
    <3>6. CASE durable' = file
      <4>1. cas!Flush(p)
        BY <3>1, <3>4, <3>5, <3>6 DEF cas!Flush
      <4> QED BY <4>1 DEF cas!Next
    <3> QED BY <3>1, <3>4, <3>6 DEF cas!vars
  <2>13. ASSUME NEW p \in Proc, Observe(p) PROVE cas!Next \/ UNCHANGED cas!vars
    <3>1. /\ UNCHANGED <<file, durable>> /\ op[p] # NoOperation /\ pc[p] # "load"
          /\ CallStatus(p) = IF file = op[p].next THEN "applied" ELSE "pending"
      BY <2>13 DEF Observe, CallStatus
    <3>2. \A q \in Proc \ {p} : CallOf(q)' = CallOf(q)
      BY <2>13, CallStays DEF Observe
    <3>3. CASE file = op[p].next
      <4>1. CallOf(p)' = CallOf(p)
        BY <2>13, <3>1, <3>3 DEF Observe, CallOf, CallStatus
      <4> QED BY <3>1, <3>2, <4>1, NoCallMoves DEF cas!vars
    <3>4. CASE file # op[p].next
      <4>1. file = before[p]
        BY <2>13, <3>4 DEF Observe
      <4>2. CallOf(p)' = [CallOf(p) EXCEPT !.status = "failed"]
        BY <2>13, <3>1, <4>1 DEF Observe, CallOf, CallStatus
      <4>3. "failed" \in cas!Answers \ {"committed"}
        BY DEF cas!Answers
      <4>4. cas!Answer(p, "failed")
        BY <3>1, <3>2, <3>4, <4>2, <4>3, AnswerGiven
      <4> QED BY <4>3, <4>4 DEF cas!Next
    <3> QED BY <3>3, <3>4
  <2>14. ASSUME NEW p \in Proc, ObserveFails(p) PROVE cas!Next
    <3>1. /\ UNCHANGED <<file, durable>> /\ op[p] # NoOperation /\ pc[p] # "load"
          /\ CallStatus(p) \in {"pending", "applied"}
      BY <2>14 DEF ObserveFails, CallStatus
    <3>2. \A q \in Proc \ {p} : CallOf(q)' = CallOf(q)
      BY <2>14, CallStays DEF ObserveFails
    <3>3. CallOf(p)' = [CallOf(p) EXCEPT !.status = "unknown"]
      BY <2>14, <3>1 DEF ObserveFails, CallOf, CallStatus
    <3>4. "unknown" \in cas!Answers \ {"committed"}
      BY DEF cas!Answers
    <3>5. cas!Answer(p, "unknown")
      BY <3>1, <3>2, <3>3, <3>4, AnswerGiven
    <3> QED BY <3>4, <3>5 DEF cas!Next
  <2>15. ASSUME NEW p \in Proc, Release(p) \/ ReleaseFails(p) \/ Restart(p)
         PROVE  cas!Next
    <3>1. CallOf(p)' = cas!Idle /\ UNCHANGED <<file, durable>>
      BY <2>15 DEF Release, ReleaseFails, Restart, CallOf, cas!Idle
    <3>2. \A q \in Proc \ {p} : CallOf(q)' = CallOf(q)
      BY <2>15, CallStays DEF Release, ReleaseFails, Restart
    <3> QED BY <3>1, <3>2, CallEnds DEF cas!Next
  <2>16. CASE ExpireLock
    BY <2>16, CallStays, NoCallMoves DEF ExpireLock, cas!vars
  <2>17. CASE PowerLoss
    <3>1. \A q \in Proc : CallOf(q)' = cas!Idle
      BY <2>17 DEF PowerLoss, CallOf, cas!Idle
    <3>2. cas!PowerLoss
      BY <2>17, <3>1 DEF PowerLoss, cas!PowerLoss
    <3> QED BY <3>2 DEF cas!Next
  <2>18. CASE UNCHANGED vars
    BY <2>18, CallStays, NoCallMoves DEF vars, cas!vars
  <2> QED
    BY <2>1, <2>2, <2>3, <2>4, <2>5, <2>6, <2>7, <2>8, <2>9, <2>10, <2>11,
       <2>12, <2>13, <2>14, <2>15, <2>16, <2>17, <2>18
    DEF Next, StoreStep, CommitStep
<1> QED
  BY <1>1, <1>2, StoreInvariant, PTL DEF Spec, ImplementsCasStore
=============================================================================
