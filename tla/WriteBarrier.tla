---------------------------- MODULE WriteBarrier ----------------------------
(***************************************************************************)
(* The write barrier of the server (writeBarrier.ts, dataRootWriteScope.ts *)
(* and maintenanceGate.ts).  Every request that may write runs in a frame  *)
(* with a lease; a task that a request starts runs in a frame of its own,  *)
(* with a lease that extends the request's and may outlive it.  Who closes *)
(* the barrier waits until no frame is left.                               *)
(*                                                                         *)
(* A task that starts after the frame of its request has ended enters like *)
(* a new request, so it needs no action of its own.                        *)
(***************************************************************************)
CONSTANT Request   \* requests that are served at a time

Frame == {"request", "task"}

VARIABLES
  frames,   \* the active frames of each request
  closed    \* somebody has begun maintenance (#exclusive)

barrier == <<frames, closed>>

BarrierTypeOK ==
  /\ frames \in [Request -> SUBSET Frame]
  /\ closed \in BOOLEAN

NoFrames == [r \in Request |-> {}]

BarrierInit == frames = NoFrames /\ closed = FALSE

\* A request is admitted; while the barrier is closed it is repository_busy.
Enter(r) ==
  /\ ~closed
  /\ frames[r] = {}
  /\ frames' = [frames EXCEPT ![r] = {"request"}]
  /\ UNCHANGED closed

\* A request starts a task of its own, also while the barrier is closed.
Extend(r) ==
  /\ frames[r] = {"request"}
  /\ frames' = [frames EXCEPT ![r] = Frame]
  /\ UNCHANGED closed

Finish(r, frame) ==
  /\ frame \in frames[r]
  /\ frames' = [frames EXCEPT ![r] = @ \ {frame}]
  /\ UNCHANGED closed

\* mutant: the end of a request releases its tasks too.
DrainedRequests == \A r \in Request : "request" \notin frames[r]

\* What the waiters of begin() wait for.
Drained == \A r \in Request : frames[r] = {}
=============================================================================
