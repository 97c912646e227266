---------------------------- MODULE ServedContent ----------------------------
(***************************************************************************)
(* What the content operations and the agent proposals of one server share *)
(* (contentRuntime.ts, the stores of index.ts): a versioned content and    *)
(* the operation ledger.  The content is the store that CasStore specifies *)
(* and VersionedContentStore implements, and every operation and every     *)
(* proposal is one of its callers.  The autosaves of the user's clients    *)
(* write to the same content, and may write what it held before.           *)
(*                                                                         *)
(* The lease of the repository root keeps other servers away, so there is  *)
(* one process.  It can die at any time, and the power can fail.           *)
(***************************************************************************)
EXTENDS Naturals

CONSTANTS
  Actor,       \* the operations and the proposals
  Contents,    \* contents the store can hold
  MaxWrites,   \* bound: writes of the user's clients
  MaxFaults,   \* bound: calls of the file system that fail
  MaxCrashes,  \* bound: deaths of the server
  None         \* no value

ASSUME ContentsAssumption == None \notin Contents
ASSUME ServedBoundAssumption ==
  MaxWrites \in Nat /\ MaxFaults \in Nat /\ MaxCrashes \in Nat

VARIABLES
  content, durable, call,   \* the store, as in CasStore
  ledger,     \* "open", "closed" after a failure, "unprepared" since the start
  effects,    \* history: how often an actor changed the content
  unsynced,   \* history: actors whose change is not known to be on the disk
  lost,       \* history: actors whose change a power loss took back
  budget      \* bound: writes, faults and crashes so far

store == INSTANCE CasStore WITH Caller <- Actor

stored == <<content, durable, call>>
traces == <<effects, unsynced, lost>>
served == <<stored, ledger, traces, budget>>

ServedTypeOK ==
  /\ store!TypeOK
  /\ ledger \in {"open", "closed", "unprepared"}
  /\ effects \in [Actor -> Nat]
  /\ unsynced \subseteq Actor
  /\ lost \subseteq Actor
  /\ budget \in [writes : 0..MaxWrites, faults : 0..MaxFaults,
                crashes : 0..MaxCrashes]

ServedInit ==
  /\ store!Init
  /\ ledger = "open"
  /\ effects = [a \in Actor |-> 0] /\ unsynced = {} /\ lost = {}
  /\ budget = [writes |-> 0, faults |-> 0, crashes |-> 0]

Fault ==
  /\ budget.faults < MaxFaults
  /\ budget' = [budget EXCEPT !.faults = @ + 1]

\* The store works on the call of an actor.
Apply(a) ==
  /\ store!Apply(a)
  /\ effects' = [effects EXCEPT ![a] = @ + 1]
  /\ unsynced' = unsynced \cup {a}
  /\ UNCHANGED <<ledger, lost, budget>>

Synchronize(a) ==
  /\ store!Commit(a)
  /\ unsynced' = {}
  /\ UNCHANGED <<ledger, effects, lost, budget>>

Reject(a) ==
  /\ store!Answer(a, "conflict")
  /\ UNCHANGED <<ledger, traces, budget>>

Break(a) ==
  /\ \E answer \in {"failed", "unknown"} : store!Answer(a, answer)
  /\ Fault
  /\ UNCHANGED <<ledger, traces>>

StoreStep(a) == Apply(a) \/ Synchronize(a) \/ Reject(a) \/ Break(a)

\* A client of the user saves.
Save(value) ==
  /\ budget.writes < MaxWrites
  /\ value # content
  /\ content' = value /\ durable' = value /\ unsynced' = {}
  /\ budget' = [budget EXCEPT !.writes = @ + 1]
  /\ UNCHANGED <<call, ledger, effects, lost>>

\* The server dies, with the power or without, and starts again; opening the
\* ledger can fail.
Restart(power) ==
  /\ budget.crashes < MaxCrashes
  /\ IF power
       THEN \E reverts \in BOOLEAN :
              /\ store!PowerLoss
              /\ content' = IF reverts THEN durable ELSE content
              /\ lost' = IF reverts THEN lost \cup unsynced ELSE lost
              /\ unsynced' = {}
       ELSE /\ call' = [a \in Actor |-> store!Idle]
            /\ UNCHANGED <<content, durable, lost, unsynced>>
  /\ \/ /\ ledger' = "open"
        /\ budget' = [budget EXCEPT !.crashes = @ + 1]
     \/ /\ ledger' = "unprepared"
        /\ budget.faults < MaxFaults
        /\ budget' = [writes |-> budget.writes,
                       faults |-> budget.faults + 1,
                       crashes |-> budget.crashes + 1]
  /\ UNCHANGED effects
=============================================================================
