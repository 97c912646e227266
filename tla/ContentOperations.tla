-------------------------- MODULE ContentOperations --------------------------
(***************************************************************************)
(* Content operations: commands of a local program with an id of its own,  *)
(* run at most once and remembered by a receipt (contentOperationLedger.ts *)
(* with contentReceiptStore.ts, contentService.ts and commandSupport.ts).  *)
(* Every receipt is a file of its own, read and written under a lock.      *)
(*                                                                         *)
(* The digest of a request is that of its whole payload; the base revision *)
(* is the part of the payload kept here, so it stands for the digest.  A   *)
(* call that finds the operation in flight waits for it and gets its       *)
(* answer, or is refused; it changes nothing and is left out.              *)
(***************************************************************************)
EXTENDS ServedContent

CONSTANT Operation   \* ids of content operations
ASSUME OperationAssumption == Operation \subseteq Actor

VARIABLES
  receipt,   \* the receipt a read returns
  kept,      \* the receipt a read would return after a power loss
  run,       \* the run of an operation that is in flight
  known,     \* results that could not be written (#undurableResults)
  query,     \* a query under way: what it has read
  audited,   \* operations with an entry in the audit
  told       \* history: answers given

operations == <<receipt, kept, run, known, query, audited, told>>

Outcomes == {"committed", "conflict", "failed", "indeterminate"}
Receipts == [base : Contents, status : {"pending"} \cup Outcomes,
             prepared : BOOLEAN, audit : {"pending", "recorded", "failed"}]
Answers == [base : Contents, status : Outcomes]
Idle == [pc |-> "idle"]

\* A run is before its answer (Runs) or has it and ends (Endings).
Runs == [pc : {"read", "admit", "reserve", "load", "prepare", "commit"},
         base : Contents]
Endings == [pc : {"save", "audit", "close"}, result : Receipts]
Queries == [pc : {"asked"}] \cup [pc : {"seen"}, receipt : Receipts]

\* None stands for no receipt.
ASSUME ReceiptAssumption == None \notin Receipts

OperationTypeOK ==
  /\ receipt \in [Operation -> Receipts \cup {None}]
  /\ kept \in [Operation -> Receipts \cup {None}]
  /\ run \in [Operation -> {Idle} \cup Runs \cup Endings]
  /\ known \in [Operation -> Receipts \cup {None}]
  /\ query \in [Operation -> {Idle} \cup Queries]
  /\ audited \subseteq Operation
  /\ told \in [Operation -> SUBSET Answers]

OperationInit ==
  /\ receipt = [o \in Operation |-> None]
  /\ kept = receipt
  /\ run = [o \in Operation |-> Idle]
  /\ known = [o \in Operation |-> None]
  /\ query = run
  /\ audited = {}
  /\ told = [o \in Operation |-> {}]

InFlight(o) == run[o] # Idle
Go(o, next) == run' = [run EXCEPT ![o] = next]

\* What is answered from a receipt that no run of this process will change
\* (#project and #existing): a result, or that none will be known.
Projected(r) ==
  [base |-> r.base,
   status |-> IF r.status = "pending" THEN "indeterminate" ELSE r.status]

Tell(o, answer) == told' = [told EXCEPT ![o] = @ \cup {answer}]

\* A call with another digest gets an error instead (#existing).
TellSame(o, r, base) ==
  IF r.base = base THEN Tell(o, Projected(r)) ELSE UNCHANGED told

\* Mutant: a receipt file is replaced and not synchronised.
WrittenUnsynchronized(o, r) ==
  /\ receipt' = [receipt EXCEPT ![o] = r]
  /\ UNCHANGED <<kept, budget>>

\* A receipt file is replaced; or the replacement fails, before the new file
\* took its name or after.
Written(o, r) ==
  /\ receipt' = [receipt EXCEPT ![o] = r]
  /\ kept' = [kept EXCEPT ![o] = r]
  /\ UNCHANGED budget

WriteFails(o, r) ==
  /\ Fault
  /\ receipt' \in {receipt, [receipt EXCEPT ![o] = r]}
  /\ UNCHANGED kept

-----------------------------------------------------------------------------
(* runContentOperation *)

\* A call: the start of a run, if there is no result to return at once.
Call(o, base) ==
  /\ ~InFlight(o)
  /\ ledger # "unprepared"
  /\ IF known[o] # None
       THEN TellSame(o, known[o], base) /\ UNCHANGED run
       ELSE Go(o, [pc |-> "read", base |-> base]) /\ UNCHANGED told
  /\ UNCHANGED <<receipt, kept, known, query, audited, served>>

ReadReceipt(o) ==
  /\ run[o].pc = "read"
  /\ IF receipt[o] = None
       THEN Go(o, [run[o] EXCEPT !.pc = "admit"]) /\ UNCHANGED told
       ELSE TellSame(o, receipt[o], run[o].base) /\ Go(o, Idle)
  /\ UNCHANGED <<receipt, kept, known, query, audited, served>>

\* New operations need the ledger.
Admit(o) ==
  /\ run[o].pc = "admit"
  /\ IF ledger = "open"
       THEN \/ Go(o, [run[o] EXCEPT !.pc = "reserve"])
                 /\ UNCHANGED <<ledger, budget>>
            \/ Fault /\ ledger' = "closed" /\ Go(o, Idle)
       ELSE Go(o, Idle) /\ UNCHANGED <<ledger, budget>>
  /\ UNCHANGED <<receipt, kept, known, query, audited, told, stored, traces>>

Reserve(o) ==
  LET intent == [base |-> run[o].base, status |-> "pending",
                 prepared |-> FALSE, audit |-> "pending"]
  IN /\ run[o].pc = "reserve"
     /\ IF receipt[o] # None
          THEN /\ TellSame(o, receipt[o], run[o].base) /\ Go(o, Idle)
               /\ UNCHANGED <<receipt, kept, budget>>
          ELSE /\ \/ Written(o, intent) /\ Go(o, [run[o] EXCEPT !.pc = "load"])
                  \/ WriteFails(o, intent) /\ Go(o, Idle)
               /\ UNCHANGED told
     /\ UNCHANGED <<known, query, audited, stored, ledger, traces>>

-----------------------------------------------------------------------------
(* commitContentCommand, between the reservation and the result *)

\* The run has an outcome and goes on to write it.
Conclude(o, status, prepared) ==
  Go(o, [pc |-> "save",
         result |-> [base |-> run[o].base, status |-> status,
                     prepared |-> prepared, audit |-> "pending"]])

\* loadSnapshot, requireRevision and prepare, which may refuse the command.
Load(o) ==
  /\ run[o].pc = "load"
  /\ IF content # run[o].base
       THEN Conclude(o, "conflict", FALSE)
       ELSE \/ Conclude(o, "failed", FALSE)
            \/ Go(o, [run[o] EXCEPT !.pc = "prepare"])
  /\ UNCHANGED <<receipt, kept, known, query, audited, told, served>>

\* Mutant: the evidence is left to the result.
PrepareNothing(o) ==
  /\ run[o].pc = "prepare"
  /\ \E next \in Contents \ {run[o].base} :
       store!Invoke(o, run[o].base, next)
  /\ Go(o, [run[o] EXCEPT !.pc = "commit"])
  /\ UNCHANGED <<receipt, kept, known, query, audited, told,
                 ledger, traces, budget>>

\* recordPrepared, then the call of the store's commit.
Prepare(o) ==
  LET evidence == [receipt[o] EXCEPT !.prepared = TRUE]
  IN /\ run[o].pc = "prepare"
     /\ IF receipt[o].status # "pending" \/ receipt[o].prepared
          THEN /\ Conclude(o, "failed", FALSE)
               /\ UNCHANGED <<receipt, kept, budget, stored>>
          ELSE \/ /\ Written(o, evidence)
                  /\ \E next \in Contents \ {run[o].base} :
                       store!Invoke(o, run[o].base, next)
                  /\ Go(o, [run[o] EXCEPT !.pc = "commit"])
               \/ /\ WriteFails(o, evidence)
                  /\ Conclude(o, "failed", FALSE)
                  /\ UNCHANGED stored
     /\ UNCHANGED <<known, query, audited, told, ledger, traces>>

\* Mutants: an unknown outcome counts as a failure; the store's word is kept.
OutcomeCertain(answer) ==
  IF answer \in {"committed", "conflict"} THEN answer ELSE "failed"
OutcomeVerbatim(answer) == answer

\* The answer of the store, after which no other failure proves anything
\* (commandFailure).
Outcome(answer) ==
  IF answer \in {"committed", "conflict"} THEN answer ELSE "indeterminate"

Conclusion(o) ==
  /\ run[o].pc = "commit"
  /\ call[o].status \in store!Answers
  /\ Conclude(o, Outcome(call[o].status), TRUE)
  /\ store!Finish(o)
  /\ UNCHANGED <<receipt, kept, known, query, audited, told,
                 ledger, traces, budget>>

-----------------------------------------------------------------------------
(* The result, the audit, and the result again *)

\* Nothing more is tried: the result stays in memory.
Undurable(o) ==
  /\ known' = [known EXCEPT ![o] = [run[o].result EXCEPT !.audit = "failed"]]
  /\ Tell(o, Projected(run[o].result))
  /\ Go(o, Idle)

SaveResult(o) ==
  /\ run[o].pc = "save"
  /\ \/ /\ Written(o, run[o].result)
        /\ Go(o, [run[o] EXCEPT !.pc = "audit"])
        /\ UNCHANGED <<known, told>>
     \/ WriteFails(o, run[o].result) /\ Undurable(o)
  /\ UNCHANGED <<query, audited, stored, ledger, traces>>

\* The ledger is one file; a write of it that fails may close it.
Audit(o) ==
  /\ run[o].pc = "audit"
  /\ \/ /\ ledger = "open"
        /\ audited' = audited \cup {o}
        /\ Go(o, [pc |-> "close",
                  result |-> [run[o].result EXCEPT !.audit = "recorded"]])
        /\ UNCHANGED <<known, told, ledger, budget>>
     \/ /\ IF ledger = "open"
             THEN Fault /\ ledger' \in {"open", "closed"}
             ELSE UNCHANGED <<ledger, budget>>
        /\ Undurable(o)
        /\ UNCHANGED audited
  /\ UNCHANGED <<receipt, kept, query, stored, traces>>

Close(o) ==
  /\ run[o].pc = "close"
  /\ \/ /\ Written(o, run[o].result)
        /\ Tell(o, Projected(run[o].result)) /\ Go(o, Idle)
        /\ UNCHANGED known
     \/ WriteFails(o, run[o].result) /\ Undurable(o)
  /\ UNCHANGED <<query, audited, stored, ledger, traces>>

-----------------------------------------------------------------------------
(* getContentOperation *)

Ask(o) ==
  /\ query[o] = Idle
  /\ ledger # "unprepared"
  /\ IF known[o] # None
       THEN Tell(o, Projected(known[o])) /\ UNCHANGED query
       ELSE /\ query' = [query EXCEPT ![o] = [pc |-> "asked"]]
            /\ UNCHANGED told
  /\ UNCHANGED <<receipt, kept, run, known, audited, served>>

Look(o) ==
  /\ query[o].pc = "asked"
  /\ query' = [query EXCEPT ![o] =
                 IF receipt[o] = None THEN Idle
                 ELSE [pc |-> "seen", receipt |-> receipt[o]]]
  /\ UNCHANGED <<receipt, kept, run, known, audited, told, served>>

\* Mutant: it does not matter whether the run is still in flight.
ReplyAlone(o) ==
  /\ query[o].pc = "seen"
  /\ Tell(o, Projected(query[o].receipt))
  /\ query' = [query EXCEPT ![o] = Idle]
  /\ UNCHANGED <<receipt, kept, run, known, audited, served>>

\* The lock is released in between.  A result whose run is still in flight is
\* answered with that run; a pending receipt is "pending" only while it is.
Reply(o) ==
  /\ query[o].pc = "seen"
  /\ IF InFlight(o)
       THEN query[o].receipt.status = "pending" /\ UNCHANGED told
       ELSE Tell(o, Projected(query[o].receipt))
  /\ query' = [query EXCEPT ![o] = Idle]
  /\ UNCHANGED <<receipt, kept, run, known, audited, served>>

-----------------------------------------------------------------------------
\* The process takes its runs, queries and unwritten results along.  With a
\* receipt that a power loss takes, the "indeterminate" is void that was said
\* of it; a definite answer is never void.
OperationsRestart(power) ==
  /\ run' = [o \in Operation |-> Idle]
  /\ query' = run'
  /\ known' = [o \in Operation |-> None]
  /\ IF power
       THEN \E spared \in SUBSET Operation :
              /\ receipt' = [o \in Operation |->
                               IF o \in spared THEN receipt[o] ELSE kept[o]]
              /\ kept' = receipt'
              /\ told' = [o \in Operation |->
                            {a \in told[o] : receipt'[o] = None
                                               => a.status # "indeterminate"}]
       ELSE UNCHANGED <<receipt, kept, told>>
  /\ UNCHANGED audited

RunStep(o) ==
  \/ ReadReceipt(o) \/ Admit(o) \/ Reserve(o)
  \/ Load(o) \/ Prepare(o) \/ Conclusion(o)
  \/ SaveResult(o) \/ Audit(o) \/ Close(o)

QueryStep(o) == Look(o) \/ Reply(o)

OperationNext(o) ==
  \/ \E base \in Contents : Call(o, base)
  \/ Ask(o)
  \/ RunStep(o)
  \/ QueryStep(o)
=============================================================================
