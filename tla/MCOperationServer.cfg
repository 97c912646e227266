SPECIFICATION Spec
CONSTANTS
  Operation = {o}
  Proposal = {p}
  Actor = {o, p}
  Contents = {c1, c2}
  MaxWrites = 1
  MaxFaults = 2
  MaxCrashes = 1
  None = None
SYMMETRY Symmetric
INVARIANTS TypeOK AtMostOnce AnswersAreTrue EvidenceOutlivesPower AnsweredIsNotReplayed ProposalsTellTheTruth
PROPERTIES OnlyConsentedChanges
CHECK_DEADLOCK FALSE
