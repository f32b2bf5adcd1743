CONSTANTS
  None = None
  NoCert = NoCert
  NoAnchor = NoAnchor
  NoAnswer = NoAnswer
  NoResult = NoResult
  NoTrust = NoTrust
  NoRoots = NoRoots
  MaxChainAlternatives = 3
  MaxTargets = 3
  ValiditySchedule <- MCSchedule
  Jobs <- MCJobs
  Captures <- MCCaptures
  MaxPackets = 3
  MaxInterrupts = 2
SPECIFICATION MCSpec
INVARIANTS PoolKept OutcomesTrue ReportTold HandleKept
PROPERTIES CommandsEnd
CHECK_DEADLOCK FALSE
