CONSTANTS
  NoCert = NoCert
  NoAnchor = NoAnchor
  NoAnswer = NoAnswer
  NoResult = NoResult
  NoTrust = NoTrust
  MaxChainAlternatives = 3
  ValiditySchedule <- MCSchedule
  Inputs <- MCInputs
  Machine <- MCMachine
  Options <- MCOptions
SPECIFICATION Spec
INVARIANTS VerdictsSound ChainsComplete IssuesTold StoreViewsAgree RevocationStands
CHECK_DEADLOCK FALSE
