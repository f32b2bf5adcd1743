SPECIFICATION Spec
CONSTANTS
  Absent = Absent
  Torn = Torn
  None = None
  NoCert = NoCert
  NoKey = NoKey
  Empty = "empty"
  MaxChainAlternatives = 8
  MaxFaults = 2
  Procs = {1, 2, 3}
  Outputs <- MCOutputs
  Scenarios <- MCScenarios
  Turn <- MCTurn
  Preferred <- MCPreferred
  Legacy <- MCLegacy
  BackupOf <- MCBackupOf
  MasterKeys = {"k1", "k2", "k3"}
  PathOrder <- MCPathOrder
  DirOf <- MCDirOf
  Cwd = "cwd"
  Renewed <- MCRenewed
  DerivedKey <- MCDerivedKey
INVARIANTS WritesTidy PasswordsKept OutputsSound
PROPERTIES ResultsAtomic
CHECK_DEADLOCK FALSE
