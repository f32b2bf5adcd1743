CONSTANTS
  Procs = {u1, u2}
  Updaters = {u1, u2}
  Snapshots <- MCSnapshots
  Embedded = 100
  Anchors <- MCAnchors
  Denying = {100, 115}
  MinAnchors = 80
  MaxDrop = 15
  MaxFaults = 2
  None = None
SPECIFICATION HistorySpec
INVARIANTS Installed
PROPERTIES InstallHeals UndisturbedDropBounded
