CONSTANTS
  Procs = {p1, p2}
  Caching = {p1, p2}
  Certs <- MCCerts
  URLs = {"u1", "u2", "u3"}
  Signed <- MCSigned
  SelfSigned = {"root", "old"}
  AIA <- MCAIA
  Published <- MCPublished
  Scans <- MCScans
  MaxDepth = 2
  MaxFaults = 1
  None = None
SPECIFICATION Spec
INVARIANTS FetchedIsTrue AsFarAsItMay
CHECK_DEADLOCK FALSE
