SPECIFICATION Spec
CONSTANTS
  Targets = {t1}
  Features = {"trust", "remote", "refetch", "verify", "lister", "aia", "files", "shell", "packet", "options", "save"}
  Starts = {"lister", "store", "pcap"}
  TrustColumn = FALSE
  MaxLoads = 3
  None = None
INVARIANTS OneLoadAtATime ViewsFit
CHECK_DEADLOCK FALSE
