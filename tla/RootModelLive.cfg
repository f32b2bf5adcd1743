SPECIFICATION Spec
CONSTANTS
  Targets = {t1}
  Features = {"lister", "trust", "columns", "packet", "proxy"}
  Starts = {"lister", "pcap"}
  TrustColumn = TRUE
  MaxLoads = 3
  None = None
PROPERTIES LoadingEnds
CHECK_DEADLOCK FALSE
