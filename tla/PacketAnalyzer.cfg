CONSTANTS
  Proxies = {p1, p2}
  Conns = {c1, c2}
  Captured = {k1}
  Matching = {c1}
  ChanCap = 1
  Patient = TRUE
  None = None
SPECIFICATION FairSpec
INVARIANTS ProxyIsHeld FirstProxyListsAgree
PROPERTIES EverybodyGetsOn
CHECK_DEADLOCK FALSE
