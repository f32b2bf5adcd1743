CONSTANTS
  Empty = "empty"
  Plain = "plain"
  Provided <- MCProvided
  Trees <- MCTrees
  Settings <- MCSettings
  Typed = {"p1", "p2"}
  MaxTries = 2
SPECIFICATION MCSpec
INVARIANTS Accounted ContainersTrue
PROPERTIES AskedOnce
CHECK_DEADLOCK FALSE
