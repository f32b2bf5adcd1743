CONSTANTS
  Endpoints = {"a", "b"}
  Opener = "a"
  Nobody = "none"
  Streams <- WorldStreams
  MidStream = TRUE
  Preambles = {"none", "banner", "dialog"}
SPECIFICATION WorldSpec
INVARIANTS ServerIsFound StatusIsTrue
PROPERTIES FiledAsSent
CHECK_DEADLOCK FALSE
