CONSTANTS
  Scenarios <- MCScenarios
  FilesIn <- MCFilesIn
  SkippedIn <- MCSkippedIn
  KeysIn <- MCKeysIn
  SizesIn <- MCSizesIn
  WordsIn <- MCWordsIn
  Peers <- MCPeers
  GoneIn <- MCGoneIn
  MaxHistory = 2
  NoRow = NoRow
  Tree <- MCTree
  Top = "top"
  Unreadable = {"sealed"}
  Sealed = {"sub"}
  AtFirst <- MCAtFirst
  Others <- MCOthers
  Home = "top"
  Scanned = "work"
  SaveName = "a.pem"
  Pem <- MCPem
  Typed <- MCTyped
  Paths <- MCPaths
  Sessions <- MCSessions
  MinBox = 17
  MaxBox = 19
  TermHeights = {17, 20}
  DropMaxH = 2
  MaxLetters = 2
  FormSessions <- MCFormSessions
  MaxRows = 2
SPECIFICATION WidgetsSpec
INVARIANTS CursorShown FormSettled
PROPERTIES BackShowsWhatWasLeft SelectionIsOne PickIsSound SubmitIsMeant
CHECK_DEADLOCK FALSE
