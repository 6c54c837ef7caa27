SPECIFICATION Spec
CONSTANTS
  MaxMoves = 3
  MaxPending = 2
  MaxSpurious = 1
  Decls <- MCDecls
  Files = {1, 2}
  MainFiles = {2}
  FileLength = 7
  LineLength = 3
  Views <- MCViews
  MaxIndicators = 2
  Explained <- MCExplained
  StreamViews <- MCStreamViews
  MaxShows = 2
  MaxMovers = 2
  Recordings <- MCRecordings
  MaxLoads = 2
  Archives = {"a", "b"}
  MaxStarts = 2
  Keys = {"state", "node"}
  NodeKeys = {"node"}
  Texts = {"", "text"}
  MaxTemps = 2
  MaxEdits = 2
CHECK_DEADLOCK FALSE
INVARIANTS
  OnlyLiveStateIsRead
  GraphIsCurrent
  PagesAreCurrent
  LinksAreFaithful
  WritesAreFound
  ReplayIsFaithful
  NothingIsLost
  ArchivesAreWhole
PROPERTIES
  ViewerNeverHangs
