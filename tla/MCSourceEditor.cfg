SPECIFICATION Spec
CONSTANTS
  SourceFiles = {"a"}
  MaxChanges = 2
  MaxSeconds = 2
\* The window may be closed.
CHECK_DEADLOCK FALSE
INVARIANTS
  RunsWhatIsShown
  ClosingIsClean
PROPERTIES
  PendingRunEnds
