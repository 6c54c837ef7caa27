SPECIFICATION FairSpec
CONSTANTS
  Main = a
  NoThread = NoThread
  Threads = {a, b}
  Programs = {
    {"store", "free", "qsort", "pthread_create", "pthread_join"},
    {"malloc", "fopen", "fputs", "readdir", "closedir", "pthread_create"}}
  MaxInstructions = 3
\* A thread may wait in pthread_join() for ever: see MCRecorderJoin.cfg.
CHECK_DEADLOCK FALSE
INVARIANTS
  RecordedInOrder
  RecordsUnderLock
PROPERTIES
  NotificationsEndWithoutJoin
