SPECIFICATION FairSpec
CONSTANTS
  Main = a
  NoThread = NoThread
  Threads = {a, b}
  Programs = {{"pthread_create", "pthread_join"}}
  MaxInstructions = 2
\* The threads may wait for each other, which NotificationsEnd is about.
CHECK_DEADLOCK FALSE
PROPERTY NotificationsEnd
