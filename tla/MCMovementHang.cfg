SPECIFICATION FairSpec
CONSTANTS
  a = a
  b = b
  NoWorker = NoWorker
  Workers = {a, b}
  Recordings <- TwoThreadRecordings
PROPERTY WaitEnds
