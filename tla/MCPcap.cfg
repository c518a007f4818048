CONSTANTS
  NWriters = 2
  NPackets = 2
  NCommands = 2
  RingSize = 1
  MaxBurst = 2
  FileLimit = 0
  MayFail = {"init", "roll", "write"}
SPECIFICATION FairSpec
INVARIANTS MbufsConserved CapturedOnceInOrder OutbuffOwned
PROPERTIES StopEnds StartOpensFiles
CHECK_DEADLOCK FALSE
