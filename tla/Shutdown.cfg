SPECIFICATION FairShutdownSpec
CONSTANTS
  Client = {c1}
  Worker = {w1, w2}
  ThreadCounts = {0, 1, 2}
  NoClient = NoClient
  MaxFrames = 1
INVARIANTS
  ShutdownTypeOK
  NoHandlerAfterUnload
  FailedStartIdle
PROPERTIES
  FailedStartEnds
  FreedWhileServed
  RegistryComplete
CHECK_DEADLOCK FALSE
