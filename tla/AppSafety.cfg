\* One or two threads and two clients: handlers of two clients at the same time.
CONSTANTS
  Client = {c1, c2}
  Worker = {w1, w2}
  ThreadCounts = {1, 2}
  NoClient = NoClient
  MaxFrames = 1
SPECIFICATION Spec
INVARIANTS
  TypeOK
  OneAcceptChain
  AcceptsUnlessBroken
  StrandSerial
  HandlersHoldClient
  RegistryOneThread
PROPERTIES
  ImplementsClient
  PoolStays
  StaleEntryCauses
SYMMETRY Symmetry
CHECK_DEADLOCK FALSE
