\* Two clients, so that a freed block can be reused while sends are pending.
CONSTANTS
  Client = {c1, c2}
  MaxFrames = 1
SPECIFICATION FairClientSpec
INVARIANTS
  ClientTypeOK
  ReadKeepsAlive
  ClosedIsLast
  StoppedNeverWaits
PROPERTIES
  FreedAfterPeerGone
  ImplementsSession
\* Bounded peers: when every client is freed nothing is left to happen.
CHECK_DEADLOCK FALSE
