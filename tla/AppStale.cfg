\* A client that was closed and still in clients_.
CONSTANTS
  Client = {c1}
  Worker = {w1, w2}
  ThreadCounts = {2}
  NoClient = NoClient
  MaxFrames = 1
SPECIFICATION Spec
INVARIANT ClosedAreUnregistered
CHECK_DEADLOCK FALSE
