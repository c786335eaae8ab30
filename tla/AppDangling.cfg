\* A send that outlives its client.
CONSTANTS
  Client = {c1}
  Worker = {w1, w2}
  ThreadCounts = {2}
  NoClient = NoClient
  MaxFrames = 1
SPECIFICATION Spec
INVARIANT SendKeepsAlive
CHECK_DEADLOCK FALSE
