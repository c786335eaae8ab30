\* A connection accepted before Startup has subscribed.
CONSTANTS
  Client = {c1}
  Worker = {w1, w2}
  ThreadCounts = {2}
  NoClient = NoClient
  MaxFrames = 1
SPECIFICATION Spec
INVARIANT NoConnectionDropped
CHECK_DEADLOCK FALSE
