\* Three server processes that start, are killed and start again.
CONSTANTS
  Process = {p1, p2, p3}
  NoProcess = NoProcess
SPECIFICATION FilesSpec
INVARIANTS
  FilesTypeOK
  OneGetsThrough
  UndisturbedStart
