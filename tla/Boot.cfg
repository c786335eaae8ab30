\* Three plugins, so that the tree of the map has a root with two children.
CONSTANTS
  Plugin = {p1, p2, p3}
  NoPlugin = NoPlugin
  ServiceKey = {"logger", "filesystem", "db"}
  CoreService = {"logger", "filesystem"}
  Required = {"filesystem"}
  Command = {"/a:run", "bad"}
  ValidCommand = {"/a:run"}
  Attributes <- MCAttributes
SPECIFICATION FairBootSpec
INVARIANTS
  BootTypeOK
  RequiredAreUp
  PriorityResolves
  OnceUnlessErased
  CommandsByPriority
PROPERTY StartEnds
\* When the start has come to its end nothing follows here.
CHECK_DEADLOCK FALSE
