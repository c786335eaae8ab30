\* A plugin is removed while plugins that were initialized are in the map.
CONSTANTS
  Plugin = {p1, p2, p3}
  NoPlugin = NoPlugin
  ServiceKey = {"logger", "filesystem", "db"}
  CoreService = {"logger", "filesystem"}
  Required = {"filesystem"}
  Command = {"/a:run", "bad"}
  ValidCommand = {"/a:run"}
  Attributes <- MCAttributes
SPECIFICATION BootSpec
INVARIANT InitializedOneByOne
\* When the start has come to its end nothing follows here.
CHECK_DEADLOCK FALSE
