--------------------------- MODULE MCBootstrapper ---------------------------
(* Plugins for TLC, of any priorities: one that needs the service "db" and *)
(* ones that provide it, with or without a valid command in common.        *)
EXTENDS Bootstrapper

MCAttributes ==
  { a \in [ priority : 1..3,
            requires : {{}, {"db"}},
            provides : {{}, {"db"}},
            exports  : {{}, {"/a:run", "bad"}} ] :
      /\ a.requires = {} <=> a.provides # {}
      /\ a.exports = {} => a.requires = {} }

=============================================================================
