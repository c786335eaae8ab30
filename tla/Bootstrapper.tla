---------------------------- MODULE Bootstrapper ----------------------------
(***************************************************************************)
(* The start of the program, src/bootstrapper.cc: bootstrap the services,  *)
(* load and initialize the plugins, import their commands, and start the   *)
(* application (module Application goes on from there).  All of it runs on *)
(* the main thread; main.cc catches what is thrown and exits.              *)
(***************************************************************************)
EXTENDS PluginsLoader

VARIABLES
  phase,          \* how far Run has come
  unvisited       \* services LoadServices has not come to

bootVars == <<phase, unvisited, pluginVars, servicesVars>>

Phases ==
  { "services", "list", "loading", "initializing", "pattern", "commands",
    "startup", "serving", "aborted", "crashed" }

Ended == phase \in {"serving", "aborted", "crashed"}

Goto(p) == phase' = p

-----------------------------------------------------------------------------
\* LoadServices: the services that are registered now, in the order of an
\* unordered_map.  Initialize of each, a virtual call, returns true, returns
\* false or throws.
ServiceDone ==
  /\ phase = "services"
  /\ \E s \in unvisited : Bootstraps(s) /\ unvisited' = unvisited \ {s}
  /\ UNCHANGED <<phase, pluginVars>>

FaultyServiceFails ==
  /\ phase = "services"
  /\ \E s \in unvisited : unvisited' = unvisited \ {s}
  /\ UNCHANGED <<phase, pluginVars, servicesVars>>

ServiceFails ==
  /\ phase = "services"
  /\ \E s \in unvisited :
       /\ unvisited' = unvisited \ {s}
       /\ IF s \in Required THEN Goto("aborted") ELSE UNCHANGED phase
  /\ UNCHANGED <<pluginVars, servicesVars>>

ServiceThrows ==
  /\ phase = "services"
  /\ unvisited # {}
  /\ Goto("aborted")
  /\ UNCHANGED <<unvisited, pluginVars, servicesVars>>

LoadServicesReturns ==
  /\ phase = "services"
  /\ unvisited = {}
  /\ Goto("list")
  /\ UNCHANGED <<unvisited, pluginVars, servicesVars>>

LoadServices == ServiceDone \/ ServiceFails \/ ServiceThrows \/ LoadServicesReturns

-----------------------------------------------------------------------------
(* Bootstrapper::LoadPlugins. *)

\* ListDirectory returns the entries of the plugins directory, or throws.
ListPlugins ==
  /\ phase = "list"
  /\ Goto("loading") \/ Goto("aborted")
  /\ UNCHANGED <<unvisited, pluginVars, servicesVars>>

Loading ==
  /\ phase = "loading"
  /\ files # {}
  /\ LoadFile
  /\ UNCHANGED <<phase, unvisited>>

\* All files are done; without plugins, that was all.
LoadingReturns ==
  /\ phase = "loading"
  /\ files = {}
  /\ itr' = Begin
  /\ Goto(IF plugins = {} THEN "startup" ELSE "initializing")
  /\ UNCHANGED <<unvisited, attrs, files, plugins, initialized, failures, refused,
                 commands, mute, servicesVars>>

Initializing ==
  /\ phase = "initializing"
  /\ InitializePlugin
  /\ \/ UNCHANGED phase
     \/ failures' # failures /\ Goto("crashed")
  /\ UNCHANGED unvisited

InitializingReturns ==
  /\ phase = "initializing"
  /\ itr = NoPlugin
  /\ Goto("pattern")
  /\ UNCHANGED <<unvisited, pluginVars, servicesVars>>

\* The regular expression of LoadCommands is built; the range \w-\. in it is one
\* that some standard libraries refuse with an exception.
BuildPattern ==
  /\ phase = "pattern"
  /\ \/ Goto("commands") /\ itr' = Begin
     \/ Goto("aborted") /\ UNCHANGED itr
  /\ UNCHANGED <<unvisited, attrs, files, plugins, initialized, failures, refused,
                 commands, mute, servicesVars>>

Importing ==
  /\ phase = "commands"
  /\ LoadCommands
  /\ UNCHANGED <<phase, unvisited>>

ImportingReturns ==
  /\ phase = "commands"
  /\ itr = NoPlugin
  /\ Goto("startup")
  /\ UNCHANGED <<unvisited, pluginVars, servicesVars>>

\* A plugin throws something that is no std::exception where only those are
\* caught: it leaves main.
PluginEscapes ==
  /\ \/ phase = "loading" /\ files # {}
     \/ phase = "commands" /\ itr # NoPlugin
  /\ Goto("crashed")
  /\ UNCHANGED <<unvisited, pluginVars, servicesVars>>

LoadPlugins ==
  \/ ListPlugins \/ Loading \/ LoadingReturns \/ Initializing \/ InitializingReturns
  \/ BuildPattern \/ Importing \/ ImportingReturns \/ PluginEscapes

\* Application::Startup succeeds or not.
Startup ==
  /\ phase = "startup"
  /\ Goto("serving") \/ Goto("aborted")
  /\ UNCHANGED <<unvisited, pluginVars, servicesVars>>

-----------------------------------------------------------------------------
BootInit ==
  /\ ServicesInit
  /\ PluginsInit
  /\ phase = "services"
  /\ unvisited = CoreService

BootNext == LoadServices \/ LoadPlugins \/ Startup

BootSpec == BootInit /\ [][BootNext]_bootVars

\* The main thread runs.
FairBootSpec == BootSpec /\ WF_bootVars(BootNext)

-----------------------------------------------------------------------------
(* Properties. *)

\* Every variable has its type.
BootTypeOK ==
  /\ ServicesTypeOK
  /\ PluginsTypeOK
  /\ phase \in Phases
  /\ unvisited \subseteq CoreService

\* The application is only started with all required services bootstrapped.
RequiredAreUp ==
  phase \in {"startup", "serving"} => Required \subseteq bootstrapped

\* Plugins are initialized in the order of their priorities and so after those
\* whose services they need: the first plugin that is removed for a service it
\* cannot have requires one that no plugin of a smaller priority provides.
PriorityResolves ==
  failures # <<>> /\ failures[1].cause = "unresolved" =>
    LET p == failures[1].plugin
    IN  \E k \in attrs[p].requires \ CoreService :
          \A q \in plugins : Priority(q) < Priority(p) => k \notin attrs[q].provides

\* As long as no plugin was removed, each is initialized exactly once before the
\* commands are imported.
OnceUnlessErased ==
  phase \in {"pattern", "commands", "startup", "serving"} /\ failures = <<>> =>
    \A p \in plugins : initialized[p] = 1

\* A command that several plugins export belongs to the one with the smallest
\* priority, and no command to a plugin that was removed.
CommandsByPriority ==
  phase \in {"startup", "serving"} =>
    \A c \in Command :
      LET exporters == {p \in plugins \ mute : c \in attrs[p].exports /\ c \in ValidCommand}
      IN  /\ c \in DOMAIN commands <=> exporters # {}
          /\ exporters # {} => commands[c] = First(exporters)

\* Whatever the plugins do, the start comes to an end.
StartEnds == <>Ended

\* InitializePlugins "iterates through plugins and initialize them one by one":
\* every plugin that is kept was initialized, and once.
InitializedOneByOne ==
  phase \in {"pattern", "commands", "startup", "serving"} =>
    \A p \in plugins : initialized[p] = 1

=============================================================================
