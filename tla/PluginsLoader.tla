--------------------------- MODULE PluginsLoader ----------------------------
(***************************************************************************)
(* src/introp/plugins_loader.cc: loading the plugin files, initializing    *)
(* the plugins in the order of their priorities, and importing their       *)
(* commands.  What a plugin says of itself is data of the environment; how *)
(* its virtual methods return is left open.                                *)
(***************************************************************************)
EXTENDS ServicesManager, Sequences

CONSTANTS
  NoPlugin,         \* plugins.end()
  Command,          \* command specifiers, path ":" name
  ValidCommand,     \* those that match commands_pattern
  Attributes        \* what a plugin may say of itself: see PluginAttributes

ASSUME NoPluginAssumption == NoPlugin \notin Plugin
ASSUME CommandAssumption == ValidCommand \subseteq Command

PluginAttributes ==
  [ priority : Nat,                    \* Info().Priority()
    requires : SUBSET ServiceKey,      \* Requires()
    provides : SUBSET ServiceKey,      \* what RegisterServices() has registered
                                       \* when it returns, be it true or false
    exports  : SUBSET Command ]        \* GetCommands()

ASSUME AttributesAssumption == Attributes \subseteq PluginAttributes

VARIABLES
  attrs,          \* attrs[p]: the attributes of plugin file p
  files,          \* files of the plugins directory not loaded yet
  plugins,        \* Application::Plugins()
  itr,            \* plugin_itr, or the iterator of the loop over the plugins
  initialized,    \* history: how often Initialize and RegisterServices of a
                  \* plugin returned
  failures,       \* history: the plugins that were erased, each with the cause
  refused,        \* history: files whose plugin had the priority of another one
  commands,       \* Application::Commands(): a function from keys to plugins
  mute            \* history: plugins whose GetCommands() threw

pluginVars ==
  <<attrs, files, plugins, itr, initialized, failures, refused, commands, mute>>

Causes == {"unresolved", "initialize", "register"}

PluginsTypeOK ==
  /\ attrs \in [Plugin -> Attributes]
  /\ files \subseteq Plugin
  /\ plugins \subseteq Plugin
  /\ itr \in plugins \cup {NoPlugin}
  /\ initialized \in [Plugin -> Nat]
  /\ failures \in Seq([plugin : Plugin, cause : Causes])
  /\ refused \subseteq Plugin
  /\ DOMAIN commands \subseteq ValidCommand
  /\ \A c \in DOMAIN commands : commands[c] \in Plugin
  /\ mute \subseteq Plugin

PluginsInit ==
  /\ attrs \in [Plugin -> Attributes]
  /\ files = Plugin
  /\ plugins = {}
  /\ itr = NoPlugin
  /\ initialized = [p \in Plugin |-> 0]
  /\ failures = <<>>
  /\ refused = {}
  /\ commands = <<>>
  /\ mute = {}

-----------------------------------------------------------------------------
(* The map is ordered by priority, the only thing its keys compare. *)

Priority(p) == attrs[p].priority

SamePriority(p) == {q \in plugins : Priority(q) = Priority(p)}

First(set) ==
  IF set = {} THEN NoPlugin
  ELSE CHOOSE p \in set : \A q \in set : Priority(p) <= Priority(q)

FaultyBegin == First(plugins \ {First(plugins)})

Begin == First(plugins)

NextPlugin(p) == First({q \in plugins : Priority(q) > Priority(p)})

-----------------------------------------------------------------------------
(* LoadPlugins, in the order of the directory. *)

\* The library opens, has the factory, and the plugin is put in the map, ...
LoadPlugin(p) ==
  /\ SamePriority(p) = {}
  /\ plugins' = plugins \cup {p}
  /\ UNCHANGED refused

\* ... where emplace does nothing if its key, the priority, is there: the
\* plugin is destroyed, ...
RefusePlugin(p) ==
  /\ SamePriority(p) # {}
  /\ refused' = refused \cup {p}
  /\ UNCHANGED plugins

\* ... or it is no plugin: a directory, an exception, a null pointer.
SkipFile(p) == UNCHANGED <<plugins, refused>>

LoadFile ==
  /\ \E p \in files :
       /\ files' = files \ {p}
       /\ LoadPlugin(p) \/ RefusePlugin(p) \/ SkipFile(p)
  /\ UNCHANGED <<attrs, itr, initialized, failures, commands, mute, servicesVars>>

-----------------------------------------------------------------------------
(* InitializePlugins. *)

\* Requires() resolves, Initialize returns true, and RegisterServices returns.
\* false is only worth a warning: the plugin stays, with the services that it has
\* registered (a plugin that registers fewer is one with a smaller `provides`).
InitializeSucceeds ==
  /\ itr # NoPlugin
  /\ CanResolve(attrs[itr].requires)
  /\ \A k \in attrs[itr].provides : CanRegister(k)
  /\ RegisterServices(attrs[itr].provides, itr)
  /\ initialized' = [initialized EXCEPT ![itr] = @ + 1]
  /\ itr' = NextPlugin(itr)
  /\ UNCHANGED <<attrs, files, plugins, failures, refused, commands, mute, bootstrapped>>

FaultyEraseAt(cause) ==
  /\ plugins' = plugins \ {itr}
  /\ failures' = Append(failures, [plugin |-> itr, cause |-> cause])
  /\ UNCHANGED <<attrs, files, itr, initialized, refused, commands, mute, bootstrapped>>

\* The plugin is removed, and then the loop reads and increments the iterator
\* of the node that was freed: from there it comes to the end or to any plugin
\* left in the map, or the process crashes (see Bootstrapper).
EraseAt(cause) ==
  /\ plugins' = plugins \ {itr}
  /\ failures' = Append(failures, [plugin |-> itr, cause |-> cause])
  /\ itr' \in plugins' \cup {NoPlugin}
  /\ UNCHANGED <<attrs, files, initialized, refused, commands, mute, bootstrapped>>

\* ResolveDependencies throws, ...
ResolutionFails ==
  /\ itr # NoPlugin
  /\ ~CanResolve(attrs[itr].requires)
  /\ EraseAt("unresolved")
  /\ UNCHANGED services

\* ... Initialize returns false or throws, ...
InitializeFails ==
  /\ itr # NoPlugin
  /\ CanResolve(attrs[itr].requires)
  /\ EraseAt("initialize")
  /\ UNCHANGED services

\* ... or RegisterServices throws, at the latest for a key that is taken; what
\* it had registered until then remains.
RegistrationFails ==
  /\ itr # NoPlugin
  /\ CanResolve(attrs[itr].requires)
  /\ \E keys \in SUBSET {k \in attrs[itr].provides : CanRegister(k)} :
       RegisterServices(keys, itr)
  /\ EraseAt("register")

InitializePlugin ==
  InitializeSucceeds \/ ResolutionFails \/ InitializeFails \/ RegistrationFails

-----------------------------------------------------------------------------
(* LoadCommands. *)

FaultyImportCommands ==
  LET new == attrs[itr].exports \cap ValidCommand
  IN  /\ commands' = [c \in DOMAIN commands \cup new |->
                        IF c \in new THEN itr ELSE commands[c]]
      /\ UNCHANGED mute

\* Commands with a valid specifier are put in the map; emplace keeps a command
\* that is there already.
ImportCommands ==
  LET new == (attrs[itr].exports \cap ValidCommand) \ DOMAIN commands
  IN  /\ commands' = [c \in DOMAIN commands \cup new |->
                        IF c \in new THEN itr ELSE commands[c]]
      /\ UNCHANGED mute

\* GetCommands throws a std::exception.
GetCommandsThrows ==
  /\ mute' = mute \cup {itr}
  /\ UNCHANGED commands

FaultyLoadCommands ==
  /\ itr # NoPlugin
  /\ ImportCommands \/ GetCommandsThrows
  /\ itr' = IF NextPlugin(itr) = NoPlugin THEN Begin ELSE NextPlugin(itr)
  /\ UNCHANGED <<attrs, files, plugins, initialized, failures, refused, servicesVars>>

LoadCommands ==
  /\ itr # NoPlugin
  /\ ImportCommands \/ GetCommandsThrows
  /\ itr' = NextPlugin(itr)
  /\ UNCHANGED <<attrs, files, plugins, initialized, failures, refused, servicesVars>>

=============================================================================
