------------------------- MODULE BootstrapperProofs -------------------------
(***************************************************************************)
(* Theorems about the start of the program for every set of plugins, every *)
(* choice of their attributes and every way their methods fail.            *)
(***************************************************************************)
EXTENDS Bootstrapper, WellFoundedInduction, TLAPS

-----------------------------------------------------------------------------
(* The order of the map. *)

\* Every nonempty set of plugins has a first one.
LEMMA FirstIsLeast ==
  ASSUME attrs \in [Plugin -> PluginAttributes],
         NEW set, set \subseteq Plugin, set # {}
  PROVE  /\ First(set) \in set
         /\ \A q \in set : Priority(First(set)) <= Priority(q)
<1> DEFINE T == {Priority(q) : q \in set}
<1>1. \A q \in set : Priority(q) \in Nat
  BY DEF Priority, PluginAttributes
<1>2. T \subseteq Nat /\ T # {}
  BY <1>1
<1> HIDE DEF T
<1>3. PICK n \in T : \A m \in T : ~(<<m, n>> \in OpToRel(<, Nat))
  BY <1>2, NatLessThanWellFounded, WFMin, Zenon
<1>4. \A m \in T : ~(m < n)
  BY <1>2, <1>3, Zenon DEF OpToRel
<1>5. \A m \in T : n <= m
  BY <1>2, <1>4
<1> USE DEF T
<1>6. \E p \in set : \A q \in set : Priority(p) <= Priority(q)
  BY <1>5
<1> QED
  BY <1>6 DEF First

\* No two plugins of the map have the same priority.
Distinct ==
  \A p, q \in plugins : Priority(p) = Priority(q) => p = q

\* The loop has left plugin p behind.
Passed(p) == itr = NoPlugin \/ Priority(p) < Priority(itr)

\* The loop starts before every plugin ...
LEMMA BeginPassesNone ==
  ASSUME attrs \in [Plugin -> PluginAttributes], plugins \subseteq Plugin
  PROVE  /\ Begin \in plugins \cup {NoPlugin}
         /\ plugins = {} => Begin = NoPlugin
         /\ plugins # {} =>
              /\ Begin \in plugins
              /\ \A p \in plugins : ~(Priority(p) < Priority(Begin))
<1>1. CASE plugins = {}
  BY <1>1 DEF Begin, First
<1>2. CASE plugins # {}
  <2>1. Begin \in plugins /\ \A q \in plugins : Priority(Begin) <= Priority(q)
    BY <1>2, FirstIsLeast DEF Begin
  <2>2. \A q \in plugins : Priority(q) \in Nat
    BY DEF Priority, PluginAttributes
  <2> QED
    BY <1>2, <2>1, <2>2
<1> QED
  BY <1>1, <1>2

\* ... and a step of it leaves behind the plugin it was at, and no other.
LEMMA NextPasses ==
  ASSUME attrs \in [Plugin -> PluginAttributes], plugins \subseteq Plugin,
         Distinct, NoPlugin \notin Plugin, itr \in plugins,
         attrs' = attrs, itr' = NextPlugin(itr)
  PROVE  /\ itr' \in plugins \cup {NoPlugin}
         /\ \A p \in plugins : Passed(p)' <=> Passed(p) \/ p = itr
<1> DEFINE later == {q \in plugins : Priority(q) > Priority(itr)}
<1>1. \A q \in plugins : Priority(q) \in Nat /\ Priority(q)' = Priority(q)
  BY DEF Priority, PluginAttributes
<1>2. itr # NoPlugin
  OBVIOUS
<1>3. itr' = First(later)
  BY DEF NextPlugin
<1>4. CASE later = {}
  <2>1. itr' = NoPlugin
    BY <1>3, <1>4 DEF First
  <2>2. \A p \in plugins : Passed(p) \/ p = itr
    BY <1>1, <1>4 DEF Passed, Distinct
  <2> QED
    BY <2>1, <2>2 DEF Passed
<1>5. CASE later # {}
  <2>1. First(later) \in later /\ \A q \in later : Priority(First(later)) <= Priority(q)
    BY <1>5, FirstIsLeast
  <2>2. itr' \in plugins /\ Priority(itr') > Priority(itr) /\ itr' # NoPlugin
    BY <1>3, <2>1
  <2>3. \A q \in plugins : Priority(q) > Priority(itr) => Priority(itr') <= Priority(q)
    BY <1>3, <2>1
  <2>4. ASSUME NEW p \in plugins
        PROVE  Passed(p)' <=> Priority(p) < Priority(itr')
    BY <2>2, <1>1 DEF Passed, Priority
  <2>5. ASSUME NEW p \in plugins
        PROVE  Priority(p) < Priority(itr') <=> Priority(p) < Priority(itr) \/ p = itr
    BY <1>1, <2>2, <2>3 DEF Distinct
  <2> QED
    BY <1>2, <2>2, <2>4, <2>5 DEF Passed
<1> QED
  BY <1>4, <1>5

-----------------------------------------------------------------------------
(* The inductive invariant. *)

Early == {"services", "list", "loading"}
Late == {"pattern", "commands", "startup", "serving"}

\* Nothing was done with the plugins yet.
Untouched ==
  /\ phase \in Early =>
       /\ itr = NoPlugin
       /\ failures = <<>>
       /\ \A p \in Plugin : initialized[p] = 0
  /\ phase \in Early \cup {"initializing", "pattern"} => DOMAIN commands = {} /\ mute = {}

\* A required service is bootstrapped or LoadServices has still to come to it.
RequiredPending ==
  /\ phase = "services" => Required \subseteq bootstrapped \cup unvisited
  /\ phase \notin {"services", "aborted", "crashed"} => Required \subseteq bootstrapped

\* As long as none has failed, the plugins that the loop has left behind, and
\* only they, were initialized, once, and have registered their services.
Initialized(p) == initialized[p] = 1 /\ attrs[p].provides \subseteq Registered

InOrder ==
  failures = <<>> =>
    /\ phase = "initializing" =>
         \A p \in plugins : IF Passed(p) THEN Initialized(p) ELSE initialized[p] = 0
    /\ phase \in Late => \A p \in plugins : Initialized(p)

BootInv ==
  /\ BootTypeOK
  /\ CoreService \subseteq Registered
  /\ Distinct
  /\ Untouched
  /\ RequiredPending
  /\ InOrder
  /\ PriorityResolves

LEMMA AttributesType ==
  ASSUME PluginsTypeOK
  PROVE  attrs \in [Plugin -> PluginAttributes]
  BY AttributesAssumption DEF PluginsTypeOK

\* What RegisterServices leaves of the registry.
LEMMA RegisterServicesType ==
  ASSUME ServicesTypeOK, NEW keys, keys \subseteq ServiceKey, NEW p \in Plugin,
         RegisterServices(keys, p), UNCHANGED bootstrapped
  PROVE  /\ ServicesTypeOK'
         /\ Registered' = Registered \cup keys
<1>1. Registered' = Registered \cup keys
  BY DEF RegisterServices, Registered
<1>2. \A k \in Registered' : services'[k] \in Provider
  BY <1>1 DEF RegisterServices, ServicesTypeOK, Provider, Registered
<1> QED
  BY <1>1, <1>2 DEF ServicesTypeOK, Provider

LEMMA BootInitInv == BootInit => BootInv
<1> SUFFICES ASSUME BootInit
             PROVE  BootInv
  OBVIOUS
<1> USE DEF BootInit, ServicesInit, PluginsInit
<1>1. ServicesTypeOK /\ CoreService \subseteq Registered
  BY ServiceAssumption DEF ServicesTypeOK, Registered, Provider
<1>2. PluginsTypeOK
  BY DEF PluginsTypeOK
<1>3. BootTypeOK
  BY <1>1, <1>2, ServiceAssumption DEF BootTypeOK, Phases
<1>4. Distinct /\ Untouched /\ PriorityResolves
  BY DEF Distinct, Untouched, PriorityResolves
<1>5. RequiredPending
  BY ServiceAssumption DEF RequiredPending
<1>6. InOrder
  BY DEF InOrder, Late
<1> QED
  BY <1>1, <1>3, <1>4, <1>5, <1>6 DEF BootInv

-----------------------------------------------------------------------------
(* Steps of LoadServices and of the parts of LoadPlugins that leave the      *)
(* plugins alone.                                                            *)

\* Nothing changes but the phase and the services LoadServices comes to.
LEMMA PluginsKept ==
  ASSUME BootInv, UNCHANGED pluginVars, UNCHANGED services
  PROVE  /\ PluginsTypeOK'
         /\ (CoreService \subseteq Registered)'
         /\ Distinct'
         /\ PriorityResolves'
<1> USE DEF pluginVars, BootInv
<1>1. PluginsTypeOK'
  BY DEF BootTypeOK, PluginsTypeOK
<1>2. (CoreService \subseteq Registered)'
  BY DEF Registered
<1>3. Distinct'
  BY DEF Distinct, Priority
<1>4. PriorityResolves'
  BY DEF PriorityResolves, Priority
<1> QED
  BY <1>1, <1>2, <1>3, <1>4

LEMMA ServicesStep ==
  ASSUME BootInv, LoadServices
  PROVE  BootInv'
<1>1. phase = "services" /\ UNCHANGED pluginVars /\ UNCHANGED services
  BY DEF LoadServices, ServiceDone, ServiceFails, ServiceThrows,
         LoadServicesReturns, Bootstraps, servicesVars
<1>2. /\ PluginsTypeOK' /\ (CoreService \subseteq Registered)'
      /\ Distinct' /\ PriorityResolves'
  BY <1>1, PluginsKept
<1>3. phase' \in {"services", "list", "aborted"}
  BY <1>1 DEF LoadServices, ServiceDone, ServiceFails, ServiceThrows,
              LoadServicesReturns, Goto
<1>4. unvisited' \subseteq CoreService /\ bootstrapped' \subseteq Registered
  BY DEF BootInv, BootTypeOK, ServicesTypeOK, LoadServices, ServiceDone,
         ServiceFails, ServiceThrows, LoadServicesReturns, Bootstraps, servicesVars
<1>5. BootTypeOK'
  BY <1>1, <1>2, <1>3, <1>4
     DEF BootInv, BootTypeOK, ServicesTypeOK, Registered, Provider, Phases
<1>6. RequiredPending'
  <2>1. Required \subseteq bootstrapped \cup unvisited
    BY <1>1 DEF BootInv, RequiredPending
  <2>2. CASE ServiceDone
    BY <1>1, <2>1, <2>2 DEF ServiceDone, Bootstraps, RequiredPending
  <2>3. CASE ServiceFails
    BY <1>1, <2>1, <2>3 DEF ServiceFails, RequiredPending, Goto, servicesVars
  <2>4. CASE ServiceThrows
    BY <2>4 DEF ServiceThrows, RequiredPending, Goto
  <2>5. CASE LoadServicesReturns
    BY <2>1, <2>5 DEF LoadServicesReturns, RequiredPending, Goto, servicesVars
  <2> QED
    BY <2>2, <2>3, <2>4, <2>5 DEF LoadServices
<1>7. Untouched'
  BY <1>1, <1>3 DEF BootInv, Untouched, Early, pluginVars
<1>8. InOrder'
  BY <1>3 DEF InOrder, Late
<1> QED
  BY <1>2, <1>5, <1>6, <1>7, <1>8 DEF BootInv

\* The steps of LoadPlugins and Run that only move on or give up.
Moves ==
  ListPlugins \/ InitializingReturns \/ ImportingReturns \/ PluginEscapes \/ Startup

LEMMA MovesStep ==
  ASSUME BootInv, Moves
  PROVE  BootInv'
<1> USE DEF Moves
<1>1. UNCHANGED <<pluginVars, servicesVars, unvisited>>
  BY DEF ListPlugins, InitializingReturns, ImportingReturns, PluginEscapes, Startup
<1>2. \/ phase = "list" /\ phase' = "loading"
      \/ phase = "initializing" /\ itr = NoPlugin /\ phase' = "pattern"
      \/ phase = "commands" /\ phase' = "startup"
      \/ phase = "startup" /\ phase' = "serving"
      \/ phase' \in {"aborted", "crashed"}
  BY DEF ListPlugins, InitializingReturns, ImportingReturns, PluginEscapes, Startup, Goto
<1>3. /\ PluginsTypeOK' /\ (CoreService \subseteq Registered)'
      /\ Distinct' /\ PriorityResolves'
  BY <1>1, PluginsKept DEF servicesVars
<1>4. BootTypeOK'
  BY <1>1, <1>2, <1>3
     DEF BootInv, BootTypeOK, ServicesTypeOK, Registered, Provider, Phases, servicesVars
<1>5. RequiredPending'
  BY <1>1, <1>2 DEF BootInv, RequiredPending, servicesVars
<1>6. Untouched'
  BY <1>1, <1>2 DEF BootInv, Untouched, Early, pluginVars
<1>7. InOrder'
  BY <1>1, <1>2 DEF BootInv, InOrder, Late, Passed, Initialized, Registered,
                    pluginVars, servicesVars
<1> QED
  BY <1>3, <1>4, <1>5, <1>6, <1>7 DEF BootInv

-----------------------------------------------------------------------------
(* Loading. *)

LEMMA LoadingStep ==
  ASSUME BootInv, Loading
  PROVE  BootInv'
<1> USE DEF Loading, LoadFile, BootInv
<1>1. /\ phase = "loading"
      /\ UNCHANGED <<phase, unvisited, attrs, itr, initialized, failures, commands, mute,
                     services, bootstrapped>>
  BY DEF servicesVars
<1>2. PICK p \in files : /\ files' = files \ {p}
                         /\ LoadPlugin(p) \/ RefusePlugin(p) \/ SkipFile(p)
  OBVIOUS
<1>3. p \in Plugin /\ itr = NoPlugin /\ failures = <<>>
  BY <1>1 DEF BootTypeOK, PluginsTypeOK, Untouched, Early
<1>4. \/ plugins' = plugins /\ refused' \subseteq refused \cup {p}
      \/ /\ plugins' = plugins \cup {p} /\ refused' = refused
         /\ SamePriority(p) = {}
  BY <1>2 DEF LoadPlugin, RefusePlugin, SkipFile
<1>5. Distinct'
  BY <1>1, <1>4 DEF Distinct, Priority, SamePriority
<1>6. PluginsTypeOK'
  BY <1>1, <1>2, <1>3, <1>4 DEF BootTypeOK, PluginsTypeOK
<1>7. BootTypeOK' /\ (CoreService \subseteq Registered)'
  BY <1>1, <1>6 DEF BootTypeOK, ServicesTypeOK, Registered, Provider
<1>8. PriorityResolves'
  BY <1>1, <1>3 DEF PriorityResolves
<1>9. RequiredPending'
  BY <1>1 DEF RequiredPending
<1>10. Untouched'
  BY <1>1 DEF Untouched, Early
<1>11. InOrder'
  BY <1>1 DEF InOrder, Late
<1> QED
  BY <1>5, <1>7, <1>8, <1>9, <1>10, <1>11

\* The loops over the plugins start.
LEMMA LoopStarts ==
  ASSUME BootInv, LoadingReturns \/ BuildPattern
  PROVE  BootInv'
<1> USE DEF BootInv
<1>1. UNCHANGED <<unvisited, attrs, files, plugins, initialized, failures, refused,
                  commands, mute, services, bootstrapped>>
  BY DEF LoadingReturns, BuildPattern, servicesVars
<1>2. itr' \in {itr, Begin}
  BY DEF LoadingReturns, BuildPattern
<1>3. \/ /\ phase = "loading" /\ itr' = Begin
         /\ \/ plugins = {} /\ phase' = "startup"
            \/ plugins # {} /\ phase' = "initializing"
      \/ phase = "pattern" /\ phase' \in {"commands", "aborted"}
  BY DEF LoadingReturns, BuildPattern, Goto
<1>4. attrs \in [Plugin -> PluginAttributes] /\ plugins \subseteq Plugin
  BY AttributesType DEF BootTypeOK, PluginsTypeOK
<1>5. /\ Begin \in plugins \cup {NoPlugin}
      /\ plugins # {} =>
           /\ Begin \in plugins
           /\ \A p \in plugins : ~(Priority(p) < Priority(Begin))
  BY <1>4, BeginPassesNone
<1>6. BootTypeOK' /\ (CoreService \subseteq Registered)'
  BY <1>1, <1>2, <1>3, <1>5
     DEF BootTypeOK, PluginsTypeOK, ServicesTypeOK, Registered, Provider, Phases
<1>7. Distinct' /\ PriorityResolves'
  BY <1>1 DEF Distinct, PriorityResolves, Priority
<1>8. RequiredPending'
  BY <1>1, <1>3 DEF RequiredPending
<1>9. Untouched'
  BY <1>1, <1>3 DEF Untouched, Early
<1>10. InOrder'
  <2>1. CASE phase = "loading" /\ plugins = {}
    BY <1>1, <2>1 DEF InOrder
  <2>2. CASE phase = "loading" /\ plugins # {}
    <3>1. phase' = "initializing" /\ itr' = Begin
      BY <1>3, <2>2
    <3>2. \A p \in plugins' : initialized'[p] = 0
      BY <1>1, <1>4, <2>2 DEF Untouched, Early
    <3>3. itr' # NoPlugin
      BY <1>4, <1>5, <2>2, <3>1, NoPluginAssumption
    <3>4. \A p \in plugins' : ~Passed(p)'
      BY <1>1, <1>5, <2>2, <3>1, <3>3 DEF Passed, Priority
    <3> QED
      BY <3>1, <3>2, <3>4 DEF InOrder, Late
  <2>3. CASE phase = "pattern"
    BY <1>1, <1>3, <2>3 DEF InOrder, Late, Initialized, Registered
  <2> QED
    BY <1>3, <2>1, <2>2, <2>3
<1> QED
  BY <1>6, <1>7, <1>8, <1>9, <1>10

-----------------------------------------------------------------------------
(* Initializing. *)

\* A plugin that starts: the loop leaves it behind and nothing else changes.
LEMMA SucceedingStep ==
  ASSUME BootInv, phase = "initializing", InitializeSucceeds,
         UNCHANGED <<phase, unvisited>>
  PROVE  BootInv'
<1> USE DEF BootInv
<1>1. /\ itr \in plugins /\ itr \in Plugin /\ plugins \subseteq Plugin
      /\ initialized \in [Plugin -> Nat]
      /\ attrs \in [Plugin -> PluginAttributes]
  BY AttributesType DEF InitializeSucceeds, BootTypeOK, PluginsTypeOK
<1>2. /\ initialized' = [initialized EXCEPT ![itr] = @ + 1]
      /\ itr' = NextPlugin(itr)
      /\ RegisterServices(attrs[itr].provides, itr)
      /\ UNCHANGED <<attrs, files, plugins, failures, refused, commands, mute, bootstrapped>>
  BY DEF InitializeSucceeds
<1>3. ServicesTypeOK' /\ Registered' = Registered \cup attrs[itr].provides
  <2>1. attrs[itr].provides \subseteq ServiceKey
    BY <1>1 DEF PluginAttributes
  <2> QED
    BY <1>1, <1>2, <2>1, RegisterServicesType DEF BootTypeOK
<1>4. /\ itr' \in plugins \cup {NoPlugin}
      /\ \A p \in plugins : Passed(p)' <=> Passed(p) \/ p = itr
  BY <1>1, <1>2, NextPasses, NoPluginAssumption
<1>5. PluginsTypeOK'
  BY <1>1, <1>2, <1>4 DEF BootTypeOK, PluginsTypeOK
<1>6. BootTypeOK' /\ (CoreService \subseteq Registered)'
  BY <1>3, <1>5 DEF BootTypeOK
<1>7. Distinct' /\ PriorityResolves'
  BY <1>2 DEF Distinct, PriorityResolves, Priority
<1>8. RequiredPending' /\ Untouched'
  BY <1>2 DEF RequiredPending, Untouched, Early
<1>9. InOrder'
  <2>1. SUFFICES ASSUME failures = <<>>, NEW p \in plugins
                 PROVE  IF Passed(p)' THEN Initialized(p)' ELSE initialized'[p] = 0
    BY <1>2 DEF InOrder, Late
  <2>2. IF Passed(p) THEN Initialized(p) ELSE initialized[p] = 0
    BY <2>1 DEF InOrder
  <2>3. CASE p = itr
    <3>1. ~Passed(p)
      BY <1>1, <2>3, NoPluginAssumption DEF Passed, Priority, PluginAttributes
    <3>2. initialized'[p] = 1
      BY <1>1, <1>2, <2>2, <2>3, <3>1
    <3> QED
      BY <1>2, <1>3, <1>4, <2>3, <3>2 DEF Initialized
  <2>4. CASE p # itr
    <3>1. initialized'[p] = initialized[p] /\ (Passed(p)' <=> Passed(p))
      BY <1>1, <1>2, <1>4, <2>4
    <3> QED
      BY <1>2, <1>3, <2>2, <3>1 DEF Initialized
  <2> QED
    BY <2>3, <2>4
<1> QED
  BY <1>6, <1>7, <1>8, <1>9

\* A plugin that does not: only the registry and the map are left to look at,
\* and the first one removed for a service it cannot have.
LEMMA FailingStep ==
  ASSUME BootInv, phase = "initializing", UNCHANGED unvisited,
         phase' \in {phase, "crashed"},
         ResolutionFails \/ InitializeFails \/ RegistrationFails
  PROVE  BootInv'
<1> USE DEF BootInv
<1>1. /\ itr \in plugins /\ itr \in Plugin /\ plugins \subseteq Plugin
      /\ attrs \in [Plugin -> PluginAttributes]
      /\ failures \in Seq([plugin : Plugin, cause : Causes])
  BY AttributesType
     DEF ResolutionFails, InitializeFails, RegistrationFails, BootTypeOK, PluginsTypeOK
<1>2. PICK cause \in Causes : /\ EraseAt(cause)
                              /\ cause = "unresolved" => ~CanResolve(attrs[itr].requires)
  BY DEF ResolutionFails, InitializeFails, RegistrationFails, Causes
<1>3. /\ plugins' = plugins \ {itr}
      /\ failures' = Append(failures, [plugin |-> itr, cause |-> cause])
      /\ itr' \in plugins' \cup {NoPlugin}
      /\ UNCHANGED <<attrs, files, initialized, refused, commands, mute, bootstrapped>>
  BY <1>2 DEF EraseAt
<1>4. ServicesTypeOK' /\ Registered \subseteq Registered'
  <2>1. CASE UNCHANGED services
    BY <1>3, <2>1 DEF BootTypeOK, ServicesTypeOK, Registered, Provider
  <2>2. CASE RegistrationFails
    <3>1. PICK keys \in SUBSET {k \in attrs[itr].provides : CanRegister(k)} :
                 RegisterServices(keys, itr)
      BY <2>2 DEF RegistrationFails
    <3>2. keys \subseteq ServiceKey
      BY <1>1, <3>1 DEF PluginAttributes
    <3> QED
      BY <1>1, <1>3, <3>1, <3>2, RegisterServicesType DEF BootTypeOK
  <2> QED
    BY <2>1, <2>2 DEF ResolutionFails, InitializeFails
<1>5. failures' \in Seq([plugin : Plugin, cause : Causes]) /\ failures' # <<>>
  BY <1>1, <1>3
<1>6. BootTypeOK' /\ (CoreService \subseteq Registered)'
  BY <1>1, <1>3, <1>4, <1>5 DEF BootTypeOK, PluginsTypeOK, Phases
<1>7. Distinct'
  BY <1>3 DEF Distinct, Priority
<1>8. RequiredPending' /\ Untouched'
  BY <1>3 DEF RequiredPending, Untouched, Early
<1>9. InOrder'
  BY <1>5 DEF InOrder
<1>10. PriorityResolves'
  <2>1. CASE failures = <<>>
    <3>1. failures'[1] = [plugin |-> itr, cause |-> cause]
      BY <1>3, <2>1
    <3>2. CASE cause = "unresolved"
      <4>1. PICK k \in attrs[itr].requires : k \notin Registered
        BY <1>2, <3>2 DEF CanResolve
      <4>2. ASSUME NEW q \in plugins, Priority(q) < Priority(itr)
            PROVE  k \notin attrs[q].provides
        BY <2>1, <4>1, <4>2 DEF InOrder, Passed, Initialized
      <4> QED
        BY <1>3, <3>1, <4>1, <4>2 DEF PriorityResolves, Priority
    <3> QED
      BY <3>1, <3>2 DEF PriorityResolves
  <2>2. CASE failures # <<>>
    <3>1. failures'[1] = failures[1]
      BY <1>1, <1>3, <2>2
    <3> QED
      BY <1>3, <2>2, <3>1 DEF PriorityResolves, Priority
  <2> QED
    BY <2>1, <2>2
<1> QED
  BY <1>6, <1>7, <1>8, <1>9, <1>10

LEMMA InitializingStep ==
  ASSUME BootInv, Initializing
  PROVE  BootInv'
<1>1. /\ phase = "initializing" /\ UNCHANGED unvisited
      /\ InitializePlugin
      /\ UNCHANGED phase \/ (failures' # failures /\ phase' = "crashed")
  BY DEF Initializing, Goto
<1>2. CASE InitializeSucceeds
  <2>1. failures' = failures
    BY <1>2 DEF InitializeSucceeds
  <2> QED
    BY <1>1, <1>2, <2>1, SucceedingStep
<1>3. CASE ResolutionFails \/ InitializeFails \/ RegistrationFails
  BY <1>1, <1>3, FailingStep
<1> QED
  BY <1>1, <1>2, <1>3 DEF InitializePlugin

-----------------------------------------------------------------------------
(* Importing the commands. *)

LEMMA ImportingStep ==
  ASSUME BootInv, Importing
  PROVE  BootInv'
<1> USE DEF BootInv
<1>1. /\ phase = "commands" /\ itr # NoPlugin
      /\ itr' = NextPlugin(itr)
      /\ ImportCommands \/ GetCommandsThrows
      /\ UNCHANGED <<phase, unvisited, attrs, files, plugins, initialized, failures,
                     refused, services, bootstrapped>>
  BY DEF Importing, LoadCommands, servicesVars
<1>2. /\ itr \in plugins /\ itr \in Plugin /\ plugins \subseteq Plugin
      /\ attrs \in [Plugin -> PluginAttributes]
  BY <1>1, AttributesType DEF BootTypeOK, PluginsTypeOK
<1>3. itr' \in plugins \cup {NoPlugin}
  BY <1>1, <1>2, NextPasses, NoPluginAssumption
<1>4. /\ DOMAIN commands' \subseteq ValidCommand
      /\ \A c \in DOMAIN commands' : commands'[c] \in Plugin
      /\ mute' \subseteq Plugin
  <2>1. CASE ImportCommands
    BY <1>2, <2>1 DEF ImportCommands, BootTypeOK, PluginsTypeOK
  <2>2. CASE GetCommandsThrows
    BY <1>2, <2>2 DEF GetCommandsThrows, BootTypeOK, PluginsTypeOK
  <2> QED
    BY <1>1, <2>1, <2>2
<1>5. PluginsTypeOK'
  BY <1>1, <1>3, <1>4 DEF BootTypeOK, PluginsTypeOK
<1>6. BootTypeOK' /\ (CoreService \subseteq Registered)'
  BY <1>1, <1>5 DEF BootTypeOK, ServicesTypeOK, Registered, Provider
<1>7. Distinct' /\ PriorityResolves'
  BY <1>1 DEF Distinct, PriorityResolves, Priority
<1>8. RequiredPending' /\ Untouched'
  BY <1>1 DEF RequiredPending, Untouched, Early
<1>9. InOrder'
  BY <1>1 DEF InOrder, Late, Initialized, Registered
<1> QED
  BY <1>6, <1>7, <1>8, <1>9

-----------------------------------------------------------------------------
(* The theorems. *)

LEMMA BootInvInductive == BootInv /\ [BootNext]_bootVars => BootInv'
<1> SUFFICES ASSUME BootInv, [BootNext]_bootVars
             PROVE  BootInv'
  OBVIOUS
<1>1. CASE LoadServices
  BY <1>1, ServicesStep
<1>2. CASE Moves
  BY <1>2, MovesStep
<1>3. CASE Loading
  BY <1>3, LoadingStep
<1>4. CASE LoadingReturns \/ BuildPattern
  BY <1>4, LoopStarts
<1>5. CASE Initializing
  BY <1>5, InitializingStep
<1>6. CASE Importing
  BY <1>6, ImportingStep
<1>7. CASE UNCHANGED bootVars
  <2>1. /\ UNCHANGED pluginVars /\ UNCHANGED services /\ UNCHANGED bootstrapped
        /\ UNCHANGED <<phase, unvisited>>
    BY <1>7 DEF bootVars, servicesVars
  <2>2. /\ PluginsTypeOK' /\ (CoreService \subseteq Registered)'
        /\ Distinct' /\ PriorityResolves'
    BY <2>1, PluginsKept
  <2>3. BootTypeOK'
    BY <2>1, <2>2 DEF BootInv, BootTypeOK, ServicesTypeOK, Registered, Provider
  <2>4. RequiredPending' /\ Untouched' /\ InOrder'
    BY <2>1 DEF BootInv, RequiredPending, Untouched, InOrder, Passed, Priority,
                Initialized, Registered, pluginVars
  <2> QED
    BY <2>2, <2>3, <2>4 DEF BootInv
<1> QED
  BY <1>1, <1>2, <1>3, <1>4, <1>5, <1>6, <1>7 DEF BootNext, LoadPlugins, Moves

LEMMA BootInvAlways == BootSpec => []BootInv
  BY BootInitInv, BootInvInductive, PTL DEF BootSpec

\* The variables of the start keep their types whatever the plugins say and do:
\* the iterators of InitializePlugins and LoadCommands point into the map or at
\* its end, and commands belong to plugins.
THEOREM BootTypeCorrect == BootSpec => []BootTypeOK
<1>1. BootInv => BootTypeOK
  BY DEF BootInv
<1> QED
  BY <1>1, BootInvAlways, PTL

\* Run starts the application only after LoadServices has bootstrapped all
\* required services, whatever the order of the registry.
THEOREM RequiredServicesUp == BootSpec => []RequiredAreUp
<1>1. BootInv => RequiredAreUp
  BY DEF BootInv, RequiredPending, RequiredAreUp
<1> QED
  BY <1>1, BootInvAlways, PTL

\* The order by priority resolves the dependencies of plugins: the first plugin
\* that InitializePlugins removes for a service it cannot have requires one that
\* no plugin of a smaller priority provides.
THEOREM DependenciesByPriority == BootSpec => []PriorityResolves
<1>1. BootInv => PriorityResolves
  BY DEF BootInv
<1> QED
  BY <1>1, BootInvAlways, PTL

\* InitializePlugins initializes every plugin exactly once as long as it removes
\* none.
THEOREM InitializedOnce == BootSpec => []OnceUnlessErased
<1>1. BootInv => OnceUnlessErased
  BY DEF BootInv, InOrder, OnceUnlessErased, Late, Initialized
<1> QED
  BY <1>1, BootInvAlways, PTL

-----------------------------------------------------------------------------
(* Who owns a command. *)

\* LoadCommands has asked plugin p for its commands.
Asked(p) == phase # "commands" \/ Passed(p)

ExportersOf(c) ==
  {p \in plugins \ mute : Asked(p) /\ c \in attrs[p].exports /\ c \in ValidCommand}

\* A command belongs to the first of the plugins asked so far that export it.
Owned(c) ==
  IF c \in DOMAIN commands
  THEN /\ commands[c] \in ExportersOf(c)
       /\ \A q \in ExportersOf(c) : Priority(commands[c]) <= Priority(q)
  ELSE ExportersOf(c) = {}

CommandsSoFar ==
  phase \in {"commands", "startup", "serving"} =>
    /\ mute \subseteq {p \in plugins : Asked(p)}
    /\ \A c \in Command : Owned(c)

LEMMA CommandsImporting ==
  ASSUME BootInv, CommandsSoFar, Importing
  PROVE  CommandsSoFar'
<1>1. /\ phase = "commands" /\ phase' = "commands" /\ itr # NoPlugin
      /\ itr' = NextPlugin(itr)
      /\ UNCHANGED <<attrs, plugins>>
      /\ ImportCommands \/ GetCommandsThrows
  BY DEF Importing, LoadCommands
<1>2. /\ itr \in plugins /\ plugins \subseteq Plugin /\ mute \subseteq Plugin
      /\ attrs \in [Plugin -> PluginAttributes]
      /\ Distinct
  BY <1>1, AttributesType DEF BootInv, BootTypeOK, PluginsTypeOK
<1>3. \A p \in plugins : Priority(p) \in Nat /\ Priority(p)' = Priority(p)
  BY <1>1, <1>2 DEF Priority, PluginAttributes
<1>4. \A p \in plugins : Asked(p)' <=> Asked(p) \/ p = itr
  BY <1>1, <1>2, NextPasses, NoPluginAssumption DEF Asked
<1>5. \A p \in plugins : Asked(p) => Priority(p) < Priority(itr)
  BY <1>1 DEF Asked, Passed
<1>6. ~Asked(itr) /\ itr \notin mute
  BY <1>1, <1>2, <1>3, <1>5 DEF CommandsSoFar
<1>7. mute' \in {mute, mute \cup {itr}}
  BY <1>1 DEF ImportCommands, GetCommandsThrows
<1>8. mute' \subseteq plugins /\ \A p \in mute' : Asked(p)'
  BY <1>1, <1>2, <1>4, <1>7 DEF CommandsSoFar
<1>9. ASSUME NEW c \in Command
      PROVE  Owned(c)'
  <2>1. CASE GetCommandsThrows
    <3>1. ExportersOf(c)' = ExportersOf(c)
      BY <1>1, <1>2, <1>4, <1>6, <2>1 DEF ExportersOf, GetCommandsThrows
    <3>2. commands' = commands
      BY <2>1 DEF GetCommandsThrows
    <3> QED
      BY <1>1, <1>3, <3>1, <3>2 DEF CommandsSoFar, Owned, ExportersOf
  <2>2. CASE ImportCommands
    <3>1. mute' = mute
      BY <2>2 DEF ImportCommands
    <3>2. ExportersOf(c)' =
            IF c \in attrs[itr].exports /\ c \in ValidCommand
            THEN ExportersOf(c) \cup {itr} ELSE ExportersOf(c)
      BY <1>1, <1>2, <1>4, <1>6, <3>1 DEF ExportersOf
    <3>3. CASE c \in DOMAIN commands
      <4>1. c \in DOMAIN commands' /\ commands'[c] = commands[c]
        BY <2>2, <3>3 DEF ImportCommands
      <4>2. /\ commands[c] \in ExportersOf(c)
            /\ \A q \in ExportersOf(c) : Priority(commands[c]) <= Priority(q)
        BY <1>1, <3>3 DEF CommandsSoFar, Owned
      <4>3. commands[c] \in plugins /\ Priority(commands[c]) < Priority(itr)
        BY <1>5, <4>2 DEF ExportersOf
      <4>4. \A q \in ExportersOf(c)' : q \in plugins
        BY <1>2, <3>2 DEF ExportersOf
      <4> QED
        BY <1>2, <1>3, <3>2, <4>1, <4>2, <4>3, <4>4 DEF Owned, Priority
    <3>4. CASE c \notin DOMAIN commands /\ c \in attrs[itr].exports \cap ValidCommand
      <4>1. c \in DOMAIN commands' /\ commands'[c] = itr
        BY <2>2, <3>4 DEF ImportCommands
      <4>2. ExportersOf(c)' = {itr}
        BY <1>1, <3>2, <3>4 DEF CommandsSoFar, Owned
      <4> QED
        BY <1>2, <1>3, <4>1, <4>2 DEF Owned, Priority
    <3>5. CASE c \notin DOMAIN commands /\ c \notin attrs[itr].exports \cap ValidCommand
      <4>1. c \notin DOMAIN commands'
        BY <2>2, <3>5 DEF ImportCommands
      <4> QED
        BY <1>1, <3>2, <3>5, <4>1 DEF CommandsSoFar, Owned
    <3> QED
      BY <3>3, <3>4, <3>5
  <2> QED
    BY <1>1, <2>1, <2>2
<1> QED
  BY <1>1, <1>8, <1>9 DEF CommandsSoFar

LEMMA CommandsStep == BootInv /\ CommandsSoFar /\ [BootNext]_bootVars => CommandsSoFar'
<1> SUFFICES ASSUME BootInv, CommandsSoFar, [BootNext]_bootVars
             PROVE  CommandsSoFar'
  OBVIOUS
<1>1. CASE Importing
  BY <1>1, CommandsImporting
<1>2. CASE LoadingReturns \/ BuildPattern
  <2>1. DOMAIN commands' = {} /\ mute' = {}
    BY <1>2 DEF LoadingReturns, BuildPattern, BootInv, Untouched, Early
  <2>2. CASE LoadingReturns
    <3>1. plugins' = plugins /\ (plugins = {} \/ phase' = "initializing")
      BY <2>2 DEF LoadingReturns, Goto
    <3> QED
      BY <2>1, <3>1 DEF CommandsSoFar, Owned, ExportersOf
  <2>3. CASE BuildPattern
    <3>1. /\ UNCHANGED <<attrs, plugins>> /\ plugins \subseteq Plugin
          /\ phase' = "aborted" \/ (phase' = "commands" /\ itr' = Begin)
          /\ attrs \in [Plugin -> PluginAttributes]
      BY <2>3, AttributesType DEF BuildPattern, Goto, BootInv, BootTypeOK, PluginsTypeOK
    <3>2. CASE phase' = "commands" /\ itr' = Begin
      <4>1. \A p \in plugins' : ~Asked(p)'
        BY <3>1, <3>2, BeginPassesNone, NoPluginAssumption DEF Asked, Passed, Priority
      <4> QED
        BY <2>1, <3>1, <4>1 DEF CommandsSoFar, Owned, ExportersOf
    <3> QED
      BY <3>1, <3>2 DEF CommandsSoFar
  <2> QED
    BY <1>2, <2>2, <2>3
<1>3. CASE LoadServices \/ Loading \/ Initializing
  <2>1. phase' \notin {"commands", "startup", "serving"}
    BY <1>3 DEF LoadServices, ServiceDone, ServiceFails, ServiceThrows,
                LoadServicesReturns, Loading, Initializing, Goto
  <2> QED
    BY <2>1 DEF CommandsSoFar
<1>4. CASE Moves
  <2>1. UNCHANGED <<attrs, plugins, itr, commands, mute>>
    BY <1>4 DEF Moves, ListPlugins, InitializingReturns, ImportingReturns,
                PluginEscapes, Startup, pluginVars
  <2>2. \/ phase = "commands" /\ phase' = "startup" /\ itr = NoPlugin
        \/ phase = "startup" /\ phase' = "serving"
        \/ phase' \notin {"commands", "startup", "serving"}
    BY <1>4 DEF Moves, ListPlugins, InitializingReturns, ImportingReturns,
                PluginEscapes, Startup, Goto
  <2>3. CASE phase \in {"commands", "startup"} /\ phase' \in {"startup", "serving"}
    <3>1. \A p : Asked(p) /\ Asked(p)'
      BY <2>1, <2>2, <2>3 DEF Asked, Passed
    <3>2. \A c : ExportersOf(c)' = ExportersOf(c)
      BY <2>1, <3>1 DEF ExportersOf
    <3> QED
      BY <2>1, <2>3, <3>1, <3>2 DEF CommandsSoFar, Owned, Priority
  <2> QED
    BY <2>2, <2>3 DEF CommandsSoFar
<1>5. CASE UNCHANGED bootVars
  <2>1. UNCHANGED <<phase, attrs, plugins, itr, commands, mute>>
    BY <1>5 DEF bootVars, pluginVars
  <2> QED
    BY <2>1 DEF CommandsSoFar, Owned, ExportersOf, Asked, Passed, Priority
<1> QED
  BY <1>1, <1>2, <1>3, <1>4, <1>5 DEF BootNext, LoadPlugins, Moves

\* LoadCommands gives a command to the plugin with the smallest priority of those
\* that export it and are still in the map, and knows no other command.
THEOREM CommandOwners == BootSpec => []CommandsByPriority
<1>1. BootInit => CommandsSoFar
  BY DEF BootInit, CommandsSoFar
<1>2. BootInv /\ CommandsSoFar => CommandsByPriority
  <2>1. SUFFICES ASSUME BootInv, CommandsSoFar, phase \in {"startup", "serving"},
                        NEW c \in Command
                 PROVE  /\ c \in DOMAIN commands <=> ExportersOf(c) # {}
                        /\ ExportersOf(c) # {} => commands[c] = First(ExportersOf(c))
    BY DEF CommandsByPriority, ExportersOf, Asked
  <2>2. /\ plugins \subseteq Plugin /\ Distinct
        /\ attrs \in [Plugin -> PluginAttributes]
    BY <2>1, AttributesType DEF BootInv, BootTypeOK, PluginsTypeOK
  <2>3. ExportersOf(c) \subseteq plugins
    BY DEF ExportersOf
  <2>4. CASE c \in DOMAIN commands
    <3>1. /\ commands[c] \in ExportersOf(c)
          /\ \A q \in ExportersOf(c) : Priority(commands[c]) <= Priority(q)
      BY <2>1, <2>4 DEF CommandsSoFar, Owned
    <3>2. /\ First(ExportersOf(c)) \in ExportersOf(c)
          /\ \A q \in ExportersOf(c) : Priority(First(ExportersOf(c))) <= Priority(q)
      BY <2>2, <2>3, <3>1, FirstIsLeast
    <3>3. \A q \in plugins : Priority(q) \in Nat
      BY <2>2 DEF Priority, PluginAttributes
    <3>4. commands[c] = First(ExportersOf(c))
      BY <2>2, <2>3, <3>1, <3>2, <3>3 DEF Distinct
    <3> QED
      BY <2>4, <3>1, <3>4
  <2>5. CASE c \notin DOMAIN commands
    BY <2>1, <2>5 DEF CommandsSoFar, Owned
  <2> QED
    BY <2>4, <2>5
<1> QED
  BY <1>1, <1>2, CommandsStep, BootInvAlways, PTL DEF BootSpec

=============================================================================
