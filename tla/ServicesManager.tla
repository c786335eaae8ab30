-------------------------- MODULE ServicesManager ---------------------------
(***************************************************************************)
(* The registry of include/services/services_manager.h: which service is   *)
(* registered under which key, and which services are bootstrapped.  A     *)
(* service is represented by who provides it: the program or a plugin.     *)
(***************************************************************************)
EXTENDS Naturals

CONSTANTS
  Plugin,          \* plugin files
  ServiceKey,      \* keys of services
  CoreService,     \* those the constructor of Bootstrapper registers
  Required         \* those of them whose IsRequired() is true

ASSUME ServiceAssumption == Required \subseteq CoreService /\ CoreService \subseteq ServiceKey

VARIABLES
  services,        \* services_: a function from registered keys to providers
  bootstrapped     \* keys of services for which IsBootstrapped() holds

servicesVars == <<services, bootstrapped>>

Provider == {"core"} \cup Plugin

Registered == DOMAIN services

ServicesTypeOK ==
  /\ Registered \subseteq ServiceKey
  /\ \A k \in Registered : services[k] \in Provider
  /\ bootstrapped \subseteq Registered

ServicesInit ==
  /\ services = [k \in CoreService |-> "core"]
  /\ bootstrapped = {}

\* RegisterService throws for a key that is taken.
CanRegister(key) == key \notin Registered

FaultyRegisterServices(keys, plugin) == UNCHANGED services

\* The calls of RegisterService by which a plugin registers some keys.
RegisterServices(keys, plugin) ==
  services' = [k \in Registered \cup keys |->
                 IF k \in Registered THEN services[k] ELSE plugin]

\* ResolveDependencies throws unless every key is registered.
CanResolve(keys) == keys \subseteq Registered

\* IService::Bootstrap of a service: Initialize, a virtual call, succeeds ...
Bootstraps(key) ==
  /\ bootstrapped' = bootstrapped \cup {key}
  /\ UNCHANGED services

=============================================================================
