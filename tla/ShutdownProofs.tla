--------------------------- MODULE ShutdownProofs ---------------------------
(***************************************************************************)
(* Theorems about the whole process: the destructors change nothing of     *)
(* what holds of the server, and the plugins go last.                      *)
(***************************************************************************)
EXTENDS Shutdown, ApplicationProofs

\* Before Run there are no threads yet; once ~Application has come to the
\* plugins, all threads are done.
ExitInv ==
  /\ ShutdownTypeOK
  /\ exit = "options" => main = "start"
  /\ exit \in {"unload", "ended"} => ThreadsDone
  /\ plugins = "unloaded" => exit = "ended"

ShutdownInv == AppInv /\ StartInv /\ ExitInv

LEMMA ShutdownInvInit == ShutdownInit => ShutdownInv
<1> SUFFICES ASSUME ShutdownInit PROVE ShutdownInv
  OBVIOUS
<1>1. AppInv /\ StartInv
  BY AppInvInit, StartInvInit DEF ShutdownInit
<1> QED
  BY <1>1 DEF ShutdownInit, Init, ShutdownInv, ExitInv, ShutdownTypeOK, ExitPhases, AppInv

\* The destructors leave the server as it is, up to the end of the process.
LEMMA ExitKeepsServer ==
  ASSUME AppInv, UNCHANGED <<cl, listenerVars, appVars>>, proc' \in {"up", "crashed"}
  PROVE  AppInv'
  BY DEF listenerVars, appVars, AppInv, ClientInv, ClientTypeOK, TypeOK, ListenerTypeOK,
     BusyForClient, Busy, Chain, Pending, Handling, Accepting, NotYet, At, StrandSerial,
     Held, Holding, AcceptsUnlessBroken, Broken, Greeted

\* Nor does the exception that main catches.
LEMMA RunThrowsKeeps ==
  ASSUME AppInv, RunThrows
  PROVE  AppInv'
<1>1. /\ main' = "failed"
      /\ UNCHANGED <<clients, worker, cl, proc, listenerVars>>
  BY DEF RunThrows, clientVars
<1> QED
  BY <1>1 DEF listenerVars, AppInv, ClientInv, ClientTypeOK, TypeOK, ListenerTypeOK,
     BusyForClient, Busy, Chain, Pending, Handling, Accepting, NotYet, At, StrandSerial,
     Held, Holding, AcceptsUnlessBroken, Broken, Greeted

\* What main and the destructors do besides the server.
LEMMA ExitStep ==
  ASSUME AppInv, [ShutdownNext]_allVars
  PROVE  \/ [Next]_vars
         \/ /\ MainExits /\ proc = "up" /\ proc' \in {"up", "crashed"}
            /\ UNCHANGED <<cl, clients, worker, listenerVars>>
            /\ UNCHANGED main \/ (main \in {"start", "failed"} /\ main' = "failed")
<1>1. CASE ServerRuns \/ UNCHANGED allVars
  BY <1>1 DEF ServerRuns, allVars
<1>2. CASE proc = "up" /\ (ParseOptions \/ InputRead \/ ThreadsJoined)
  BY <1>2 DEF ParseOptions, InputRead, ThreadsJoined
<1>3. CASE proc = "up" /\ (RunThrows \/ IoDestroyed \/ UnloadPlugins)
  BY <1>3 DEF MainExits, RunThrows, IoDestroyed, UnloadPlugins, clientVars, appVars
<1> QED
  BY <1>1, <1>2, <1>3 DEF ShutdownNext, MainExits

\* A start that was not begun, or that failed, is no different for being over.
LEMMA ExitKeepsStart ==
  ASSUME AppInv, StartInv, [ShutdownNext]_allVars
  PROVE  StartInv'
<1>1. CASE [Next]_vars
  BY <1>1, StartInvNext
<1>2. CASE /\ UNCHANGED <<cl, clients, worker, listenerVars>>
           /\ UNCHANGED main \/ (main \in {"start", "failed"} /\ main' = "failed")
  BY <1>2 DEF StartInv, Still, Busy, listenerVars
<1> QED
  BY <1>1, <1>2, ExitStep

LEMMA ShutdownInvNext == ShutdownInv /\ [ShutdownNext]_allVars => ShutdownInv'
<1> SUFFICES ASSUME ShutdownInv, [ShutdownNext]_allVars PROVE AppInv' /\ ExitInv'
  BY ExitKeepsStart DEF ShutdownInv
<1>0. AppInv /\ ExitInv
  BY DEF ShutdownInv
<1>1. CASE ServerRuns
  <2>1. AppInv'
    BY <1>0, <1>1, AppInvNext DEF ServerRuns
  <2>2. plugins # "unloaded" /\ exit \notin {"unload", "ended"}
    BY <1>0, <1>1 DEF ServerRuns, ExitInv
  <2> QED
    BY <1>0, <1>1, <2>1, <2>2
       DEF ServerRuns, exitVars, ExitInv, ShutdownTypeOK, AppInv
<1>2. CASE ParseOptions \/ InputRead \/ ThreadsJoined
  <2>1. UNCHANGED <<vars, static, plugins>> /\ plugins # "unloaded"
    BY <1>0, <1>2 DEF ParseOptions, InputRead, ThreadsJoined, Exits, ExitInv
  <2>2. AppInv'
    BY <1>0, <2>1, AppInvNext
  <2>3. exit' \in {"unload", "ended"} => ThreadsDone'
    <3>1. CASE ThreadsJoined
      BY <2>1, <3>1 DEF ThreadsJoined, ThreadsDone, vars, appVars
    <3>2. CASE InputRead
      BY <3>2 DEF InputRead, Exits
    <3>3. CASE ParseOptions
      <4>1. \A w \in Worker : At(w, "off")
        BY <1>0, <3>3 DEF ParseOptions, Exits, ExitInv, AppInv, NotYet
      <4> QED
        BY <2>1, <4>1 DEF ThreadsDone, At, vars, appVars
    <3> QED
      BY <1>2, <3>1, <3>2, <3>3
  <2>4. exit' \in ExitPhases /\ exit' # "options"
    BY <1>2 DEF ParseOptions, InputRead, ThreadsJoined, Exits, ExitPhases
  <2> QED
    BY <1>0, <2>1, <2>2, <2>3, <2>4 DEF ExitInv, ShutdownTypeOK, AppInv
<1>3. CASE RunThrows
  <2>1. AppInv' /\ exit' = "join" /\ UNCHANGED <<static, plugins>> /\ plugins # "unloaded"
    BY <1>0, <1>3, RunThrowsKeeps DEF RunThrows, Exits, ExitInv
  <2> QED
    BY <1>0, <2>1 DEF ExitInv, ShutdownTypeOK, ExitPhases, AppInv
<1>4. CASE IoDestroyed \/ UnloadPlugins
  <2>0. proc \in {"up", "crashed"}
    BY <1>0 DEF AppInv, ClientInv, ClientTypeOK
  <2>1. UNCHANGED <<cl, listenerVars, appVars, static>> /\ proc' \in {"up", "crashed"}
    BY <2>0, <1>4 DEF IoDestroyed, UnloadPlugins
  <2>2. AppInv'
    BY <1>0, <2>1, ExitKeepsServer
  <2>3. /\ exit' \in {"unload", "ended", "dead"}
        /\ exit' # "dead" => ThreadsDone
        /\ plugins' = "unloaded" => exit' = "ended"
        /\ plugins' \in {"loaded", "unloaded"}
    BY <1>0, <1>4 DEF IoDestroyed, UnloadPlugins, Exits, ExitInv, ShutdownTypeOK
  <2>4. ThreadsDone => ThreadsDone'
    BY <2>1 DEF ThreadsDone, appVars
  <2> QED
    BY <1>0, <2>1, <2>2, <2>3, <2>4
       DEF ExitInv, ShutdownTypeOK, ExitPhases, AppInv
<1>5. CASE UNCHANGED allVars
  <2>1. AppInv'
    BY <1>0, <1>5, AppInvNext DEF allVars
  <2> QED
    BY <1>0, <1>5, <2>1 DEF allVars, vars, appVars, exitVars, ExitInv,
       ShutdownTypeOK, ThreadsDone, AppInv
<1> QED
  BY <1>1, <1>2, <1>3, <1>4, <1>5 DEF ShutdownNext, MainExits

\* What holds of the server (application.cc) holds until the process has ended,
\* also while ~Application waits for its threads, and whether or not the
\* application outlives the io_context of main.
THEOREM ShutdownInvariant == ShutdownSpec => []ShutdownInv
  BY ShutdownInvInit, ShutdownInvNext, PTL DEF ShutdownSpec

\* Every variable of the process keeps its type.
THEOREM ShutdownTypeCorrect == ShutdownSpec => []ShutdownTypeOK
<1>1. ShutdownInv => ShutdownTypeOK
  BY DEF ShutdownInv, ExitInv
<1> QED
  BY <1>1, ShutdownInvariant, PTL

\* thread_pool_ is cleared before the plugins are unloaded, and clearing it waits
\* for every thread: no handler runs into code that is gone.
THEOREM UnloadedLast == ShutdownSpec => []NoHandlerAfterUnload
<1>1. ShutdownInv => NoHandlerAfterUnload
  BY DEF ShutdownInv, ExitInv, NoHandlerAfterUnload
<1> QED
  BY <1>1, ShutdownInvariant, PTL

\* One chain of accepts, serial events and handlers that hold their client: up to
\* the end of the process, with threads that go on while ~Application waits.
THEOREM ServedToTheEnd ==
  ShutdownSpec => [](OneAcceptChain /\ AcceptsUnlessBroken /\ StrandSerial /\ HandlersHoldClient)
<1>1. ShutdownInv =>
        OneAcceptChain /\ AcceptsUnlessBroken /\ StrandSerial /\ HandlersHoldClient
  BY OneChainInv, HoldersInv DEF ShutdownInv, AppInv
<1> QED
  BY <1>1, ShutdownInvariant, PTL

\* When Run throws or Startup returns false, in whatever step, nothing is left
\* that would keep a thread in run(): ~Application can join the pool.
THEOREM FailedStartJoins == ShutdownSpec => []FailedStartIdle
<1>1. ShutdownInv => FailedStartIdle
  BY FailedIsIdle DEF ShutdownInv
<1> QED
  BY <1>1, ShutdownInvariant, PTL

\* While main waits for input, and ~Application for its threads, none of them
\* returns from run() unless the chain is broken or the start has failed.
THEOREM PoolToTheEnd == ShutdownSpec => PoolStays
<1>1. ShutdownInv /\ [ShutdownNext]_allVars =>
        [\A w \in Worker :
           At(w, "idle") /\ At(w, "exited")' => main = "failed" \/ Broken]_vars
  <2> SUFFICES ASSUME ShutdownInv, [ShutdownNext]_allVars,
                      NEW w \in Worker, At(w, "idle"), At(w, "exited")'
               PROVE  main = "failed" \/ Broken
    OBVIOUS
  <2>1. [Next]_vars
    BY ExitStep DEF ShutdownInv, At
  <2> QED
    BY <2>1, OnlyReturns, IdleThreadsStay DEF ShutdownInv
<1> QED
  BY <1>1, ShutdownInvariant, PTL DEF ShutdownSpec, PoolStays

\* main and the destructors do nothing to a client but to end the process.
THEOREM ClientToTheEnd == ShutdownSpec => ImplementsClient
<1>1. ShutdownInit => ClientInit
  BY DEF ShutdownInit, Init
<1>2. ShutdownInv /\ [ShutdownNext]_allVars => [ClientNext]_clientVars
  <2> SUFFICES ASSUME ShutdownInv, [ShutdownNext]_allVars PROVE [ClientNext]_clientVars
    OBVIOUS
  <2>1. CASE [Next]_vars
    BY <2>1, AppIsClientStep DEF ShutdownInv
  <2>2. CASE proc = "up" /\ proc' \in {"up", "crashed"} /\ UNCHANGED cl
    BY <2>2 DEF ClientNext, Crash, clientVars
  <2> QED
    BY <2>1, <2>2, ExitStep DEF ShutdownInv
<1> QED
  BY <1>1, <1>2, ShutdownInvariant, PTL DEF ShutdownSpec, ClientSpec, ImplementsClient

\* So the subscribers see what ITcpClient promises until the process has ended.
THEOREM SessionsToTheEnd == ShutdownSpec => ImplementsSession
  BY ClientToTheEnd, SessionImplemented DEF ImplementsClient

\* clients_ stays complete while ~Application waits for the threads, unless two
\* of them meet in it.
THEOREM RegisteredToTheEnd == ShutdownSpec => RegistryComplete
<1>1. ShutdownInit => UnclosedRegistered
  BY RegisteredInit DEF ShutdownInit
<1>2. ShutdownInv /\ NoOverlap /\ UnclosedRegistered /\ [ShutdownNext]_allVars
        => UnclosedRegistered'
  <2> SUFFICES ASSUME ShutdownInv, NoOverlap, UnclosedRegistered, [ShutdownNext]_allVars
               PROVE  UnclosedRegistered'
    OBVIOUS
  <2>1. CASE [Next]_vars
    BY <2>1, RegisteredNext DEF ShutdownInv
  <2>2. CASE UNCHANGED <<cl, clients, worker>>
    BY <2>2 DEF UnclosedRegistered, Unclosed, Registering
  <2> QED
    BY <2>1, <2>2, ExitStep DEF ShutdownInv
<1>3. ShutdownInv /\ UnclosedRegistered => ConnectedRegistered
  BY ConnectedIsRegistered DEF ShutdownInv
<1> QED
  BY <1>1, <1>2, <1>3, ShutdownInvariant, PTL DEF ShutdownSpec, RegistryComplete

=============================================================================
