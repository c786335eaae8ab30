------------------------------ MODULE Shutdown ------------------------------
(***************************************************************************)
(* The whole process: main of src/main.cc around module Application.  It   *)
(* parses the options, runs the bootstrapper, waits for a line on standard *)
(* input and returns, or exits when something was thrown.  ~Application    *)
(* runs when bootstrapper goes out of scope or, if the injection library   *)
(* keeps the application in a static object, after the io_context of main  *)
(* is gone; which of the two is left open.                                 *)
(***************************************************************************)
EXTENDS Application

VARIABLES
  exit,        \* how far main and the destructors have come
  static,      \* is the application kept in a static object?
  plugins      \* code of the plugins: "loaded" or "unloaded"

exitVars == <<exit, static, plugins>>
allVars == <<vars, exitVars>>

\* "options": ParseOptions; "running": Run and std::cin; "return": main returns;
\* "join": thread_pool_.clear(); "dead": the same without an io_context;
\* "unload": the loop over plugins_; "ended".
ExitPhases == {"options", "running", "return", "join", "dead", "unload", "ended"}

ShutdownTypeOK ==
  /\ TypeOK
  /\ exit \in ExitPhases
  /\ static \in BOOLEAN
  /\ plugins \in {"loaded", "unloaded"}

Exits(from, to) == exit = from /\ exit' = to

ThreadsDone == \A w \in Worker : worker[w].at \in {"off", "exited"}

-----------------------------------------------------------------------------
\* Anything wrong with the command line, or --help, ends the program.
ParseOptions ==
  /\ Exits("options", "running") \/ Exits("options", "ended")
  /\ UNCHANGED <<vars, static, plugins>>

\* Run throws before Startup or because Startup failed, and main catches it and
\* calls exit: bootstrapper was unwound, static objects go, io stays.
RunThrows ==
  /\ main \in {"start", "failed"}
  /\ Exits("running", "join")
  /\ main' = "failed"
  /\ UNCHANGED <<static, plugins, clients, worker, clientVars, listenerVars>>

\* std::cin >> x has read something or has met the end of the file.
InputRead ==
  /\ main = "serving"
  /\ Exits("running", IF static THEN "return" ELSE "join")
  /\ UNCHANGED <<vars, static, plugins>>

\* io is destroyed before the static application.  Threads that are still in
\* run() are left behind: they crash or wait for ever, and ~Application waits
\* for them.  If they have all left there is nothing to join.
IoDestroyed ==
  /\ \/ ThreadsDone /\ Exits("return", "unload") /\ UNCHANGED proc
     \/ ~ThreadsDone /\ Exits("return", "dead") /\ proc' \in {"up", "crashed"}
  /\ UNCHANGED <<cl, listenerVars, appVars, static, plugins>>

FaultyThreadsJoined ==
  /\ Exits("join", "unload")
  /\ UNCHANGED <<vars, static, plugins>>

\* The destructors of the futures have waited for all threads.
ThreadsJoined ==
  /\ ThreadsDone
  /\ Exits("join", "unload")
  /\ UNCHANGED <<vars, static, plugins>>

\* Each plugin is unloaded, and erased from the map the loop iterates over and
\* destroyed by code that is gone: that may crash.
UnloadPlugins ==
  /\ Exits("unload", "ended")
  /\ plugins' = "unloaded"
  /\ proc' \in {"up", "crashed"}
  /\ UNCHANGED <<cl, listenerVars, appVars, static>>

\* What main does without waiting for somebody to type something.
MainExits ==
  ParseOptions \/ RunThrows \/ IoDestroyed \/ ThreadsJoined \/ UnloadPlugins

\* Meanwhile threads, kernel and peers go on, as long as there is an io_context.
ServerRuns ==
  /\ exit \in {"running", "return", "join"}
  /\ Next
  /\ UNCHANGED exitVars

-----------------------------------------------------------------------------
ShutdownInit ==
  /\ Init
  /\ exit = "options"
  /\ static \in BOOLEAN
  /\ plugins = "loaded"

ShutdownNext == ServerRuns \/ (proc = "up" /\ (MainExits \/ InputRead))

ShutdownSpec == ShutdownInit /\ [][ShutdownNext]_allVars

\* The fairness of Application.  The main thread goes on too, but nobody need
\* ever type anything.
FairShutdownSpec ==
  /\ ShutdownSpec
  /\ WF_allVars(proc = "up" /\ ((ServerRuns /\ MainStep) \/ MainExits))
  /\ \A w \in Worker : WF_allVars(ServerRuns /\ WorkerStep(w))
  /\ \A c \in Client :
       /\ WF_allVars(ServerRuns /\ ReadFails(c))
       /\ WF_allVars(ServerRuns /\ cl[c].peer # "up" /\ SendCompletes(c))

-----------------------------------------------------------------------------
(* Properties. *)

\* The code of the plugins, whose commands the handlers call, is unloaded only
\* when no thread can run a handler any more, however main came to its end.
NoHandlerAfterUnload == plugins = "unloaded" => ThreadsDone

\* A start that fails ends the process, also when it fails with some threads
\* launched: they run out of work and ~Application can join them.
FailedStartEnds == main = "failed" ~> exit = "ended" \/ proc = "crashed"

\* A client whose peer is gone is freed, also while ~Application waits for the
\* threads, unless the process crashed, every thread of the pool has left
\* run(), or main has destroyed the io_context under them.
FreedWhileServed ==
  \A c \in Client :
    cl[c].obj = "alive" /\ cl[c].peer # "up"
      ~> \/ cl[c].obj = "freed"
         \/ proc = "crashed" \/ exit = "dead"
         \/ ThreadsDone

=============================================================================
