----------------------------- MODULE Application -----------------------------
(***************************************************************************)
(* The running server of include/application.h: Startup on the main        *)
(* thread, the pool of threads in io_context::run that execute the         *)
(* handlers of the listener and of the clients, and the clients_ map that  *)
(* those handlers share without a lock.  Composes AsyncTcpListener and     *)
(* AsyncTcpClient.                                                         *)
(***************************************************************************)
EXTENDS AsyncTcpClient, AsyncTcpListener, FiniteSets

CONSTANTS
  Worker,         \* threads
  ThreadCounts,   \* what --threads may be: the size of thread_pool_
  NoClient        \* not a connection

ASSUME WorkersAreFinite == IsFiniteSet(Worker)
ASSUME NoClientIsNoClient == NoClient \notin Client
ASSUME ThreadCountsAreNat == ThreadCounts \subseteq Nat

VARIABLES
  main,         \* progress of Startup
  clients,      \* the clients whose id is a key of clients_
  worker        \* worker[w]: what thread w is executing, and for which client

appVars == <<main, clients, worker>>
vars == <<clientVars, listenerVars, appVars>>

-----------------------------------------------------------------------------
(* Threads.                                                                *)
(*   OnNewClientAccepted:  "greet", "emplace", "emplacing", "rearm",       *)
(*                         "release"                                       *)
(*   OnMessageReceived:    "message"                                       *)
(*   OnConnectionClosed:   "erase", "erasing", "stop"                      *)
(* "idle" is waiting in run(); "exited": run() returned or threw.          *)

AcceptSteps == {"greet", "emplace", "emplacing", "rearm"}
OwnerSteps == {"emplace", "emplacing", "rearm", "release"}
ClosedSteps == {"erase", "erasing", "stop"}
StrandSteps == ClosedSteps \cup {"message"}
MapSteps == {"emplacing", "erasing"}

WorkerState ==
  [ at    : {"off", "idle", "exited"} \cup AcceptSteps \cup OwnerSteps \cup StrandSteps,
    for   : Client \cup {NoClient},
    raced : BOOLEAN ]    \* another thread was in clients_ at the same time

Thread(step, c) == [at |-> step, for |-> c, raced |-> FALSE]
Idle == Thread("idle", NoClient)

Goes(w, t) == worker' = [worker EXCEPT ![w] = t]
At(w, step) == worker[w].at = step
Busy(w) == worker[w].at \in AcceptSteps \cup OwnerSteps \cup StrandSteps

FaultyWorkHeld == main # "start"
FaultyWorkLate == main \in {"subscribe", "subscribing"}

\* The io_context::work `w` is a local of Startup.
WorkHeld == main \in {"init", "subscribe", "subscribing"}

\* What keeps run() from returning: `w`, operations that are outstanding or
\* complete, handlers that run.
HasWork ==
  \/ WorkHeld
  \/ accepts > 0 \/ failedAccepts > 0
  \/ \E c \in Client :
       conn[c] = "accepted" \/ cl[c].read # "none" \/ ~NoSends(cl[c])
  \/ \E w \in Worker : Busy(w)

-----------------------------------------------------------------------------
(* The main thread: Application::Startup. *)

\* All threads are launched, or std::async throws after some of them.
SpawnPool ==
  /\ main = "start"
  /\ \E n \in ThreadCounts, up \in SUBSET Worker :
       /\ Cardinality(up) <= n
       /\ worker' = [w \in Worker |->
                       IF w \in up THEN Idle ELSE Thread("off", NoClient)]
       /\ main' = IF Cardinality(up) = n THEN "init" ELSE "failed"
  /\ UNCHANGED <<clients, clientVars, listenerVars>>

StartListener ==
  /\ main = "init"
  /\ \/ StartSucceeds /\ main' = "subscribe"
     \/ StartFails /\ main' = "failed"
  /\ UNCHANGED <<clients, worker, clientVars>>

\* The last statement: Startup returns, and `work` is gone.
SubscribeAccepted ==
  /\ \/ main = "subscribe" /\ main' = "subscribing" /\ SubscribeBegin
     \/ main = "subscribing" /\ main' = "serving" /\ SubscribeEnd
  /\ UNCHANGED <<clients, worker, clientVars>>

MainStep == SpawnPool \/ StartListener \/ SubscribeAccepted

-----------------------------------------------------------------------------
(* clients_: a std::map.  An access that overlaps another one is undefined *)
(* behaviour; the outcomes kept are that it works, that its effect is      *)
(* lost, and that the process crashes.                                     *)

BeginAccess(w, from, to) ==
  /\ At(w, from)
  /\ LET others == {v \in Worker : worker[v].at \in MapSteps}
     IN  worker' = [v \in Worker |->
                      CASE v = w -> [worker[w] EXCEPT !.at = to,
                                                      !.raced = others # {}]
                        [] v # w /\ v \in others -> [worker[v] EXCEPT !.raced = TRUE]
                        [] OTHER -> worker[v]]
  /\ UNCHANGED <<main, clients, clientVars, listenerVars>>

EndAccess(w, from, to, after) ==
  /\ At(w, from)
  /\ Goes(w, Thread(to, worker[w].for))
  /\ \/ clients' = after /\ UNCHANGED proc
     \/ worker[w].raced /\ UNCHANGED <<clients, proc>>
     \/ worker[w].raced /\ proc' = "crashed" /\ UNCHANGED clients
  /\ UNCHANGED <<main, cl, listenerVars>>

-----------------------------------------------------------------------------
(* HandleAcceptedConnections and Application::OnNewClientAccepted. *)

TakeAcceptError(w) ==
  /\ At(w, "idle")
  /\ HandleAcceptError
  /\ UNCHANGED <<clientVars, appVars>>

TakeAccepted(w) ==
  /\ At(w, "idle")
  /\ \E c \in Client :
       \/ HandleAcceptedConnections(c, "dispatched") /\ Goes(w, Thread("greet", c))
       \/ HandleAcceptedConnections(c, "dropped") /\ UNCHANGED worker
  /\ UNCHANGED <<main, clients, clientVars>>

\* Invoke iterates over the callbacks in the middle of the push_back.
TornInvoke(w) ==
  /\ At(w, "idle")
  /\ subscribed = "writing"
  /\ \E c \in Client : conn[c] = "accepted"
  /\ Crash
  /\ UNCHANGED <<appVars, listenerVars>>

\* The log line asks for remote_endpoint(), which throws when the connection
\* was reset; the exception leaves run() and ends the thread.  Otherwise the
\* client is constructed and started.
Greet(w) ==
  LET c == worker[w].for
  IN  /\ At(w, "greet")
      /\ \/ /\ cl[c].peer = "rst"
            /\ Goes(w, Thread("exited", NoClient))
            /\ UNCHANGED clientVars
         \/ /\ cl[c].peer # "rst"
            /\ Goes(w, Thread("emplace", c))
            /\ Construct(c)
      /\ UNCHANGED <<main, clients, listenerVars>>

EmplaceBegin(w) == BeginAccess(w, "emplace", "emplacing")

FaultyEmplaceEnd(w) ==
  EndAccess(w, "emplacing", IF worker[w].raced THEN "release" ELSE "rearm",
            clients \cup {worker[w].for})

EmplaceEnd(w) ==
  EndAccess(w, "emplacing", "rearm", clients \cup {worker[w].for})

\* listener->AcceptNext(): from here on another thread may be in the handler
\* of the next connection.
AcceptAgain(w) ==
  /\ At(w, "rearm")
  /\ Goes(w, Thread("release", worker[w].for))
  /\ Rearm
  /\ UNCHANGED <<main, clients, clientVars>>

\* The local `client` goes out of scope.
LeaveHandler(w) ==
  /\ At(w, "release")
  /\ Goes(w, Idle)
  /\ OwnerReturns(worker[w].for)
  /\ UNCHANGED <<main, clients, listenerVars>>

AcceptStep(w) ==
  \/ TakeAcceptError(w) \/ TakeAccepted(w) \/ TornInvoke(w) \/ Greet(w)
  \/ EmplaceBegin(w) \/ EmplaceEnd(w) \/ AcceptAgain(w) \/ LeaveHandler(w)

-----------------------------------------------------------------------------
(* The handlers on a client's strand. *)

\* Handlers without an event: they run to their end on an idle thread.
RunQuietHandler(w) ==
  /\ At(w, "idle")
  /\ \E c \in Client :
       \/ HeaderArrived(c) \/ EmptyArrived(c)
       \/ HandleWriteUnsent(c) \/ HandleWriteDangling(c)
  /\ UNCHANGED <<appVars, listenerVars>>

TakeMessage(w) ==
  /\ At(w, "idle")
  /\ \E c \in Client : RaiseMessage(c) /\ Goes(w, Thread("message", c))
  /\ UNCHANGED <<main, clients, listenerVars>>

FaultyOnMessageReceived(w) ==
  LET c == worker[w].for
  IN  /\ At(w, "message")
      /\ Goes(w, Idle)
      /\ Become(c, Respond(cl[c])) \/ MessageReturns(c)
      /\ UNCHANGED <<main, clients, listenerVars>>

FaultyMessageErases(w) ==
  LET c == worker[w].for
  IN  /\ At(w, "message")
      /\ Goes(w, Idle)
      /\ MessageReturns(c)
      /\ clients' \in {clients, clients \ {c}}
      /\ UNCHANGED <<main, listenerVars>>

\* OnMessageReceived: a request that does not match the pattern or names no
\* command is answered; a command runs, and what it throws is caught if it
\* is a std::exception.  Then the reading loop restarts.
OnMessageReceived(w) ==
  LET c == worker[w].for
  IN  /\ At(w, "message")
      /\ Goes(w, Idle)
      /\ \/ Become(c, EndHandler(StartRead(Respond(cl[c]))))
         \/ MessageReturns(c)
      /\ UNCHANGED <<main, clients, listenerVars>>

FaultyCommandEscapes(w) ==
  /\ At(w, "message")
  /\ Goes(w, Thread("exited", NoClient))
  /\ UNCHANGED <<main, clients, clientVars, listenerVars>>

\* The command throws something else: it leaves run() and ends the thread.
CommandEscapes(w) ==
  /\ At(w, "message")
  /\ Goes(w, Thread("exited", NoClient))
  /\ MessageThrows(worker[w].for)
  /\ UNCHANGED <<main, clients, listenerVars>>

TakeClosed(w) ==
  /\ At(w, "idle")
  /\ \E c \in Client : RaiseClosed(c) /\ Goes(w, Thread("erase", c))
  /\ UNCHANGED <<main, clients, listenerVars>>

EraseBegin(w) == BeginAccess(w, "erase", "erasing")

FaultyEraseEnd(w) == EndAccess(w, "erasing", "stop", clients)

EraseEnd(w) ==
  EndAccess(w, "erasing", "stop", clients \ {worker[w].for})

\* The rest of OnConnectionClosed: an open socket is stopped, after a log line
\* that for a normal close asks for remote_endpoint(), which throws when the
\* connection was reset meanwhile.
OnConnectionClosed(w) ==
  LET c == worker[w].for
      throws == cl[c].sock = "open" /\ cl[c].res = "eof" /\ cl[c].peer = "rst"
  IN  /\ At(w, "stop")
      /\ \/ /\ throws
            /\ Goes(w, Thread("exited", NoClient))
            /\ Become(c, EndHandler(cl[c]))
         \/ /\ ~throws
            /\ Goes(w, Idle)
            /\ Become(c, EndHandler(IF cl[c].sock = "open" THEN Stop(cl[c])
                                                          ELSE cl[c]))
      /\ UNCHANGED <<main, clients, listenerVars>>

StrandWork(w) ==
  \/ RunQuietHandler(w) \/ TakeMessage(w) \/ OnMessageReceived(w)
  \/ CommandEscapes(w) \/ TakeClosed(w) \/ EraseBegin(w) \/ EraseEnd(w)
  \/ OnConnectionClosed(w)

\* run() returns once there is no work left, and is never called again.
RunReturns(w) ==
  /\ At(w, "idle")
  /\ ~HasWork
  /\ Goes(w, Thread("exited", NoClient))
  /\ UNCHANGED <<main, clients, clientVars, listenerVars>>

WorkerStep(w) == AcceptStep(w) \/ StrandWork(w) \/ RunReturns(w)

-----------------------------------------------------------------------------
(* The kernel and the peers. *)

ConnectionArrives ==
  /\ \E c \in Client : KernelAccepts(c)
  /\ UNCHANGED <<appVars, clientVars>>

AcceptFails ==
  /\ KernelAcceptFails
  /\ UNCHANGED <<appVars, clientVars>>

KernelWorks ==
  /\ \E c \in Client : conn[c] # "new" /\ KernelStep(c)
  /\ UNCHANGED <<appVars, listenerVars>>

-----------------------------------------------------------------------------
Init ==
  /\ ClientInit
  /\ ListenerInit
  /\ main = "start"
  /\ clients = {}
  /\ worker = [w \in Worker |-> Thread("off", NoClient)]

Next ==
  /\ proc = "up"
  /\ \/ MainStep
     \/ \E w \in Worker : WorkerStep(w)
     \/ ConnectionArrives \/ AcceptFails \/ KernelWorks

Spec == Init /\ [][Next]_vars

-----------------------------------------------------------------------------
(* Properties. *)

\* Every variable of the composed system has its type.
TypeOK ==
  /\ ClientTypeOK
  /\ ListenerTypeOK
  /\ main \in {"start", "failed", "init", "subscribe", "subscribing", "serving"}
  /\ clients \subseteq Client
  /\ worker \in [Worker -> WorkerState]

\* There is one chain of accepts: an operation that waits, one that failed, a
\* connection not handled yet and a handler that has not called AcceptNext
\* exclude each other and themselves.  So OnNewClientAccepted, which no strand
\* protects, never runs its emplace on two threads.
Accepting(w) == worker[w].at \in AcceptSteps

OneAcceptChain ==
  LET pending == {c \in Client : conn[c] = "accepted"}
      handlers == {w \in Worker : Accepting(w)}
  IN  /\ accepts + failedAccepts <= 1
      /\ accepts + failedAccepts = 1 => pending = {} /\ handlers = {}
      /\ pending = {} \/ handlers = {}
      /\ \A c, d \in pending : c = d
      /\ \A v, w \in handlers : v = w

\* An accepted connection has come to Construct, or is about to.
Greeted(c) == cl[c].obj # "none" \/ \E w \in Worker : At(w, "greet") /\ worker[w].for = c

\* What ends the chain.
Broken ==
  \/ acceptError
  \/ \E c \in Client : conn[c] = "dropped" \/ (conn[c] = "dispatched" /\ ~Greeted(c))

\* The chain breaks for three reasons only: an accept error was logged, a
\* connection came before Startup had subscribed, or remote_endpoint() threw.
\* Otherwise a started listener accepts, or will when a handler gets that far.
AcceptsUnlessBroken ==
  started /\ ~Broken
  => \/ accepts > 0 \/ failedAccepts > 0
     \/ \E c \in Client : conn[c] = "accepted"
     \/ \E w \in Worker : Accepting(w)

\* No thread of the pool returns from run() while the listener may still have
\* connections: neither during Startup, for which `work` is there, nor while it
\* serves, unless the chain is broken.  (A handler may still throw.)
PoolStays ==
  [][\A w \in Worker :
       At(w, "idle") /\ At(w, "exited")' => main = "failed" \/ Broken]_vars

\* A start that failed has left nothing that holds the threads in run(),
\* whichever of its steps has failed and whatever they did meanwhile.
FailedStartIdle == main = "failed" => ~HasWork

\* The strand serialises the events of a client: a thread is in a subscriber
\* of a client exactly when its strand is in that event, and no two threads are
\* in subscribers of the same client.
StrandSerial ==
  /\ \A c \in Client :
       cl[c].strand # "free" =>
         \E w \in Worker : worker[w].for = c /\ worker[w].at \in StrandSteps
  /\ \A w \in Worker :
       worker[w].at \in StrandSteps =>
         cl[worker[w].for].strand = IF At(w, "message") THEN "message" ELSE "closed"
  /\ \A v, w \in Worker :
       /\ worker[v].at \in StrandSteps
       /\ worker[w].at \in StrandSteps
       /\ worker[v].for = worker[w].for
       => v = w

\* A handler never touches a client that was freed under it, though the accept
\* handler and the read handlers let go of it in any order.
HandlersHoldClient ==
  \A w \in Worker :
    worker[w].at \in OwnerSteps \cup StrandSteps => cl[worker[w].for].obj = "alive"

\* The clients, as the application drives them, behave as AsyncTcpClient says.
ImplementsClient == ClientSpec

\* A client is connected: its session goes on and its socket is open.  One whose
\* session ended without ConnectionClosed was left unheard: a command or
\* HandleWrite has stopped it, or an exception has ended its reading loop.
Connected(c) == SessionOf(cl[c]) \in {"open", "message"} /\ cl[c].sock = "open"

Unheard(c) == SessionOf(cl[c]) = "over" /\ cl[c].closes = 0

\* With one thread (--threads 1), between handlers every connected client is in
\* clients_, and every other entry is that of a client on which Stop was called
\* and whose ConnectionClosed was not raised.  Those entries stay, although
\* iapplication.h calls clients_ "the currently connected clients".
RegistryOneThread ==
  /\ Cardinality({w \in Worker : worker[w].at # "off"}) = 1
  /\ \A w \in Worker : ~Busy(w)
  /\ \E w \in Worker : At(w, "idle")
  =>
     /\ \A c \in Client : Connected(c) => c \in clients
     /\ \A c \in clients : Connected(c) \/ (~cl[c].running /\ cl[c].closes = 0)

\* No two threads are in clients_; a thread has yet to register c; whoever is
\* connected is in clients_ or will be.
NoOverlap == \A w \in Worker : ~worker[w].raced

Registering(c) ==
  \E w \in Worker : worker[w].for = c /\ worker[w].at \in {"emplace", "emplacing"}

ConnectedRegistered ==
  \A c \in Client : Connected(c) => c \in clients \/ Registering(c)

\* With any number of threads: as long as no two of them are in clients_ at the
\* same time, OnNewClientAccepted and OnConnectionClosed keep every connected
\* client in it from its emplace on.  (For the converse see StaleEntryCauses.)
RegistryComplete == []NoOverlap => []ConnectedRegistered

\* An entry is stale when the session of the client is done, or its last event is
\* being raised, and nobody is about to erase it.
Done(c) == SessionOf(cl[c]) \in {"closed", "over"}

Stale(c) ==
  /\ c \in clients
  /\ Done(c)
  /\ ~\E w \in Worker : worker[w].for = c /\ worker[w].at \in {"erase", "erasing"}

\* The ways to a stale entry: the emplace of a client that was done between its
\* Start and the emplace, accesses to clients_ that race, and sessions that end
\* without ConnectionClosed, by Stop or by an exception that leaves
\* OnMessageReceived.  OnConnectionClosed itself never leaves one behind.
LateEmplace(c) == \E w \in Worker : worker[w].for = c /\ At(w, "emplacing")

RacedErase(c) ==
  \E w \in Worker : worker[w].for = c /\ At(w, "erasing") /\ worker[w].raced

ExitsIn(c) ==
  \E w \in Worker : worker[w].for = c /\ At(w, "message") /\ At(w, "exited")'

EndsUnheard(c) ==
  /\ Unheard(c)' /\ ~Unheard(c)
  /\ ~cl'[c].running \/ ExitsIn(c)

StaleEntryCauses ==
  [][\A c \in Client : Stale(c)' /\ ~Stale(c) =>
       LateEmplace(c) \/ RacedErase(c) \/ EndsUnheard(c)]_vars

\* Every accepted connection is given to OnNewClientAccepted, which is
\* "executed when a new valid connection is accepted".
NoConnectionDropped == \A c \in Client : conn[c] # "dropped"

\* OnConnectionClosed removes "the corrosponding weak_ptr from the clients map":
\* between handlers a client whose ConnectionClosed was raised is not in it.
ClosedAreUnregistered ==
  (\A w \in Worker : ~Busy(w)) => \A c \in clients : cl[c].closes = 0

=============================================================================
