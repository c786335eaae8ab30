-------------------------- MODULE AsyncTcpListener --------------------------
(***************************************************************************)
(* The listener of include/net/async_tcp_listener.h with the               *)
(* NewConnectionAccepted event of its base class: the acceptor, the        *)
(* asynchronous accepts outstanding on it, and what became of every        *)
(* connection that was handed to one of them.  (Faulty<Name> operators:    *)
(* see AsyncTcpClient.)                                                    *)
(***************************************************************************)
EXTENDS Naturals, Connections

VARIABLES
  acceptor,         \* "none", "created" by Initialize, "listening" after Start
  started,          \* is_started_
  subscribed,       \* has NewConnectionAccepted its callback? "no", "writing", "yes"
  accepts,          \* async_accept operations waiting for a connection
  failedAccepts,    \* operations that completed with an error, handler not run
  acceptError,      \* has HandleAcceptedConnections logged an error?
  conn              \* conn[c]: what became of connection c

listenerVars ==
  <<acceptor, started, subscribed, accepts, failedAccepts, acceptError, conn>>

\* "accepted": the operation completed with it, the handler has not run;
\* "dispatched": given to the callbacks; "dropped": there was no callback.
ConnStates == {"new", "accepted", "dispatched", "dropped"}

ListenerTypeOK ==
  /\ acceptor \in {"none", "created", "listening"}
  /\ started \in BOOLEAN
  /\ subscribed \in {"no", "writing", "yes"}
  /\ accepts \in Nat
  /\ failedAccepts \in Nat
  /\ acceptError \in BOOLEAN
  /\ conn \in [Client -> ConnStates]

ListenerInit ==
  /\ acceptor = "none"
  /\ started = FALSE
  /\ subscribed = "no"
  /\ accepts = 0
  /\ failedAccepts = 0
  /\ acceptError = FALSE
  /\ conn = [c \in Client |-> "new"]

-----------------------------------------------------------------------------
\* AcceptNext of a started listener: one more asynchronous accept.
AcceptNext == accepts' = accepts + 1

\* Initialize and then Start, as Startup calls them: open, bind and listen
\* succeed, or one of them throws and Start returns false.
StartSucceeds ==
  /\ acceptor = "none"
  /\ acceptor' = "listening"
  /\ started' = TRUE
  /\ AcceptNext
  /\ UNCHANGED <<subscribed, failedAccepts, acceptError, conn>>

FaultyStartFails ==
  /\ acceptor = "none"
  /\ acceptor' = "created"
  /\ AcceptNext
  /\ UNCHANGED <<started, subscribed, failedAccepts, acceptError, conn>>

StartFails ==
  /\ acceptor = "none"
  /\ acceptor' = "created"
  /\ UNCHANGED <<started, subscribed, accepts, failedAccepts, acceptError, conn>>

\* NewConnectionAccepted += callback: push_back on the vector of callbacks,
\* which Invoke reads without a lock on another thread.
SubscribeBegin ==
  /\ subscribed' = "writing"
  /\ UNCHANGED <<acceptor, started, accepts, failedAccepts, acceptError, conn>>

SubscribeEnd ==
  /\ subscribed' = "yes"
  /\ UNCHANGED <<acceptor, started, accepts, failedAccepts, acceptError, conn>>

\* A connection arrives, or the accept fails (no descriptors left, ...).
KernelAccepts(c) ==
  /\ accepts > 0
  /\ conn[c] = "new"
  /\ accepts' = accepts - 1
  /\ conn' = [conn EXCEPT ![c] = "accepted"]
  /\ UNCHANGED <<acceptor, started, subscribed, failedAccepts, acceptError>>

KernelAcceptFails ==
  /\ accepts > 0
  /\ accepts' = accepts - 1
  /\ failedAccepts' = failedAccepts + 1
  /\ UNCHANGED <<acceptor, started, subscribed, acceptError, conn>>

FaultyHandleAcceptError ==
  /\ failedAccepts > 0
  /\ failedAccepts' = failedAccepts - 1
  /\ accepts' = accepts - 1
  /\ acceptError' = TRUE
  /\ UNCHANGED <<acceptor, started, subscribed, conn>>

\* HandleAcceptedConnections: with an error it is logged and that is all, ...
HandleAcceptError ==
  /\ failedAccepts > 0
  /\ failedAccepts' = failedAccepts - 1
  /\ acceptError' = TRUE
  /\ UNCHANGED <<acceptor, started, subscribed, accepts, conn>>

FaultyInvoke(c, fate) ==
  /\ fate = "dispatched" => subscribed # "no"
  /\ fate = "dropped" => subscribed # "yes"
  /\ conn' = [conn EXCEPT ![c] = fate]
  /\ AcceptNext
  /\ UNCHANGED <<acceptor, started, subscribed, failedAccepts, acceptError>>

\* ... else NewConnectionAccepted is invoked, with the callbacks it sees: the
\* one of Application or none (while it is being written, either).
Invoke(c, fate) ==
  /\ fate = "dispatched" => subscribed # "no"
  /\ fate = "dropped" => subscribed # "yes"
  /\ conn' = [conn EXCEPT ![c] = fate]
  /\ UNCHANGED <<acceptor, started, subscribed, accepts, failedAccepts, acceptError>>

HandleAcceptedConnections(c, fate) ==
  /\ conn[c] = "accepted"
  /\ Invoke(c, fate)

\* The callback asks for the next connection (Application, last thing it does).
Rearm ==
  /\ started
  /\ AcceptNext
  /\ UNCHANGED <<acceptor, started, subscribed, failedAccepts, acceptError, conn>>

=============================================================================
