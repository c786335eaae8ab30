---------------------------- MODULE ClientSession ----------------------------
(***************************************************************************)
(* What ITcpClient (shared/net/itcp_client.h) promises to the subscribers  *)
(* of its two events, without sockets, strands or pointers: after Start a  *)
(* session is open; events are raised one at a time; after a message it    *)
(* goes on or is over; ConnectionClosed is raised at most once and is the  *)
(* last thing a session does.                                              *)
(***************************************************************************)
CONSTANT Client

VARIABLE session    \* session[c]: what the session of client c is doing

States == {"none", "open", "message", "closed", "over"}

Moves(c, from, to) ==
  /\ session[c] = from
  /\ session' = [session EXCEPT ![c] = to]

\* Start: the first read is outstanding.
Begin(c) == Moves(c, "none", "open")

\* MessageRecieved is raised; when it returns the session reads on, unless it
\* was stopped meanwhile.
Deliver(c) == Moves(c, "open", "message")
Resume(c) == Moves(c, "message", "open")
Leave(c) == Moves(c, "message", "over")

\* ConnectionClosed is raised; when it returns the session is over.
Fail(c) == Moves(c, "open", "closed")
Finish(c) == Moves(c, "closed", "over")

\* The session was stopped: it ends at the next read without an event.
Abandon(c) == Moves(c, "open", "over")

SessionInit == session = [c \in Client |-> "none"]

Events(c) ==
  \/ Begin(c) \/ Deliver(c) \/ Resume(c) \/ Leave(c) \/ Fail(c) \/ Finish(c)
  \/ Abandon(c)

SessionNext == \E c \in Client : Events(c)

SessionSpec == SessionInit /\ [][SessionNext]_session

=============================================================================
