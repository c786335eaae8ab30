---------------------------- MODULE Conversation ----------------------------
(***************************************************************************)
(* One connection with both directions: the reader of FrameReader, the     *)
(* writer of ResponseWriter, and between them the handlers, which run one  *)
(* at a time on the strand: an empty frame is answered by StartRead, a     *)
(* message by OnMessageReceived or by a command, which may answer once,    *)
(* again or not at all, and may stop the client; a wrong size, a failed    *)
(* read and a failed send stop it too.                                     *)
(***************************************************************************)
EXTENDS FrameReader, ResponseWriter

CONSTANT MaxAnswers    \* bound: while there are fewer answers, a command may answer
                       \* and the peer may go on

ASSUME MaxAnswersAssumption == MaxAnswers \in Nat

VARIABLE
  operation    \* the read operation: "started"; "aborted": started or continued
               \* on a closed socket; "none": the reading loop is over

talkVars == <<readerVars, writer, operation>>

-----------------------------------------------------------------------------
(* Calls that a handler may make. *)

Calls(ws) ==
  LET mayAnswer == {w \in ws : w.answers < MaxAnswers}
  IN  ws \cup (UNION {Respond(w) : w \in mayAnswer}) \cup {Stop(w) : w \in ws}

\* OnMessageReceived: a request that matches no command is answered; a command
\* makes its calls (bound: two), none if it has nothing to say or throws a
\* std::exception, which is caught.  Any other exception ends the handler and
\* with it the client, whose socket is closed as by Stop.
AfterMessage(w) == Calls(Calls({w}))

\* StartRead, at the end of a handler: nothing on a closed socket.
StartRead == operation' = IF writer'.stopped THEN "none" ELSE "started"

\* The next part of the frame is read, on a closed socket in vain.
ReadOn ==
  /\ operation' = IF writer.stopped THEN "aborted" ELSE "started"
  /\ UNCHANGED writer

\* ConnectionClosed is raised, and its subscriber calls Stop.
Disconnect ==
  /\ operation' = "none"
  /\ writer' = Stop(writer)

-----------------------------------------------------------------------------
(* The handlers.  One whose read was complete when Stop closed the socket  *)
(* still runs.                                                             *)

HeaderRead ==
  /\ operation = "started"
  /\ ReadHeader
  /\ \/ at' = "badsize" /\ Disconnect
     \/ at' = "body" /\ ReadOn
     \/ at' = "header" /\ writer' \in Respond(writer) /\ StartRead

PartRead ==
  /\ operation = "started"
  /\ ReadBody
  /\ ReadOn

MessageRead ==
  /\ operation # "none"
  /\ HandleBody
  /\ \/ at' = "badsize" /\ Disconnect
     \/ at' = "header" /\ writer' \in AfterMessage(writer) /\ StartRead

Read == HeaderRead \/ PartRead \/ MessageRead

\* An error of the connection, or of a read on the closed socket.
LoseConnection ==
  /\ operation # "none"
  /\ ConnectionLost
  /\ Disconnect

\* What is written to a closed connection is not looked at.
PeerSends ==
  /\ ~writer.stopped
  /\ writer.answers < MaxAnswers
  /\ PeerWrites
  /\ UNCHANGED <<writer, operation>>

\* Nothing arrives at a closed socket.
SocketReceives ==
  /\ ~writer.stopped
  /\ Arrives
  /\ UNCHANGED <<writer, operation>>

Write == WriterStep /\ UNCHANGED <<readerVars, operation>>

-----------------------------------------------------------------------------
TalkInit == ReaderInit /\ WriterInit /\ operation = "started"

TalkNext == PeerSends \/ SocketReceives \/ Read \/ LoseConnection \/ Write

TalkSpec == TalkInit /\ [][TalkNext]_talkVars

\* What was written arrives, handlers run, and the peer makes room for what is
\* sent to it.
FairTalkSpec ==
  /\ TalkSpec
  /\ WF_talkVars(SocketReceives)
  /\ WF_talkVars(~writer.stopped /\ Read)
  /\ WF_talkVars(Write)

-----------------------------------------------------------------------------
(* Properties. *)

\* Each frame of a peer that waits until the one before is handled, and whose
\* headers arrive in one piece, is handled: an empty one is answered, a message is
\* given to MessageRecieved; or the server has stopped the client.  (What a command
\* then answers, if anything, is its own affair.)
PoliteHandled ==
  \A n \in 1..MaxMessages :
    Len(written) >= n ~> handled >= n \/ ~polite \/ writer.stopped

\* A response that was given to Respond comes out at the peer, its header and its
\* message, or the client is stopped: no failed or short send leaves a peer
\* connected and waiting.  (A piece that came out garbled counts: see SentOrStopped.)
CameOut(n) ==
  \A k \in {2 * n - 1, 2 * n} :
    \E i \in 1..Len(writer.out) : writer.out[i].piece = k /\ writer.out[i].got # "short"

ResponsesComeOut ==
  \A n \in 1..MaxAnswers : writer.answers >= n ~> CameOut(n) \/ writer.stopped

=============================================================================
