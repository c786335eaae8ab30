--------------------------- MODULE ResponseWriter ---------------------------
(***************************************************************************)
(* What a client of src/net/async_tcp_client.cc sends.  Respond starts two *)
(* sends, of a header and of a message, and waits for neither; the pieces  *)
(* are numbered in the order of the calls, 2n-1 and 2n for response n.  A  *)
(* send that meets a full socket is done later, when the array with the    *)
(* header and the string of the caller are gone.                           *)
(***************************************************************************)
EXTENDS Naturals, Sequences

VARIABLE writer

Got == {"whole", "short", "junk"}

Writer ==
  [ answers  : Nat,                                  \* calls of Respond
    out      : Seq([piece : Nat, got : Got]),        \* what the peer receives
    queue    : Seq(Nat),                             \* pieces to be sent later
    failures : Nat,                                  \* sends that failed or were
                                                     \* short, HandleWrite not run
    stopped  : BOOLEAN ]                             \* Stop was called

WriterInit ==
  writer = [ answers |-> 0, out |-> <<>>, queue |-> <<>>, failures |-> 0,
             stopped |-> FALSE ]

Put(w, k, got) == [w EXCEPT !.out = Append(@, [piece |-> k, got |-> got])]

Fail(w) == [w EXCEPT !.failures = @ + 1]

Sent(w, k) == {Put(w, k, "whole"), Fail(Put(w, k, "short")), Fail(w)}

\* async_send: an error on a closed socket, later if others wait or the socket
\* is full, else at once, perhaps not all of it.
AsyncSend(w, k) ==
  IF w.stopped THEN {Fail(w)}
  ELSE {[w EXCEPT !.queue = Append(@, k)]} \cup
       (IF w.queue = <<>> THEN Sent(w, k) ELSE {})

\* AsyncTcpClient::Respond: the header, the message.
Respond(w) ==
  LET n == 2 * w.answers
  IN  UNION {AsyncSend(v, n + 2) :
               v \in AsyncSend([w EXCEPT !.answers = @ + 1], n + 1)}

\* AsyncTcpClient::Stop: what waits fails.
Stop(w) ==
  [w EXCEPT !.stopped = TRUE,
            !.queue = <<>>,
            !.failures = @ + Len(w.queue)]

\* The socket has room again: the first of the queue is sent from memory that
\* is free by now, and counts as sent whatever was in it.
SendQueued ==
  /\ writer.queue # <<>>
  /\ LET w == [writer EXCEPT !.queue = Tail(@)]
         k == Head(writer.queue)
     IN  writer' \in Sent(w, k) \cup {Put(w, k, "junk")}

FaultyHandleWrite == writer' = Stop([writer EXCEPT !.failures = @ - 1])

FaultyHandleWriteIgnores ==
  /\ writer.failures > 0
  /\ writer' = [writer EXCEPT !.failures = @ - 1]

\* HandleWrite of a send that failed or was short; otherwise it does nothing.
HandleWrite ==
  /\ writer.failures > 0
  /\ writer' = Stop([writer EXCEPT !.failures = @ - 1])

WriterStep == SendQueued \/ HandleWrite

-----------------------------------------------------------------------------
(* Properties. *)

\* Every field has its type.
WriterTypeOK == writer \in Writer

\* No piece of a response is lost, sent twice or overtaken without notice: as
\* long as no send has failed, the peer has received the pieces in the order
\* of the calls of Respond, up to those that wait, and no short one.  (Whether a
\* piece came out as it was meant is another question: see SentOrStopped.)
Intact(w, n) ==
  /\ \A i \in 1..Len(w.out) : w.out[i].piece = i /\ w.out[i].got # "short"
  /\ \A i \in 1..Len(w.queue) : w.queue[i] = Len(w.out) + i
  /\ Len(w.out) + Len(w.queue) = n

NothingLost ==
  writer.failures = 0 /\ ~writer.stopped => Intact(writer, 2 * writer.answers)

\* "Disconnect the client if the message could not be sent": otherwise the peer
\* receives what Respond was given.
SentOrStopped ==
  writer.failures = 0 /\ ~writer.stopped =>
    \A i \in 1..Len(writer.out) : writer.out[i].got = "whole"

=============================================================================
