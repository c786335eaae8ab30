--------------------------- MODULE AsyncTcpClient ---------------------------
(***************************************************************************)
(* The client objects of include/net/async_tcp_client.h: for each accepted *)
(* connection one AsyncTcpClient with its socket, its strand, the read     *)
(* operation and the sends it has outstanding, and the shared pointers     *)
(* that keep it alive.  The kernel and the peer complete the operations;   *)
(* what the subscribers of ConnectionClosed and MessageRecieved do is left *)
(* open here and fixed by module Application.                              *)
(*                                                                         *)
(* An operator Faulty<Name> is definition <Name> with a plausible bug; the *)
(* properties are tried on it to see that they detect the bug.             *)
(***************************************************************************)
EXTENDS Naturals, Connections

CONSTANT MaxFrames    \* bound: how many frames each peer sends

ASSUME MaxFramesIsNat == MaxFrames \in Nat

VARIABLES
  cl,           \* cl[c]: the client object of connection c
  proc          \* the server process: "up", or "crashed" by undefined behaviour

clientVars == <<cl, proc>>

-----------------------------------------------------------------------------
(* State of one client object. *)

\* Completed read operations: a header with a length, an empty one, the wrong
\* number of bytes, the end of the stream, any other error.
Results == {"ok", "empty", "badsize", "eof", "err"}

ClientObject ==
  [ obj     : {"none", "alive", "freed"},    \* life of the C++ object
    blk     : Client,                        \* heap block it is allocated in
    refs    : SUBSET {"owner", "read"},      \* shared pointers to it
    running : BOOLEAN,                       \* is_running_
    sock    : {"open", "closed"},            \* client_socket_->is_open()
    peer    : {"up", "fin", "rst"},          \* the other end of the connection
    frames  : 0..MaxFrames,                  \* frames the peer may still send
    read    : {"none", "header", "body"},    \* outstanding read operation
    res     : Results \cup {"wait"},         \* how it completed
    sending : Nat,                           \* sends the kernel has not finished
    unsent  : Nat,                           \* failed or partial, handler not run
    strand  : {"free", "message", "closed"}, \* event being raised on strand_
    closes  : Nat ]                          \* ConnectionClosed raised so far

\* A connection for which no object has been constructed.
Unborn(c) ==
  [ obj |-> "none", blk |-> c, refs |-> {}, running |-> FALSE,
    sock |-> "open", peer |-> "up", frames |-> MaxFrames, read |-> "none",
    res |-> "wait", sending |-> 0, unsent |-> 0,
    strand |-> "free", closes |-> 0 ]

NoSends(o) == o.sending = 0 /\ o.unsent = 0

-----------------------------------------------------------------------------
(* The methods, as functions from the object before to the object after. *)

\* socket::close: what is still outstanding completes with operation_aborted.
CloseSocket(o) ==
  [o EXCEPT !.sock = "closed",
            !.res = IF o.read # "none" /\ o.res = "wait" THEN "err" ELSE o.res,
            !.sending = 0,
            !.unsent = o.unsent + o.sending]

FaultyStop(o) == [o EXCEPT !.running = FALSE]

\* AsyncTcpClient::Stop
Stop(o) ==
  IF o.running THEN CloseSocket([o EXCEPT !.running = FALSE]) ELSE o

\* AsyncTcpClient::Respond: two sends, header and message, are started.
Respond(o) ==
  IF o.sock = "open" THEN [o EXCEPT !.sending = @ + 2]
                     ELSE [o EXCEPT !.unsent = @ + 2]

FaultyStartRead(o) ==
  IF o.running /\ o.sock = "open"
  THEN [o EXCEPT !.read = "header", !.res = "wait"]
  ELSE o

\* AsyncTcpClient::StartRead
StartRead(o) ==
  IF o.running /\ o.sock = "open"
  THEN [o EXCEPT !.read = "header", !.res = "wait", !.refs = @ \cup {"read"}]
  ELSE o

\* AsyncTcpClient::Start
Start(o) ==
  IF o.running THEN o ELSE StartRead([o EXCEPT !.running = TRUE])

\* A shared pointer goes out of scope; the last one frees object and socket.
Release(o, ref) ==
  LET p == [o EXCEPT !.refs = @ \ {ref}]
  IN  IF p.refs = {} THEN CloseSocket([p EXCEPT !.obj = "freed"]) ELSE p

FaultyEndHandler(o) == [o EXCEPT !.strand = "free"]

FaultyEndHandlerFrees(o) ==
  LET p == [o EXCEPT !.strand = "free"]
  IN  IF p.read = "none" THEN CloseSocket([p EXCEPT !.refs = {}, !.obj = "freed"]) ELSE p

\* A read handler returns: its `client` pointer is gone unless it was handed
\* to the next read operation.
EndHandler(o) ==
  LET p == [o EXCEPT !.strand = "free"]
  IN  IF p.read = "none" THEN Release(p, "read") ELSE p

\* What a subscriber may have done to the client when it returns.
AfterCallback(o) ==
  {o, Respond(o), Stop(o), Stop(Respond(o)), Respond(Stop(o))}

Become(c, o) == cl' = [cl EXCEPT ![c] = o] /\ UNCHANGED proc

-----------------------------------------------------------------------------
(* The accept handler constructs, starts and finally lets go of the client. *)

InUse(b) == \E d \in Client : cl[d].obj = "alive" /\ cl[d].blk = b

\* The allocator hands out a new block or one whose last object was freed.
FreeBlocks(c) ==
  {b \in {c} \cup {cl[d].blk : d \in {e \in Client : cl[e].obj = "freed"}} :
     ~InUse(b)}

\* new AsyncTcpClient(socket), Id, the two subscriptions, and Start.
Construct(c) ==
  /\ cl[c].obj = "none"
  /\ \E b \in FreeBlocks(c) :
       Become(c, Start([cl[c] EXCEPT !.obj = "alive", !.blk = b,
                                     !.refs = {"owner"}]))

\* The local `client` of OnNewClientAccepted goes out of scope.
OwnerReturns(c) ==
  /\ "owner" \in cl[c].refs
  /\ Become(c, Release(cl[c], "owner"))

-----------------------------------------------------------------------------
(* The peer and the kernel. *)

PeerCloses(c) ==
  \/ cl[c].peer = "up" /\ Become(c, [cl[c] EXCEPT !.peer = "fin"])
  \/ cl[c].peer # "rst" /\ Become(c, [cl[c] EXCEPT !.peer = "rst"])

\* The outstanding read gets bytes of a frame.
ReadGetsData(c) ==
  /\ cl[c].res = "wait"
  /\ \/ /\ cl[c].read = "header" /\ cl[c].frames > 0
        /\ \E r \in {"ok", "empty", "badsize"} :
             Become(c, [cl[c] EXCEPT !.res = r, !.frames = @ - 1])
     \/ /\ cl[c].read = "body"
        /\ \E r \in {"ok", "badsize"} : Become(c, [cl[c] EXCEPT !.res = r])

\* The outstanding read meets the end of the connection.
ReadFails(c) ==
  /\ cl[c].res = "wait"
  /\ cl[c].read # "none"
  /\ cl[c].peer # "up"
  /\ Become(c, [cl[c] EXCEPT !.res = IF cl[c].peer = "fin" THEN "eof" ELSE "err"])

\* A send finishes, completely (HandleWrite has nothing to do) or not.
SendCompletes(c) ==
  /\ cl[c].sending > 0
  /\ \/ Become(c, [cl[c] EXCEPT !.sending = @ - 1])
     \/ Become(c, [cl[c] EXCEPT !.sending = @ - 1, !.unsent = @ + 1])

-----------------------------------------------------------------------------
(* The handlers, one at a time on the strand of the client. *)

\* The handler of the outstanding read may run.
ReadReady(c, op) ==
  /\ cl[c].strand = "free"
  /\ cl[c].read = op
  /\ cl[c].res # "wait"

\* An error or a wrong size: ConnectionClosed is raised, nothing is read again.
RaiseClosed(c) ==
  /\ \E op \in {"header", "body"} : ReadReady(c, op)
  /\ cl[c].res \notin {"ok", "empty"}
  /\ Become(c, [cl[c] EXCEPT !.read = "none", !.strand = "closed",
                             !.closes = @ + 1])

FaultyHeaderArrived(c) ==
  /\ ReadReady(c, "header")
  /\ cl[c].res = "ok"
  /\ Become(c, [cl[c] EXCEPT !.read = "body",
                             !.res = IF cl[c].sock = "open" THEN "wait" ELSE cl[c].sock])

\* Header with a length: read the message (at once in error if it is closed).
HeaderArrived(c) ==
  /\ ReadReady(c, "header")
  /\ cl[c].res = "ok"
  /\ Become(c, [cl[c] EXCEPT !.read = "body",
                             !.res = IF cl[c].sock = "open" THEN "wait" ELSE "err"])

\* Header of an empty message: answer it and read the next header.
EmptyArrived(c) ==
  /\ ReadReady(c, "header")
  /\ cl[c].res = "empty"
  /\ Become(c, EndHandler(StartRead(Respond([cl[c] EXCEPT !.read = "none"]))))

FaultyRaiseMessage(c) ==
  /\ \/ ReadReady(c, "body") /\ cl[c].res = "ok"
     \/ cl[c].strand = "closed" /\ cl[c].res = "badsize"
  /\ Become(c, [cl[c] EXCEPT !.read = "none", !.strand = "message"])

\* A whole message: MessageRecieved is raised.
RaiseMessage(c) ==
  /\ ReadReady(c, "body")
  /\ cl[c].res = "ok"
  /\ Become(c, [cl[c] EXCEPT !.read = "none", !.strand = "message"])

\* MessageRecieved.Invoke returns: the reading loop restarts.
MessageReturns(c) ==
  /\ cl[c].strand = "message"
  /\ \E o \in AfterCallback(cl[c]) : Become(c, EndHandler(StartRead(o)))

\* An exception leaves MessageRecieved.Invoke: the handler is unwound.
MessageThrows(c) ==
  /\ cl[c].strand = "message"
  /\ \E o \in AfterCallback(cl[c]) : Become(c, EndHandler(o))

FaultyClosedReturns(c) ==
  /\ cl[c].strand = "closed"
  /\ \E o \in {cl[c], Stop(cl[c])} : Become(c, EndHandler(StartRead(o)))

\* ConnectionClosed.Invoke returns or throws; the subscriber may have called Stop.
ClosedReturns(c) ==
  /\ cl[c].strand = "closed"
  /\ \E o \in {cl[c], Stop(cl[c])} : Become(c, EndHandler(o))

\* HandleWrite of a failed or partial send.
HandleWriteUnsent(c) ==
  /\ cl[c].strand = "free"
  /\ cl[c].unsent > 0
  /\ cl[c].obj = "alive"
  /\ Become(c, Stop([cl[c] EXCEPT !.unsent = @ - 1]))

\* The same handler when the object is gone: it was bound to a raw `this`, so
\* Stop runs on freed memory.  It does nothing, takes the process down, or
\* stops the client that was allocated there since.
HandleWriteDangling(c) ==
  LET o == [cl[c] EXCEPT !.unsent = @ - 1]
  IN  /\ cl[c].strand = "free"
      /\ cl[c].unsent > 0
      /\ cl[c].obj = "freed"
      /\ \/ Become(c, o)
         \/ cl' = [cl EXCEPT ![c] = o] /\ proc' = "crashed"
         \/ \E d \in Client :
              /\ cl[d].obj = "alive"
              /\ cl[d].blk = cl[c].blk
              /\ cl' = [cl EXCEPT ![c] = o, ![d] = Stop(@)]
              /\ UNCHANGED proc

\* Undefined behaviour elsewhere in the process takes it down.
Crash == proc' = "crashed" /\ UNCHANGED cl

-----------------------------------------------------------------------------
ClientInit ==
  /\ cl = [c \in Client |-> Unborn(c)]
  /\ proc = "up"

AcceptHandlerStep(c) == Construct(c) \/ OwnerReturns(c)

KernelStep(c) ==
  PeerCloses(c) \/ ReadGetsData(c) \/ ReadFails(c) \/ SendCompletes(c)

StrandStep(c) ==
  \/ RaiseClosed(c) \/ HeaderArrived(c) \/ EmptyArrived(c) \/ RaiseMessage(c)
  \/ MessageReturns(c) \/ MessageThrows(c) \/ ClosedReturns(c)
  \/ HandleWriteUnsent(c) \/ HandleWriteDangling(c)

ClientNext ==
  /\ proc = "up"
  /\ \/ \E c \in Client : AcceptHandlerStep(c) \/ KernelStep(c) \/ StrandStep(c)
     \/ Crash

ClientSpec == ClientInit /\ [][ClientNext]_clientVars

\* The workers keep running handlers, the accept handler returns, and the
\* kernel reports the end of a connection to what is waiting for it.
ClientFairness ==
  \A c \in Client :
    /\ WF_clientVars(proc = "up" /\ StrandStep(c))
    /\ WF_clientVars(proc = "up" /\ OwnerReturns(c))
    /\ WF_clientVars(proc = "up" /\ ReadFails(c))
    /\ WF_clientVars(proc = "up" /\ cl[c].peer # "up" /\ SendCompletes(c))

FairClientSpec == ClientSpec /\ ClientFairness

-----------------------------------------------------------------------------
(* Properties. *)

\* Every field of every client has its type.
ClientTypeOK ==
  /\ cl \in [Client -> ClientObject]
  /\ proc \in {"up", "crashed"}

\* A read operation never outlives its object: while one is outstanding, or its
\* handler runs, the `client` pointer it captured (StartRead) keeps it alive.
ReadKeepsAlive ==
  \A c \in Client :
    cl[c].read # "none" \/ cl[c].strand # "free" => cl[c].obj = "alive"

\* ConnectionClosed is raised at most once, and once it was raised no read is
\* outstanding and no message is delivered.
ClosedIsLast ==
  \A c \in Client :
    /\ cl[c].closes <= 1
    /\ cl[c].closes = 1 => cl[c].read = "none" /\ cl[c].strand # "message"

\* A read never waits on a client that was stopped: Stop leaves nothing behind
\* that could keep the object, its strand and its buffers for ever.
StoppedNeverWaits ==
  \A c \in Client :
    ~(cl[c].obj = "alive" /\ ~cl[c].running
      /\ cl[c].read # "none" /\ cl[c].res = "wait")

\* Nothing runs on a client after it was freed: every operation that names the
\* object keeps it alive, the sends of Respond included.
SendKeepsAlive ==
  \A c \in Client : cl[c].obj = "freed" => NoSends(cl[c])

\* When the peer is gone, the client object is freed, whatever the handlers,
\* the subscribers and the sends were doing at that moment.
FreedAfterPeerGone ==
  \A c \in Client :
    cl[c].obj = "alive" /\ cl[c].peer # "up"
      ~> cl[c].obj = "freed" \/ proc = "crashed"

-----------------------------------------------------------------------------
\* The session a subscriber sees: module ClientSession is implemented.
SessionOf(o) ==
  CASE o.obj = "none" -> "none"
    [] o.obj # "none" /\ o.strand # "free" -> o.strand
    [] o.obj # "none" /\ o.strand = "free" /\ o.read # "none" -> "open"
    [] OTHER -> "over"

Session == INSTANCE ClientSession
             WITH session <- [c \in Client |-> SessionOf(cl[c])]

ImplementsSession == Session!SessionSpec

=============================================================================
