------------------------ MODULE AsyncTcpClientProofs ------------------------
(***************************************************************************)
(* Theorems about AsyncTcpClient for every set of clients and every number *)
(* of frames.                                                              *)
(***************************************************************************)
EXTENDS AsyncTcpClient, TLAPS

(***************************************************************************)
(* The inductive invariant, one client object at a time.  Core holds at    *)
(* every point of a handler, InHandler while a read handler runs and       *)
(* Settled between handlers.                                               *)
(***************************************************************************)
Core(o) ==
  /\ o \in ClientObject
  /\ o.obj = "none" =>
       /\ o.refs = {} /\ o.read = "none" /\ o.strand = "free" /\ o.closes = 0
       /\ ~o.running /\ o.sock = "open"
  /\ o.obj = "alive" <=> o.refs # {}
  /\ o.obj = "alive" => (o.running <=> o.sock = "open")
  /\ o.sock = "closed" /\ o.read # "none" => o.res # "wait"
  /\ o.closes <= 1

InHandler(o) ==
  /\ Core(o)
  /\ "read" \in o.refs
  /\ o.read = "none"
  /\ o.strand = "message" => o.closes = 0
  /\ o.strand = "closed" => o.closes = 1

Settled(o) ==
  /\ Core(o)
  /\ "read" \in o.refs <=> o.read # "none" \/ o.strand # "free"
  /\ o.strand # "free" => o.read = "none"
  /\ o.strand = "closed" => o.closes = 1
  /\ o.closes = 1 => o.read = "none" /\ o.strand # "message"

ClientInv == ClientTypeOK /\ \A c \in Client : Settled(cl[c])

\* What Stop, Respond and the kernel leave alone.
SameSession(o, p) ==
  /\ p.obj = o.obj
  /\ p.refs = o.refs
  /\ p.read = o.read
  /\ p.strand = o.strand
  /\ p.closes = o.closes

-----------------------------------------------------------------------------
(* The methods. *)

LEMMA CloseSocketCore ==
  ASSUME NEW o \in ClientObject
  PROVE  /\ CloseSocket(o) \in ClientObject
         /\ SameSession(o, CloseSocket(o))
         /\ CloseSocket(o).running = o.running
         /\ CloseSocket(o).sock = "closed"
         /\ CloseSocket(o).read # "none" => CloseSocket(o).res # "wait"
<1> DEFINE r == IF o.read # "none" /\ o.res = "wait" THEN "err" ELSE o.res
           p == [o EXCEPT !.sock = "closed", !.res = r]
           q == [p EXCEPT !.sending = 0, !.unsent = o.unsent + o.sending]
<1>1. r \in Results \cup {"wait"} /\ (o.read # "none" => r # "wait")
  BY DEF ClientObject, Results
<1>2. CloseSocket(o) = q
  BY DEF CloseSocket
<1>3. o.unsent + o.sending \in Nat
  BY DEF ClientObject
<1> HIDE DEF r
<1>4. /\ p \in ClientObject
      /\ SameSession(o, p)
      /\ p.running = o.running /\ p.sock = "closed" /\ p.res = r
  BY <1>1 DEF ClientObject, SameSession
<1> HIDE DEF p
<1>5. /\ q \in ClientObject
      /\ SameSession(p, q)
      /\ q.running = p.running /\ q.sock = p.sock /\ q.res = p.res
  BY <1>3, <1>4 DEF ClientObject, SameSession
<1> QED BY <1>1, <1>2, <1>4, <1>5 DEF SameSession

LEMMA StopCore ==
  ASSUME NEW o, Core(o)
  PROVE  Core(Stop(o)) /\ SameSession(o, Stop(o)) /\ Stop(o).running = FALSE
<1>0. o.running \in BOOLEAN
  BY DEF Core, ClientObject
<1>1. CASE o.running
  <2> DEFINE p == [o EXCEPT !.running = FALSE]
  <2>1. p \in ClientObject /\ SameSession(o, p) /\ p.running = FALSE
    BY DEF Core, ClientObject, SameSession
  <2>2. Stop(o) = CloseSocket(p)
    BY <1>1 DEF Stop
  <2>3. /\ CloseSocket(p) \in ClientObject
        /\ SameSession(p, CloseSocket(p))
        /\ CloseSocket(p).running = FALSE
        /\ CloseSocket(p).sock = "closed"
        /\ CloseSocket(p).read # "none" => CloseSocket(p).res # "wait"
    BY <2>1, CloseSocketCore
  <2> HIDE DEF p
  <2> QED BY <1>1, <2>1, <2>2, <2>3 DEF Core, SameSession
<1>2. CASE ~o.running
  BY <1>0, <1>2 DEF Stop, Core, SameSession
<1> QED BY <1>1, <1>2

LEMMA RespondCore ==
  ASSUME NEW o, Core(o)
  PROVE  Core(Respond(o)) /\ SameSession(o, Respond(o))
<1>1. CASE o.sock = "open"
  BY <1>1 DEF Respond, Core, ClientObject, SameSession
<1>2. CASE o.sock # "open"
  BY <1>2 DEF Respond, Core, ClientObject, SameSession
<1> QED BY <1>1, <1>2

LEMMA InHandlerSame ==
  ASSUME NEW o, NEW p, InHandler(o), Core(p), SameSession(o, p)
  PROVE  InHandler(p)
  BY DEF InHandler, SameSession

\* Whatever a subscriber does to the client, the handler can go on.
LEMMA CallbackInHandler ==
  ASSUME NEW o, InHandler(o), NEW p \in AfterCallback(o)
  PROVE  InHandler(p) /\ SameSession(o, p)
<1>0. Core(o)
  BY DEF InHandler
<1>1. CASE p = o
  BY <1>1 DEF SameSession
<1>2. CASE p = Respond(o)
  BY <1>0, <1>2, RespondCore, InHandlerSame
<1>3. CASE p = Stop(o)
  BY <1>0, <1>3, StopCore, InHandlerSame
<1>4. CASE p = Stop(Respond(o))
  <2>1. Core(Respond(o)) /\ SameSession(o, Respond(o))
    BY <1>0, RespondCore
  <2>2. Core(p) /\ SameSession(Respond(o), p)
    BY <1>4, <2>1, StopCore
  <2> QED BY <2>1, <2>2, InHandlerSame DEF SameSession
<1>5. CASE p = Respond(Stop(o))
  <2>1. Core(Stop(o)) /\ SameSession(o, Stop(o))
    BY <1>0, StopCore
  <2>2. Core(p) /\ SameSession(Stop(o), p)
    BY <1>5, <2>1, RespondCore
  <2> QED BY <2>1, <2>2, InHandlerSame DEF SameSession
<1> QED BY <1>1, <1>2, <1>3, <1>4, <1>5 DEF AfterCallback

\* Releasing a pointer: the object lives on, or is freed and closed.
LEMMA ReleaseCore ==
  ASSUME NEW o, Core(o), o.obj = "alive", NEW ref
  PROVE  /\ Core(Release(o, ref))
         /\ Release(o, ref).refs = o.refs \ {ref}
         /\ Release(o, ref).obj = IF o.refs \ {ref} = {} THEN "freed" ELSE "alive"
         /\ Release(o, ref).read = o.read
         /\ Release(o, ref).strand = o.strand
         /\ Release(o, ref).closes = o.closes
         /\ Release(o, ref).running = o.running
<1> DEFINE p == [o EXCEPT !.refs = @ \ {ref}]
           q == [p EXCEPT !.obj = "freed"]
<1>1. /\ p \in ClientObject
      /\ p.obj = "alive" /\ p.refs = o.refs \ {ref} /\ p.read = o.read
      /\ p.strand = o.strand /\ p.closes = o.closes /\ p.running = o.running
      /\ p.sock = o.sock /\ p.res = o.res
  BY DEF Core, ClientObject
<1>2. /\ q \in ClientObject
      /\ q.obj = "freed" /\ q.refs = p.refs /\ q.read = p.read
      /\ q.strand = p.strand /\ q.closes = p.closes /\ q.running = p.running
  BY <1>1 DEF ClientObject
<1>3. CASE p.refs = {}
  <2>1. Release(o, ref) = CloseSocket(q)
    BY <1>3 DEF Release
  <2>2. /\ CloseSocket(q) \in ClientObject
        /\ SameSession(q, CloseSocket(q))
        /\ CloseSocket(q).running = q.running
        /\ CloseSocket(q).read # "none" => CloseSocket(q).res # "wait"
    BY <1>2, CloseSocketCore
  <2> HIDE DEF p, q
  <2> QED BY <1>1, <1>2, <1>3, <2>1, <2>2 DEF Core, SameSession
<1>4. CASE p.refs # {}
  <2>1. Release(o, ref) = p
    BY <1>4 DEF Release
  <2> HIDE DEF p, q
  <2> QED BY <1>1, <1>4, <2>1 DEF Core
<1> QED BY <1>3, <1>4

LEMMA EndHandlerSettles ==
  ASSUME NEW o, Core(o), "read" \in o.refs,
         o.closes = 1 => o.read = "none"
  PROVE  /\ Settled(EndHandler(o))
         /\ EndHandler(o).obj # "none"
         /\ EndHandler(o).read = o.read
         /\ EndHandler(o).strand = "free"
         /\ EndHandler(o).running = o.running
         /\ EndHandler(o).closes = o.closes
<1> DEFINE p == [o EXCEPT !.strand = "free"]
<1>1. /\ Core(p) /\ p.read = o.read /\ p.strand = "free" /\ p.refs = o.refs
      /\ p.closes = o.closes /\ p.obj = "alive" /\ p.running = o.running
  BY DEF Core, ClientObject
<1>2. CASE p.read = "none"
  <2>1. EndHandler(o) = Release(p, "read")
    BY <1>2 DEF EndHandler
  <2> HIDE DEF p
  <2> QED BY <1>1, <1>2, <2>1, ReleaseCore DEF Settled
<1>3. CASE p.read # "none"
  <2>1. EndHandler(o) = p
    BY <1>3 DEF EndHandler
  <2> HIDE DEF p
  <2> QED BY <1>1, <1>3, <2>1 DEF Settled
<1> QED BY <1>2, <1>3

\* The reading loop restarts, unless the client was stopped.
LEMMA LoopSettles ==
  ASSUME NEW o, InHandler(o), o.closes = 0
  PROVE  /\ Settled(EndHandler(StartRead(o)))
         /\ EndHandler(StartRead(o)).obj # "none"
         /\ EndHandler(StartRead(o)).strand = "free"
         /\ EndHandler(StartRead(o)).read = "none" => ~EndHandler(StartRead(o)).running
<1>1. /\ Core(StartRead(o)) /\ "read" \in StartRead(o).refs /\ StartRead(o).closes = 0
      /\ StartRead(o).read = "none" => ~StartRead(o).running
  <2>1. CASE o.running /\ o.sock = "open"
    BY <2>1 DEF StartRead, InHandler, Core, ClientObject, Results
  <2>2. CASE ~(o.running /\ o.sock = "open")
    <3>1. StartRead(o) = o
      BY <2>2 DEF StartRead
    <3>2. ~o.running
      BY <2>2 DEF InHandler, Core
    <3> QED BY <3>1, <3>2 DEF InHandler
  <2> QED BY <2>1, <2>2
<1> QED BY <1>1, EndHandlerSettles

LEMMA ReturnSettles ==
  ASSUME NEW o, InHandler(o)
  PROVE  /\ Settled(EndHandler(o))
         /\ EndHandler(o).obj # "none"
         /\ EndHandler(o).strand = "free"
         /\ EndHandler(o).read = "none"
         /\ EndHandler(o).closes = o.closes
  BY EndHandlerSettles DEF InHandler

-----------------------------------------------------------------------------
(* The actions.  A step replaces the object of one client by a settled one *)
(* and makes a move of its session, or none.                               *)

SessionMove(s, t) ==
  \/ s = t
  \/ <<s, t>> \in { <<"none", "open">>, <<"open", "message">>, <<"message", "open">>,
                    <<"message", "over">>, <<"open", "closed">>,
                    <<"closed", "over">>, <<"open", "over">> }

\* The session is over, without ConnectionClosed and without Stop: only an
\* exception that leaves MessageRecieved.Invoke does that.
LeftRunning(o) == SessionOf(o) = "over" /\ o.closes = 0 /\ o.running

LeftBy(o, p) == LeftRunning(p) => LeftRunning(o) \/ o.strand = "message"

StepTo(c, p) ==
  /\ Settled(p)
  /\ SessionMove(SessionOf(cl[c]), SessionOf(p))
  /\ LeftBy(cl[c], p)

LEMMA StopSettles ==
  ASSUME NEW o, Settled(o)
  PROVE  /\ Settled(Stop(o)) /\ SessionOf(Stop(o)) = SessionOf(o)
         /\ ~LeftRunning(Stop(o))
<1>1. Core(Stop(o)) /\ SameSession(o, Stop(o)) /\ Stop(o).running = FALSE
  BY StopCore DEF Settled
<1> QED BY <1>1 DEF Settled, SameSession, SessionOf, LeftRunning

LEMMA ConstructStep ==
  ASSUME ClientInv, NEW c \in Client, Construct(c)
  PROVE  \E p : StepTo(c, p) /\ Become(c, p)
<1>1. PICK b \in FreeBlocks(c) :
        Become(c, Start([cl[c] EXCEPT !.obj = "alive", !.blk = b, !.refs = {"owner"}]))
  BY DEF Construct
<1>2. b \in Client
  BY <1>1 DEF FreeBlocks, ClientInv, ClientTypeOK, ClientObject
<1> DEFINE o == [cl[c] EXCEPT !.obj = "alive", !.blk = b, !.refs = {"owner"}]
           p == [o EXCEPT !.running = TRUE]
<1>3. /\ cl[c].obj = "none" /\ cl[c] \in ClientObject /\ Settled(cl[c])
  BY DEF Construct, ClientInv, ClientTypeOK
<1>4. /\ o \in ClientObject /\ o.obj = "alive" /\ o.refs = {"owner"}
      /\ ~o.running /\ o.sock = "open" /\ o.strand = "free" /\ o.closes = 0
  BY <1>2, <1>3 DEF ClientObject, Settled, Core
<1> HIDE DEF o
<1>5. /\ p \in ClientObject /\ p.obj = "alive" /\ p.refs = {"owner"}
      /\ p.running /\ p.sock = "open" /\ p.strand = "free" /\ p.closes = 0
  BY <1>4 DEF ClientObject
<1>6. Start(o) = StartRead(p)
  BY <1>4 DEF Start
<1> HIDE DEF p
<1>7. Settled(StartRead(p)) /\ SessionOf(StartRead(p)) = "open"
  <2> DEFINE q == [p EXCEPT !.read = "header", !.res = "wait",
                            !.refs = @ \cup {"read"}]
  <2>1. StartRead(p) = q
    BY <1>5 DEF StartRead
  <2>2. /\ q \in ClientObject /\ q.obj = "alive" /\ q.refs = {"owner", "read"}
        /\ q.running /\ q.sock = "open" /\ q.strand = "free" /\ q.closes = 0
        /\ q.read = "header"
    BY <1>5 DEF ClientObject, Results
  <2> HIDE DEF q
  <2>3. Settled(q)
    BY <2>2 DEF Settled, Core
  <2>4. SessionOf(q) = "open"
    BY <2>2 DEF SessionOf
  <2> QED BY <2>1, <2>3, <2>4
<1>8. SessionOf(cl[c]) = "none"
  BY <1>3 DEF SessionOf
<1>9. StepTo(c, StartRead(p))
  BY <1>7, <1>8 DEF StepTo, SessionMove, LeftBy, LeftRunning
<1> QED BY <1>1, <1>6, <1>9 DEF o

LEMMA OwnerReturnsStep ==
  ASSUME ClientInv, NEW c \in Client, OwnerReturns(c)
  PROVE  \E p : StepTo(c, p) /\ Become(c, p)
<1> DEFINE o == cl[c]
           p == Release(o, "owner")
<1>1. Settled(o) /\ Core(o) /\ "owner" \in o.refs /\ Become(c, p)
  BY DEF ClientInv, Settled, OwnerReturns
<1> HIDE DEF o
<1>2. o.obj = "alive"
  BY <1>1 DEF Core
<1>3. /\ Core(p) /\ p.refs = o.refs \ {"owner"}
      /\ p.obj = IF o.refs \ {"owner"} = {} THEN "freed" ELSE "alive"
      /\ p.read = o.read /\ p.strand = o.strand /\ p.closes = o.closes
      /\ p.running = o.running
  BY <1>1, <1>2, ReleaseCore
<1> HIDE DEF p
<1>4. Settled(p)
  BY <1>1, <1>3 DEF Settled
<1>5. SessionOf(p) = SessionOf(o)
  BY <1>1, <1>2, <1>3 DEF SessionOf
<1>6. StepTo(c, p)
  BY <1>3, <1>4, <1>5 DEF StepTo, SessionMove, LeftBy, LeftRunning, o
<1> QED BY <1>1, <1>6

LEMMA KernelStepStep ==
  ASSUME ClientInv, NEW c \in Client, KernelStep(c)
  PROVE  \E p : StepTo(c, p) /\ Become(c, p)
<1> DEFINE o == cl[c]
<1>0. Settled(o) /\ o \in ClientObject
  BY DEF ClientInv, ClientTypeOK
<1> SUFFICES ASSUME NEW p, Become(c, p),
                    /\ p \in ClientObject /\ SameSession(o, p)
                    /\ p.running = o.running /\ p.sock = o.sock
                    /\ p.res = o.res \/ p.res # "wait"
             PROVE  StepTo(c, p)
  <2>1. CASE PeerCloses(c)
    <3>1. PICK s \in {"fin", "rst"} : Become(c, [o EXCEPT !.peer = s])
      BY <2>1 DEF PeerCloses
    <3> QED BY <1>0, <3>1 DEF ClientObject, SameSession
  <2>2. CASE ReadGetsData(c)
    <3>1. CASE o.read = "header"
      <4>1. PICK r \in {"ok", "empty", "badsize"} :
              o.frames > 0 /\ Become(c, [o EXCEPT !.res = r, !.frames = @ - 1])
        BY <2>2, <3>1 DEF ReadGetsData
      <4>2. o.frames - 1 \in 0..MaxFrames
        BY <1>0, <4>1, MaxFramesIsNat DEF ClientObject
      <4> QED BY <1>0, <4>1, <4>2 DEF ClientObject, Results, SameSession
    <3>2. CASE o.read # "header"
      <4>1. PICK r \in {"ok", "badsize"} : Become(c, [o EXCEPT !.res = r])
        BY <2>2, <3>2 DEF ReadGetsData
      <4> QED BY <1>0, <4>1 DEF ClientObject, Results, SameSession
    <3> QED BY <3>1, <3>2
  <2>3. CASE ReadFails(c)
    <3>1. PICK r \in {"eof", "err"} : Become(c, [o EXCEPT !.res = r])
      BY <2>3 DEF ReadFails
    <3> QED BY <1>0, <3>1 DEF ClientObject, Results, SameSession
  <2>4. CASE SendCompletes(c)
    <3>1. o.sending - 1 \in Nat /\ o.unsent + 1 \in Nat
      BY <1>0, <2>4 DEF SendCompletes, ClientObject
    <3>2. CASE Become(c, [o EXCEPT !.sending = @ - 1])
      BY <1>0, <3>1, <3>2 DEF ClientObject, SameSession
    <3>3. CASE Become(c, [o EXCEPT !.sending = @ - 1, !.unsent = @ + 1])
      BY <1>0, <3>1, <3>3 DEF ClientObject, SameSession
    <3> QED BY <2>4, <3>2, <3>3 DEF SendCompletes
  <2> QED BY <2>1, <2>2, <2>3, <2>4 DEF KernelStep
<1>1. Settled(p)
  BY <1>0 DEF Settled, Core, SameSession
<1>2. SessionOf(p) = SessionOf(o)
  BY DEF SessionOf, SameSession
<1> QED BY <1>1, <1>2 DEF StepTo, SessionMove, LeftBy, LeftRunning, SameSession

-----------------------------------------------------------------------------
(* The handlers on the strand. *)

LEMMA EventRaisedStep ==
  ASSUME ClientInv, NEW c \in Client, RaiseClosed(c) \/ RaiseMessage(c)
  PROVE  \E p : StepTo(c, p) /\ Become(c, p)
<1> DEFINE o == cl[c]
<1>1. Settled(o) /\ o \in ClientObject
  BY DEF ClientInv, ClientTypeOK
<1>2. o.strand = "free" /\ o.read # "none"
  BY DEF RaiseClosed, RaiseMessage, ReadReady
<1>3. SessionOf(o) = "open" /\ o.closes = 0 /\ "read" \in o.refs
  BY <1>1, <1>2 DEF SessionOf, Settled, Core, ClientObject
<1>4. CASE RaiseClosed(c)
  <2> DEFINE p == [o EXCEPT !.read = "none", !.strand = "closed", !.closes = 1]
  <2>1. Become(c, p)
    <3>1. o.closes + 1 = 1
      BY <1>3
    <3> QED BY <1>4, <3>1 DEF RaiseClosed
  <2>2. /\ p \in ClientObject /\ p.read = "none" /\ p.strand = "closed"
        /\ p.closes = 1 /\ p.obj = o.obj /\ p.refs = o.refs
        /\ p.running = o.running /\ p.sock = o.sock
    BY <1>1, <1>3 DEF ClientObject
  <2> HIDE DEF p
  <2>3. Settled(p) /\ SessionOf(p) = "closed"
    BY <1>1, <1>3, <2>2 DEF Settled, Core, SessionOf
  <2> QED BY <1>3, <2>1, <2>3 DEF StepTo, SessionMove, LeftBy, LeftRunning
<1>5. CASE RaiseMessage(c)
  <2> DEFINE p == [o EXCEPT !.read = "none", !.strand = "message"]
  <2>1. Become(c, p)
    BY <1>5 DEF RaiseMessage
  <2>2. /\ p \in ClientObject /\ p.read = "none" /\ p.strand = "message"
        /\ p.closes = 0 /\ p.obj = o.obj /\ p.refs = o.refs
        /\ p.running = o.running /\ p.sock = o.sock
    BY <1>1, <1>3 DEF ClientObject
  <2> HIDE DEF p
  <2>3. Settled(p) /\ SessionOf(p) = "message"
    BY <1>1, <1>3, <2>2 DEF Settled, Core, SessionOf
  <2> QED BY <1>3, <2>1, <2>3 DEF StepTo, SessionMove, LeftBy, LeftRunning
<1> QED BY <1>4, <1>5

LEMMA HeaderArrivedStep ==
  ASSUME ClientInv, NEW c \in Client, HeaderArrived(c)
  PROVE  \E p : StepTo(c, p) /\ Become(c, p)
<1> DEFINE o == cl[c]
           r == IF o.sock = "open" THEN "wait" ELSE "err"
           p == [o EXCEPT !.read = "body", !.res = r]
<1>1. Settled(o) /\ o \in ClientObject /\ o.strand = "free" /\ o.read = "header"
  BY DEF ClientInv, ClientTypeOK, HeaderArrived, ReadReady
<1>2. Become(c, p)
  BY DEF HeaderArrived
<1>3. r \in Results \cup {"wait"} /\ (o.sock = "closed" => r # "wait")
  BY DEF Results
<1> HIDE DEF r
<1>4. /\ p \in ClientObject /\ p.read = "body" /\ p.res = r /\ p.obj = o.obj
      /\ p.refs = o.refs /\ p.strand = o.strand /\ p.closes = o.closes
      /\ p.running = o.running /\ p.sock = o.sock
  BY <1>1, <1>3 DEF ClientObject
<1> HIDE DEF p
<1>5. Settled(p)
  BY <1>1, <1>3, <1>4 DEF Settled, Core
<1>6. SessionOf(p) = SessionOf(o)
  BY <1>1, <1>4 DEF SessionOf
<1> QED BY <1>2, <1>4, <1>5, <1>6 DEF StepTo, SessionMove, LeftBy, LeftRunning

LEMMA EmptyArrivedStep ==
  ASSUME ClientInv, NEW c \in Client, EmptyArrived(c)
  PROVE  \E p : StepTo(c, p) /\ Become(c, p)
<1> DEFINE o == cl[c]
           q == [o EXCEPT !.read = "none"]
           p == EndHandler(StartRead(Respond(q)))
<1>1. Settled(o) /\ o \in ClientObject /\ o.strand = "free" /\ o.read = "header"
  BY DEF ClientInv, ClientTypeOK, EmptyArrived, ReadReady
<1>2. Become(c, p)
  BY DEF EmptyArrived
<1>3. /\ q \in ClientObject /\ q.read = "none" /\ q.res = o.res /\ q.obj = o.obj
      /\ q.refs = o.refs /\ q.strand = o.strand /\ q.closes = o.closes
      /\ q.running = o.running /\ q.sock = o.sock
  BY <1>1 DEF ClientObject
<1>4. o.closes = 0 /\ SessionOf(o) = "open"
  BY <1>1 DEF Settled, Core, ClientObject, SessionOf
<1> HIDE DEF q
<1>5. InHandler(q)
  BY <1>1, <1>3, <1>4 DEF InHandler, Settled, Core
<1>6. InHandler(Respond(q)) /\ Respond(q).closes = 0
  BY <1>3, <1>4, <1>5, RespondCore, InHandlerSame DEF InHandler, SameSession
<1>7. /\ Settled(p) /\ p.obj # "none" /\ p.strand = "free"
      /\ p.read = "none" => ~p.running
  BY <1>6, LoopSettles
<1> HIDE DEF p
<1>8. SessionOf(p) \in {"open", "over"} /\ ~LeftRunning(p)
  BY <1>7 DEF SessionOf, LeftRunning
<1> QED BY <1>2, <1>4, <1>7, <1>8 DEF StepTo, SessionMove, LeftBy

LEMMA EventReturnsStep ==
  ASSUME ClientInv, NEW c \in Client,
         MessageReturns(c) \/ MessageThrows(c) \/ ClosedReturns(c)
  PROVE  \E p : StepTo(c, p) /\ Become(c, p)
<1> DEFINE o == cl[c]
<1>1. Settled(o) /\ o.strand \in {"message", "closed"}
  BY DEF ClientInv, MessageReturns, MessageThrows, ClosedReturns
<1>2. InHandler(o) /\ SessionOf(o) = o.strand
  BY <1>1 DEF InHandler, Settled, Core, ClientObject, SessionOf
<1>3. CASE MessageReturns(c)
  <2>1. PICK q \in AfterCallback(o) : Become(c, EndHandler(StartRead(q)))
    BY <1>3 DEF MessageReturns
  <2>2. InHandler(q) /\ q.closes = 0 /\ o.strand = "message"
    BY <1>2, <1>3, CallbackInHandler DEF MessageReturns, InHandler, SameSession
  <2> DEFINE p == EndHandler(StartRead(q))
  <2>3. Settled(p) /\ p.obj # "none" /\ p.strand = "free"
    BY <2>2, LoopSettles
  <2> HIDE DEF p
  <2>4. SessionOf(p) \in {"open", "over"}
    BY <2>3 DEF SessionOf
  <2>5. StepTo(c, p)
    BY <1>2, <2>2, <2>3, <2>4 DEF StepTo, SessionMove, LeftBy
  <2> QED BY <2>1, <2>5 DEF p
<1>4. CASE MessageThrows(c) \/ ClosedReturns(c)
  <2>1. PICK q : /\ InHandler(q) /\ Become(c, EndHandler(q))
                 /\ o.strand = "closed" => q.closes = 1
    <3>1. CASE MessageThrows(c)
      BY <1>2, <3>1, CallbackInHandler DEF MessageThrows
    <3>2. CASE ClosedReturns(c)
      <4>1. InHandler(Stop(o)) /\ Stop(o).closes = o.closes
        BY <1>2, StopCore, InHandlerSame DEF InHandler, SameSession
      <4> QED BY <1>2, <3>2, <4>1 DEF ClosedReturns, InHandler
    <3> QED BY <1>4, <3>1, <3>2
  <2> DEFINE p == EndHandler(q)
  <2>2. /\ Settled(p) /\ p.obj # "none" /\ p.strand = "free" /\ p.read = "none"
        /\ p.closes = q.closes
    BY <2>1, ReturnSettles
  <2> HIDE DEF p
  <2>3. SessionOf(p) = "over"
    BY <2>2 DEF SessionOf
  <2>4. StepTo(c, p)
    BY <1>1, <1>2, <2>1, <2>2, <2>3 DEF StepTo, SessionMove, LeftBy, LeftRunning
  <2> QED BY <2>1, <2>4 DEF p
<1> QED BY <1>3, <1>4

\* HandleWrite of a failed send: only HandleWriteDangling touches a second
\* client.
LEMMA SendTaken ==
  ASSUME ClientInv, NEW c \in Client, cl[c].unsent > 0
  PROVE  /\ Settled([cl[c] EXCEPT !.unsent = @ - 1])
         /\ SessionOf([cl[c] EXCEPT !.unsent = @ - 1]) = SessionOf(cl[c])
         /\ LeftBy(cl[c], [cl[c] EXCEPT !.unsent = @ - 1])
<1> DEFINE o == cl[c]
           p == [o EXCEPT !.unsent = @ - 1]
<1>1. Settled(o) /\ o \in ClientObject /\ o.unsent - 1 \in Nat
  BY DEF ClientInv, ClientTypeOK, ClientObject
<1>2. /\ p \in ClientObject /\ SameSession(o, p) /\ p.running = o.running
      /\ p.sock = o.sock /\ p.res = o.res
  BY <1>1 DEF ClientObject, SameSession
<1> HIDE DEF p
<1>3. Settled(p)
  BY <1>1, <1>2 DEF Settled, Core, SameSession
<1>4. SessionOf(p) = SessionOf(o) /\ LeftBy(o, p)
  BY <1>2 DEF SessionOf, SameSession, LeftBy, LeftRunning
<1> QED BY <1>3, <1>4 DEF p

LEMMA HandleWriteUnsentStep ==
  ASSUME ClientInv, NEW c \in Client, HandleWriteUnsent(c)
  PROVE  \E p : StepTo(c, p) /\ Become(c, p)
<1> DEFINE q == [cl[c] EXCEPT !.unsent = @ - 1]
<1>1. Settled(q) /\ SessionOf(q) = SessionOf(cl[c])
  BY SendTaken DEF HandleWriteUnsent
<1>2. Become(c, Stop(q))
  BY DEF HandleWriteUnsent
<1> HIDE DEF q
<1>3. StepTo(c, Stop(q))
  BY <1>1, StopSettles DEF StepTo, SessionMove, LeftBy
<1> QED BY <1>2, <1>3

-----------------------------------------------------------------------------
(* The next-state relation. *)

\* Every step but that of a dangling send changes one client, or none.
LEMMA OneClientStep ==
  ASSUME ClientInv, NEW c \in Client,
         AcceptHandlerStep(c) \/ KernelStep(c) \/ StrandStep(c),
         ~HandleWriteDangling(c)
  PROVE  \E p : StepTo(c, p) /\ Become(c, p)
<1>1. CASE AcceptHandlerStep(c)
  BY <1>1, ConstructStep, OwnerReturnsStep DEF AcceptHandlerStep
<1>2. CASE KernelStep(c)
  BY <1>2, KernelStepStep
<1>3. CASE StrandStep(c)
  BY <1>3, EventRaisedStep, HeaderArrivedStep, EmptyArrivedStep,
     EventReturnsStep, HandleWriteUnsentStep DEF StrandStep
<1> QED BY <1>1, <1>2, <1>3

\* A dangling send stops at most the client that now has the memory.
LEMMA DanglingStep ==
  ASSUME ClientInv, NEW c \in Client, HandleWriteDangling(c)
  PROVE  /\ cl' \in [Client -> ClientObject]
         /\ proc' \in {"up", "crashed"}
         /\ \A e \in Client : Settled(cl'[e]) /\ SessionOf(cl'[e]) = SessionOf(cl[e])
         /\ \A e \in Client : LeftBy(cl[e], cl'[e])
<1> DEFINE o == [cl[c] EXCEPT !.unsent = @ - 1]
<1>1. Settled(o) /\ SessionOf(o) = SessionOf(cl[c]) /\ o \in ClientObject /\ LeftBy(cl[c], o)
  BY SendTaken DEF HandleWriteDangling, Settled, Core
<1>2. /\ cl \in [Client -> ClientObject] /\ proc \in {"up", "crashed"}
      /\ \A e \in Client : Settled(cl[e]) /\ LeftBy(cl[e], cl[e])
  BY DEF ClientInv, ClientTypeOK, LeftBy
<1>3. cl[c].obj = "freed"
  BY DEF HandleWriteDangling
<1>4. \/ Become(c, o)
      \/ cl' = [cl EXCEPT ![c] = o] /\ proc' = "crashed"
      \/ \E d \in Client : /\ cl[d].obj = "alive"
                          /\ cl' = [cl EXCEPT ![c] = o, ![d] = Stop(@)]
                          /\ UNCHANGED proc
  BY DEF HandleWriteDangling
<1> HIDE DEF o
<1>5. CASE cl' = [cl EXCEPT ![c] = o]
  BY <1>1, <1>2, <1>4, <1>5 DEF Become
<1>6. CASE \E d \in Client : /\ cl[d].obj = "alive"
                           /\ cl' = [cl EXCEPT ![c] = o, ![d] = Stop(@)]
                           /\ UNCHANGED proc
  <2>1. PICK d \in Client : /\ cl[d].obj = "alive"
                           /\ cl' = [cl EXCEPT ![c] = o, ![d] = Stop(@)]
                           /\ UNCHANGED proc
    BY <1>6
  <2>2. d # c
    BY <1>3, <2>1
  <2>3. /\ Settled(Stop(cl[d])) /\ SessionOf(Stop(cl[d])) = SessionOf(cl[d])
        /\ Stop(cl[d]) \in ClientObject /\ LeftBy(cl[d], Stop(cl[d]))
    BY <1>2, StopSettles DEF Settled, Core, LeftBy
  <2>4. cl' = [e \in Client |-> IF e = d THEN Stop(cl[d])
                               ELSE IF e = c THEN o ELSE cl[e]]
    BY <1>2, <2>1, <2>2
  <2> QED BY <1>1, <1>2, <2>1, <2>3, <2>4
<1> QED BY <1>4, <1>5, <1>6 DEF Become

LEMMA ClientInvInit == ClientInit => ClientInv
  BY MaxFramesIsNat DEF ClientInit, ClientInv, ClientTypeOK, Unborn, ClientObject,
     Results, Settled, Core

LEMMA ClientInvNext == ClientInv /\ [ClientNext]_clientVars => ClientInv'
<1> SUFFICES ASSUME ClientInv, [ClientNext]_clientVars PROVE ClientInv'
  OBVIOUS
<1>1. CASE UNCHANGED clientVars
  BY <1>1 DEF ClientInv, ClientTypeOK, clientVars
<1>2. CASE Crash
  BY <1>2 DEF Crash, ClientInv, ClientTypeOK
<1>3. ASSUME NEW c \in Client,
             AcceptHandlerStep(c) \/ KernelStep(c) \/ StrandStep(c)
      PROVE  ClientInv'
  <2>1. CASE HandleWriteDangling(c)
    BY <2>1, DanglingStep DEF ClientInv, ClientTypeOK
  <2>2. CASE ~HandleWriteDangling(c)
    <3>1. PICK p : StepTo(c, p) /\ Become(c, p)
      BY <1>3, <2>2, OneClientStep
    <3>2. p \in ClientObject /\ Settled(p)
      BY <3>1 DEF StepTo, Settled, Core
    <3> QED BY <3>1, <3>2 DEF ClientInv, ClientTypeOK, Become
  <2> QED BY <2>1, <2>2
<1> QED BY <1>1, <1>2, <1>3 DEF ClientNext

\* Only the end of a message may leave a session without ConnectionClosed and
\* without Stop, and not when MessageRecieved.Invoke returns.
LEMMA NeverLeft ==
  ClientInv /\ [ClientNext]_clientVars
  => \A e \in Client : LeftBy(cl[e], cl'[e])
<1> SUFFICES ASSUME ClientInv, [ClientNext]_clientVars, NEW e \in Client
             PROVE  LeftBy(cl[e], cl'[e])
  OBVIOUS
<1>1. CASE UNCHANGED clientVars \/ Crash
  BY <1>1 DEF clientVars, Crash, LeftBy
<1>2. ASSUME NEW c \in Client,
             AcceptHandlerStep(c) \/ KernelStep(c) \/ StrandStep(c)
      PROVE  LeftBy(cl[e], cl'[e])
  <2>1. CASE HandleWriteDangling(c)
    BY <2>1, DanglingStep
  <2>2. CASE ~HandleWriteDangling(c)
    <3>1. PICK p : StepTo(c, p) /\ Become(c, p)
      BY <1>2, <2>2, OneClientStep
    <3>2. cl \in [Client -> ClientObject] /\ cl' = [cl EXCEPT ![c] = p]
      BY <3>1 DEF ClientInv, ClientTypeOK, Become
    <3>3. CASE e = c
      BY <3>1, <3>2, <3>3 DEF StepTo
    <3>4. CASE e # c
      BY <3>2, <3>4 DEF LeftBy
    <3> QED BY <3>3, <3>4
  <2> QED BY <2>1, <2>2
<1> QED BY <1>1, <1>2 DEF ClientNext

LEMMA LoopNotLeft ==
  ASSUME NEW o, InHandler(o), o.closes = 0
  PROVE  ~LeftRunning(EndHandler(StartRead(o)))
<1> DEFINE p == EndHandler(StartRead(o))
<1>1. p.obj # "none" /\ p.strand = "free" /\ (p.read = "none" => ~p.running)
  BY LoopSettles
<1> HIDE DEF p
<1>2. ~LeftRunning(p)
  BY <1>1 DEF LeftRunning, SessionOf
<1> QED BY <1>2 DEF p

LEMMA ReturnsStopped ==
  ASSUME ClientInv, NEW c \in Client, MessageReturns(c)
  PROVE  ~LeftRunning(cl'[c])
<1>1. PICK q \in AfterCallback(cl[c]) : Become(c, EndHandler(StartRead(q)))
  BY DEF MessageReturns
<1>2. InHandler(cl[c]) /\ cl[c].closes = 0
  BY DEF ClientInv, ClientTypeOK, MessageReturns, InHandler, Settled, Core, ClientObject
<1>3. InHandler(q) /\ q.closes = 0
  BY <1>2, CallbackInHandler DEF SameSession
<1>4. cl'[c] = EndHandler(StartRead(q))
  BY <1>1 DEF Become, ClientInv, ClientTypeOK
<1> QED BY <1>3, <1>4, LoopNotLeft

\* The inductive invariant holds of every behaviour of the client objects: the
\* pointers, the running flag, the socket and the read operation of
\* async_tcp_client.cc agree with each other between any two handlers.
THEOREM ClientInvariant == ClientSpec => []ClientInv
  BY ClientInvInit, ClientInvNext, PTL DEF ClientSpec

\* Every field of every client object keeps its type.
THEOREM ClientTypeCorrect == ClientSpec => []ClientTypeOK
<1>1. ClientInv => ClientTypeOK
  BY DEF ClientInv
<1> QED BY <1>1, ClientInvariant, PTL

\* StartRead's shared_from_this() keeps the object alive as long as a read
\* operation or its handler may touch it.
THEOREM ReadsKeepAlive == ClientSpec => []ReadKeepsAlive
<1>1. ClientInv => ReadKeepsAlive
  BY DEF ClientInv, ReadKeepsAlive, Settled, Core
<1> QED BY <1>1, ClientInvariant, PTL

\* ConnectionClosed is raised at most once and nothing is read after it.
THEOREM ClosedComesLast == ClientSpec => []ClosedIsLast
<1>1. ClientInv => ClosedIsLast
  BY DEF ClientInv, ClosedIsLast, Settled, Core
<1> QED BY <1>1, ClientInvariant, PTL

\* Stop leaves no read behind that waits for ever.
THEOREM StopEndsReads == ClientSpec => []StoppedNeverWaits
<1>1. ClientInv => StoppedNeverWaits
  BY DEF ClientInv, StoppedNeverWaits, Settled, Core, ClientObject
<1> QED BY <1>1, ClientInvariant, PTL

-----------------------------------------------------------------------------
(* Refinement: the step of a client is a step of its session, or none. *)

Bar == [c \in Client |-> SessionOf(cl[c])]

LEMMA MoveIsSessionStep ==
  ASSUME NEW c \in Client, NEW t,
         SessionMove(Bar[c], t), Bar' = [Bar EXCEPT ![c] = t]
  PROVE  [Session!SessionNext]_Bar
<1>1. CASE t = Bar[c]
  BY <1>1 DEF Bar
<1>2. CASE t # Bar[c]
  <2>1. Session!Events(c)
    BY <1>2 DEF SessionMove, Bar, Session!Events, Session!Begin, Session!Deliver,
       Session!Resume, Session!Leave, Session!Fail, Session!Finish,
       Session!Abandon, Session!Moves
  <2> QED BY <2>1 DEF Session!SessionNext
<1> QED BY <1>1, <1>2

LEMMA SessionStep ==
  ClientInv /\ [ClientNext]_clientVars => [Session!SessionNext]_Bar
<1> SUFFICES ASSUME ClientInv, [ClientNext]_clientVars
             PROVE  [Session!SessionNext]_Bar
  OBVIOUS
<1>1. CASE UNCHANGED clientVars \/ Crash
  BY <1>1 DEF clientVars, Crash, Bar
<1>2. ASSUME NEW c \in Client,
             AcceptHandlerStep(c) \/ KernelStep(c) \/ StrandStep(c)
      PROVE  [Session!SessionNext]_Bar
  <2>1. CASE HandleWriteDangling(c)
    <3>1. \A e \in Client : SessionOf(cl'[e]) = SessionOf(cl[e])
      BY <2>1, DanglingStep
    <3>2. Bar' = Bar
      BY <3>1 DEF Bar
    <3> QED BY <3>2
  <2>2. CASE ~HandleWriteDangling(c)
    <3>1. PICK p : StepTo(c, p) /\ Become(c, p)
      BY <1>2, <2>2, OneClientStep
    <3>2. cl \in [Client -> ClientObject]
      BY DEF ClientInv, ClientTypeOK
    <3>3. Bar' = [Bar EXCEPT ![c] = SessionOf(p)]
      BY <3>1, <3>2 DEF Bar, Become
    <3>4. SessionMove(Bar[c], SessionOf(p))
      BY <3>1 DEF StepTo, Bar
    <3> QED BY <3>3, <3>4, MoveIsSessionStep
  <2> QED BY <2>1, <2>2
<1> QED BY <1>1, <1>2 DEF ClientNext

\* The client objects implement the session that ITcpClient promises to the
\* subscribers of its events.
THEOREM SessionImplemented == ClientSpec => ImplementsSession
<1>1. ClientInit => Session!SessionInit
  BY DEF ClientInit, Session!SessionInit, Unborn, SessionOf
<1>2. ClientInv /\ [ClientNext]_clientVars => [Session!SessionNext]_Bar
  BY SessionStep
<1> QED BY <1>1, <1>2, ClientInvariant, PTL
        DEF ClientSpec, ImplementsSession, Session!SessionSpec, Bar

=============================================================================
