-------------------------- MODULE ApplicationProofs --------------------------
(***************************************************************************)
(* Theorems about the running server for every number of threads, clients  *)
(* and frames.                                                             *)
(***************************************************************************)
EXTENDS Application, AsyncTcpClientProofs, FiniteSetTheorems

(***************************************************************************)
(* The inductive invariant.  Beside the properties it says which thread    *)
(* holds which client from the accept on, and that there is nothing before *)
(* the start.                                                              *)
(***************************************************************************)

\* OneAcceptChain, with quantifiers.
Pending == \E c \in Client : conn[c] = "accepted"
Handling == \E w \in Worker : Accepting(w)

Chain ==
  /\ accepts + failedAccepts <= 1
  /\ accepts + failedAccepts = 1 => ~Pending /\ ~Handling
  /\ ~Pending \/ ~Handling
  /\ \A c, d \in Client : conn[c] = "accepted" /\ conn[d] = "accepted" => c = d
  /\ \A v, w \in Worker : Accepting(v) /\ Accepting(w) => v = w

NotYet ==
  /\ main = "start" => \A w \in Worker : At(w, "off")
  /\ acceptor = "none" =>
       /\ accepts = 0 /\ failedAccepts = 0 /\ ~Pending /\ ~Handling /\ ~started

\* Thread w has the client in OnNewClientAccepted.
Holding(w) == worker[w].at \in AcceptSteps \cup OwnerSteps

Held ==
  /\ \A w \in Worker :
       Holding(w) =>
         /\ conn[worker[w].for] = "dispatched"
         /\ IF At(w, "greet") THEN cl[worker[w].for].obj = "none"
                              ELSE "owner" \in cl[worker[w].for].refs
  /\ \A v, w \in Worker :
       Holding(v) /\ Holding(w) /\ worker[v].for = worker[w].for => v = w
  /\ \A c \in Client : conn[c] \in {"new", "accepted"} => cl[c].obj = "none"

BusyForClient == \A w \in Worker : Busy(w) => worker[w].for \in Client

AppInv ==
  /\ ClientInv /\ TypeOK /\ BusyForClient
  /\ Chain /\ NotYet /\ StrandSerial /\ Held /\ AcceptsUnlessBroken

Steps == {"off", "idle", "exited"} \cup AcceptSteps \cup OwnerSteps \cup StrandSteps

\* Thread w goes to a step for c; the others stay where they are.
Turns(w, step, c) ==
  /\ worker' \in [Worker -> WorkerState]
  /\ worker'[w].at = step /\ worker'[w].for = c
  /\ \A v \in Worker \ {w} :
       worker'[v].at = worker[v].at /\ worker'[v].for = worker[v].for

LEMMA GoesTurns ==
  ASSUME worker \in [Worker -> WorkerState], NEW w \in Worker,
         NEW step \in Steps, NEW c \in Client \cup {NoClient}, Goes(w, Thread(step, c))
  PROVE  Turns(w, step, c)
<1>1. Thread(step, c) \in WorkerState
  BY DEF Thread, WorkerState, Steps
<1>2. Thread(step, c).at = step /\ Thread(step, c).for = c
  BY DEF Thread
<1> QED
  BY <1>1, <1>2 DEF Goes, Turns

LEMMA BeginAccessTurns ==
  ASSUME worker \in [Worker -> WorkerState], NEW w \in Worker,
         NEW from, NEW to \in Steps, BeginAccess(w, from, to)
  PROVE  Turns(w, to, worker[w].for)
<1> DEFINE others == {v \in Worker : worker[v].at \in MapSteps}
           next(v) == CASE v = w -> [worker[w] EXCEPT !.at = to,
                                                      !.raced = others # {}]
                        [] v # w /\ v \in others -> [worker[v] EXCEPT !.raced = TRUE]
                        [] OTHER -> worker[v]
<1>1. worker' = [v \in Worker |-> next(v)]
  BY DEF BeginAccess
<1>2. ASSUME NEW v \in Worker
      PROVE  /\ next(v) \in WorkerState
             /\ next(v).at = IF v = w THEN to ELSE worker[v].at
             /\ next(v).for = worker[v].for
  <2> DEFINE racing == others # {}
  <2>0. worker[v] \in WorkerState /\ worker[w] \in WorkerState /\ racing \in BOOLEAN
    OBVIOUS
  <2> HIDE DEF racing
  <2>1. CASE v = w
    <3>1. next(v) = [worker[w] EXCEPT !.at = to, !.raced = racing]
      BY <2>1 DEF racing
    <3> QED
      BY <2>0, <2>1, <3>1 DEF WorkerState, Steps
  <2>2. CASE v # w /\ v \in others
    BY <2>0, <2>2 DEF WorkerState
  <2>3. CASE v # w /\ v \notin others
    BY <2>0, <2>3
  <2> QED
    BY <2>1, <2>2, <2>3
<1> HIDE DEF next
<1> QED
  BY <1>1, <1>2 DEF Turns

-----------------------------------------------------------------------------
(* What the steps of a client leave alone. *)

SameHold(o, p) ==
  /\ o.obj = "none" <=> p.obj = "none"
  /\ "owner" \in o.refs <=> "owner" \in p.refs

\* The clients stay as they are for the threads.
Quiet ==
  \A e \in Client :
    /\ cl'[e].strand = cl[e].strand /\ cl'[e].closes = cl[e].closes
    /\ SameHold(cl[e], cl'[e])

\* Only c changes, from o to p.
Alone(c, o) == cl'[c] = o /\ \A e \in Client \ {c} : cl'[e] = cl[e]

LEMMA BecomeAlone ==
  ASSUME ClientTypeOK, NEW c \in Client, NEW o, Become(c, o)
  PROVE  Alone(c, o)
  BY DEF ClientTypeOK, Become, Alone

LEMMA AloneQuiet ==
  ASSUME NEW c \in Client, NEW o, Alone(c, o),
         o.strand = cl[c].strand, o.closes = cl[c].closes, SameHold(cl[c], o)
  PROVE  Quiet
  BY DEF Alone, Quiet, SameHold

LEMMA StartReadHold ==
  ASSUME NEW o \in ClientObject
  PROVE  /\ SameHold(o, StartRead(o))
         /\ StartRead(o).strand = o.strand /\ StartRead(o).closes = o.closes
  BY DEF StartRead, SameHold, ClientObject

\* The end of a handler drops no pointer but the one of the reads.
LEMMA EndHandlerHold ==
  ASSUME NEW o, Core(o), "read" \in o.refs
  PROVE  /\ SameHold(o, EndHandler(o)) /\ EndHandler(o).strand = "free"
         /\ EndHandler(o).closes = o.closes
<1> DEFINE p == [o EXCEPT !.strand = "free"]
<1>1. /\ Core(p) /\ p.read = o.read /\ p.strand = "free" /\ p.refs = o.refs
      /\ p.obj = "alive" /\ o.obj = "alive" /\ p.closes = o.closes
  BY DEF Core, ClientObject
<1>2. CASE p.read = "none"
  <2>1. EndHandler(o) = Release(p, "read")
    BY <1>2 DEF EndHandler
  <2> HIDE DEF p
  <2> QED
    BY <1>1, <2>1, ReleaseCore DEF SameHold
<1>3. CASE p.read # "none"
  <2>1. EndHandler(o) = p
    BY <1>3 DEF EndHandler
  <2> QED
    BY <1>1, <2>1 DEF SameHold
<1> QED
  BY <1>2, <1>3

LEMMA LoopHold ==
  ASSUME NEW o, InHandler(o), o.closes = 0
  PROVE  /\ SameHold(o, EndHandler(StartRead(o)))
         /\ EndHandler(StartRead(o)).strand = "free"
         /\ EndHandler(StartRead(o)).closes = 0
<1>1. o \in ClientObject /\ Core(o)
  BY DEF InHandler, Core
<1>2. Core(StartRead(o)) /\ "read" \in StartRead(o).refs
  <2>1. CASE o.running /\ o.sock = "open"
    BY <2>1 DEF StartRead, InHandler, Core, ClientObject, Results
  <2>2. CASE ~(o.running /\ o.sock = "open")
    BY <2>2 DEF StartRead, InHandler
  <2> QED
    BY <2>1, <2>2
<1> QED
  BY <1>1, <1>2, StartReadHold, EndHandlerHold DEF SameHold

LEMMA SameSessionHold ==
  ASSUME NEW o, NEW p, SameSession(o, p)
  PROVE  SameHold(o, p) /\ p.strand = o.strand /\ p.closes = o.closes
  BY DEF SameSession, SameHold

\* Steps of the kernel and handlers without an event.
LEMMA QuietSteps ==
  ASSUME ClientInv, NEW c \in Client,
         \/ KernelStep(c) \/ HeaderArrived(c) \/ EmptyArrived(c)
         \/ HandleWriteUnsent(c) \/ HandleWriteDangling(c)
  PROVE  Quiet
<1> DEFINE o == cl[c]
<1>0. /\ Settled(o) /\ Core(o) /\ o \in ClientObject /\ ClientTypeOK
  BY DEF ClientInv, ClientTypeOK, Settled
<1>1. CASE KernelStep(c)
  <2>1. PICK p : Become(c, p) /\ SameSession(o, p)
    <3>1. CASE PeerCloses(c)
      <4>1. PICK s : Become(c, [o EXCEPT !.peer = s])
        BY <3>1 DEF PeerCloses
      <4> QED
        BY <1>0, <4>1 DEF ClientObject, SameSession
    <3>2. CASE ReadGetsData(c)
      <4>1. PICK r : \/ Become(c, [o EXCEPT !.res = r])
                     \/ Become(c, [o EXCEPT !.res = r, !.frames = @ - 1])
        BY <3>2 DEF ReadGetsData
      <4> DEFINE p == [o EXCEPT !.res = r]
                 q == [o EXCEPT !.res = r, !.frames = @ - 1]
      <4>2. SameSession(o, p) /\ SameSession(o, q)
        BY <1>0 DEF ClientObject, SameSession
      <4>3. Become(c, p) \/ Become(c, q)
        BY <4>1
      <4> HIDE DEF p, q
      <4> QED
        BY <4>2, <4>3
    <3>3. CASE ReadFails(c)
      <4>1. PICK r : Become(c, [o EXCEPT !.res = r])
        BY <3>3 DEF ReadFails
      <4> QED
        BY <1>0, <4>1 DEF ClientObject, SameSession
    <3>4. CASE SendCompletes(c)
      <4>1. \/ Become(c, [o EXCEPT !.sending = @ - 1])
            \/ Become(c, [o EXCEPT !.sending = @ - 1, !.unsent = @ + 1])
        BY <3>4 DEF SendCompletes
      <4> DEFINE p == [o EXCEPT !.sending = @ - 1]
                 q == [o EXCEPT !.sending = @ - 1, !.unsent = @ + 1]
      <4>2. SameSession(o, p) /\ SameSession(o, q)
        BY <1>0 DEF ClientObject, SameSession
      <4>3. Become(c, p) \/ Become(c, q)
        BY <4>1
      <4> HIDE DEF p, q
      <4> QED
        BY <4>2, <4>3
    <3> QED
      BY <1>1, <3>1, <3>2, <3>3, <3>4 DEF KernelStep
  <2> QED
    BY <1>0, <2>1, SameSessionHold, BecomeAlone, AloneQuiet
<1>2. CASE HeaderArrived(c)
  <2>1. PICK r : Become(c, [o EXCEPT !.read = "body", !.res = r])
    BY <1>2 DEF HeaderArrived
  <2> DEFINE p == [o EXCEPT !.read = "body", !.res = r]
  <2>2. p.strand = o.strand /\ p.closes = o.closes /\ SameHold(o, p)
    BY <1>0 DEF ClientObject, SameHold
  <2>3. Become(c, p)
    BY <2>1
  <2> HIDE DEF p
  <2> QED
    BY <1>0, <2>2, <2>3, BecomeAlone, AloneQuiet
<1>3. CASE EmptyArrived(c)
  <2> DEFINE q == [o EXCEPT !.read = "none"]
             p == EndHandler(StartRead(Respond(q)))
  <2>1. o.strand = "free" /\ o.read = "header" /\ Become(c, p)
    BY <1>3 DEF EmptyArrived, ReadReady
  <2>2. /\ q \in ClientObject /\ q.read = "none" /\ q.obj = o.obj
        /\ q.refs = o.refs /\ q.strand = o.strand /\ q.closes = o.closes
        /\ q.running = o.running /\ q.sock = o.sock
    BY <1>0 DEF ClientObject
  <2> HIDE DEF q
  <2>3. InHandler(q) /\ q.closes = 0
    BY <1>0, <2>1, <2>2 DEF InHandler, Settled, Core, ClientObject
  <2>4. Core(Respond(q)) /\ SameSession(q, Respond(q))
    BY <2>3, RespondCore DEF InHandler
  <2>5. InHandler(Respond(q)) /\ Respond(q).closes = 0
    BY <2>3, <2>4, InHandlerSame DEF SameSession
  <2>6. SameHold(Respond(q), p) /\ p.strand = "free" /\ p.closes = 0
    BY <2>5, LoopHold
  <2> HIDE DEF p
  <2>7. SameHold(o, p) /\ p.closes = o.closes
    BY <2>2, <2>3, <2>4, <2>6 DEF SameHold, SameSession
  <2> QED
    BY <1>0, <2>1, <2>6, <2>7, BecomeAlone, AloneQuiet
<1>4. CASE HandleWriteUnsent(c)
  <2> DEFINE q == [o EXCEPT !.unsent = @ - 1]
  <2>1. Become(c, Stop(q)) /\ Settled(q)
    BY <1>4, SendTaken DEF HandleWriteUnsent
  <2>2. SameSession(o, q)
    BY <1>0 DEF ClientObject, SameSession
  <2> HIDE DEF q
  <2>3. SameSession(o, Stop(q))
    BY <2>1, <2>2, StopCore DEF Settled, SameSession
  <2> QED
    BY <1>0, <2>1, <2>3, SameSessionHold, BecomeAlone, AloneQuiet
<1>5. CASE HandleWriteDangling(c)
  <2> DEFINE q == [o EXCEPT !.unsent = @ - 1]
  <2>1. SameSession(o, q)
    BY <1>0 DEF ClientObject, SameSession
  <2>2. \A d \in Client : SameSession(cl[d], Stop(cl[d]))
    BY StopCore DEF ClientInv, Settled
  <2>3. cl[c].obj = "freed" /\ cl \in [Client -> ClientObject]
    BY <1>5 DEF HandleWriteDangling, ClientInv, ClientTypeOK
  <2>4. \/ cl' = [cl EXCEPT ![c] = q]
        \/ \E d \in Client : cl[d].obj = "alive" /\ cl' = [cl EXCEPT ![c] = q, ![d] = Stop(@)]
    BY <1>5 DEF HandleWriteDangling, Become
  <2> HIDE DEF q
  <2>5. ASSUME NEW e \in Client PROVE SameSession(cl[e], cl'[e])
    <3>1. CASE cl' = [cl EXCEPT ![c] = q]
      BY <2>1, <2>3, <3>1 DEF SameSession
    <3>2. ASSUME NEW d \in Client, cl[d].obj = "alive",
                 cl' = [cl EXCEPT ![c] = q, ![d] = Stop(@)]
          PROVE  SameSession(cl[e], cl'[e])
      <4>1. d # c
        BY <2>3, <3>2
      <4>2. cl'[e] = IF e = d THEN Stop(cl[d]) ELSE IF e = c THEN q ELSE cl[e]
        BY <2>3, <3>2, <4>1
      <4> QED
        BY <2>1, <2>2, <4>2 DEF SameSession
    <3> QED
      BY <2>4, <3>1, <3>2
  <2> QED
    BY <2>5, SameSessionHold DEF Quiet
<1> QED
  BY <1>1, <1>2, <1>3, <1>4, <1>5

\* An event is raised: only the strand of the client changes.
LEMMA EventRaised ==
  ASSUME ClientInv, NEW c \in Client, NEW s,
         \/ RaiseMessage(c) /\ s = "message"
         \/ RaiseClosed(c) /\ s = "closed"
  PROVE  /\ cl[c].strand = "free" /\ cl'[c].strand = s
         /\ SameHold(cl[c], cl'[c]) /\ cl[c].obj # "none"
         /\ cl[c].closes = 0 /\ cl'[c].closes = IF s = "closed" THEN 1 ELSE 0
         /\ \A e \in Client \ {c} : cl'[e] = cl[e]
<1> DEFINE k == IF s = "closed" THEN 1 ELSE 0
<1>0. /\ cl[c] \in ClientObject /\ ClientTypeOK
      /\ cl[c].closes = 0 /\ cl[c].obj # "none"
  BY DEF ClientInv, ClientTypeOK, Settled, Core, ClientObject, RaiseMessage, RaiseClosed,
     ReadReady
<1>1. PICK p : /\ Become(c, p) /\ p.strand = s /\ p.closes = k
               /\ SameHold(cl[c], p)
  <2> DEFINE p == [cl[c] EXCEPT !.read = "none", !.strand = s]
             q == [p EXCEPT !.closes = @ + 1]
  <2>1. /\ p.strand = s /\ SameHold(cl[c], p) /\ p.closes = 0
        /\ q.strand = s /\ SameHold(cl[c], q) /\ q.closes = 1
    BY <1>0 DEF ClientObject, SameHold
  <2>2. CASE RaiseMessage(c) /\ s = "message"
    <3>1. Become(c, p)
      BY <2>2 DEF RaiseMessage
    <3> HIDE DEF p, q
    <3> QED
      BY <2>1, <2>2, <3>1
  <2>3. CASE RaiseClosed(c) /\ s = "closed"
    <3>1. Become(c, q)
      BY <1>0, <2>3 DEF RaiseClosed, ClientObject
    <3> HIDE DEF p, q
    <3> QED
      BY <2>1, <2>3, <3>1
  <2> QED
    BY <2>2, <2>3
<1>2. Alone(c, p)
  BY <1>0, <1>1, BecomeAlone
<1> QED
  BY <1>0, <1>1, <1>2 DEF RaiseMessage, RaiseClosed, ReadReady, Alone

\* A subscriber returns, or throws: the strand is free again.
LEMMA EventReturns ==
  ASSUME ClientInv, NEW c \in Client,
         MessageReturns(c) \/ MessageThrows(c) \/ ClosedReturns(c)
  PROVE  /\ cl'[c].strand = "free"
         /\ SameHold(cl[c], cl'[c]) /\ cl'[c].closes = cl[c].closes
         /\ \A e \in Client \ {c} : cl'[e] = cl[e]
<1> DEFINE o == cl[c]
<1>0. Settled(o) /\ ClientTypeOK /\ o.strand \in {"message", "closed"}
  BY DEF ClientInv, MessageReturns, MessageThrows, ClosedReturns
<1>1. InHandler(o)
  BY <1>0 DEF InHandler, Settled, Core, ClientObject
<1> SUFFICES ASSUME NEW p, Become(c, p), p.strand = "free", SameHold(o, p),
                    p.closes = o.closes
             PROVE  Alone(c, p)
  <2>1. CASE MessageReturns(c)
    <3>1. PICK q \in AfterCallback(o) : Become(c, EndHandler(StartRead(q)))
      BY <2>1 DEF MessageReturns
    <3>2. InHandler(q) /\ q.closes = 0 /\ SameSession(o, q)
      BY <1>1, <2>1, CallbackInHandler DEF MessageReturns, InHandler, SameSession
    <3>3. /\ EndHandler(StartRead(q)).strand = "free"
          /\ SameHold(o, EndHandler(StartRead(q)))
          /\ EndHandler(StartRead(q)).closes = o.closes
      BY <3>2, LoopHold, SameSessionHold DEF SameHold
    <3> QED
      BY <3>1, <3>3 DEF Alone
  <2>2. CASE MessageThrows(c) \/ ClosedReturns(c)
    <3>1. PICK q : InHandler(q) /\ SameSession(o, q) /\ Become(c, EndHandler(q))
      <4>1. InHandler(Stop(o)) /\ SameSession(o, Stop(o)) /\ SameSession(o, o)
        BY <1>1, StopCore, InHandlerSame DEF InHandler, SameSession
      <4> QED
        BY <1>1, <2>2, <4>1, CallbackInHandler DEF MessageThrows, ClosedReturns
    <3>2. /\ EndHandler(q).strand = "free" /\ SameHold(o, EndHandler(q))
          /\ EndHandler(q).closes = o.closes
      BY <3>1, EndHandlerHold, SameSessionHold DEF SameHold, InHandler
    <3> QED
      BY <3>1, <3>2 DEF Alone
  <2> QED
    BY <2>1, <2>2
<1> QED
  BY <1>0, BecomeAlone

-----------------------------------------------------------------------------
(* The application gives the clients only steps that they have. *)

\* A thread that is in a subscriber of a client finds its strand in the event.
LEMMA OnStrand ==
  ASSUME AppInv, NEW w \in Worker, worker[w].at \in StrandSteps
  PROVE  /\ worker[w].for \in Client
         /\ cl[worker[w].for].strand = IF At(w, "message") THEN "message" ELSE "closed"
  BY DEF AppInv, BusyForClient, Busy, StrandSerial

\* OnMessageReceived and OnConnectionClosed are what a client allows of its
\* subscribers.
LEMMA SubscriberReturns ==
  ASSUME AppInv, NEW w \in Worker,
         OnMessageReceived(w) \/ CommandEscapes(w) \/ OnConnectionClosed(w)
  PROVE  /\ worker[w].for \in Client
         /\ \/ MessageReturns(worker[w].for) \/ MessageThrows(worker[w].for)
            \/ ClosedReturns(worker[w].for)
<1> DEFINE c == worker[w].for
<1>1. CASE OnMessageReceived(w)
  <2>1. c \in Client /\ cl[c].strand = "message"
    BY <1>1, OnStrand DEF OnMessageReceived, At, StrandSteps
  <2>2. Respond(cl[c]) \in AfterCallback(cl[c])
    BY DEF AfterCallback
  <2> QED
    BY <1>1, <2>1, <2>2 DEF OnMessageReceived, MessageReturns
<1>2. CASE CommandEscapes(w)
  <2>1. c \in Client
    BY <1>2, OnStrand DEF CommandEscapes, At, StrandSteps
  <2> QED
    BY <1>2, <2>1 DEF CommandEscapes
<1>3. CASE OnConnectionClosed(w)
  <2>1. c \in Client /\ cl[c].strand = "closed"
    BY <1>3, OnStrand DEF OnConnectionClosed, At, StrandSteps, ClosedSteps
  <2>2. \E o \in {cl[c], Stop(cl[c])} : Become(c, EndHandler(o))
    BY <1>3 DEF OnConnectionClosed
  <2> QED
    BY <2>1, <2>2 DEF ClosedReturns
<1> QED
  BY <1>1, <1>2, <1>3

LEMMA AppIsClientStep == AppInv /\ [Next]_vars => [ClientNext]_clientVars
<1> SUFFICES ASSUME AppInv, [Next]_vars PROVE [ClientNext]_clientVars
  OBVIOUS
<1>0. ASSUME proc = "up", NEW c \in Client,
             AcceptHandlerStep(c) \/ KernelStep(c) \/ StrandStep(c)
      PROVE  ClientNext
  BY <1>0 DEF ClientNext
<1>1. CASE UNCHANGED vars
  BY <1>1 DEF vars
<1> SUFFICES ASSUME Next PROVE [ClientNext]_clientVars
  BY <1>1
<1>2. proc = "up"
  BY DEF Next
<1>3. CASE MainStep \/ ConnectionArrives \/ AcceptFails
  BY <1>3 DEF MainStep, SpawnPool, StartListener, SubscribeAccepted,
     ConnectionArrives, AcceptFails, clientVars
<1>4. CASE KernelWorks
  BY <1>0, <1>2, <1>4 DEF KernelWorks
<1>5. ASSUME NEW w \in Worker, WorkerStep(w) PROVE [ClientNext]_clientVars
  <2>1. CASE TakeAcceptError(w) \/ TakeAccepted(w) \/ AcceptAgain(w) \/ RunReturns(w)
    BY <2>1 DEF TakeAcceptError, TakeAccepted, AcceptAgain, RunReturns, clientVars
  <2>2. CASE TornInvoke(w)
    BY <1>2, <2>2 DEF TornInvoke, ClientNext
  <2>3. CASE EmplaceBegin(w) \/ EraseBegin(w)
    BY <2>3 DEF EmplaceBegin, EraseBegin, BeginAccess, clientVars
  <2>4. CASE EmplaceEnd(w) \/ EraseEnd(w)
    <3>1. UNCHANGED cl /\ (UNCHANGED proc \/ proc' = "crashed")
      BY <2>4 DEF EmplaceEnd, EraseEnd, EndAccess
    <3> QED
      BY <1>2, <3>1 DEF ClientNext, Crash, clientVars
  <2>5. CASE Greet(w) \/ LeaveHandler(w)
    <3>1. worker[w].for \in Client
      BY <2>5 DEF Greet, LeaveHandler, AppInv, BusyForClient, Busy, At, AcceptSteps, OwnerSteps
    <3>2. Construct(worker[w].for) \/ OwnerReturns(worker[w].for) \/ UNCHANGED clientVars
      BY <2>5 DEF Greet, LeaveHandler
    <3> QED
      BY <1>0, <1>2, <3>1, <3>2 DEF AcceptHandlerStep
  <2>6. CASE RunQuietHandler(w) \/ TakeMessage(w) \/ TakeClosed(w)
    <3>1. PICK c \in Client : StrandStep(c)
      BY <2>6 DEF RunQuietHandler, TakeMessage, TakeClosed, StrandStep
    <3> QED
      BY <1>0, <1>2, <3>1
  <2>7. CASE OnMessageReceived(w) \/ CommandEscapes(w) \/ OnConnectionClosed(w)
    BY <1>0, <1>2, <2>7, SubscriberReturns DEF StrandStep
  <2> QED
    BY <1>5, <2>1, <2>2, <2>3, <2>4, <2>5, <2>6, <2>7 DEF WorkerStep, AcceptStep, StrandWork
<1> QED
  BY <1>3, <1>4, <1>5 DEF Next

-----------------------------------------------------------------------------
(* Types. *)

LEMMA TurnsType ==
  ASSUME AppInv, NEW w \in Worker, NEW step \in Steps, NEW c \in Client \cup {NoClient},
         Turns(w, step, c),
         step \in AcceptSteps \cup OwnerSteps \cup StrandSteps => c \in Client
  PROVE  worker' \in [Worker -> WorkerState] /\ BusyForClient'
  BY DEF AppInv, BusyForClient, Busy, Turns

LEMMA SameWorkersType ==
  ASSUME AppInv, UNCHANGED worker
  PROVE  worker' \in [Worker -> WorkerState] /\ BusyForClient'
  BY DEF AppInv, TypeOK, BusyForClient, Busy

\* Where a step of thread w takes it.
Lands(w, step, c) ==
  /\ step \in Steps /\ c \in Client \cup {NoClient} /\ Turns(w, step, c)
  /\ step \in AcceptSteps \cup OwnerSteps \cup StrandSteps => c \in Client

LEMMA GoesLands ==
  ASSUME AppInv, NEW w \in Worker, NEW step \in Steps, NEW c \in Client \cup {NoClient},
         Goes(w, Thread(step, c)),
         step \in AcceptSteps \cup OwnerSteps \cup StrandSteps => c \in Client
  PROVE  Lands(w, step, c)
  BY GoesTurns DEF Lands, AppInv, TypeOK

\* The handlers of the application that go on, and the step they take.
LEMMA AcceptLands ==
  ASSUME AppInv, NEW w \in Worker
  PROVE  /\ TakeAccepted(w) =>
              \/ UNCHANGED worker
              \/ \E c \in Client : conn[c] = "accepted" /\ Lands(w, "greet", c)
         /\ Greet(w) => \/ Lands(w, "exited", NoClient)
                        \/ Lands(w, "emplace", worker[w].for)
         /\ EmplaceBegin(w) => Lands(w, "emplacing", worker[w].for)
         /\ EmplaceEnd(w) => Lands(w, "rearm", worker[w].for)
         /\ AcceptAgain(w) => Lands(w, "release", worker[w].for)
         /\ LeaveHandler(w) => Lands(w, "idle", NoClient)
<1>0. worker \in [Worker -> WorkerState]
  BY DEF AppInv, TypeOK
<1>1. {"greet", "exited", "emplace", "emplacing", "rearm", "release", "idle"} \subseteq Steps
  BY DEF Steps, AcceptSteps, OwnerSteps
<1>2. ASSUME Busy(w) PROVE worker[w].for \in Client
  BY <1>2 DEF AppInv, BusyForClient
<1>3. TakeAccepted(w) =>
        \/ UNCHANGED worker
        \/ \E c \in Client : conn[c] = "accepted" /\ Lands(w, "greet", c)
  BY <1>1, GoesLands DEF TakeAccepted, HandleAcceptedConnections
<1>4. Greet(w) => \/ Lands(w, "exited", NoClient)
                  \/ Lands(w, "emplace", worker[w].for)
  BY <1>1, <1>2, GoesLands
     DEF Greet, At, Busy, AcceptSteps, OwnerSteps, StrandSteps, ClosedSteps
<1>5. EmplaceBegin(w) => Lands(w, "emplacing", worker[w].for)
  <2> SUFFICES ASSUME EmplaceBegin(w) PROVE Lands(w, "emplacing", worker[w].for)
    OBVIOUS
  <2>1. At(w, "emplace") /\ Turns(w, "emplacing", worker[w].for)
    BY <1>0, <1>1, BeginAccessTurns DEF EmplaceBegin, BeginAccess
  <2> QED
    BY <1>1, <1>2, <2>1 DEF Lands, At, Busy, AcceptSteps
<1>6. EmplaceEnd(w) => Lands(w, "rearm", worker[w].for)
  BY <1>1, <1>2, GoesLands DEF EmplaceEnd, EndAccess, At, Busy, AcceptSteps
<1>7. AcceptAgain(w) => Lands(w, "release", worker[w].for)
  BY <1>1, <1>2, GoesLands DEF AcceptAgain, At, Busy, AcceptSteps
<1>8. LeaveHandler(w) => Lands(w, "idle", NoClient)
  BY <1>1, GoesLands
     DEF LeaveHandler, Idle, AcceptSteps, OwnerSteps, StrandSteps, ClosedSteps
<1> QED
  BY <1>3, <1>4, <1>5, <1>6, <1>7, <1>8

LEMMA StrandLands ==
  ASSUME AppInv, NEW w \in Worker
  PROVE  /\ TakeMessage(w) =>
              \E c \in Client : RaiseMessage(c) /\ Lands(w, "message", c)
         /\ TakeClosed(w) =>
              \E c \in Client : RaiseClosed(c) /\ Lands(w, "erase", c)
         /\ EraseBegin(w) => Lands(w, "erasing", worker[w].for)
         /\ EraseEnd(w) => Lands(w, "stop", worker[w].for)
         /\ OnMessageReceived(w) \/ CommandEscapes(w) \/ OnConnectionClosed(w) =>
              Lands(w, "idle", NoClient) \/ Lands(w, "exited", NoClient)
         /\ RunReturns(w) => Lands(w, "exited", NoClient)
<1>0. worker \in [Worker -> WorkerState]
  BY DEF AppInv, TypeOK
<1>1. {"message", "erase", "erasing", "stop", "idle", "exited"} \subseteq Steps
  BY DEF Steps, StrandSteps, ClosedSteps
<1>2. {"idle", "exited"} \cap (AcceptSteps \cup OwnerSteps \cup StrandSteps) = {}
  BY DEF AcceptSteps, OwnerSteps, StrandSteps, ClosedSteps
<1>3. ASSUME worker[w].at \in StrandSteps PROVE worker[w].for \in Client
  BY <1>3, OnStrand
<1>4. TakeMessage(w) => \E c \in Client : RaiseMessage(c) /\ Lands(w, "message", c)
  BY <1>1, GoesLands DEF TakeMessage
<1>5. TakeClosed(w) => \E c \in Client : RaiseClosed(c) /\ Lands(w, "erase", c)
  BY <1>1, GoesLands DEF TakeClosed
<1>6. EraseBegin(w) => Lands(w, "erasing", worker[w].for)
  <2> SUFFICES ASSUME EraseBegin(w) PROVE Lands(w, "erasing", worker[w].for)
    OBVIOUS
  <2>1. At(w, "erase") /\ Turns(w, "erasing", worker[w].for)
    BY <1>0, <1>1, BeginAccessTurns DEF EraseBegin, BeginAccess
  <2> QED
    BY <1>1, <1>3, <2>1 DEF Lands, At, StrandSteps, ClosedSteps
<1>7. EraseEnd(w) => Lands(w, "stop", worker[w].for)
  BY <1>1, <1>3, GoesLands DEF EraseEnd, EndAccess, At, StrandSteps, ClosedSteps
<1>8. OnMessageReceived(w) \/ CommandEscapes(w) \/ OnConnectionClosed(w) =>
        Lands(w, "idle", NoClient) \/ Lands(w, "exited", NoClient)
  BY <1>1, <1>2, GoesLands DEF OnMessageReceived, CommandEscapes, OnConnectionClosed, Idle
<1>9. RunReturns(w) => Lands(w, "exited", NoClient)
  BY <1>1, <1>2, GoesLands DEF RunReturns
<1> QED
  BY <1>4, <1>5, <1>6, <1>7, <1>8, <1>9

LEMMA LandsType ==
  ASSUME AppInv, NEW w \in Worker, NEW step, NEW c, Lands(w, step, c)
  PROVE  worker' \in [Worker -> WorkerState] /\ BusyForClient'
  BY TurnsType DEF Lands

\* What the threads are doing keeps its type.
LEMMA WorkersTyped ==
  ASSUME AppInv, Next
  PROVE  worker' \in [Worker -> WorkerState] /\ BusyForClient'
<1>1. CASE SpawnPool
  <2>1. /\ Thread("off", NoClient) \in WorkerState /\ Idle \in WorkerState
        /\ Thread("off", NoClient).at = "off" /\ Idle.at = "idle"
    BY DEF Thread, Idle, WorkerState
  <2>2. \A w \in Worker : worker'[w] \in {Thread("off", NoClient), Idle}
    BY <1>1 DEF SpawnPool
  <2>3. worker' \in [Worker -> WorkerState]
    BY <1>1, <2>1 DEF SpawnPool
  <2>4. \A w \in Worker : worker'[w].at \in {"off", "idle"}
    BY <2>1, <2>2
  <2>5. BusyForClient'
    BY <2>4 DEF BusyForClient, Busy, AcceptSteps, OwnerSteps, StrandSteps, ClosedSteps
  <2> QED
    BY <2>3, <2>5
<1>2. CASE StartListener \/ SubscribeAccepted \/ ConnectionArrives \/ AcceptFails \/ KernelWorks
  BY <1>2, SameWorkersType DEF StartListener, SubscribeAccepted, ConnectionArrives,
     AcceptFails, KernelWorks, appVars
<1>3. ASSUME NEW w \in Worker, WorkerStep(w)
      PROVE  UNCHANGED worker \/ \E step, c : Lands(w, step, c)
  <2>1. CASE AcceptStep(w)
    BY <2>1, AcceptLands DEF AcceptStep, TakeAcceptError, TornInvoke, appVars
  <2>2. CASE StrandWork(w)
    BY <2>2, StrandLands DEF StrandWork, RunQuietHandler, appVars
  <2> QED
    BY <1>3, <2>1, <2>2, StrandLands DEF WorkerStep
<1> QED
  BY <1>1, <1>2, <1>3, SameWorkersType, LandsType DEF Next, MainStep

LEMMA ListenerTyped ==
  ASSUME AppInv, Next
  PROVE  ListenerTypeOK'
<1>0. ListenerTypeOK
  BY DEF AppInv, TypeOK
<1>1. CASE UNCHANGED listenerVars
  BY <1>0, <1>1 DEF listenerVars, ListenerTypeOK
<1>2. CASE StartListener
  <2>1. CASE StartSucceeds
    <3>1. accepts' \in Nat
      BY <1>0, <2>1 DEF StartSucceeds, AcceptNext, ListenerTypeOK
    <3> QED
      BY <1>0, <2>1, <3>1 DEF StartSucceeds, ListenerTypeOK
  <2>2. CASE StartFails
    BY <1>0, <2>2 DEF StartFails, ListenerTypeOK
  <2> QED
    BY <1>2, <2>1, <2>2 DEF StartListener
<1>3. CASE SubscribeAccepted
  BY <1>0, <1>3 DEF SubscribeAccepted, SubscribeBegin, SubscribeEnd, ListenerTypeOK
<1>4. CASE ConnectionArrives
  BY <1>0, <1>4 DEF ConnectionArrives, KernelAccepts, ListenerTypeOK, ConnStates
<1>5. CASE AcceptFails
  BY <1>0, <1>5 DEF AcceptFails, KernelAcceptFails, ListenerTypeOK
<1>6. ASSUME NEW w \in Worker, TakeAcceptError(w) PROVE ListenerTypeOK'
  BY <1>0, <1>6 DEF TakeAcceptError, HandleAcceptError, ListenerTypeOK
<1>7. ASSUME NEW w \in Worker, TakeAccepted(w) PROVE ListenerTypeOK'
  BY <1>0, <1>7
     DEF TakeAccepted, HandleAcceptedConnections, Invoke, ListenerTypeOK, ConnStates
<1>8. ASSUME NEW w \in Worker, AcceptAgain(w) PROVE ListenerTypeOK'
  BY <1>0, <1>8 DEF AcceptAgain, Rearm, AcceptNext, ListenerTypeOK
<1>9. ASSUME NEW w \in Worker, WorkerStep(w),
             ~TakeAcceptError(w), ~TakeAccepted(w), ~AcceptAgain(w)
      PROVE  UNCHANGED listenerVars
  BY <1>9 DEF WorkerStep, AcceptStep, StrandWork, TornInvoke, Greet, EmplaceBegin,
     EmplaceEnd, LeaveHandler, RunQuietHandler, TakeMessage, OnMessageReceived,
     CommandEscapes, TakeClosed, EraseBegin, EraseEnd, OnConnectionClosed, RunReturns,
     BeginAccess, EndAccess
<1> QED
  BY <1>1, <1>2, <1>3, <1>4, <1>5, <1>6, <1>7, <1>8, <1>9
     DEF Next, MainStep, SpawnPool, KernelWorks

LEMMA AppTyped ==
  ASSUME AppInv, Next
  PROVE  TypeOK' /\ ClientInv' /\ BusyForClient'
<1>1. ClientInv'
  BY AppIsClientStep, ClientInvNext DEF AppInv
<1>2. main' \in {"start", "failed", "init", "subscribe", "subscribing", "serving"}
  <2>0. main \in {"start", "failed", "init", "subscribe", "subscribing", "serving"}
    BY DEF AppInv, TypeOK
  <2>1. CASE MainStep
    BY <2>1 DEF MainStep, SpawnPool, StartListener, SubscribeAccepted
  <2>2. CASE ConnectionArrives \/ AcceptFails \/ KernelWorks
    BY <2>0, <2>2 DEF ConnectionArrives, AcceptFails, KernelWorks, appVars
  <2>3. ASSUME NEW w \in Worker, WorkerStep(w) PROVE UNCHANGED main
    BY <2>3 DEF WorkerStep, AcceptStep, StrandWork, TakeAcceptError, TakeAccepted,
       TornInvoke, Greet, EmplaceBegin, EmplaceEnd, AcceptAgain, LeaveHandler,
       RunQuietHandler, TakeMessage, OnMessageReceived, CommandEscapes, TakeClosed,
       EraseBegin, EraseEnd, OnConnectionClosed, RunReturns, BeginAccess, EndAccess, appVars
  <2> QED
    BY <2>0, <2>1, <2>2, <2>3 DEF Next
<1>3. clients' \subseteq Client
  <2>0. clients \subseteq Client
    BY DEF AppInv, TypeOK
  <2>1. CASE MainStep \/ ConnectionArrives \/ AcceptFails \/ KernelWorks
    BY <2>0, <2>1 DEF MainStep, SpawnPool, StartListener, SubscribeAccepted,
       ConnectionArrives, AcceptFails, KernelWorks, appVars
  <2>2. ASSUME NEW w \in Worker, EmplaceEnd(w) \/ EraseEnd(w) PROVE clients' \subseteq Client
    <3>1. worker[w].for \in Client
      BY <2>2 DEF EmplaceEnd, EraseEnd, EndAccess, AppInv, BusyForClient, Busy, At,
         AcceptSteps, StrandSteps, ClosedSteps
    <3>2. \/ UNCHANGED clients
          \/ clients' = clients \cup {worker[w].for}
          \/ clients' = clients \ {worker[w].for}
      BY <2>2 DEF EmplaceEnd, EraseEnd, EndAccess
    <3> QED
      BY <2>0, <3>1, <3>2
  <2>3. ASSUME NEW w \in Worker, WorkerStep(w), ~EmplaceEnd(w), ~EraseEnd(w)
        PROVE  UNCHANGED clients
    BY <2>3 DEF WorkerStep, AcceptStep, StrandWork, TakeAcceptError, TakeAccepted,
       TornInvoke, Greet, EmplaceBegin, AcceptAgain, LeaveHandler,
       RunQuietHandler, TakeMessage, OnMessageReceived, CommandEscapes, TakeClosed,
       EraseBegin, OnConnectionClosed, RunReturns, BeginAccess, appVars
  <2> QED
    BY <2>0, <2>1, <2>2, <2>3 DEF Next
<1> QED
  BY <1>1, <1>2, <1>3, WorkersTyped, ListenerTyped DEF TypeOK, ClientInv

-----------------------------------------------------------------------------
(* Serial events. *)

\* Nothing changes for the strands and the threads in subscribers.
SerialQuiet ==
  /\ \A e \in Client : cl'[e].strand = cl[e].strand
  /\ \A v \in Worker :
       /\ worker'[v].at \in StrandSteps <=> worker[v].at \in StrandSteps
       /\ worker[v].at \in StrandSteps =>
            /\ worker'[v].for = worker[v].for
            /\ worker'[v].at = "message" <=> worker[v].at = "message"

LEMMA SerialSame ==
  ASSUME AppInv, SerialQuiet
  PROVE  StrandSerial'
  BY OnStrand DEF AppInv, BusyForClient, StrandSerial, SerialQuiet, At

LEMMA SerialRaise ==
  ASSUME AppInv, NEW w \in Worker, NEW c \in Client, NEW step \in {"message", "erase"},
         At(w, "idle"), Turns(w, step, c),
         \/ RaiseMessage(c) /\ step = "message"
         \/ RaiseClosed(c) /\ step = "erase"
  PROVE  StrandSerial'
<1> DEFINE s == IF step = "message" THEN "message" ELSE "closed"
<1>1. /\ cl[c].strand = "free" /\ cl'[c].strand = s
      /\ \A e \in Client \ {c} : cl'[e] = cl[e]
  BY EventRaised DEF AppInv
<1>2. \A v \in Worker : worker[v].at \in StrandSteps => worker[v].for \in Client \ {c}
  <2> SUFFICES ASSUME NEW v \in Worker, worker[v].at \in StrandSteps
               PROVE  worker[v].for \in Client \ {c}
    OBVIOUS
  <2> QED
    BY <1>1, OnStrand
<1>3. worker[w].at \notin StrandSteps /\ step \in StrandSteps
  BY DEF At, StrandSteps, ClosedSteps
<1>4. s # "free"
  OBVIOUS
<1> HIDE DEF s
<1>5. \A e \in Client : cl'[e].strand # "free" =>
        \E v \in Worker : worker'[v].for = e /\ worker'[v].at \in StrandSteps
  BY <1>1, <1>3 DEF AppInv, StrandSerial, Turns
<1>6. \A v \in Worker : worker'[v].at \in StrandSteps =>
        cl'[worker'[v].for].strand = IF worker'[v].at = "message" THEN "message" ELSE "closed"
  BY <1>1, <1>2, <1>3 DEF AppInv, StrandSerial, Turns, At, s
<1>7. \A u, v \in Worker :
        /\ worker'[u].at \in StrandSteps /\ worker'[v].at \in StrandSteps
        /\ worker'[u].for = worker'[v].for
        => u = v
  BY <1>2, <1>3 DEF AppInv, StrandSerial, Turns
<1> QED
  BY <1>5, <1>6, <1>7 DEF StrandSerial, At

LEMMA SerialReturn ==
  ASSUME AppInv, NEW w \in Worker, NEW step \in {"idle", "exited"},
         Turns(w, step, NoClient),
         OnMessageReceived(w) \/ CommandEscapes(w) \/ OnConnectionClosed(w)
  PROVE  StrandSerial'
<1> DEFINE c == worker[w].for
<1>1. worker[w].at \in StrandSteps /\ step \notin StrandSteps
  BY DEF OnMessageReceived, CommandEscapes, OnConnectionClosed, At, StrandSteps, ClosedSteps
<1>2. /\ c \in Client /\ cl'[c].strand = "free"
      /\ \A e \in Client \ {c} : cl'[e] = cl[e]
  BY SubscriberReturns, EventReturns DEF AppInv
<1>3. \A v \in Worker \ {w} : worker[v].at \in StrandSteps => worker[v].for \in Client \ {c}
  <2> SUFFICES ASSUME NEW v \in Worker \ {w}, worker[v].at \in StrandSteps
               PROVE  worker[v].for \in Client \ {c}
    OBVIOUS
  <2> QED
    BY <1>1, OnStrand DEF AppInv, StrandSerial
<1>4. \A e \in Client : cl'[e].strand # "free" =>
        \E v \in Worker : worker'[v].for = e /\ worker'[v].at \in StrandSteps
  BY <1>2 DEF AppInv, StrandSerial, Turns
<1>5. \A v \in Worker : worker'[v].at \in StrandSteps =>
        cl'[worker'[v].for].strand = IF worker'[v].at = "message" THEN "message" ELSE "closed"
  BY <1>1, <1>2, <1>3 DEF AppInv, StrandSerial, Turns, At
<1>6. \A u, v \in Worker :
        /\ worker'[u].at \in StrandSteps /\ worker'[v].at \in StrandSteps
        /\ worker'[u].for = worker'[v].for
        => u = v
  BY <1>1, <1>3 DEF AppInv, StrandSerial, Turns
<1> QED
  BY <1>4, <1>5, <1>6 DEF StrandSerial, At

\* The client is made: the accept handler owns it.
LEMMA ConstructHold ==
  ASSUME ClientInv, NEW c \in Client, Construct(c)
  PROVE  /\ cl[c].obj = "none" /\ cl'[c].obj # "none"
         /\ "owner" \in cl'[c].refs /\ cl'[c].strand = cl[c].strand
         /\ cl'[c].closes = 0
         /\ \A e \in Client \ {c} : cl'[e] = cl[e]
<1>1. PICK b \in FreeBlocks(c) :
        Become(c, Start([cl[c] EXCEPT !.obj = "alive", !.blk = b, !.refs = {"owner"}]))
  BY DEF Construct
<1>2. b \in Client
  BY <1>1 DEF FreeBlocks, ClientInv, ClientTypeOK, ClientObject
<1> DEFINE o == [cl[c] EXCEPT !.obj = "alive", !.blk = b, !.refs = {"owner"}]
           p == [o EXCEPT !.running = TRUE]
<1>3. /\ cl[c].obj = "none" /\ cl[c] \in ClientObject /\ ClientTypeOK
      /\ cl[c].closes = 0
  BY DEF Construct, ClientInv, ClientTypeOK, Settled, Core
<1>4. /\ o \in ClientObject /\ o.obj = "alive" /\ o.refs = {"owner"}
      /\ o.strand = cl[c].strand /\ o.closes = 0
  BY <1>2, <1>3 DEF ClientObject
<1> HIDE DEF o
<1>5. /\ p \in ClientObject /\ p.obj = "alive" /\ p.refs = {"owner"}
      /\ p.strand = o.strand /\ p.closes = 0
  BY <1>4 DEF ClientObject
<1>6. Start(o) = o \/ Start(o) = StartRead(p)
  BY DEF Start
<1> HIDE DEF p
<1>7. /\ Start(o).obj # "none" /\ "owner" \in Start(o).refs
      /\ Start(o).strand = cl[c].strand /\ Start(o).closes = 0
  BY <1>4, <1>5, <1>6, StartReadHold DEF SameHold
<1>8. Alone(c, Start(o))
  BY <1>1, <1>3, BecomeAlone DEF o
<1> QED
  BY <1>3, <1>7, <1>8 DEF Alone

LEMMA OwnerReturnsHold ==
  ASSUME ClientInv, NEW c \in Client, OwnerReturns(c)
  PROVE  /\ cl'[c].strand = cl[c].strand
         /\ cl[c].obj # "none" /\ cl'[c].obj # "none"
         /\ cl'[c].closes = cl[c].closes
         /\ \A e \in Client \ {c} : cl'[e] = cl[e]
<1> DEFINE p == Release(cl[c], "owner")
<1>1. Core(cl[c]) /\ cl[c].obj = "alive" /\ ClientTypeOK
  BY DEF ClientInv, Settled, Core, OwnerReturns
<1>2. p.strand = cl[c].strand /\ p.obj # "none" /\ p.closes = cl[c].closes
  BY <1>1, ReleaseCore
<1> HIDE DEF p
<1>3. Alone(c, p)
  BY <1>1, BecomeAlone DEF OwnerReturns, p
<1> QED
  BY <1>1, <1>2, <1>3 DEF Alone

LEMMA OffSerial ==
  ASSUME AppInv, NEW w \in Worker, NEW step, NEW c, Turns(w, step, c),
         worker[w].at \notin StrandSteps, step \notin StrandSteps,
         \A e \in Client : cl'[e].strand = cl[e].strand
  PROVE  StrandSerial'
<1>1. SerialQuiet
  BY DEF Turns, SerialQuiet
<1> QED
  BY <1>1, SerialSame

LEMMA AcceptSerial ==
  ASSUME AppInv, NEW w \in Worker, AcceptStep(w)
  PROVE  StrandSerial'
<1>0. ({"idle", "exited", "greet", "emplace", "emplacing", "rearm", "release"})
        \cap StrandSteps = {}
  BY DEF StrandSteps, ClosedSteps
<1>1. CASE \/ TakeAcceptError(w) \/ TornInvoke(w)
           \/ TakeAccepted(w) /\ UNCHANGED worker
  <2>1. UNCHANGED <<cl, worker>>
    BY <1>1 DEF TakeAcceptError, TornInvoke, TakeAccepted, Crash, clientVars, appVars
  <2>2. SerialQuiet
    BY <2>1 DEF SerialQuiet
  <2> QED
    BY <2>2, SerialSame
<1>2. CASE TakeAccepted(w) /\ ~UNCHANGED worker
  <2>1. PICK c \in Client : Lands(w, "greet", c)
    BY <1>2, AcceptLands
  <2>2. At(w, "idle") /\ UNCHANGED cl
    BY <1>2 DEF TakeAccepted, clientVars
  <2> QED
    BY <1>0, <2>1, <2>2, OffSerial DEF Lands, At
<1>3. CASE Greet(w)
  <2>1. worker[w].for \in Client
    BY <1>3 DEF Greet, AppInv, BusyForClient, Busy, At, AcceptSteps
  <2>2. \A e \in Client : cl'[e].strand = cl[e].strand
    BY <1>3, <2>1, ConstructHold DEF Greet, AppInv, clientVars
  <2>3. At(w, "greet") /\ (Lands(w, "exited", NoClient) \/ Lands(w, "emplace", worker[w].for))
    BY <1>3, AcceptLands DEF Greet
  <2> QED
    BY <1>0, <2>2, <2>3, OffSerial DEF Lands, At
<1>4. CASE EmplaceBegin(w) \/ EmplaceEnd(w) \/ AcceptAgain(w)
  <2>1. UNCHANGED cl /\ worker[w].at \in {"emplace", "emplacing", "rearm"}
    BY <1>4 DEF EmplaceBegin, EmplaceEnd, AcceptAgain, BeginAccess, EndAccess, At, clientVars
  <2>2. PICK step \in {"emplacing", "rearm", "release"} : Lands(w, step, worker[w].for)
    BY <1>4, AcceptLands
  <2> QED
    BY <1>0, <2>1, <2>2, OffSerial DEF Lands
<1>5. CASE LeaveHandler(w)
  <2>1. worker[w].for \in Client /\ At(w, "release") /\ Lands(w, "idle", NoClient)
    BY <1>5, AcceptLands DEF LeaveHandler, AppInv, BusyForClient, Busy, At, OwnerSteps
  <2>2. \A e \in Client : cl'[e].strand = cl[e].strand
    BY <1>5, <2>1, OwnerReturnsHold DEF LeaveHandler, AppInv
  <2> QED
    BY <1>0, <2>1, <2>2, OffSerial DEF Lands, At
<1> QED
  BY <1>1, <1>2, <1>3, <1>4, <1>5 DEF AcceptStep

LEMMA StrandWorkSerial ==
  ASSUME AppInv, NEW w \in Worker, StrandWork(w)
  PROVE  StrandSerial'
<1>1. CASE RunQuietHandler(w)
  <2>1. Quiet /\ UNCHANGED worker
    BY <1>1, QuietSteps DEF RunQuietHandler, AppInv, appVars
  <2>2. SerialQuiet
    BY <2>1 DEF SerialQuiet, Quiet
  <2> QED
    BY <2>2, SerialSame
<1>2. CASE TakeMessage(w) \/ TakeClosed(w)
  <2>1. At(w, "idle")
    BY <1>2 DEF TakeMessage, TakeClosed
  <2>2. CASE TakeMessage(w)
    <3>1. PICK c \in Client : RaiseMessage(c) /\ Turns(w, "message", c)
      BY <2>2, StrandLands DEF Lands
    <3> QED
      BY <2>1, <3>1, SerialRaise
  <2>3. CASE TakeClosed(w)
    <3>1. PICK c \in Client : RaiseClosed(c) /\ Turns(w, "erase", c)
      BY <2>3, StrandLands DEF Lands
    <3> QED
      BY <2>1, <3>1, SerialRaise
  <2> QED
    BY <1>2, <2>2, <2>3
<1>3. CASE EraseBegin(w) \/ EraseEnd(w)
  <2>1. UNCHANGED cl /\ worker[w].at \in {"erase", "erasing"}
    BY <1>3 DEF EraseBegin, EraseEnd, BeginAccess, EndAccess, At, clientVars
  <2>2. PICK step \in {"erasing", "stop"} : Turns(w, step, worker[w].for)
    BY <1>3, StrandLands DEF Lands
  <2>3. SerialQuiet
    BY <2>1, <2>2 DEF SerialQuiet, Turns, StrandSteps, ClosedSteps
  <2> QED
    BY <2>3, SerialSame
<1>4. CASE OnMessageReceived(w) \/ CommandEscapes(w) \/ OnConnectionClosed(w)
  BY <1>4, StrandLands, SerialReturn DEF Lands
<1> QED
  BY <1>1, <1>2, <1>3, <1>4 DEF StrandWork

LEMMA SerialNext ==
  ASSUME AppInv, Next
  PROVE  StrandSerial'
<1>1. CASE SpawnPool
  <2>1. \A w \in Worker : worker[w].at = "off" /\ worker'[w].at \in {"off", "idle"}
    BY <1>1 DEF SpawnPool, AppInv, NotYet, At, Thread, Idle
  <2>2. UNCHANGED cl
    BY <1>1 DEF SpawnPool, clientVars
  <2>3. SerialQuiet
    BY <2>1, <2>2 DEF SerialQuiet, StrandSteps, ClosedSteps
  <2> QED
    BY <2>3, SerialSame
<1>2. CASE StartListener \/ SubscribeAccepted \/ ConnectionArrives \/ AcceptFails
  <2>1. UNCHANGED <<cl, worker>>
    BY <1>2 DEF StartListener, SubscribeAccepted, ConnectionArrives, AcceptFails,
       clientVars, appVars
  <2>2. SerialQuiet
    BY <2>1 DEF SerialQuiet
  <2> QED
    BY <2>2, SerialSame
<1>3. CASE KernelWorks
  <2>1. Quiet /\ UNCHANGED worker
    BY <1>3, QuietSteps DEF KernelWorks, AppInv, appVars
  <2>2. SerialQuiet
    BY <2>1 DEF SerialQuiet, Quiet
  <2> QED
    BY <2>2, SerialSame
<1>4. ASSUME NEW w \in Worker, RunReturns(w) PROVE StrandSerial'
  <2>1. At(w, "idle") /\ UNCHANGED cl /\ Turns(w, "exited", NoClient)
    BY <1>4, StrandLands DEF RunReturns, Lands, clientVars
  <2> QED
    BY <2>1, OffSerial DEF At, StrandSteps, ClosedSteps
<1> QED
  BY <1>1, <1>2, <1>3, <1>4, AcceptSerial, StrandWorkSerial DEF Next, MainStep, WorkerStep

-----------------------------------------------------------------------------
(* The chain of accepts, and who holds a client that was accepted. *)

HoldSteps == AcceptSteps \cup OwnerSteps

\* A thread holds the same client as before, on the same side of Construct and
\* of AcceptNext.
HoldsOn(v) ==
  /\ worker'[v].at \in HoldSteps <=> worker[v].at \in HoldSteps
  /\ worker'[v].at \in AcceptSteps <=> worker[v].at \in AcceptSteps
  /\ worker'[v].at = "greet" <=> worker[v].at = "greet"
  /\ worker[v].at \in HoldSteps => worker'[v].for = worker[v].for

\* A step aside of the accepts.
Aside ==
  /\ UNCHANGED <<started, accepts, failedAccepts, acceptError, conn>>
  /\ acceptor' = "none" => acceptor = "none"
  /\ main' = "start" => main = "start" /\ \A v \in Worker : At(v, "off") => At(v, "off")'
  /\ \A e \in Client : SameHold(cl[e], cl'[e])
  /\ \A v \in Worker : HoldsOn(v)

\* What is said of the accepts.
AcceptInv == Chain /\ NotYet /\ Held /\ AcceptsUnlessBroken

LEMMA HoldingClient ==
  ASSUME AppInv, NEW w \in Worker, Holding(w)
  PROVE  worker[w].for \in Client
  BY DEF AppInv, BusyForClient, Busy, Holding

LEMMA AsideKeeps ==
  ASSUME AppInv, Aside
  PROVE  AcceptInv'
<1>1. Chain'
  BY DEF AppInv, Chain, Aside, HoldsOn, Pending, Handling, Accepting
<1>2. NotYet'
  BY DEF AppInv, NotYet, Aside, HoldsOn, Pending, Handling, Accepting
<1>3. Held'
  <2>1. ASSUME NEW w \in Worker, Holding(w)'
        PROVE  /\ conn'[worker'[w].for] = "dispatched"
               /\ IF worker'[w].at = "greet" THEN cl'[worker'[w].for].obj = "none"
                                             ELSE "owner" \in cl'[worker'[w].for].refs
    <3>1. Holding(w) /\ worker'[w].for = worker[w].for
      BY <2>1 DEF Aside, HoldsOn, Holding, HoldSteps
    <3>2. worker[w].for \in Client
      BY <3>1, HoldingClient
    <3> QED
      BY <3>1, <3>2 DEF AppInv, Held, Aside, HoldsOn, SameHold, At
  <2>2. ASSUME NEW v \in Worker, NEW w \in Worker, Holding(v)', Holding(w)',
               worker'[v].for = worker'[w].for
        PROVE  v = w
    BY <2>2 DEF AppInv, Held, Aside, HoldsOn, Holding, HoldSteps
  <2>3. \A c \in Client : conn'[c] \in {"new", "accepted"} => cl'[c].obj = "none"
    BY DEF AppInv, Held, Aside, SameHold
  <2> QED
    BY <2>1, <2>2, <2>3 DEF Held, At
<1>4. AcceptsUnlessBroken'
  <2>1. \A c \in Client : Greeted(c)' => Greeted(c)
    <3> SUFFICES ASSUME NEW c \in Client, Greeted(c)' PROVE Greeted(c)
      OBVIOUS
    <3> QED
      BY DEF Greeted, Aside, HoldsOn, SameHold, At, HoldSteps, AcceptSteps
  <2>2. Handling <=> Handling'
    BY DEF Handling, Accepting, Aside, HoldsOn
  <2> QED
    BY <2>1, <2>2 DEF AppInv, AcceptsUnlessBroken, Broken, Aside, Handling
<1> QED
  BY <1>1, <1>2, <1>3, <1>4 DEF AcceptInv

\* After the start something of the chain exists.
LEMMA Started ==
  ASSUME AppInv, UNCHANGED <<acceptor, main>>,
         accepts > 0 \/ failedAccepts > 0 \/ Pending \/ Handling,
         \/ UNCHANGED worker
         \/ \E w \in Worker : ~At(w, "off")
  PROVE  NotYet'
<1>1. acceptor # "none"
  BY DEF AppInv, TypeOK, ListenerTypeOK, NotYet
<1>2. main = "start" => UNCHANGED worker
  BY DEF AppInv, NotYet
<1> QED
  BY <1>1, <1>2 DEF AppInv, NotYet, At

\* With a connection that waits for its handler, or a handler that runs, no
\* accept is outstanding.
LEMMA NoAccept ==
  ASSUME AppInv, Pending \/ Handling
  PROVE  accepts = 0 /\ failedAccepts = 0
  BY DEF AppInv, TypeOK, ListenerTypeOK, Chain

LEMMA StartKeeps ==
  ASSUME AppInv, StartListener, StartSucceeds
  PROVE  AcceptInv'
<1>1. /\ accepts = 0 /\ failedAccepts = 0 /\ ~Pending /\ ~Handling
      /\ accepts' = 1 /\ failedAccepts' = 0
      /\ UNCHANGED <<conn, worker, cl>>
      /\ acceptor' # "none" /\ main' # "start"
  BY DEF StartListener, StartSucceeds, AcceptNext, AppInv, NotYet, clientVars
<1>2. Chain'
  BY <1>1 DEF Chain, Pending, Handling, Accepting
<1>3. NotYet'
  BY <1>1 DEF NotYet
<1>4. Held'
  BY <1>1 DEF AppInv, Held, Holding, At
<1>5. AcceptsUnlessBroken'
  BY <1>1 DEF AcceptsUnlessBroken, Broken
<1> QED
  BY <1>2, <1>3, <1>4, <1>5 DEF AcceptInv

LEMMA AcceptErrorKeeps ==
  ASSUME AppInv, NEW w \in Worker, TakeAcceptError(w)
  PROVE  AcceptInv'
<1>0. accepts \in Nat /\ failedAccepts \in Nat
  BY DEF AppInv, TypeOK, ListenerTypeOK
<1>1. /\ failedAccepts > 0 /\ failedAccepts' = failedAccepts - 1 /\ acceptError' = TRUE
      /\ UNCHANGED <<acceptor, accepts, conn, worker, cl, main>>
  BY DEF TakeAcceptError, HandleAcceptError, clientVars, appVars
<1>2. Chain'
  BY <1>0, <1>1 DEF AppInv, Chain, Pending, Handling, Accepting
<1>3. NotYet'
  BY <1>1, Started
<1>4. Held'
  BY <1>1 DEF AppInv, Held, Holding, At
<1>5. AcceptsUnlessBroken'
  BY <1>1 DEF AcceptsUnlessBroken, Broken
<1> QED
  BY <1>2, <1>3, <1>4, <1>5 DEF AcceptInv

\* A connection arrives, or the accept fails: the chain goes on with it.
LEMMA ArrivalKeeps ==
  ASSUME AppInv, ConnectionArrives \/ AcceptFails
  PROVE  AcceptInv'
<1>0. accepts \in Nat /\ failedAccepts \in Nat /\ conn \in [Client -> ConnStates]
  BY DEF AppInv, TypeOK, ListenerTypeOK
<1>1. /\ accepts > 0 /\ UNCHANGED <<acceptor, started, acceptError, worker, cl, main>>
  BY DEF ConnectionArrives, AcceptFails, KernelAccepts, KernelAcceptFails, clientVars, appVars
<1>2. accepts = 1 /\ failedAccepts = 0 /\ ~Pending /\ ~Handling
  BY <1>0, <1>1 DEF AppInv, Chain
<1>3. NotYet'
  BY <1>1, Started
<1>4. CASE ConnectionArrives
  <2>0. PICK c \in Client : KernelAccepts(c)
    BY <1>4 DEF ConnectionArrives
  <2>1. /\ conn[c] = "new" /\ accepts' = 0
        /\ conn' = [conn EXCEPT ![c] = "accepted"]
        /\ failedAccepts' = 0
    BY <1>2, <2>0 DEF KernelAccepts
  <2>2. \A e \in Client : conn'[e] = IF e = c THEN "accepted" ELSE conn[e]
    BY <1>0, <2>1
  <2>3. Chain'
    BY <1>1, <1>2, <2>1, <2>2 DEF Chain, Pending, Handling, Accepting
  <2>4. Held'
    <3>1. \A w \in Worker : Holding(w) => worker[w].for \in Client \ {c}
      BY <2>1, HoldingClient DEF AppInv, Held
    <3> QED
      BY <1>1, <2>1, <2>2, <3>1 DEF AppInv, Held, Holding, At
  <2>5. AcceptsUnlessBroken'
    BY <2>2 DEF AcceptsUnlessBroken, Broken
  <2> QED
    BY <1>3, <2>3, <2>4, <2>5 DEF AcceptInv
<1>5. CASE AcceptFails
  <2>1. accepts' = 0 /\ failedAccepts' = 1 /\ UNCHANGED conn
    BY <1>2, <1>5 DEF AcceptFails, KernelAcceptFails
  <2>2. Chain'
    BY <1>1, <1>2, <2>1 DEF Chain, Pending, Handling, Accepting
  <2>3. Held'
    BY <1>1, <2>1 DEF AppInv, Held, Holding, At
  <2>4. AcceptsUnlessBroken'
    BY <2>1 DEF AcceptsUnlessBroken, Broken
  <2> QED
    BY <1>3, <2>2, <2>3, <2>4 DEF AcceptInv
<1> QED
  BY <1>4, <1>5

LEMMA AcceptedKeeps ==
  ASSUME AppInv, NEW w \in Worker, TakeAccepted(w)
  PROVE  AcceptInv'
<1>0. conn \in [Client -> ConnStates] /\ worker \in [Worker -> WorkerState]
  BY DEF AppInv, TypeOK, ListenerTypeOK
<1>1. PICK c \in Client, fate \in {"dispatched", "dropped"} :
        /\ conn[c] = "accepted" /\ conn' = [conn EXCEPT ![c] = fate]
        /\ \/ fate = "dispatched" /\ Goes(w, Thread("greet", c))
           \/ fate = "dropped" /\ UNCHANGED worker
  BY DEF TakeAccepted, HandleAcceptedConnections, Invoke
<1>2. /\ At(w, "idle")
      /\ UNCHANGED <<acceptor, started, accepts, failedAccepts, acceptError, cl, main>>
  BY DEF TakeAccepted, HandleAcceptedConnections, Invoke, clientVars
<1>3. /\ Pending /\ ~Handling /\ accepts = 0 /\ failedAccepts = 0
      /\ \A e \in Client : conn[e] = "accepted" => e = c
  BY <1>1, NoAccept DEF AppInv, Chain, Pending
<1>4. \A e \in Client : conn'[e] = IF e = c THEN fate ELSE conn[e]
  BY <1>0, <1>1
<1>5. ~Pending'
  BY <1>1, <1>3, <1>4 DEF Pending
<1>6. NotYet'
  BY <1>2, <1>3, Started DEF At
<1>7. \A v \in Worker : Holding(v) => worker[v].for \in Client \ {c}
  BY <1>1, HoldingClient DEF AppInv, Held
<1>8. CASE fate = "dispatched" /\ Goes(w, Thread("greet", c))
  <2>1. Turns(w, "greet", c)
    BY <1>0, <1>8, GoesTurns DEF Steps, AcceptSteps
  <2>2. "greet" \in AcceptSteps /\ worker[w].at \notin HoldSteps
    BY <1>2 DEF At, HoldSteps, AcceptSteps, OwnerSteps
  <2>3. \A u, v \in Worker : Accepting(u)' /\ Accepting(v)' => u = v
    BY <1>3, <2>1 DEF Handling, Accepting, Turns
  <2>4. Chain'
    BY <1>2, <1>3, <1>5, <2>3 DEF Chain, Pending
  <2>5. Held'
    <3>1. cl[c].obj = "none"
      BY <1>1 DEF AppInv, Held
    <3>2. \A v \in Worker \ {w} :
            /\ worker'[v].at = worker[v].at /\ worker'[v].for = worker[v].for
            /\ Holding(v) => worker[v].for \in Client \ {c}
      BY <1>7, <2>1 DEF Turns
    <3>3. worker'[w].at = "greet" /\ worker'[w].for = c
      BY <2>1 DEF Turns
    <3>4. \A v \in Worker :
            Holding(v)' =>
              /\ conn'[worker'[v].for] = "dispatched"
              /\ IF worker'[v].at = "greet" THEN cl'[worker'[v].for].obj = "none"
                                            ELSE "owner" \in cl'[worker'[v].for].refs
      BY <1>2, <1>4, <1>8, <3>1, <3>2, <3>3 DEF AppInv, Held, Holding, At
    <3>5. \A u, v \in Worker :
            Holding(u)' /\ Holding(v)' /\ worker'[u].for = worker'[v].for => u = v
      BY <3>2, <3>3 DEF AppInv, Held, Holding
    <3>6. \A e \in Client : conn'[e] \in {"new", "accepted"} => cl'[e].obj = "none"
      BY <1>2, <1>4, <1>8 DEF AppInv, Held
    <3> QED
      BY <3>4, <3>5, <3>6 DEF Held, At
  <2>6. AcceptsUnlessBroken'
    BY <2>1, <2>2 DEF AcceptsUnlessBroken, Accepting, Turns
  <2> QED
    BY <1>6, <2>4, <2>5, <2>6 DEF AcceptInv
<1>9. CASE fate = "dropped" /\ UNCHANGED worker
  <2>1. Chain'
    BY <1>2, <1>3, <1>5, <1>9 DEF Chain, Pending, Handling, Accepting
  <2>2. Held'
    <3>1. \A v \in Worker :
            Holding(v)' =>
              /\ conn'[worker'[v].for] = "dispatched"
              /\ IF worker'[v].at = "greet" THEN cl'[worker'[v].for].obj = "none"
                                            ELSE "owner" \in cl'[worker'[v].for].refs
      BY <1>2, <1>4, <1>7, <1>9 DEF AppInv, Held, Holding, At
    <3>2. \A e \in Client : conn'[e] \in {"new", "accepted"} => cl'[e].obj = "none"
      BY <1>2, <1>4, <1>9 DEF AppInv, Held
    <3> QED
      BY <1>9, <3>1, <3>2 DEF AppInv, Held, Holding, At
  <2>3. AcceptsUnlessBroken'
    BY <1>4, <1>9 DEF AcceptsUnlessBroken, Broken
  <2> QED
    BY <1>6, <2>1, <2>2, <2>3 DEF AcceptInv
<1> QED
  BY <1>1, <1>8, <1>9

LEMMA GreetKeeps ==
  ASSUME AppInv, NEW w \in Worker, Greet(w)
  PROVE  AcceptInv'
<1> DEFINE c == worker[w].for
<1>0. worker \in [Worker -> WorkerState]
  BY DEF AppInv, TypeOK
<1>1. /\ At(w, "greet") /\ Holding(w) /\ Accepting(w)
      /\ UNCHANGED <<acceptor, started, accepts, failedAccepts, acceptError, conn, main>>
  BY DEF Greet, listenerVars, At, Holding, Accepting, AcceptSteps
<1>2. /\ c \in Client /\ conn[c] = "dispatched" /\ cl[c].obj = "none"
      /\ \A v \in Worker \ {w} : Holding(v) => worker[v].for \in Client \ {c}
  BY <1>1, HoldingClient DEF AppInv, Held
<1>3. Handling /\ accepts = 0 /\ failedAccepts = 0 /\ ~Pending
      /\ \A v \in Worker : Accepting(v) => v = w
  BY <1>1, NoAccept DEF AppInv, Chain, Handling
<1>4. NotYet'
  BY <1>1, <1>3, Started DEF At
<1>5. PICK step \in {"exited", "emplace"} :
        /\ \E d \in Client \cup {NoClient} : Lands(w, step, d)
        /\ step = "exited" => UNCHANGED clientVars
        /\ step = "emplace" => Construct(c) /\ Lands(w, step, c)
  <2>1. CASE UNCHANGED clientVars /\ Goes(w, Thread("exited", NoClient))
    <3>1. Lands(w, "exited", NoClient)
      BY <2>1, GoesLands
         DEF Steps, AcceptSteps, OwnerSteps, StrandSteps, ClosedSteps
    <3> QED
      BY <2>1, <3>1
  <2>2. CASE Construct(c) /\ Goes(w, Thread("emplace", c))
    <3>1. Lands(w, "emplace", c)
      BY <1>2, <2>2, GoesLands DEF Steps, AcceptSteps
    <3> QED
      BY <1>2, <2>2, <3>1
  <2> QED
    BY <2>1, <2>2 DEF Greet
<1>6. PICK d : Turns(w, step, d) /\ (step = "emplace" => d = c)
  BY <1>5 DEF Lands
<1>7. /\ worker'[w].at = step /\ worker'[w].for = d
      /\ \A v \in Worker \ {w} :
           worker'[v].at = worker[v].at /\ worker'[v].for = worker[v].for
  BY <1>6 DEF Turns
<1>8. /\ \A e \in Client \ {c} : cl'[e] = cl[e]
      /\ step = "exited" => cl'[c].obj = "none"
      /\ step = "emplace" => cl'[c].obj # "none" /\ "owner" \in cl'[c].refs
  BY <1>2, <1>5, ConstructHold DEF AppInv, clientVars
<1>9. "exited" \notin HoldSteps /\ "emplace" \in AcceptSteps /\ "greet" # step
  BY DEF HoldSteps, AcceptSteps, OwnerSteps
<1>10. Chain'
  <2>1. \A v \in Worker : Accepting(v)' => v = w
    BY <1>3, <1>7 DEF Accepting
  <2>2. ~Pending'
    BY <1>1, <1>3 DEF Pending
  <2> QED
    BY <1>1, <1>3, <2>1, <2>2 DEF Chain, Pending
<1>11. Held'
  <2>1. \A v \in Worker :
          Holding(v)' =>
            /\ conn'[worker'[v].for] = "dispatched"
            /\ IF worker'[v].at = "greet" THEN cl'[worker'[v].for].obj = "none"
                                          ELSE "owner" \in cl'[worker'[v].for].refs
    <3>1. ASSUME NEW v \in Worker \ {w}, Holding(v)'
          PROVE  /\ conn'[worker'[v].for] = "dispatched"
                 /\ IF worker'[v].at = "greet" THEN cl'[worker'[v].for].obj = "none"
                                               ELSE "owner" \in cl'[worker'[v].for].refs
      <4>1. Holding(v) /\ worker[v].for \in Client \ {c}
        BY <1>2, <1>7, <3>1 DEF Holding
      <4> QED
        BY <1>1, <1>7, <1>8, <4>1 DEF AppInv, Held, At
    <3>2. Holding(w)' => step = "emplace" /\ d = c
      BY <1>6, <1>7, <1>9 DEF Holding, HoldSteps
    <3> QED
      BY <1>1, <1>2, <1>7, <1>8, <3>1, <3>2
  <2>2. \A u, v \in Worker :
          Holding(u)' /\ Holding(v)' /\ worker'[u].for = worker'[v].for => u = v
    <3>1. \A v \in Worker \ {w} :
            Holding(v)' => Holding(v) /\ worker'[v].for \in Client \ {c}
      BY <1>2, <1>7 DEF Holding
    <3>2. Holding(w)' => worker'[w].for = c
      BY <1>6, <1>7, <1>9 DEF Holding, HoldSteps
    <3> QED
      BY <1>7, <3>1, <3>2 DEF AppInv, Held
  <2>3. \A e \in Client : conn'[e] \in {"new", "accepted"} => cl'[e].obj = "none"
    BY <1>1, <1>2, <1>8 DEF AppInv, Held
  <2> QED
    BY <2>1, <2>2, <2>3 DEF Held, At
<1>12. AcceptsUnlessBroken'
  <2>1. CASE step = "emplace"
    BY <1>7, <1>9, <2>1 DEF AcceptsUnlessBroken, Accepting
  <2>2. CASE step = "exited"
    <3>1. PICK e \in Client : e = c
      BY <1>2
    <3>2. \A v \in Worker : worker'[v].at # "greet"
      BY <1>3, <1>7, <2>2 DEF Accepting, AcceptSteps
    <3>3. cl'[e].obj = "none" /\ conn'[e] = "dispatched"
      BY <1>1, <1>2, <1>8, <2>2, <3>1
    <3>4. ~Greeted(e)'
      BY <3>2, <3>3 DEF Greeted, At
    <3> QED
      BY <3>3, <3>4 DEF AcceptsUnlessBroken, Broken
  <2> QED
    BY <1>5, <2>1, <2>2
<1> QED
  BY <1>4, <1>10, <1>11, <1>12 DEF AcceptInv

\* AcceptNext hands the chain on: the thread keeps the client, not the chain.
LEMMA AcceptAgainKeeps ==
  ASSUME AppInv, NEW w \in Worker, AcceptAgain(w)
  PROVE  AcceptInv'
<1>1. /\ At(w, "rearm") /\ Accepting(w) /\ accepts' = accepts + 1
      /\ UNCHANGED <<acceptor, started, failedAccepts, acceptError, conn, cl, main>>
  BY DEF AcceptAgain, Rearm, AcceptNext, At, Accepting, AcceptSteps, clientVars
<1>2. Handling /\ accepts = 0 /\ failedAccepts = 0 /\ ~Pending
      /\ \A v \in Worker : Accepting(v) => v = w
  BY <1>1, NoAccept DEF AppInv, Chain, Handling
<1>3. Turns(w, "release", worker[w].for)
  BY AcceptLands DEF Lands
<1>4. NotYet'
  BY <1>1, <1>2, Started DEF At
<1>5. Chain'
  <2>1. ~Handling'
    BY <1>2, <1>3 DEF Handling, Accepting, Turns, AcceptSteps
  <2>2. accepts' = 1 /\ failedAccepts' = 0 /\ ~Pending'
    BY <1>1, <1>2 DEF Pending
  <2> QED
    BY <2>1, <2>2 DEF Chain, Pending, Handling
<1>6. Held'
  <2>1. \A v \in Worker : /\ worker'[v].for = worker[v].for
                          /\ Holding(v)' <=> Holding(v)
                          /\ worker'[v].at = "greet" <=> worker[v].at = "greet"
    BY <1>1, <1>3 DEF Turns, Holding, At, AcceptSteps, OwnerSteps
  <2> QED
    BY <1>1, <2>1 DEF AppInv, Held, At
<1>7. AcceptsUnlessBroken'
  BY <1>1, <1>2 DEF AcceptsUnlessBroken, Broken
<1> QED
  BY <1>4, <1>5, <1>6, <1>7 DEF AcceptInv

LEMMA LeaveKeeps ==
  ASSUME AppInv, NEW w \in Worker, LeaveHandler(w)
  PROVE  AcceptInv'
<1> DEFINE c == worker[w].for
<1>1. /\ At(w, "release") /\ Holding(w) /\ c \in Client
      /\ UNCHANGED <<listenerVars, main>>
  BY HoldingClient DEF LeaveHandler, At, Holding, OwnerSteps
<1>2. Turns(w, "idle", NoClient)
  BY AcceptLands DEF Lands
<1>3. /\ cl[c].obj # "none" /\ cl'[c].obj # "none"
      /\ \A e \in Client \ {c} : cl'[e] = cl[e]
  BY <1>1, OwnerReturnsHold DEF LeaveHandler, AppInv
<1>4. \A v \in Worker \ {w} : Holding(v) => worker[v].for \in Client \ {c}
  BY <1>1, HoldingClient DEF AppInv, Held
<1>5. \A v \in Worker : /\ Accepting(v)' <=> Accepting(v)
                        /\ At(v, "greet")' <=> At(v, "greet")
                        /\ Accepting(v) => worker'[v].for = worker[v].for
  BY <1>1, <1>2 DEF Turns, Accepting, At, AcceptSteps
<1>6. \A v \in Worker :
        Holding(v)' => /\ v # w /\ Holding(v)
                       /\ worker'[v].at = worker[v].at /\ worker'[v].for = worker[v].for
  BY <1>2 DEF Turns, Holding, AcceptSteps, OwnerSteps
<1>7. Chain'
  BY <1>1, <1>5 DEF AppInv, Chain, Pending, Handling, listenerVars
<1>8. NotYet'
  <2>1. main # "start"
    BY <1>1 DEF AppInv, NotYet, At
  <2> QED
    BY <1>1, <1>5, <2>1 DEF AppInv, NotYet, Pending, Handling, listenerVars
<1>9. Held'
  <2>1. \A v \in Worker :
          Holding(v)' =>
            /\ conn'[worker'[v].for] = "dispatched"
            /\ IF worker'[v].at = "greet" THEN cl'[worker'[v].for].obj = "none"
                                          ELSE "owner" \in cl'[worker'[v].for].refs
    BY <1>1, <1>3, <1>4, <1>6 DEF AppInv, Held, At, listenerVars
  <2>2. \A u, v \in Worker :
          Holding(u)' /\ Holding(v)' /\ worker'[u].for = worker'[v].for => u = v
    BY <1>6 DEF AppInv, Held
  <2>3. \A e \in Client : conn'[e] \in {"new", "accepted"} => cl'[e].obj = "none"
    BY <1>1, <1>3 DEF AppInv, Held, listenerVars
  <2> QED
    BY <2>1, <2>2, <2>3 DEF Held, At
<1>10. AcceptsUnlessBroken'
  <2>1. \A e \in Client : Greeted(e)' => Greeted(e)
    <3> SUFFICES ASSUME NEW e \in Client, Greeted(e)' PROVE Greeted(e)
      OBVIOUS
    <3> QED
      BY <1>3, <1>5 DEF Greeted, At, Accepting, AcceptSteps
  <2> QED
    BY <1>1, <1>5, <2>1 DEF AppInv, AcceptsUnlessBroken, Broken, listenerVars
<1> QED
  BY <1>7, <1>8, <1>9, <1>10 DEF AcceptInv

-----------------------------------------------------------------------------
(* The steps aside of the accepts. *)

\* Steps of a thread that it takes between "idle", the subscribers and the end.
LEMMA ElsewhereHolds ==
  ASSUME NEW w \in Worker, NEW step, NEW c, Turns(w, step, c),
         worker[w].at \notin HoldSteps, step \notin HoldSteps
  PROVE  \A v \in Worker : HoldsOn(v)
  BY DEF Turns, HoldsOn, HoldSteps, AcceptSteps

LEMMA WorkerAside ==
  ASSUME AppInv, NEW w \in Worker, ~At(w, "off"), UNCHANGED <<main, listenerVars>>,
         \A e \in Client : SameHold(cl[e], cl'[e]),
         \A v \in Worker : HoldsOn(v)
  PROVE  AcceptInv'
<1>1. main # "start"
  BY DEF AppInv, NotYet
<1>2. Aside
  BY <1>1 DEF Aside, listenerVars
<1> QED
  BY <1>2, AsideKeeps

LEMMA SameClientsHold ==
  ASSUME UNCHANGED cl
  PROVE  \A e \in Client : SameHold(cl[e], cl'[e])
  BY DEF SameHold

LEMMA SameWorkersHold ==
  ASSUME UNCHANGED worker
  PROVE  \A v \in Worker : HoldsOn(v)
  BY DEF HoldsOn

LEMMA EmplaceKeeps ==
  ASSUME AppInv, NEW w \in Worker, EmplaceBegin(w) \/ EmplaceEnd(w)
  PROVE  AcceptInv'
<1>1. /\ UNCHANGED <<cl, main, listenerVars>> /\ worker[w].at \in {"emplace", "emplacing"}
  BY DEF EmplaceBegin, EmplaceEnd, BeginAccess, EndAccess, At, clientVars
<1>2. PICK step \in {"emplacing", "rearm"} : Turns(w, step, worker[w].for)
  BY AcceptLands DEF Lands
<1>3. \A v \in Worker : HoldsOn(v)
  BY <1>1, <1>2 DEF Turns, HoldsOn, HoldSteps, AcceptSteps, OwnerSteps
<1> QED
  BY <1>1, <1>3, WorkerAside, SameClientsHold DEF At

LEMMA StrandWorkKeeps ==
  ASSUME AppInv, NEW w \in Worker, StrandWork(w) \/ RunReturns(w)
  PROVE  AcceptInv'
<1>0. HoldSteps \cap ({"idle", "exited", "message", "erase", "erasing", "stop"}) = {}
  BY DEF HoldSteps, AcceptSteps, OwnerSteps
<1>1. /\ UNCHANGED <<main, listenerVars>>
      /\ worker[w].at \in {"idle", "message", "erase", "erasing", "stop"}
  BY DEF StrandWork, RunQuietHandler, TakeMessage, TakeClosed, EraseBegin, EraseEnd,
     OnMessageReceived, CommandEscapes, OnConnectionClosed, RunReturns, BeginAccess,
     EndAccess, At, appVars
<1>2. \A v \in Worker : HoldsOn(v)
  <2>1. CASE RunQuietHandler(w)
    BY <2>1, SameWorkersHold DEF RunQuietHandler, appVars
  <2>2. CASE ~RunQuietHandler(w)
    <3>1. PICK step \in {"idle", "exited", "message", "erase", "erasing", "stop"} :
            \E c : Turns(w, step, c)
      BY <2>2, StrandLands DEF StrandWork, Lands
    <3> QED
      BY <1>0, <1>1, <3>1, ElsewhereHolds
  <2> QED
    BY <2>1, <2>2
<1>3. \A e \in Client : SameHold(cl[e], cl'[e])
  <2>1. CASE RunQuietHandler(w)
    BY <2>1, QuietSteps DEF RunQuietHandler, AppInv, Quiet
  <2>2. CASE TakeMessage(w) \/ TakeClosed(w)
    <3>1. PICK c \in Client : RaiseMessage(c) \/ RaiseClosed(c)
      BY <2>2 DEF TakeMessage, TakeClosed
    <3>2. SameHold(cl[c], cl'[c]) /\ \A e \in Client \ {c} : cl'[e] = cl[e]
      BY <3>1, EventRaised DEF AppInv
    <3> QED
      BY <3>2 DEF SameHold
  <2>3. CASE EraseBegin(w) \/ EraseEnd(w) \/ RunReturns(w)
    BY <2>3, SameClientsHold DEF EraseBegin, EraseEnd, BeginAccess, EndAccess,
       RunReturns, clientVars
  <2>4. CASE OnMessageReceived(w) \/ CommandEscapes(w) \/ OnConnectionClosed(w)
    <3>1. PICK c \in Client : c = worker[w].for
      BY <2>4, SubscriberReturns
    <3>2. SameHold(cl[c], cl'[c]) /\ \A e \in Client \ {c} : cl'[e] = cl[e]
      BY <2>4, <3>1, SubscriberReturns, EventReturns DEF AppInv
    <3> QED
      BY <3>2 DEF SameHold
  <2> QED
    BY <2>1, <2>2, <2>3, <2>4 DEF StrandWork
<1> QED
  BY <1>1, <1>2, <1>3, WorkerAside DEF At

LEMMA MainAsideKeeps ==
  ASSUME AppInv, \/ SpawnPool \/ SubscribeAccepted \/ KernelWorks
                 \/ StartListener /\ StartFails
  PROVE  AcceptInv'
<1>1. CASE SpawnPool
  <2>1. /\ UNCHANGED <<cl, listenerVars>> /\ main' # "start"
        /\ \A v \in Worker : worker[v].at = "off" /\ worker'[v].at \in {"off", "idle"}
    BY <1>1 DEF SpawnPool, AppInv, NotYet, At, Thread, Idle, clientVars
  <2>2. \A v \in Worker : HoldsOn(v)
    BY <2>1 DEF HoldsOn, HoldSteps, AcceptSteps, OwnerSteps
  <2>3. Aside
    BY <2>1, <2>2, SameClientsHold DEF Aside, listenerVars
  <2> QED
    BY <2>3, AsideKeeps
<1>2. CASE SubscribeAccepted \/ (StartListener /\ StartFails)
  <2>1. /\ UNCHANGED <<cl, worker, started, accepts, failedAccepts, acceptError, conn>>
        /\ main' # "start"
        /\ acceptor' = "none" => acceptor = "none"
    BY <1>2 DEF SubscribeAccepted, SubscribeBegin, SubscribeEnd, StartListener, StartFails,
       StartSucceeds, clientVars
  <2>2. Aside
    BY <2>1, SameClientsHold, SameWorkersHold DEF Aside
  <2> QED
    BY <2>2, AsideKeeps
<1>3. CASE KernelWorks
  <2>1. Quiet /\ UNCHANGED <<worker, main, listenerVars>>
    BY <1>3, QuietSteps DEF KernelWorks, AppInv, appVars
  <2>2. Aside
    BY <2>1, SameWorkersHold DEF Aside, Quiet, listenerVars, At
  <2> QED
    BY <2>2, AsideKeeps
<1> QED
  BY <1>1, <1>2, <1>3

\* A torn Invoke changes nothing but the process.
LEMMA TornKeeps ==
  ASSUME AppInv, NEW w \in Worker, TornInvoke(w)
  PROVE  AcceptInv'
<1>1. UNCHANGED <<cl, worker, main, listenerVars>> /\ ~At(w, "off")
  BY DEF TornInvoke, Crash, appVars, At
<1> QED
  BY <1>1, WorkerAside, SameClientsHold, SameWorkersHold

LEMMA AcceptInvNext ==
  ASSUME AppInv, Next
  PROVE  AcceptInv'
<1>1. CASE MainStep
  BY <1>1, MainAsideKeeps, StartKeeps DEF MainStep, StartListener
<1>2. ASSUME NEW w \in Worker, WorkerStep(w) PROVE AcceptInv'
  BY <1>2, AcceptErrorKeeps, AcceptedKeeps, TornKeeps, GreetKeeps, EmplaceKeeps,
     AcceptAgainKeeps, LeaveKeeps, StrandWorkKeeps DEF WorkerStep, AcceptStep
<1>3. CASE ConnectionArrives \/ AcceptFails \/ KernelWorks
  BY <1>3, ArrivalKeeps, MainAsideKeeps
<1> QED
  BY <1>1, <1>2, <1>3 DEF Next

-----------------------------------------------------------------------------
(* The theorems. *)

LEMMA AppInvInit == Init => AppInv
<1> SUFFICES ASSUME Init PROVE AppInv
  OBVIOUS
<1>1. ClientInv
  BY ClientInvInit DEF Init
<1>2. /\ \A w \in Worker : worker[w] = Thread("off", NoClient)
      /\ \A w \in Worker : worker[w].at = "off"
  BY DEF Init, Thread
<1>3. TypeOK
  <2>1. Thread("off", NoClient) \in WorkerState
    BY DEF Thread, WorkerState
  <2>2. worker \in [Worker -> WorkerState]
    BY <2>1 DEF Init
  <2>3. ListenerTypeOK
    BY DEF Init, ListenerInit, ListenerTypeOK, ConnStates
  <2> QED
    BY <1>1, <2>2, <2>3 DEF Init, TypeOK, ClientInv
<1>4. \A w \in Worker : ~Busy(w) /\ ~Holding(w) /\ ~Accepting(w)
                        /\ worker[w].at \notin StrandSteps
  BY <1>2 DEF Busy, Holding, Accepting, AcceptSteps, OwnerSteps, StrandSteps, ClosedSteps
<1>5. /\ accepts = 0 /\ failedAccepts = 0 /\ ~Pending /\ started = FALSE
      /\ \A c \in Client : conn[c] = "new" /\ cl[c].obj = "none" /\ cl[c].strand = "free"
  BY DEF Init, ListenerInit, ClientInit, Unborn, Pending
<1>6. Chain /\ NotYet
  BY <1>2, <1>4, <1>5 DEF Chain, NotYet, Pending, Handling, At
<1>7. Held /\ BusyForClient
  BY <1>4, <1>5 DEF Held, BusyForClient
<1>8. StrandSerial /\ AcceptsUnlessBroken
  BY <1>4, <1>5 DEF StrandSerial, AcceptsUnlessBroken
<1> QED
  BY <1>1, <1>3, <1>6, <1>7, <1>8 DEF AppInv

LEMMA AppInvNext == AppInv /\ [Next]_vars => AppInv'
<1>1. AppInv /\ Next => AppInv'
  <2> SUFFICES ASSUME AppInv, Next PROVE AppInv'
    OBVIOUS
  <2> QED
    BY AppTyped, SerialNext, AcceptInvNext DEF AppInv, AcceptInv
<1>2. AppInv /\ UNCHANGED vars => AppInv'
  BY DEF vars, clientVars, listenerVars, appVars, AppInv, ClientInv, ClientTypeOK, TypeOK,
     ListenerTypeOK, BusyForClient, Busy, Chain, Pending, Handling, Accepting, NotYet, At,
     StrandSerial, Held, Holding, AcceptsUnlessBroken, Broken, Greeted
<1> QED
  BY <1>1, <1>2

\* The inductive invariant of the server: which thread holds which client, from
\* the accept to the end of the handler (src/application.cc), and the chain.
THEOREM AppInvariant == Spec => []AppInv
  BY AppInvInit, AppInvNext, PTL DEF Spec

\* Every variable of the server keeps its type.
THEOREM AppTypeCorrect == Spec => []TypeOK
<1>1. AppInv => TypeOK
  BY DEF AppInv
<1> QED
  BY <1>1, AppInvariant, PTL

LEMMA OneChainInv == AppInv => OneAcceptChain
<1> SUFFICES ASSUME AppInv PROVE OneAcceptChain
  OBVIOUS
<1>1. {c \in Client : conn[c] = "accepted"} = {} <=> ~Pending
  BY DEF Pending
<1>2. {w \in Worker : Accepting(w)} = {} <=> ~Handling
  BY DEF Handling
<1> QED
  BY <1>1, <1>2 DEF AppInv, Chain, OneAcceptChain

\* One chain of accepts, with any number of threads: OnNewClientAccepted needs
\* no strand of its own.
THEOREM OneChain == Spec => []OneAcceptChain
  BY OneChainInv, AppInvariant, PTL

\* The chain ends only for an accept error, a connection before the
\* subscription, or a remote_endpoint() that throws.
THEOREM ChainUnbroken == Spec => []AcceptsUnlessBroken
<1>1. AppInv => AcceptsUnlessBroken
  BY DEF AppInv
<1> QED
  BY <1>1, AppInvariant, PTL

\* The strand runs the events of a client one at a time, with any number of
\* threads in io_context::run.
THEOREM EventsSerial == Spec => []StrandSerial
<1>1. AppInv => StrandSerial
  BY DEF AppInv
<1> QED
  BY <1>1, AppInvariant, PTL

LEMMA HoldersInv == AppInv => HandlersHoldClient
<1> SUFFICES ASSUME AppInv, NEW w \in Worker,
                    worker[w].at \in OwnerSteps \cup StrandSteps
             PROVE  cl[worker[w].for].obj = "alive"
  BY DEF HandlersHoldClient
<1>1. worker[w].for \in Client /\ Settled(cl[worker[w].for])
  BY DEF AppInv, BusyForClient, Busy, ClientInv
<1>2. CASE worker[w].at \in OwnerSteps
  <2>1. Holding(w) /\ ~At(w, "greet")
    BY <1>2 DEF Holding, At, OwnerSteps
  <2>2. "owner" \in cl[worker[w].for].refs
    BY <2>1 DEF AppInv, Held
  <2> QED
    BY <1>1, <2>2 DEF Settled, Core
<1>3. CASE worker[w].at \in StrandSteps
  BY <1>1, <1>3, OnStrand DEF Settled, Core
<1> QED
  BY <1>2, <1>3

\* OnNewClientAccepted, OnMessageReceived and OnConnectionClosed never work on a
\* client that was freed.
THEOREM HandlersHold == Spec => []HandlersHoldClient
  BY HoldersInv, AppInvariant, PTL

\* The application gives its clients only the steps of AsyncTcpClient, so that
\* the theorems about ClientSpec are about the server.
THEOREM ClientImplemented == Spec => ImplementsClient
<1>1. Init => ClientInit
  BY DEF Init
<1>2. AppInv /\ [Next]_vars => [ClientNext]_clientVars
  BY AppIsClientStep
<1> QED
  BY <1>1, <1>2, AppInvariant, PTL DEF Spec, ClientSpec, ImplementsClient

\* So a subscriber in the server sees the session that ITcpClient promises.
THEOREM SessionsInServer == Spec => ImplementsSession
  BY ClientImplemented, SessionImplemented DEF ImplementsClient

-----------------------------------------------------------------------------
(* How a session ends without ConnectionClosed and without Stop. *)

\* The strand of a client changes only under the subscriber of that client that
\* returns, or when an event is raised on a free strand.
LEMMA MessageLeft ==
  ASSUME AppInv, [Next]_vars, NEW c \in Client,
         cl[c].strand = "message", cl'[c].strand = "free"
  PROVE  \E w \in Worker :
           /\ worker[w].for = c
           /\ OnMessageReceived(w) \/ CommandEscapes(w)
<1>1. ~Quiet
  BY DEF Quiet
<1>2. ~UNCHANGED cl
  OBVIOUS
<1>3. PICK w \in Worker : WorkerStep(w)
  <2>1. ~KernelWorks
    BY <1>1, QuietSteps DEF KernelWorks, AppInv
  <2> QED
    BY <1>2, <2>1 DEF Next, vars, clientVars, MainStep, SpawnPool, StartListener,
       SubscribeAccepted, ConnectionArrives, AcceptFails
<1>4. ~AcceptStep(w)
  <2>1. CASE Greet(w) \/ LeaveHandler(w)
    <3>1. PICK d \in Client : d = worker[w].for
      BY <2>1 DEF Greet, LeaveHandler, AppInv, BusyForClient, Busy, At, AcceptSteps,
         OwnerSteps
    <3>2. UNCHANGED cl \/ Construct(d) \/ OwnerReturns(d)
      BY <2>1, <3>1 DEF Greet, LeaveHandler, clientVars
    <3>3. cl'[c].strand = cl[c].strand
      BY <3>2, ConstructHold, OwnerReturnsHold DEF AppInv
    <3> QED
      BY <3>3
  <2> QED
    BY <1>2, <2>1 DEF AcceptStep, TakeAcceptError, TakeAccepted, TornInvoke, Crash,
       EmplaceBegin, EmplaceEnd, BeginAccess, EndAccess, AcceptAgain, clientVars
<1>5. ~TakeMessage(w) /\ ~TakeClosed(w)
  <2>1. ASSUME NEW d \in Client, RaiseMessage(d) \/ RaiseClosed(d) PROVE FALSE
    <3>1. cl[d].strand = "free" /\ \A e \in Client \ {d} : cl'[e] = cl[e]
      BY <2>1, EventRaised DEF AppInv
    <3> QED
      BY <3>1
  <2> QED
    BY <2>1 DEF TakeMessage, TakeClosed
<1>6. ~RunQuietHandler(w)
  BY <1>1, QuietSteps DEF RunQuietHandler, AppInv
<1>7. OnMessageReceived(w) \/ CommandEscapes(w) \/ OnConnectionClosed(w)
  BY <1>2, <1>3, <1>4, <1>5, <1>6
     DEF WorkerStep, StrandWork, RunReturns, EraseBegin, EraseEnd, BeginAccess, EndAccess,
         clientVars
<1>8. worker[w].for = c
  <2>1. PICK d \in Client : d = worker[w].for
    BY <1>7, SubscriberReturns
  <2>2. \A e \in Client \ {d} : cl'[e] = cl[e]
    BY <1>7, <2>1, SubscriberReturns, EventReturns DEF AppInv
  <2> QED
    BY <2>1, <2>2
<1>9. ~OnConnectionClosed(w)
  BY <1>8, OnStrand DEF OnConnectionClosed, At, StrandSteps, ClosedSteps
<1> QED
  BY <1>7, <1>8, <1>9

\* Only a command that throws past OnMessageReceived leaves a client running.
LEMMA LeftByException ==
  ASSUME AppInv, [Next]_vars, NEW c \in Client, LeftRunning(cl'[c])
  PROVE  LeftRunning(cl[c]) \/ ExitsIn(c)
<1>1. LeftBy(cl[c], cl'[c])
  BY AppIsClientStep, NeverLeft DEF AppInv
<1>2. SUFFICES ASSUME cl[c].strand = "message" PROVE ExitsIn(c)
  BY <1>1 DEF LeftBy
<1>3. cl'[c].strand = "free"
  <2>1. cl[c].obj # "none"
    BY <1>2 DEF AppInv, ClientInv, Settled, Core
  <2>2. cl'[c] \in ClientObject
    BY AppIsClientStep, ClientInvNext DEF AppInv, ClientInv, ClientTypeOK
  <2> QED
    BY <2>2 DEF LeftRunning, SessionOf, ClientObject
<1>4. PICK w \in Worker : /\ worker[w].for = c
                          /\ OnMessageReceived(w) \/ CommandEscapes(w)
  BY <1>2, <1>3, MessageLeft
<1>5. ~OnMessageReceived(w)
  <2>1. SUFFICES ASSUME OnMessageReceived(w) PROVE FALSE
    OBVIOUS
  <2>2. Respond(cl[c]) \in AfterCallback(cl[c])
    BY DEF AfterCallback
  <2>3. MessageReturns(c)
    BY <1>2, <1>4, <2>1, <2>2 DEF OnMessageReceived, MessageReturns
  <2> QED
    BY <2>3, ReturnsStopped DEF AppInv
<1>6. CommandEscapes(w)
  BY <1>4, <1>5
<1>7. At(w, "message") /\ At(w, "exited")'
  BY <1>6, GoesTurns DEF CommandEscapes, Turns, Steps, At, AppInv, TypeOK
<1> QED
  BY <1>4, <1>7 DEF ExitsIn

-----------------------------------------------------------------------------
(* One thread (--threads 1): what clients_ holds. *)

Sole(w) == \A v \in Worker \ {w} : At(v, "off")

\* The client was started and its ConnectionClosed was not raised.
Unclosed(c) == cl[c].obj # "none" /\ cl[c].closes = 0

NobodyLeft == \A d \in Client : ~LeftRunning(cl[d])

\* Between Start and emplace a client is missing in clients_, and from its
\* ConnectionClosed to erase it is still there.
ExactFor(w) ==
  LET c == worker[w].for
  IN  /\ ~worker[w].raced
      /\ worker[w].at \in {"emplace", "emplacing"} => Unclosed(c) /\ c \notin clients
      /\ worker[w].at \in {"erase", "erasing"} => ~Unclosed(c)
      /\ \A d \in Client :
           \/ d = c /\ worker[w].at \in {"emplace", "emplacing", "erase", "erasing"}
           \/ d \in clients <=> Unclosed(d)

SoleExact ==
  \A w \in Worker : Sole(w) /\ ~At(w, "exited") => ExactFor(w) /\ NobodyLeft

\* Between handlers that is all there is to say.
LEMMA RestExact ==
  ASSUME NEW w \in Worker, ~worker'[w].raced,
         worker'[w].at \notin {"emplace", "emplacing", "erase", "erasing"},
         \A d \in Client : d \in clients' <=> cl'[d].obj # "none" /\ cl'[d].closes = 0
  PROVE  ExactFor(w)'
  BY DEF ExactFor, Unclosed

\* A thread that runs was launched, and one that has left run() stays out.
LEMMA Awake ==
  ASSUME NEW w \in Worker, WorkerStep(w)
  PROVE  worker[w].at \notin {"off", "exited"}
  BY DEF WorkerStep, AcceptStep, StrandWork, TakeAcceptError, TakeAccepted, TornInvoke,
     Greet, EmplaceBegin, EmplaceEnd, AcceptAgain, LeaveHandler, RunQuietHandler,
     TakeMessage, OnMessageReceived, CommandEscapes, TakeClosed, EraseBegin, EraseEnd,
     OnConnectionClosed, RunReturns, BeginAccess, EndAccess, At

LEMMA WakesOnce ==
  ASSUME AppInv, NEW w \in Worker, WorkerStep(w), ~UNCHANGED worker
  PROVE  /\ worker[w].at \notin {"off", "exited"}
         /\ worker'[w].at # "off"
         /\ \A v \in Worker \ {w} : worker'[v].at = worker[v].at
<1>1. worker[w].at \notin {"off", "exited"}
  BY Awake
<1>2. PICK step : step # "off" /\ \E c : Turns(w, step, c)
  <2>1. CASE AcceptStep(w)
    BY <2>1, AcceptLands DEF AcceptStep, TakeAcceptError, TornInvoke, appVars, Lands
  <2>2. CASE StrandWork(w)
    BY <2>2, StrandLands DEF StrandWork, RunQuietHandler, appVars, Lands
  <2>3. CASE RunReturns(w)
    BY <2>3, StrandLands DEF Lands
  <2> QED
    BY <2>1, <2>2, <2>3 DEF WorkerStep
<1> QED
  BY <1>1, <1>2 DEF Turns

\* With nobody else in clients_ an access does not race.
LEMMA CalmSteps ==
  ASSUME AppInv, NEW w \in Worker, WorkerStep(w), Sole(w), ~worker[w].raced
  PROVE  ~worker'[w].raced
<1>0. worker \in [Worker -> WorkerState]
  BY DEF AppInv, TypeOK
<1>1. ASSUME NEW step, NEW c, Goes(w, Thread(step, c)) PROVE ~worker'[w].raced
  BY <1>0, <1>1 DEF Goes, Thread
<1>2. ASSUME NEW from \in {"emplace", "erase"}, NEW to, BeginAccess(w, from, to)
      PROVE  ~worker'[w].raced
  <2> DEFINE others == {v \in Worker : worker[v].at \in MapSteps}
  <2>1. others = {}
    BY <1>2 DEF BeginAccess, Sole, At, MapSteps
  <2>2. worker'[w] = [worker[w] EXCEPT !.at = to, !.raced = others # {}]
    BY <1>0, <1>2 DEF BeginAccess
  <2> HIDE DEF others
  <2>3. worker'[w] = [worker[w] EXCEPT !.at = to, !.raced = FALSE]
    BY <2>1, <2>2
  <2> QED
    BY <1>0, <2>3 DEF WorkerState
<1>3. CASE AcceptStep(w)
  <2>1. \/ UNCHANGED worker
        \/ \E step, c : Goes(w, Thread(step, c))
        \/ BeginAccess(w, "emplace", "emplacing")
    BY <1>3 DEF AcceptStep, TakeAcceptError, TakeAccepted, TornInvoke, Greet, EmplaceBegin,
       EmplaceEnd, EndAccess, AcceptAgain, LeaveHandler, Idle, appVars
  <2> QED
    BY <1>1, <1>2, <2>1
<1>4. CASE StrandWork(w) \/ RunReturns(w)
  <2>1. \/ UNCHANGED worker
        \/ \E step, c : Goes(w, Thread(step, c))
        \/ BeginAccess(w, "erase", "erasing")
    BY <1>4 DEF StrandWork, RunQuietHandler, TakeMessage, TakeClosed, EraseBegin, EraseEnd,
       EndAccess, OnMessageReceived, CommandEscapes, OnConnectionClosed, RunReturns, Idle,
       appVars
  <2> QED
    BY <1>1, <1>2, <2>1
<1> QED
  BY <1>3, <1>4 DEF WorkerStep

LEMMA AcceptExact ==
  ASSUME AppInv, NEW w \in Worker, AcceptStep(w), Sole(w), ExactFor(w),
         worker'[w].at # "exited"
  PROVE  ExactFor(w)'
<1> DEFINE AtRest == worker[w].at \notin {"emplace", "emplacing", "erase", "erasing"}
<1>0. ~worker[w].raced /\ ~worker'[w].raced
  BY CalmSteps DEF WorkerStep, ExactFor
<1>1. ASSUME AtRest PROVE \A d \in Client : d \in clients <=> Unclosed(d)
  BY <1>1 DEF ExactFor
<1>2. CASE UNCHANGED <<cl, clients, worker>>
  BY <1>2 DEF ExactFor, Unclosed
<1>3. CASE TakeAccepted(w) /\ ~UNCHANGED worker
  <2>1. /\ worker'[w].at = "greet" /\ AtRest /\ UNCHANGED <<cl, clients>>
    BY <1>3, AcceptLands DEF TakeAccepted, At, Lands, Turns, clientVars
  <2> QED
    BY <1>0, <1>1, <2>1, RestExact DEF Unclosed
<1>4. CASE Greet(w)
  <2>1. PICK c \in Client : c = worker[w].for
    BY <1>4 DEF Greet, AppInv, BusyForClient, Busy, At, AcceptSteps
  <2>2. AtRest /\ UNCHANGED clients
    BY <1>4 DEF Greet, At
  <2>3. worker'[w].at = "emplace" /\ worker'[w].for = c /\ Construct(c)
    <3>1. ~Goes(w, Thread("exited", NoClient))
      BY GoesTurns DEF Turns, Steps, AppInv, TypeOK
    <3>2. Goes(w, Thread("emplace", c)) /\ Construct(c)
      BY <1>4, <2>1, <3>1 DEF Greet
    <3> QED
      BY <2>1, <3>2, GoesTurns DEF Turns, Steps, AcceptSteps, AppInv, TypeOK
  <2>4. /\ cl[c].obj = "none" /\ cl'[c].obj # "none" /\ cl'[c].closes = 0
        /\ \A d \in Client \ {c} : cl'[d] = cl[d]
    BY <2>3, ConstructHold DEF AppInv
  <2> QED
    BY <1>0, <1>1, <2>2, <2>3, <2>4 DEF ExactFor, Unclosed
<1>5. CASE EmplaceBegin(w)
  <2>1. /\ worker'[w].at = "emplacing" /\ worker'[w].for = worker[w].for
        /\ worker[w].at = "emplace" /\ UNCHANGED <<cl, clients>>
    BY <1>5, AcceptLands DEF EmplaceBegin, BeginAccess, At, Lands, Turns, clientVars
  <2> QED
    BY <1>0, <2>1 DEF ExactFor, Unclosed
<1>6. CASE EmplaceEnd(w)
  <2>1. /\ worker'[w].at = "rearm" /\ worker[w].at = "emplacing" /\ UNCHANGED cl
        /\ clients' = clients \cup {worker[w].for}
    BY <1>0, <1>6, AcceptLands DEF EmplaceEnd, EndAccess, At, Lands, Turns
  <2> QED
    BY <1>0, <2>1, RestExact DEF ExactFor, Unclosed
<1>7. CASE AcceptAgain(w)
  <2>1. worker'[w].at = "release" /\ AtRest /\ UNCHANGED <<cl, clients>>
    BY <1>7, AcceptLands DEF AcceptAgain, At, Lands, Turns, clientVars
  <2> QED
    BY <1>0, <1>1, <2>1, RestExact DEF Unclosed
<1>8. CASE LeaveHandler(w)
  <2>1. PICK c \in Client : c = worker[w].for
    BY <1>8 DEF LeaveHandler, AppInv, BusyForClient, Busy, At, OwnerSteps
  <2>2. worker'[w].at = "idle" /\ AtRest /\ UNCHANGED clients
    BY <1>8, AcceptLands DEF LeaveHandler, At, Lands, Turns
  <2>3. /\ cl[c].obj # "none" /\ cl'[c].obj # "none" /\ cl'[c].closes = cl[c].closes
        /\ \A d \in Client \ {c} : cl'[d] = cl[d]
    BY <1>8, <2>1, OwnerReturnsHold DEF LeaveHandler, AppInv
  <2> QED
    BY <1>0, <1>1, <2>2, <2>3, RestExact DEF Unclosed
<1>9. CASE TakeAcceptError(w) \/ TornInvoke(w) \/ (TakeAccepted(w) /\ UNCHANGED worker)
  <2>1. UNCHANGED <<cl, clients, worker>>
    BY <1>9 DEF TakeAcceptError, TornInvoke, TakeAccepted, Crash, clientVars, appVars
  <2> QED
    BY <1>2, <2>1
<1> QED
  BY <1>3, <1>4, <1>5, <1>6, <1>7, <1>8, <1>9 DEF AcceptStep

LEMMA StrandExact ==
  ASSUME AppInv, NEW w \in Worker, StrandWork(w), Sole(w), ExactFor(w),
         worker'[w].at # "exited"
  PROVE  ExactFor(w)'
<1> DEFINE AtRest == worker[w].at \notin {"emplace", "emplacing", "erase", "erasing"}
<1>0. ~worker[w].raced /\ ~worker'[w].raced
  BY CalmSteps DEF WorkerStep, ExactFor
<1>1. ASSUME AtRest PROVE \A d \in Client : d \in clients <=> Unclosed(d)
  BY <1>1 DEF ExactFor
<1>2. CASE RunQuietHandler(w)
  <2>1. Quiet /\ UNCHANGED <<worker, clients>> /\ AtRest
    BY <1>2, QuietSteps DEF RunQuietHandler, AppInv, appVars, At
  <2>2. \A d \in Client : Unclosed(d)' <=> Unclosed(d)
    BY <2>1 DEF Quiet, SameHold, Unclosed
  <2> QED
    BY <1>0, <1>1, <2>1, <2>2, RestExact DEF Unclosed
<1>3. CASE TakeMessage(w) \/ TakeClosed(w)
  <2>0. AtRest /\ UNCHANGED clients
    BY <1>3 DEF TakeMessage, TakeClosed, At
  <2>1. CASE TakeMessage(w)
    <3>1. PICK c \in Client : RaiseMessage(c) /\ worker'[w].at = "message"
      BY <2>1, StrandLands DEF Lands, Turns
    <3>2. /\ SameHold(cl[c], cl'[c]) /\ cl'[c].closes = cl[c].closes
          /\ \A d \in Client \ {c} : cl'[d] = cl[d]
      BY <3>1, EventRaised DEF AppInv
    <3> QED
      BY <1>0, <1>1, <2>0, <3>1, <3>2, RestExact DEF Unclosed, SameHold
  <2>2. CASE TakeClosed(w)
    <3>1. PICK c \in Client : /\ RaiseClosed(c)
                              /\ worker'[w].at = "erase" /\ worker'[w].for = c
      BY <2>2, StrandLands DEF Lands, Turns
    <3>2. /\ cl'[c].closes = 1 /\ \A d \in Client \ {c} : cl'[d] = cl[d]
      BY <3>1, EventRaised DEF AppInv
    <3> QED
      BY <1>0, <1>1, <2>0, <3>1, <3>2 DEF ExactFor, Unclosed
  <2> QED
    BY <1>3, <2>1, <2>2
<1>4. CASE EraseBegin(w)
  <2>1. /\ worker'[w].at = "erasing" /\ worker'[w].for = worker[w].for
        /\ worker[w].at = "erase" /\ UNCHANGED <<cl, clients>>
    BY <1>4, StrandLands DEF EraseBegin, BeginAccess, At, Lands, Turns, clientVars
  <2> QED
    BY <1>0, <2>1 DEF ExactFor, Unclosed
<1>5. CASE EraseEnd(w)
  <2>1. /\ worker'[w].at = "stop" /\ worker[w].at = "erasing" /\ UNCHANGED cl
        /\ clients' = clients \ {worker[w].for}
    BY <1>0, <1>5, StrandLands DEF EraseEnd, EndAccess, At, Lands, Turns
  <2> QED
    BY <1>0, <2>1, RestExact DEF ExactFor, Unclosed
<1>6. CASE OnMessageReceived(w) \/ CommandEscapes(w) \/ OnConnectionClosed(w)
  <2>1. PICK c \in Client : c = worker[w].for
    BY <1>6, SubscriberReturns
  <2>2. worker'[w].at = "idle" /\ AtRest /\ UNCHANGED clients
    BY <1>6, StrandLands DEF OnMessageReceived, CommandEscapes, OnConnectionClosed, At,
       Lands, Turns
  <2>3. /\ SameHold(cl[c], cl'[c]) /\ cl'[c].closes = cl[c].closes
        /\ \A d \in Client \ {c} : cl'[d] = cl[d]
    BY <1>6, <2>1, SubscriberReturns, EventReturns DEF AppInv
  <2> QED
    BY <1>0, <1>1, <2>2, <2>3, RestExact DEF Unclosed, SameHold
<1> QED
  BY <1>2, <1>3, <1>4, <1>5, <1>6 DEF StrandWork

\* A thread that is alone, and has not left run(), was so before the step.
LEMMA SoleBefore ==
  ASSUME AppInv, [Next]_vars, NEW w \in Worker, Sole(w)', ~At(w, "exited")'
  PROVE  Sole(w) /\ ~At(w, "exited")
<1>1. CASE SpawnPool
  BY <1>1 DEF SpawnPool, AppInv, NotYet, Sole, At
<1>2. CASE \/ UNCHANGED vars \/ StartListener \/ SubscribeAccepted
           \/ ConnectionArrives \/ AcceptFails \/ KernelWorks
  <2>1. UNCHANGED worker
    BY <1>2 DEF vars, StartListener, SubscribeAccepted, ConnectionArrives, AcceptFails,
       KernelWorks, appVars
  <2> QED
    BY <2>1 DEF Sole, At
<1>3. ASSUME NEW v \in Worker, WorkerStep(v) PROVE Sole(w) /\ ~At(w, "exited")
  <2>1. CASE UNCHANGED worker
    BY <2>1 DEF Sole, At
  <2>2. CASE ~UNCHANGED worker /\ v # w
    BY <1>3, <2>2, WakesOnce DEF Sole, At
  <2>3. CASE ~UNCHANGED worker /\ v = w
    BY <1>3, <2>3, WakesOnce DEF Sole, At
  <2> QED
    BY <2>1, <2>2, <2>3
<1> QED
  BY <1>1, <1>2, <1>3 DEF Next, MainStep

LEMMA NobodyLeftNext ==
  ASSUME AppInv, [Next]_vars, NobodyLeft, NEW w \in Worker, Sole(w)', ~At(w, "exited")'
  PROVE  NobodyLeft'
<1>1. \A c \in Client : ~ExitsIn(c)
  BY DEF ExitsIn, Sole, At
<1> QED
  BY <1>1, LeftByException DEF NobodyLeft

LEMMA ExactNext ==
  ASSUME AppInv, [Next]_vars, NEW w \in Worker, Sole(w), ~At(w, "exited"), ExactFor(w),
         ~At(w, "exited")'
  PROVE  ExactFor(w)'
<1>1. CASE SpawnPool
  <2>1. /\ worker[w].at = "off" /\ UNCHANGED <<cl, clients>>
        /\ worker'[w].at \in {"off", "idle"} /\ worker'[w].raced = FALSE
    BY <1>1 DEF SpawnPool, AppInv, NotYet, At, Thread, Idle, clientVars
  <2> QED
    BY <2>1, RestExact DEF ExactFor, Unclosed
<1>2. CASE \/ UNCHANGED vars \/ StartListener \/ SubscribeAccepted
           \/ ConnectionArrives \/ AcceptFails \/ KernelWorks
  <2>1. UNCHANGED <<worker, clients>>
    BY <1>2 DEF vars, StartListener, SubscribeAccepted, ConnectionArrives, AcceptFails,
       KernelWorks, appVars
  <2>2. \A d \in Client : Unclosed(d)' <=> Unclosed(d)
    <3>1. CASE KernelWorks
      BY <3>1, QuietSteps DEF KernelWorks, AppInv, Quiet, SameHold, Unclosed
    <3>2. CASE ~KernelWorks
      BY <1>2, <3>2 DEF vars, StartListener, SubscribeAccepted, ConnectionArrives,
         AcceptFails, clientVars, Unclosed
    <3> QED
      BY <3>1, <3>2
  <2>3. worker[w].at \in {"emplace", "emplacing", "erase", "erasing"} =>
          worker[w].for \in Client
    BY DEF AppInv, BusyForClient, Busy, AcceptSteps, StrandSteps, ClosedSteps
  <2> QED
    BY <2>1, <2>2, <2>3 DEF ExactFor
<1>3. ASSUME NEW v \in Worker, WorkerStep(v) PROVE ExactFor(w)'
  <2>1. v = w
    BY <1>3, Awake DEF Sole, At
  <2>2. CASE RunReturns(w)
    BY <2>2, StrandLands DEF Lands, Turns, At
  <2> QED
    BY <1>3, <2>1, <2>2, AcceptExact, StrandExact DEF WorkerStep, At
<1> QED
  BY <1>1, <1>2, <1>3 DEF Next, MainStep

LEMMA SoleExactNext == AppInv /\ SoleExact /\ [Next]_vars => SoleExact'
<1> SUFFICES ASSUME AppInv, SoleExact, [Next]_vars,
                    NEW w \in Worker, Sole(w)', ~At(w, "exited")'
             PROVE  ExactFor(w)' /\ NobodyLeft'
  BY DEF SoleExact
<1>1. Sole(w) /\ ~At(w, "exited")
  BY SoleBefore
<1>2. ExactFor(w) /\ NobodyLeft
  BY <1>1 DEF SoleExact
<1> QED
  BY <1>1, <1>2, ExactNext, NobodyLeftNext

\* A connected client was started and not closed; the other way round, what is
\* not closed is connected, was stopped, or was left by an exception.
LEMMA ConnectedUnclosed ==
  ASSUME AppInv, NEW c \in Client
  PROVE  /\ Connected(c) => Unclosed(c)
         /\ Unclosed(c) => Connected(c) \/ ~cl[c].running \/ LeftRunning(cl[c])
<1>1. Settled(cl[c]) /\ cl[c] \in ClientObject
  BY DEF AppInv, ClientInv, ClientTypeOK
<1>2. Connected(c) => Unclosed(c)
  BY <1>1 DEF Connected, Unclosed, SessionOf, Settled, Core, ClientObject
<1>3. ASSUME Unclosed(c), SessionOf(cl[c]) # "over"
      PROVE  Connected(c) \/ ~cl[c].running
  <2>1. cl[c].read # "none" \/ cl[c].strand # "free"
    BY <1>3 DEF Unclosed, SessionOf
  <2>2. cl[c].obj = "alive" /\ cl[c].strand # "closed"
    BY <1>1, <1>3, <2>1 DEF Settled, Core, Unclosed
  <2>3. SessionOf(cl[c]) \in {"open", "message"}
    BY <1>1, <2>1, <2>2 DEF SessionOf, ClientObject
  <2>4. cl[c].running => cl[c].sock = "open"
    BY <1>1, <2>2 DEF Settled, Core
  <2> QED
    BY <2>3, <2>4 DEF Connected
<1>4. ASSUME Unclosed(c), SessionOf(cl[c]) = "over"
      PROVE  ~cl[c].running \/ LeftRunning(cl[c])
  BY <1>4 DEF Unclosed, LeftRunning
<1> QED
  BY <1>2, <1>3, <1>4

\* With one thread (--threads 1) clients_ holds between handlers every connected
\* client, and beside them only clients that a command or HandleWrite has stopped:
\* no event tells OnConnectionClosed of their end.
THEOREM OneThreadRegistry == Spec => []RegistryOneThread
<1>1. Init => SoleExact
  BY DEF Init, ClientInit, Unborn, Thread, SoleExact, ExactFor, Unclosed, NobodyLeft,
     LeftRunning
<1>2. AppInv /\ SoleExact => RegistryOneThread
  <2> SUFFICES ASSUME AppInv, SoleExact,
                      Cardinality({w \in Worker : worker[w].at # "off"}) = 1,
                      \A w \in Worker : ~Busy(w),
                      NEW w \in Worker, At(w, "idle")
               PROVE  /\ \A c \in Client : Connected(c) => c \in clients
                      /\ \A c \in clients :
                           Connected(c) \/ (~cl[c].running /\ cl[c].closes = 0)
    BY DEF RegistryOneThread
  <2> DEFINE S == {v \in Worker : worker[v].at # "off"}
  <2>1. IsFiniteSet(S)
    BY WorkersAreFinite, FS_Subset
  <2>2. PICK u : S = {u}
    BY <2>1, FS_Singleton
  <2>3. Sole(w)
    BY <2>2 DEF Sole, At
  <2>4. ExactFor(w) /\ NobodyLeft
    BY <2>3 DEF SoleExact, At
  <2>5. \A d \in Client : d \in clients <=> Unclosed(d)
    BY <2>4 DEF ExactFor, At
  <2>6. clients \subseteq Client
    BY DEF AppInv, TypeOK
  <2>7. ASSUME NEW c \in clients
        PROVE  Connected(c) \/ (~cl[c].running /\ cl[c].closes = 0)
    <3>1. c \in Client /\ Unclosed(c) /\ ~LeftRunning(cl[c])
      BY <2>4, <2>5, <2>6 DEF NobodyLeft
    <3> QED
      BY <3>1, ConnectedUnclosed DEF Unclosed
  <2> QED
    BY <2>5, <2>7, ConnectedUnclosed
<1> QED
  BY <1>1, <1>2, SoleExactNext, AppInvariant, PTL DEF Spec

-----------------------------------------------------------------------------
(* The start of the listener, and when run() has nothing to do.            *)

\* Until the listener listens there are no connections and no handlers.
Still ==
  /\ accepts = 0 /\ failedAccepts = 0
  /\ \A c \in Client : conn[c] = "new" /\ cl[c].obj = "none" /\ NoSends(cl[c])
  /\ \A w \in Worker : ~Busy(w)

StartInv ==
  /\ main \in {"start", "init"} => acceptor = "none"
  /\ main = "failed" => acceptor # "listening"
  /\ main \in {"subscribe", "subscribing", "serving"} => started
  /\ acceptor # "listening" => Still

\* Before that a thread finds nothing to run.
LEMMA StillSteps ==
  ASSUME AppInv, Still, NEW w \in Worker, WorkerStep(w)
  PROVE  UNCHANGED <<cl, conn, accepts, failedAccepts>> /\ ~Busy(w)'
<1>1. /\ ~Busy(w) /\ failedAccepts = 0 /\ \A c \in Client : conn[c] # "accepted"
  BY DEF Still
<1>2. \A c \in Client : /\ cl[c].read = "none" /\ cl[c].unsent = 0
  BY DEF AppInv, ClientInv, Settled, Core, Still, NoSends
<1>3. worker[w].at \notin {"greet", "emplace", "emplacing", "rearm", "release", "message",
                           "erase", "erasing", "stop"}
  BY <1>1 DEF Busy, AcceptSteps, OwnerSteps, StrandSteps, ClosedSteps
<1>4. ~AcceptStep(w)
  <2>1. ~TakeAcceptError(w) /\ ~TakeAccepted(w) /\ ~TornInvoke(w)
    BY <1>1 DEF TakeAcceptError, HandleAcceptError, TakeAccepted,
       HandleAcceptedConnections, TornInvoke
  <2>2. ~Greet(w) /\ ~EmplaceBegin(w) /\ ~EmplaceEnd(w) /\ ~AcceptAgain(w) /\ ~LeaveHandler(w)
    BY <1>3 DEF Greet, EmplaceBegin, EmplaceEnd, BeginAccess, EndAccess, AcceptAgain,
       LeaveHandler, At
  <2> QED
    BY <2>1, <2>2 DEF AcceptStep
<1>5. ~StrandWork(w)
  <2>1. ASSUME NEW c \in Client
        PROVE  /\ ~HeaderArrived(c) /\ ~EmptyArrived(c) /\ ~RaiseMessage(c)
               /\ ~RaiseClosed(c)
    BY <1>2 DEF HeaderArrived, EmptyArrived, ReadReady, RaiseMessage, RaiseClosed
  <2>2. ASSUME NEW c \in Client PROVE ~HandleWriteUnsent(c) /\ ~HandleWriteDangling(c)
    <3>1. cl[c].unsent = 0
      BY <1>2
    <3>2. ~(cl[c].unsent > 0)
      BY <3>1
    <3> QED
      BY <3>2 DEF HandleWriteUnsent, HandleWriteDangling
  <2>3. ~RunQuietHandler(w) /\ ~TakeMessage(w) /\ ~TakeClosed(w)
    BY <2>1, <2>2 DEF RunQuietHandler, TakeMessage, TakeClosed
  <2>4. /\ ~OnMessageReceived(w) /\ ~CommandEscapes(w) /\ ~EraseBegin(w) /\ ~EraseEnd(w)
        /\ ~OnConnectionClosed(w)
    BY <1>3 DEF OnMessageReceived, CommandEscapes, EraseBegin, EraseEnd, BeginAccess,
       EndAccess, OnConnectionClosed, At
  <2> QED
    BY <2>3, <2>4 DEF StrandWork
<1>6. RunReturns(w) /\ Lands(w, "exited", NoClient)
  BY <1>4, <1>5, StrandLands DEF WorkerStep
<1> QED
  BY <1>6 DEF RunReturns, clientVars, listenerVars, Lands, Turns, Busy, AcceptSteps,
     OwnerSteps, StrandSteps, ClosedSteps

LEMMA StillNext ==
  ASSUME AppInv, StartInv, Next, acceptor' # "listening"
  PROVE  Still'
<1>0. Still /\ accepts = 0
  <2>1. acceptor # "listening"
    BY DEF Next, MainStep, SpawnPool, StartListener, StartSucceeds, StartFails,
       SubscribeAccepted, SubscribeBegin, SubscribeEnd, ConnectionArrives, KernelAccepts,
       AcceptFails, KernelAcceptFails, KernelWorks, WorkerStep, AcceptStep, StrandWork,
       TakeAcceptError, HandleAcceptError, TakeAccepted, HandleAcceptedConnections, Invoke,
       TornInvoke, Greet, EmplaceBegin, EmplaceEnd, BeginAccess, EndAccess, AcceptAgain,
       Rearm, LeaveHandler, RunQuietHandler, TakeMessage, TakeClosed, EraseBegin, EraseEnd,
       OnMessageReceived, CommandEscapes, OnConnectionClosed, RunReturns, listenerVars
  <2> QED
    BY <2>1 DEF StartInv, Still
<1>1. ASSUME NEW w \in Worker, WorkerStep(w) PROVE Still'
  <2>1. UNCHANGED <<cl, conn, accepts, failedAccepts>> /\ ~Busy(w)'
    BY <1>0, <1>1, StillSteps
  <2>2. \A v \in Worker \ {w} : Busy(v)' <=> Busy(v)
    <3>1. UNCHANGED worker \/ \A v \in Worker \ {w} : worker'[v].at = worker[v].at
      BY <1>1, WakesOnce
    <3> QED
      BY <3>1 DEF Busy
  <2> QED
    BY <1>0, <2>1, <2>2 DEF Still
<1>2. CASE MainStep
  <2>1. UNCHANGED <<cl, conn, accepts, failedAccepts>>
    BY <1>2 DEF MainStep, SpawnPool, StartListener, StartSucceeds, StartFails,
       SubscribeAccepted, SubscribeBegin, SubscribeEnd, clientVars, listenerVars
  <2>2. \A v \in Worker : ~Busy(v)'
    <3>1. CASE SpawnPool
      <4>1. \A v \in Worker : worker'[v].at \in {"off", "idle"}
        BY <3>1 DEF SpawnPool, Thread, Idle
      <4> QED
        BY <4>1 DEF Busy, AcceptSteps, OwnerSteps, StrandSteps, ClosedSteps
    <3>2. CASE ~SpawnPool
      BY <1>0, <1>2, <3>2 DEF MainStep, StartListener, SubscribeAccepted, Still, Busy
    <3> QED
      BY <3>1, <3>2
  <2> QED
    BY <1>0, <2>1, <2>2 DEF Still
<1>3. ~ConnectionArrives /\ ~AcceptFails /\ ~KernelWorks
  BY <1>0 DEF ConnectionArrives, KernelAccepts, AcceptFails, KernelAcceptFails, KernelWorks,
     Still
<1> QED
  BY <1>1, <1>2, <1>3 DEF Next

LEMMA StartInvNext == AppInv /\ StartInv /\ [Next]_vars => StartInv'
<1>1. ASSUME AppInv, StartInv, Next PROVE StartInv'
  <2>1. acceptor' # "listening" => Still'
    BY <1>1, StillNext
  <2>2. CASE MainStep
    BY <1>1, <2>1, <2>2 DEF MainStep, SpawnPool, StartListener, StartSucceeds, StartFails,
       SubscribeAccepted, SubscribeBegin, SubscribeEnd, StartInv, listenerVars
  <2>3. CASE ~MainStep
    <3>1. UNCHANGED <<main, acceptor, started>>
      BY <1>1, <2>3 DEF Next, ConnectionArrives, KernelAccepts,
         AcceptFails, KernelAcceptFails, KernelWorks, WorkerStep, AcceptStep, StrandWork,
         TakeAcceptError, HandleAcceptError, TakeAccepted, HandleAcceptedConnections, Invoke,
         TornInvoke, Greet, EmplaceBegin, EmplaceEnd, BeginAccess, EndAccess, AcceptAgain,
         Rearm, LeaveHandler, RunQuietHandler, TakeMessage, TakeClosed, EraseBegin, EraseEnd,
         OnMessageReceived, CommandEscapes, OnConnectionClosed, RunReturns, listenerVars,
         appVars
    <3> QED
      BY <1>1, <2>1, <3>1 DEF StartInv
  <2> QED
    BY <2>2, <2>3
<1>2. ASSUME AppInv, StartInv, UNCHANGED vars PROVE StartInv'
  BY <1>2 DEF vars, clientVars, listenerVars, appVars, StartInv, Still, Busy
<1> QED
  BY <1>1, <1>2

LEMMA StartInvInit == Init => StartInv
<1> SUFFICES ASSUME Init PROVE StartInv
  OBVIOUS
<1>1. \A c \in Client : cl[c].obj = "none" /\ NoSends(cl[c])
  BY DEF Init, ClientInit, Unborn, NoSends
<1>2. \A w \in Worker : ~Busy(w)
  BY DEF Init, Thread, Busy, AcceptSteps, OwnerSteps, StrandSteps, ClosedSteps
<1> QED
  BY <1>1, <1>2 DEF Init, ListenerInit, StartInv, Still

\* A start that fails leaves nothing for the threads.
LEMMA FailedIsIdle == AppInv /\ StartInv => FailedStartIdle
<1> SUFFICES ASSUME AppInv, StartInv, main = "failed" PROVE ~HasWork
  BY DEF FailedStartIdle
<1>1. Still
  BY DEF StartInv
<1>2. \A c \in Client : cl[c].read = "none"
  BY <1>1 DEF AppInv, ClientInv, Settled, Core, Still
<1> QED
  BY <1>1, <1>2 DEF Still, HasWork, WorkHeld

\* The one way out of run() of a thread that waits in it.
LEMMA OnlyReturns ==
  ASSUME AppInv, [Next]_vars, NEW w \in Worker, At(w, "idle"), At(w, "exited")'
  PROVE  RunReturns(w) /\ UNCHANGED <<main, cl, conn, acceptError>>
         /\ \A v \in Worker \ {w} : worker'[v].at = worker[v].at /\ worker'[v].for = worker[v].for
<1>0. worker' # worker
  BY DEF At
<1>1. PICK v \in Worker : WorkerStep(v)
  <2>1. ~SpawnPool
    <3>1. SpawnPool => worker[w].at = "off"
      BY DEF SpawnPool, AppInv, NotYet, At
    <3> QED
      BY <3>1 DEF At
  <2> QED
    BY <1>0, <2>1 DEF Next, MainStep, StartListener, SubscribeAccepted, ConnectionArrives,
       AcceptFails, KernelWorks, vars, appVars
<1>2. v = w
  BY <1>0, <1>1, WakesOnce DEF At
<1>3. ~AcceptStep(w)
  <2> SUFFICES ASSUME AcceptStep(w) PROVE FALSE
    OBVIOUS
  <2>1. TakeAccepted(w)
    BY <1>0 DEF AcceptStep, TakeAcceptError, TornInvoke, Greet, EmplaceBegin, EmplaceEnd,
       BeginAccess, EndAccess, AcceptAgain, LeaveHandler, At, appVars
  <2> QED
    BY <1>0, <2>1, AcceptLands DEF Lands, Turns, At
<1>4. ~StrandWork(w)
  <2> SUFFICES ASSUME StrandWork(w) PROVE FALSE
    OBVIOUS
  <2>1. TakeMessage(w) \/ TakeClosed(w)
    BY <1>0 DEF StrandWork, RunQuietHandler, OnMessageReceived, CommandEscapes, EraseBegin,
       EraseEnd, BeginAccess, EndAccess, OnConnectionClosed, At, appVars
  <2> QED
    BY <2>1, StrandLands DEF Lands, Turns, At
<1>5. RunReturns(w) /\ Lands(w, "exited", NoClient)
  BY <1>1, <1>2, <1>3, <1>4, StrandLands DEF WorkerStep
<1> QED
  BY <1>5 DEF RunReturns, clientVars, listenerVars, Lands, Turns

\* ... is there only when the chain of a listener that was started is broken.
LEMMA IdleThreadsStay ==
  ASSUME AppInv, StartInv, NEW w \in Worker, RunReturns(w), main # "failed"
  PROVE  Broken
<1>1. /\ ~WorkHeld /\ accepts = 0 /\ failedAccepts = 0
      /\ \A c \in Client : conn[c] # "accepted"
      /\ \A v \in Worker : ~Accepting(v)
  BY DEF RunReturns, HasWork, AppInv, TypeOK, ListenerTypeOK, Busy, Accepting
<1>2. main # "start"
  BY DEF RunReturns, AppInv, NotYet, At
<1>3. main = "serving" /\ started
  BY <1>1, <1>2 DEF AppInv, TypeOK, WorkHeld, StartInv
<1> QED
  BY <1>1, <1>3 DEF AppInv, AcceptsUnlessBroken

\* Whatever step of Startup fails (application.cc), the pool runs out of work.
THEOREM FailedStartLeaves == Spec => []FailedStartIdle
  BY StartInvInit, StartInvNext, FailedIsIdle, AppInvariant, PTL DEF Spec

\* The io_context::work of Startup, and after it the accepts, keep every thread
\* in run(); only a broken chain or a failed start lets one return.
THEOREM PoolKept == Spec => PoolStays
<1>1. AppInv /\ StartInv /\ [Next]_vars =>
        [\A w \in Worker :
           At(w, "idle") /\ At(w, "exited")' => main = "failed" \/ Broken]_vars
  BY OnlyReturns, IdleThreadsStay
<1> QED
  BY <1>1, StartInvInit, StartInvNext, AppInvariant, PTL DEF Spec, PoolStays

-----------------------------------------------------------------------------
(* Any number of threads: clients_ is complete while accesses do not race. *)

\* Inductive: every client that is not closed is registered, or will be.
UnclosedRegistered ==
  \A c \in Client : Unclosed(c) => c \in clients \/ Registering(c)

\* A step of thread w that registers nobody, starts nobody and erases nobody.
LEMMA RegisteredStay ==
  ASSUME UnclosedRegistered, NEW w \in Worker,
         worker[w].at \notin {"emplace", "emplacing"},
         \A v \in Worker \ {w} :
           worker'[v].at = worker[v].at /\ worker'[v].for = worker[v].for,
         \A d \in Client : Unclosed(d)' => Unclosed(d),
         clients \subseteq clients'
  PROVE  UnclosedRegistered'
<1>1. \A d \in Client : Registering(d) => Registering(d)'
  BY DEF Registering
<1> QED
  BY <1>1 DEF UnclosedRegistered, Unclosed

LEMMA RegisteredUnmoved ==
  ASSUME UnclosedRegistered, UNCHANGED worker, clients \subseteq clients',
         \A d \in Client : Unclosed(d)' => Unclosed(d)
  PROVE  UnclosedRegistered'
  BY DEF UnclosedRegistered, Unclosed, Registering

LEMMA AcceptRegisters ==
  ASSUME AppInv, UnclosedRegistered, NoOverlap, NEW w \in Worker, AcceptStep(w)
  PROVE  UnclosedRegistered'
<1>1. CASE TakeAcceptError(w) \/ TornInvoke(w) \/ (TakeAccepted(w) /\ UNCHANGED worker)
  <2>1. UNCHANGED <<cl, clients, worker>>
    BY <1>1 DEF TakeAcceptError, TornInvoke, TakeAccepted, Crash, clientVars, appVars
  <2> QED
    BY <2>1 DEF UnclosedRegistered, Unclosed, Registering
<1>2. CASE \/ TakeAccepted(w) /\ ~UNCHANGED worker
           \/ AcceptAgain(w)
  <2>1. /\ worker[w].at \notin {"emplace", "emplacing"} /\ UNCHANGED <<cl, clients>>
        /\ \E step, c : Lands(w, step, c)
    BY <1>2, AcceptLands DEF TakeAccepted, AcceptAgain, At, clientVars
  <2> QED
    BY <2>1, RegisteredStay DEF Lands, Turns, Unclosed
<1>3. CASE Greet(w)
  <2>1. PICK c \in Client : c = worker[w].for
    BY <1>3 DEF Greet, AppInv, BusyForClient, Busy, At, AcceptSteps
  <2>2. worker[w].at = "greet" /\ UNCHANGED clients
    BY <1>3 DEF Greet, At
  <2>3. CASE UNCHANGED cl
    <3>1. \E step, d : Lands(w, step, d)
      BY <1>3, AcceptLands
    <3> QED
      BY <2>2, <2>3, <3>1, RegisteredStay DEF Lands, Turns, Unclosed
  <2>4. CASE Construct(c) /\ Goes(w, Thread("emplace", c))
    <3>1. Turns(w, "emplace", c)
      BY <2>4, GoesTurns DEF Steps, AcceptSteps, AppInv, TypeOK
    <3>2. \A d \in Client \ {c} : cl'[d] = cl[d]
      BY <2>4, ConstructHold DEF AppInv
    <3>3. Registering(c)'
      BY <3>1 DEF Registering, Turns
    <3>4. \A d \in Client : Registering(d) => Registering(d)'
      BY <2>2, <3>1 DEF Registering, Turns
    <3> QED
      BY <2>2, <3>2, <3>3, <3>4 DEF UnclosedRegistered, Unclosed
  <2> QED
    BY <1>3, <2>1, <2>3, <2>4 DEF Greet, clientVars
<1>4. CASE EmplaceBegin(w)
  <2>1. /\ worker[w].at = "emplace" /\ UNCHANGED <<cl, clients>>
        /\ Turns(w, "emplacing", worker[w].for)
    BY <1>4, AcceptLands DEF EmplaceBegin, BeginAccess, At, Lands, clientVars
  <2>2. \A d \in Client : Registering(d) => Registering(d)'
    BY <2>1 DEF Registering, Turns
  <2> QED
    BY <2>1, <2>2 DEF UnclosedRegistered, Unclosed
<1>5. CASE EmplaceEnd(w)
  <2>1. /\ UNCHANGED cl /\ clients' = clients \cup {worker[w].for}
        /\ Turns(w, "rearm", worker[w].for)
    BY <1>5, AcceptLands DEF EmplaceEnd, EndAccess, NoOverlap, Lands
  <2>2. \A d \in Client : Registering(d) => Registering(d)' \/ d = worker[w].for
    BY <2>1 DEF Registering, Turns
  <2> QED
    BY <2>1, <2>2 DEF UnclosedRegistered, Unclosed
<1>6. CASE LeaveHandler(w)
  <2>1. PICK c \in Client : c = worker[w].for
    BY <1>6 DEF LeaveHandler, AppInv, BusyForClient, Busy, At, OwnerSteps
  <2>2. /\ worker[w].at = "release" /\ UNCHANGED clients /\ \E step, d : Lands(w, step, d)
    BY <1>6, AcceptLands DEF LeaveHandler, At
  <2>3. /\ cl[c].obj # "none" /\ cl'[c].closes = cl[c].closes
        /\ \A d \in Client \ {c} : cl'[d] = cl[d]
    BY <1>6, <2>1, OwnerReturnsHold DEF LeaveHandler, AppInv
  <2> QED
    BY <2>2, <2>3, RegisteredStay DEF Lands, Turns, Unclosed
<1> QED
  BY <1>1, <1>2, <1>3, <1>4, <1>5, <1>6 DEF AcceptStep

LEMMA StrandRegisters ==
  ASSUME AppInv, UnclosedRegistered, NoOverlap, NEW w \in Worker,
         StrandWork(w) \/ RunReturns(w)
  PROVE  UnclosedRegistered'
<1>1. CASE RunQuietHandler(w)
  <2>1. Quiet /\ UNCHANGED <<worker, clients>>
    BY <1>1, QuietSteps DEF RunQuietHandler, AppInv, appVars
  <2> QED
    BY <2>1, RegisteredUnmoved DEF Quiet, SameHold, Unclosed
<1>2. CASE TakeMessage(w) \/ TakeClosed(w)
  <2>1. /\ worker[w].at = "idle" /\ UNCHANGED clients /\ \E step, d : Lands(w, step, d)
    BY <1>2, StrandLands DEF TakeMessage, TakeClosed, At
  <2>2. PICK c \in Client : RaiseMessage(c) \/ RaiseClosed(c)
    BY <1>2 DEF TakeMessage, TakeClosed
  <2>3. /\ cl[c].obj # "none" /\ cl[c].closes = 0
        /\ \A d \in Client \ {c} : cl'[d] = cl[d]
    BY <2>2, EventRaised DEF AppInv
  <2> QED
    BY <2>1, <2>3, RegisteredStay DEF Lands, Turns, Unclosed
<1>3. CASE EraseBegin(w) \/ RunReturns(w)
  <2>1. /\ worker[w].at \in {"erase", "idle"} /\ UNCHANGED <<cl, clients>>
        /\ \E step, d : Lands(w, step, d)
    BY <1>3, StrandLands DEF EraseBegin, BeginAccess, RunReturns, At, clientVars
  <2> QED
    BY <2>1, RegisteredStay DEF Lands, Turns, Unclosed
<1>4. CASE EraseEnd(w)
  <2> DEFINE c == worker[w].for
  <2>1. /\ worker[w].at = "erasing" /\ UNCHANGED cl /\ clients' = clients \ {c}
        /\ Turns(w, "stop", c)
    BY <1>4, StrandLands DEF EraseEnd, EndAccess, NoOverlap, Lands, At
  <2>2. c \in Client /\ cl[c].strand = "closed"
    BY <2>1, OnStrand DEF At, StrandSteps, ClosedSteps
  <2>3. cl[c].closes = 1
    BY <2>2 DEF AppInv, ClientInv, Settled
  <2>4. \A d \in Client : Registering(d) => Registering(d)'
    BY <2>1 DEF Registering, Turns
  <2> QED
    BY <2>1, <2>3, <2>4 DEF UnclosedRegistered, Unclosed
<1>5. CASE OnMessageReceived(w) \/ CommandEscapes(w) \/ OnConnectionClosed(w)
  <2>1. PICK c \in Client : c = worker[w].for
    BY <1>5, SubscriberReturns
  <2>2. /\ worker[w].at \in {"message", "stop"} /\ UNCHANGED clients
        /\ \E step, d : Lands(w, step, d)
    BY <1>5, StrandLands DEF OnMessageReceived, CommandEscapes, OnConnectionClosed, At
  <2>3. /\ SameHold(cl[c], cl'[c]) /\ cl'[c].closes = cl[c].closes
        /\ \A d \in Client \ {c} : cl'[d] = cl[d]
    BY <1>5, <2>1, SubscriberReturns, EventReturns DEF AppInv
  <2> QED
    BY <2>2, <2>3, RegisteredStay DEF Lands, Turns, Unclosed, SameHold
<1> QED
  BY <1>1, <1>2, <1>3, <1>4, <1>5 DEF StrandWork

LEMMA RegisteredNext ==
  AppInv /\ NoOverlap /\ UnclosedRegistered /\ [Next]_vars => UnclosedRegistered'
<1> SUFFICES ASSUME AppInv, NoOverlap, UnclosedRegistered, [Next]_vars
             PROVE  UnclosedRegistered'
  OBVIOUS
<1>1. CASE SpawnPool
  <2>1. UNCHANGED <<cl, clients>> /\ \A w \in Worker : worker[w].at = "off"
    BY <1>1 DEF SpawnPool, AppInv, NotYet, At, clientVars
  <2>2. \A d \in Client : ~Registering(d)
    BY <2>1 DEF Registering
  <2> QED
    BY <2>1, <2>2 DEF UnclosedRegistered, Unclosed
<1>2. CASE KernelWorks
  <2>1. Quiet /\ UNCHANGED <<worker, clients>>
    BY <1>2, QuietSteps DEF KernelWorks, AppInv, appVars
  <2> QED
    BY <2>1, RegisteredUnmoved DEF Quiet, SameHold, Unclosed
<1>3. CASE \/ UNCHANGED vars \/ StartListener \/ SubscribeAccepted
           \/ ConnectionArrives \/ AcceptFails
  <2>1. UNCHANGED <<cl, clients, worker>>
    BY <1>3 DEF vars, StartListener, SubscribeAccepted, ConnectionArrives, AcceptFails,
       clientVars, appVars
  <2> QED
    BY <2>1 DEF UnclosedRegistered, Unclosed, Registering
<1>4. ASSUME NEW w \in Worker, WorkerStep(w) PROVE UnclosedRegistered'
  BY <1>4, AcceptRegisters, StrandRegisters DEF WorkerStep
<1> QED
  BY <1>1, <1>2, <1>3, <1>4 DEF Next, MainStep

LEMMA RegisteredInit == Init => UnclosedRegistered
  BY DEF Init, ClientInit, Unborn, UnclosedRegistered, Unclosed

LEMMA ConnectedIsRegistered == AppInv /\ UnclosedRegistered => ConnectedRegistered
  BY ConnectedUnclosed DEF UnclosedRegistered, ConnectedRegistered

\* With any number of threads a connected client is missing in clients_
\* (application.cc) only until its accept handler has run the emplace, as long as
\* the threads happen not to meet in the map.
THEOREM ConnectedAreRegistered == Spec => RegistryComplete
  BY RegisteredInit, RegisteredNext, ConnectedIsRegistered, AppInvariant, PTL
     DEF Spec, RegistryComplete

-----------------------------------------------------------------------------
(* Any number of threads: where stale entries come from. *)

Erasing(w) == worker[w].at \in {"erase", "erasing"}

\* A client that is not closed by a step, and does not end unheard, was done
\* before if it is done after.
LEMMA DoneBefore ==
  ASSUME ClientInv, ClientInv', NEW c \in Client, Done(c)',
         cl'[c].closes = 1 => cl[c].closes = 1,
         ~(Unheard(c)' /\ ~Unheard(c))
  PROVE  Done(c)
<1>1. /\ Settled(cl[c]) /\ cl[c] \in ClientObject
      /\ Settled(cl'[c]) /\ cl'[c] \in ClientObject
  BY DEF ClientInv, ClientTypeOK
<1>2. CASE cl'[c].closes = 1
  <2>1. cl[c].closes = 1 /\ cl[c].read = "none" /\ cl[c].strand # "message"
    BY <1>1, <1>2 DEF Settled
  <2>2. cl[c].obj # "none" /\ cl[c].strand \in {"free", "closed"}
    BY <1>1, <2>1 DEF Settled, Core, ClientObject
  <2> QED
    BY <2>1, <2>2 DEF Done, SessionOf
<1>3. CASE cl'[c].closes # 1
  <2>1. cl'[c].closes = 0 /\ cl'[c].strand # "closed"
    BY <1>1, <1>3 DEF Settled, Core, ClientObject
  <2>2. SessionOf(cl'[c]) = "over"
    BY <2>1 DEF Done, SessionOf
  <2>3. Unheard(c)'
    BY <2>1, <2>2 DEF Unheard
  <2> QED
    BY <2>3 DEF Unheard, Done
<1> QED
  BY <1>2, <1>3

\* A step that registers no c, ends no c, and leaves its erase alone.
LEMMA StaleBefore ==
  ASSUME NEW c \in Client, NEW w \in Worker, Stale(c)',
         c \in clients' => c \in clients,
         Done(c)' => Done(c),
         ~Erasing(w) \/ worker[w].for # c,
         \A v \in Worker \ {w} :
           worker'[v].at = worker[v].at /\ worker'[v].for = worker[v].for
  PROVE  Stale(c)
  BY DEF Stale, Erasing

LEMMA StaleUnmoved ==
  ASSUME NEW c \in Client, Stale(c)', UNCHANGED <<worker, clients>>,
         Done(c)' => Done(c)
  PROVE  Stale(c)
  BY DEF Stale

\* No step of a thread but these makes an entry stale.
LEMMA WorkerStale ==
  ASSUME AppInv, ClientInv', NEW c \in Client, NEW w \in Worker, WorkerStep(w), Stale(c)',
         ~(At(w, "emplacing") /\ worker[w].for = c),
         ~(At(w, "erasing") /\ worker[w].for = c /\ worker[w].raced),
         ~(Unheard(c)' /\ ~Unheard(c))
  PROVE  Stale(c)
<1>0. (cl'[c].closes = 1 => cl[c].closes = 1) => (Done(c)' => Done(c))
  BY DoneBefore DEF AppInv
<1>1. CASE RunQuietHandler(w) \/ TakeAcceptError(w) \/ TornInvoke(w)
  <2>1. /\ UNCHANGED <<worker, clients>>
        /\ RunQuietHandler(w) \/ UNCHANGED cl
    BY <1>1 DEF RunQuietHandler, TakeAcceptError, TornInvoke, Crash, appVars, clientVars
  <2>2. cl'[c].closes = cl[c].closes
    BY <2>1, QuietSteps DEF RunQuietHandler, AppInv, Quiet
  <2> QED
    BY <1>0, <2>1, <2>2, StaleUnmoved
<1>2. CASE TakeAccepted(w) \/ AcceptAgain(w) \/ RunReturns(w)
  <2>1. /\ ~Erasing(w) /\ UNCHANGED <<cl, clients>>
        /\ UNCHANGED worker \/ \E step, d : Lands(w, step, d)
    BY <1>2, AcceptLands, StrandLands
       DEF TakeAccepted, AcceptAgain, RunReturns, At, Erasing, clientVars
  <2> QED
    BY <1>0, <2>1, StaleBefore, StaleUnmoved DEF Lands, Turns
<1>3. CASE Greet(w)
  <2>1. PICK d \in Client : d = worker[w].for
    BY <1>3 DEF Greet, AppInv, BusyForClient, Busy, At, AcceptSteps
  <2>2. ~Erasing(w) /\ UNCHANGED clients /\ \E step, e : Lands(w, step, e)
    BY <1>3, AcceptLands DEF Greet, At, Erasing
  <2>3. cl'[c].closes = 1 => cl[c].closes = 1
    <3>1. CASE UNCHANGED cl
      BY <3>1
    <3>2. CASE Construct(d)
      BY <3>2, ConstructHold DEF AppInv
    <3> QED
      BY <1>3, <2>1, <3>1, <3>2 DEF Greet, clientVars
  <2> QED
    BY <1>0, <2>2, <2>3, StaleBefore DEF Lands, Turns
<1>4. CASE EmplaceBegin(w)
  <2>1. ~Erasing(w) /\ UNCHANGED <<cl, clients>> /\ \E step, e : Lands(w, step, e)
    BY <1>4, AcceptLands DEF EmplaceBegin, BeginAccess, At, Erasing, clientVars
  <2> QED
    BY <1>0, <2>1, StaleBefore DEF Lands, Turns
<1>5. CASE EmplaceEnd(w)
  <2>1. /\ ~Erasing(w) /\ UNCHANGED cl /\ clients' \subseteq clients \cup {worker[w].for}
        /\ At(w, "emplacing") /\ \E step, e : Lands(w, step, e)
    BY <1>5, AcceptLands DEF EmplaceEnd, EndAccess, At, Erasing
  <2> QED
    BY <1>0, <2>1, StaleBefore DEF Lands, Turns
<1>6. CASE LeaveHandler(w)
  <2>1. PICK d \in Client : d = worker[w].for
    BY <1>6 DEF LeaveHandler, AppInv, BusyForClient, Busy, At, OwnerSteps
  <2>2. ~Erasing(w) /\ UNCHANGED clients /\ \E step, e : Lands(w, step, e)
    BY <1>6, AcceptLands DEF LeaveHandler, At, Erasing
  <2>3. cl'[c].closes = cl[c].closes
    BY <1>6, <2>1, OwnerReturnsHold DEF LeaveHandler, AppInv
  <2> QED
    BY <1>0, <2>2, <2>3, StaleBefore DEF Lands, Turns
<1>7. CASE TakeMessage(w)
  <2>1. ~Erasing(w) /\ UNCHANGED clients /\ \E step, e : Lands(w, step, e)
    BY <1>7, StrandLands DEF TakeMessage, At, Erasing
  <2>2. PICK d \in Client : RaiseMessage(d)
    BY <1>7 DEF TakeMessage
  <2>3. cl'[c].closes = cl[c].closes
    BY <2>2, EventRaised DEF AppInv
  <2> QED
    BY <1>0, <2>1, <2>3, StaleBefore DEF Lands, Turns
<1>8. CASE TakeClosed(w)
  <2>1. PICK d \in Client : RaiseClosed(d) /\ Lands(w, "erase", d)
    BY <1>8, StrandLands
  <2>2. c # d
    BY <2>1 DEF Stale, Lands, Turns
  <2>3. cl'[c] = cl[c] /\ ~Erasing(w) /\ UNCHANGED clients
    BY <1>8, <2>1, <2>2, EventRaised DEF AppInv, TakeClosed, At, Erasing
  <2> QED
    BY <1>0, <2>1, <2>3, StaleBefore DEF Lands, Turns
<1>9. CASE EraseBegin(w)
  <2>1. Lands(w, "erasing", worker[w].for) /\ UNCHANGED <<cl, clients>>
    BY <1>9, StrandLands DEF EraseBegin, BeginAccess, clientVars
  <2>2. worker[w].for # c
    BY <2>1 DEF Stale, Lands, Turns
  <2> QED
    BY <1>0, <2>1, <2>2, StaleBefore DEF Lands, Turns
<1>10. CASE EraseEnd(w)
  <2>1. /\ At(w, "erasing") /\ UNCHANGED cl /\ clients' \subseteq clients
        /\ worker[w].raced \/ worker[w].for \notin clients'
        /\ \E step, e : Lands(w, step, e)
    BY <1>10, StrandLands DEF EraseEnd, EndAccess
  <2>2. worker[w].for # c
    BY <2>1 DEF Stale
  <2> QED
    BY <1>0, <2>1, <2>2, StaleBefore DEF Lands, Turns
<1>11. CASE OnMessageReceived(w) \/ CommandEscapes(w) \/ OnConnectionClosed(w)
  <2>1. PICK d \in Client : d = worker[w].for
    BY <1>11, SubscriberReturns
  <2>2. ~Erasing(w) /\ UNCHANGED clients /\ \E step, e : Lands(w, step, e)
    BY <1>11, StrandLands
       DEF OnMessageReceived, CommandEscapes, OnConnectionClosed, At, Erasing
  <2>3. cl'[c].closes = cl[c].closes
    BY <1>11, <2>1, SubscriberReturns, EventReturns DEF AppInv
  <2> QED
    BY <1>0, <2>2, <2>3, StaleBefore DEF Lands, Turns
<1> QED
  BY <1>1, <1>2, <1>3, <1>4, <1>5, <1>6, <1>7, <1>8, <1>9, <1>10, <1>11
     DEF WorkerStep, AcceptStep, StrandWork

LEMMA StaleStep ==
  ASSUME AppInv, [Next]_vars, NEW c \in Client, Stale(c)', ~Stale(c)
  PROVE  LateEmplace(c) \/ RacedErase(c) \/ EndsUnheard(c)
<1>0. ClientInv /\ ClientInv'
  BY AppInvNext DEF AppInv
<1>1. CASE Unheard(c)' /\ ~Unheard(c)
  <2>1. CASE ~cl'[c].running
    BY <1>1, <2>1 DEF EndsUnheard
  <2>2. CASE cl'[c].running
    <3>1. LeftRunning(cl'[c]) /\ ~LeftRunning(cl[c])
      BY <1>1, <2>2 DEF Unheard, LeftRunning
    <3> QED
      BY <1>1, <3>1, LeftByException DEF EndsUnheard
  <2> QED
    BY <2>1, <2>2
<1>2. CASE ~(Unheard(c)' /\ ~Unheard(c))
  <2>0. (cl'[c].closes = 1 => cl[c].closes = 1) => (Done(c)' => Done(c))
    BY <1>0, <1>2, DoneBefore
  <2>1. CASE SpawnPool
    <3>1. UNCHANGED <<cl, clients>> /\ \A w \in Worker : worker[w].at = "off"
      BY <2>1 DEF SpawnPool, AppInv, NotYet, At, clientVars
    <3> QED
      BY <2>0, <3>1 DEF Stale
  <2>2. CASE \/ UNCHANGED vars \/ StartListener \/ SubscribeAccepted
             \/ ConnectionArrives \/ AcceptFails \/ KernelWorks
    <3>1. UNCHANGED <<worker, clients>>
      BY <2>2 DEF vars, StartListener, SubscribeAccepted, ConnectionArrives, AcceptFails,
         KernelWorks, appVars
    <3>2. cl'[c].closes = cl[c].closes
      <4>1. CASE KernelWorks
        BY <4>1, QuietSteps DEF KernelWorks, AppInv, Quiet
      <4>2. CASE ~KernelWorks
        BY <2>2, <4>2 DEF vars, StartListener, SubscribeAccepted, ConnectionArrives,
           AcceptFails, clientVars
      <4> QED
        BY <4>1, <4>2
    <3> QED
      BY <2>0, <3>1, <3>2, StaleUnmoved
  <2>3. ASSUME NEW w \in Worker, WorkerStep(w)
        PROVE  /\ worker[w].for = c
               /\ At(w, "emplacing") \/ (At(w, "erasing") /\ worker[w].raced)
    BY <1>0, <1>2, <2>3, WorkerStale
  <2> QED
    BY <2>1, <2>2, <2>3 DEF Next, MainStep, LateEmplace, RacedErase
<1> QED
  BY <1>1, <1>2

\* The stale entries of clients_ (application.cc) are those of clients that were
\* done before their emplace, the work of two threads in the map, and those of
\* clients that end without ConnectionClosed, because Stop was called or an
\* exception left OnMessageReceived: the erase in OnConnectionClosed is in time for
\* all others.
THEOREM StaleEntries == Spec => StaleEntryCauses
<1>1. AppInv /\ [Next]_vars =>
        [\A c \in Client : Stale(c)' /\ ~Stale(c) =>
           LateEmplace(c) \/ RacedErase(c) \/ EndsUnheard(c)]_vars
  BY StaleStep
<1> QED
  BY <1>1, AppInvariant, PTL DEF Spec, StaleEntryCauses

-----------------------------------------------------------------------------
\* The promises of a client of its own hold in the server: a read that is
\* outstanding keeps it alive, ConnectionClosed comes last, and a stopped client
\* waits for nothing.
THEOREM SafeInServer == Spec => [](ReadKeepsAlive /\ ClosedIsLast /\ StoppedNeverWaits)
  BY ClientImplemented, ReadsKeepAlive, ClosedComesLast, StopEndsReads, PTL
     DEF ImplementsClient

=============================================================================
