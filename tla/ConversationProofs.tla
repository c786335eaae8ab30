------------------------- MODULE ConversationProofs -------------------------
(***************************************************************************)
(* What holds of both directions of a connection for any messages, read    *)
(* sizes and numbers of responses: the reader is the one of FrameReader,   *)
(* and the writer loses no piece of a response without notice.             *)
(***************************************************************************)
EXTENDS Conversation, FrameReaderProofs

Noticed(w) == w.failures # 0 \/ w.stopped

\* The writer w is intact up to piece n, or has something to notice.
Sound(w, n) == w \in Writer /\ (~Noticed(w) => Intact(w, n))

\* Piece k is the one to go out next; with it w is intact up to piece n.
Expects(w, k, n) ==
  /\ k = Len(w.out) + 1
  /\ \A i \in 1..Len(w.out) : w.out[i].piece = i /\ w.out[i].got # "short"
  /\ \A i \in 1..Len(w.queue) : w.queue[i] = k + i
  /\ k + Len(w.queue) = n

Piece == [piece : Nat, got : Got]

LEMMA WriterFields ==
  ASSUME NEW w \in Writer
  PROVE  /\ w.answers \in Nat /\ w.out \in Seq(Piece) /\ w.queue \in Seq(Nat)
         /\ w.failures \in Nat /\ w.stopped \in BOOLEAN
  BY DEF Writer, Piece

LEMMA FailType ==
  ASSUME NEW w \in Writer
  PROVE  Fail(w) \in Writer /\ Noticed(Fail(w)) /\ Fail(w).answers = w.answers
<1>1. w.failures \in Nat
  BY DEF Writer
<1>2. w.failures + 1 \in Nat /\ w.failures + 1 # 0
  BY <1>1
<1> QED
  BY <1>2 DEF Fail, Writer, Noticed

LEMMA PutType ==
  ASSUME NEW w \in Writer, NEW k \in Nat, NEW got \in Got
  PROVE  /\ Put(w, k, got) \in Writer
         /\ Put(w, k, got).out = Append(w.out, [piece |-> k, got |-> got])
         /\ Put(w, k, got).queue = w.queue
         /\ Put(w, k, got).answers = w.answers
         /\ Noticed(Put(w, k, got)) = Noticed(w)
<1> DEFINE new == Append(w.out, [piece |-> k, got |-> got])
<1>1. w.out \in Seq([piece : Nat, got : Got])
  BY DEF Writer
<1>2. new \in Seq([piece : Nat, got : Got])
  BY <1>1
<1> HIDE DEF new
<1>3. Put(w, k, got) = [w EXCEPT !.out = new]
  BY DEF Put, new
<1> QED
  BY <1>2, <1>3 DEF Writer, Noticed, new

\* The piece that was expected goes out whole, or as junk.
LEMMA PutKeeps ==
  ASSUME NEW w \in Writer, NEW k \in Nat, NEW n \in Nat, NEW got \in Got,
         got # "short", ~Noticed(w) => Expects(w, k, n)
  PROVE  Sound(Put(w, k, got), n)
<1> DEFINE v == Put(w, k, got)
<1>0. /\ v \in Writer /\ v.out = Append(w.out, [piece |-> k, got |-> got])
      /\ v.queue = w.queue /\ Noticed(v) = Noticed(w)
  BY PutType
<1>1. w.out \in Seq(Piece) /\ w.queue \in Seq(Nat)
  BY WriterFields
<1> HIDE DEF v
<1>2. ASSUME Expects(w, k, n) PROVE Intact(v, n)
  <2>1. Len(v.out) = k
    BY <1>0, <1>1, <1>2 DEF Expects
  <2>2. ASSUME NEW i \in 1..Len(v.out)
        PROVE  v.out[i].piece = i /\ v.out[i].got # "short"
    <3>1. CASE i = k
      <4>1. v.out[i] = [piece |-> k, got |-> got]
        BY <1>0, <1>1, <1>2, <3>1 DEF Expects
      <4> QED
        BY <4>1, <3>1
    <3>2. CASE i # k
      <4>1. i \in 1..Len(w.out)
        BY <1>1, <1>2, <2>1, <3>2 DEF Expects
      <4>2. v.out[i] = w.out[i]
        BY <1>0, <1>1, <4>1
      <4> QED
        BY <4>1, <4>2, <1>2 DEF Expects
    <3> QED
      BY <3>1, <3>2
  <2> QED
    BY <1>0, <1>2, <2>1, <2>2 DEF Expects, Intact
<1> QED
  BY <1>0, <1>2 DEF Sound, v

LEMMA SentKeeps ==
  ASSUME NEW w \in Writer, NEW k \in Nat, NEW n \in Nat,
         ~Noticed(w) => Expects(w, k, n),
         NEW v \in Sent(w, k) \cup {Put(w, k, "junk")}
  PROVE  Sound(v, n) /\ v.answers = w.answers
<1>0. "whole" \in Got /\ "junk" \in Got /\ "short" \in Got
  BY DEF Got
<1>1. CASE v = Put(w, k, "whole") \/ v = Put(w, k, "junk")
  <2>1. PICK got \in Got : got # "short" /\ v = Put(w, k, got)
    BY <1>0, <1>1
  <2>2. Sound(Put(w, k, got), n)
    BY <2>1, PutKeeps
  <2>3. Put(w, k, got).answers = w.answers
    BY <2>1, PutType
  <2> QED
    BY <2>1, <2>2, <2>3
<1>2. CASE v = Fail(Put(w, k, "short"))
  BY <1>0, <1>2, PutType, FailType DEF Sound
<1>3. CASE v = Fail(w)
  BY <1>3, FailType DEF Sound
<1> QED
  BY <1>1, <1>2, <1>3 DEF Sent

LEMMA AsyncSendKeeps ==
  ASSUME NEW w, NEW n \in Nat, Sound(w, n), NEW v \in AsyncSend(w, n + 1)
  PROVE  Sound(v, n + 1) /\ v.answers = w.answers
<1>0. w \in Writer /\ w.out \in Seq(Piece) /\ w.queue \in Seq(Nat)
  BY WriterFields DEF Sound
<1>1. CASE w.stopped
  BY <1>0, <1>1, FailType DEF AsyncSend, Sound
<1>2. CASE ~w.stopped /\ w.queue = <<>> /\ v \in Sent(w, n + 1)
  <2>1. ASSUME ~Noticed(w) PROVE Expects(w, n + 1, n + 1)
    <3>1. Intact(w, n)
      BY <2>1 DEF Sound
    <3>2. Len(w.queue) = 0 /\ Len(w.out) \in Nat
      BY <1>0, <1>2
    <3>3. Len(w.out) = n
      BY <3>1, <3>2 DEF Intact
    <3> QED
      BY <3>1, <3>2, <3>3 DEF Intact, Expects
  <2>2. n + 1 \in Nat
    OBVIOUS
  <2>3. v \in Sent(w, n + 1) \cup {Put(w, n + 1, "junk")}
    BY <1>2
  <2>4. w \in Writer
    BY <1>0
  <2> QED
    BY <2>1, <2>2, <2>3, <2>4, SentKeeps
<1>3. CASE ~w.stopped /\ v = [w EXCEPT !.queue = Append(@, n + 1)]
  <2> DEFINE longer == Append(w.queue, n + 1)
  <2>1. /\ longer \in Seq(Nat) /\ Len(longer) = Len(w.queue) + 1
        /\ \A i \in 1..Len(w.queue) : longer[i] = w.queue[i]
        /\ longer[Len(w.queue) + 1] = n + 1
    BY <1>0
  <2> HIDE DEF longer
  <2>2. v = [w EXCEPT !.queue = longer]
    BY <1>3 DEF longer
  <2>3. /\ v \in Writer /\ v.queue = longer /\ v.out = w.out
        /\ v.answers = w.answers /\ Noticed(v) = Noticed(w)
    BY <2>1, <2>2, <1>0 DEF Writer, Noticed
  <2>4. ASSUME Intact(w, n) PROVE Intact(v, n + 1)
    <3> DEFINE a == Len(w.out)
               b == Len(w.queue)
    <3>1. a \in Nat /\ b \in Nat /\ a + b = n
      <4>1. Len(w.out) + Len(w.queue) = n
        BY <2>4 DEF Intact
      <4>2. Len(w.out) \in Nat /\ Len(w.queue) \in Nat
        BY <1>0
      <4> QED
        BY <4>1, <4>2
    <3>2. /\ Len(longer) = b + 1 /\ longer[b + 1] = n + 1
          /\ \A i \in 1..b : longer[i] = a + i
      <4>1. \A i \in 1..b : w.queue[i] = a + i
        BY <2>4 DEF Intact
      <4> QED
        BY <2>1, <4>1
    <3>3. Len(v.out) = a /\ Len(v.queue) = b + 1 /\ v.queue = longer
      <4>1. v.out = w.out /\ v.queue = longer
        BY <2>3
      <4> QED
        BY <4>1, <3>2
    <3> HIDE DEF a, b
    <3>4. Len(v.out) + Len(v.queue) = n + 1
      BY <3>1, <3>3
    <3>5. \A i \in 1..Len(v.queue) : v.queue[i] = Len(v.out) + i
      <4>1. \A i \in 1..b + 1 : i \in 1..b \/ i = b + 1
        BY <3>1
      <4>2. a + (b + 1) = n + 1
        BY <3>1
      <4>3. \A i \in 1..b + 1 : longer[i] = a + i
        BY <3>2, <4>1, <4>2
      <4> QED
        BY <3>3, <4>3
    <3>6. \A i \in 1..Len(v.out) : v.out[i].piece = i /\ v.out[i].got # "short"
      BY <2>3, <2>4 DEF Intact
    <3> QED
      BY <3>4, <3>5, <3>6 DEF Intact
  <2> QED
    BY <2>3, <2>4 DEF Sound
<1> QED
  BY <1>1, <1>2, <1>3 DEF AsyncSend

LEMMA RespondKeeps ==
  ASSUME NEW w, Sound(w, 2 * w.answers), NEW v \in Respond(w)
  PROVE  Sound(v, 2 * v.answers)
<1> DEFINE n == 2 * w.answers
           a == [w EXCEPT !.answers = @ + 1]
<1>0. w \in Writer /\ w.answers \in Nat
  BY WriterFields DEF Sound
<1>1. n \in Nat /\ n + 1 \in Nat /\ n + 2 = 2 * (w.answers + 1) /\ n + 2 = (n + 1) + 1
  BY <1>0
<1>2. a \in Writer /\ a.answers = w.answers + 1 /\ Sound(a, n)
  <2>1. w.answers + 1 \in Nat
    BY <1>0
  <2>2. /\ a \in Writer /\ a.answers = w.answers + 1 /\ a.out = w.out
        /\ a.queue = w.queue /\ Noticed(a) = Noticed(w)
    BY <2>1, <1>0 DEF Writer, Noticed
  <2> QED
    BY <2>2 DEF Sound, Intact
<1>3. PICK u \in AsyncSend(a, n + 1) : v \in AsyncSend(u, n + 2)
  BY DEF Respond
<1> HIDE DEF n, a
<1>4. Sound(u, n + 1) /\ u.answers = a.answers
  BY <1>1, <1>2, <1>3, AsyncSendKeeps
<1>5. v \in AsyncSend(u, (n + 1) + 1)
  BY <1>1, <1>3
<1>6. Sound(v, (n + 1) + 1) /\ v.answers = u.answers
  BY <1>1, <1>4, <1>5, AsyncSendKeeps
<1> QED
  BY <1>1, <1>2, <1>4, <1>6

LEMMA StopKeeps ==
  ASSUME NEW w \in Writer, NEW n
  PROVE  Sound(Stop(w), n)
<1>1. w.queue \in Seq(Nat) /\ w.failures \in Nat
  BY WriterFields
<1> DEFINE f == w.failures + Len(w.queue)
<1>2. f \in Nat
  BY <1>1
<1>3. Stop(w) = [w EXCEPT !.stopped = TRUE, !.queue = <<>>, !.failures = f]
  BY DEF Stop
<1> HIDE DEF f
<1>4. <<>> \in Seq(Nat)
  OBVIOUS
<1>5. Stop(w) \in Writer /\ Stop(w).stopped = TRUE
  BY <1>2, <1>3, <1>4 DEF Writer
<1> QED
  BY <1>5 DEF Sound, Noticed

WriterInv == Sound(writer, 2 * writer.answers)

LEMMA SendQueuedKeeps == WriterInv /\ SendQueued => WriterInv'
<1> SUFFICES ASSUME WriterInv, SendQueued PROVE WriterInv'
  OBVIOUS
<1> DEFINE w == [writer EXCEPT !.queue = Tail(@)]
           k == Head(writer.queue)
           n == 2 * writer.answers
<1>0. /\ writer \in Writer /\ writer.out \in Seq(Piece)
      /\ writer.queue \in Seq(Nat) /\ writer.queue # <<>> /\ n \in Nat
  BY WriterFields DEF WriterInv, Sound, SendQueued
<1>1. /\ k \in Nat /\ Tail(writer.queue) \in Seq(Nat)
      /\ k = writer.queue[1]
      /\ Len(Tail(writer.queue)) = Len(writer.queue) - 1
      /\ \A i \in 1..Len(Tail(writer.queue)) : Tail(writer.queue)[i] = writer.queue[i + 1]
  BY <1>0
<1>2. /\ w \in Writer /\ w.queue = Tail(writer.queue) /\ w.out = writer.out
      /\ w.answers = writer.answers /\ Noticed(w) = Noticed(writer)
  BY <1>0, <1>1 DEF Writer, Noticed
<1>3. writer' \in Sent(w, k) \cup {Put(w, k, "junk")}
  BY DEF SendQueued
<1> HIDE DEF w, k
<1>4. ASSUME ~Noticed(w) PROVE Expects(w, k, n)
  <2>1. Intact(writer, n)
    BY <1>2, <1>4 DEF WriterInv, Sound
  <2>2. Len(writer.queue) \in Nat \ {0} /\ Len(writer.out) \in Nat
    BY <1>0
  <2>3. k = Len(w.out) + 1
    BY <1>1, <1>2, <2>1, <2>2 DEF Intact
  <2>4. \A i \in 1..Len(w.queue) : w.queue[i] = k + i
    BY <1>1, <1>2, <2>1, <2>2, <2>3 DEF Intact
  <2>5. k + Len(w.queue) = n
    <3> DEFINE a == Len(writer.out)
               b == Len(writer.queue)
    <3>1. a \in Nat /\ b \in Nat /\ a + b = n
      BY <2>1, <2>2 DEF Intact
    <3>2. k = a + 1 /\ Len(w.queue) = b - 1
      BY <1>1, <1>2, <2>3
    <3> HIDE DEF a, b
    <3> QED
      BY <3>1, <3>2
  <2> QED
    BY <1>2, <2>1, <2>3, <2>4, <2>5 DEF Intact, Expects
<1>5. Sound(writer', n) /\ writer'.answers = w.answers
  BY <1>0, <1>1, <1>2, <1>3, <1>4, SentKeeps
<1> QED
  BY <1>2, <1>5 DEF WriterInv

LEMMA HandleWriteKeeps == WriterInv /\ HandleWrite => WriterInv'
<1> SUFFICES ASSUME WriterInv, HandleWrite PROVE WriterInv'
  OBVIOUS
<1>1. writer \in Writer /\ writer.failures \in Nat \ {0}
  BY WriterFields DEF WriterInv, Sound, HandleWrite
<1>2. writer.failures - 1 \in Nat
  BY <1>1
<1>3. [writer EXCEPT !.failures = @ - 1] \in Writer
  BY <1>1, <1>2 DEF Writer
<1> QED
  BY <1>3, StopKeeps DEF HandleWrite, WriterInv

LEMMA TalkInitInv == TalkInit => WriterInv
  BY DEF TalkInit, WriterInit, WriterInv, Sound, Noticed, Intact, Writer

\* Whatever a handler calls, no piece is lost.
LEMMA CallsKeep ==
  ASSUME NEW ws, \A w \in ws : Sound(w, 2 * w.answers), NEW v \in Calls(ws)
  PROVE  Sound(v, 2 * v.answers)
<1>1. CASE v \in ws
  BY <1>1
<1>2. CASE \E w \in ws : v \in Respond(w)
  BY <1>2, RespondKeeps
<1>3. CASE \E w \in ws : v = Stop(w)
  <2>1. PICK w \in ws : v = Stop(w)
    BY <1>3
  <2>2. w \in Writer
    BY DEF Sound
  <2>3. Sound(Stop(w), 2 * v.answers)
    BY <2>2, StopKeeps
  <2> QED
    BY <2>1, <2>3
<1> QED
  BY <1>1, <1>2, <1>3 DEF Calls

LEMMA AfterMessageKeeps ==
  ASSUME WriterInv, NEW v \in AfterMessage(writer)
  PROVE  Sound(v, 2 * v.answers)
<1>1. \A u \in Calls({writer}) : Sound(u, 2 * u.answers)
  BY CallsKeep DEF WriterInv
<1> QED
  BY <1>1, CallsKeep DEF AfterMessage

LEMMA TalkStepInv == WriterInv /\ [TalkNext]_talkVars => WriterInv'
<1> SUFFICES ASSUME WriterInv, [TalkNext]_talkVars PROVE WriterInv'
  OBVIOUS
<1>0. writer \in Writer
  BY DEF WriterInv, Sound
<1>1. CASE UNCHANGED writer
  BY <1>1 DEF WriterInv
<1>2. CASE Disconnect
  BY <1>2, <1>0, StopKeeps DEF Disconnect, WriterInv
<1>3. CASE HeaderRead
  <2>1. CASE writer' \in Respond(writer)
    BY <2>1, RespondKeeps DEF WriterInv
  <2> QED
    BY <1>1, <1>2, <1>3, <2>1 DEF HeaderRead, ReadOn
<1>4. CASE PartRead
  BY <1>1, <1>4 DEF PartRead, ReadOn
<1>5. CASE MessageRead
  <2>1. CASE writer' \in AfterMessage(writer)
    BY <2>1, AfterMessageKeeps DEF WriterInv
  <2> QED
    BY <1>2, <1>5, <2>1 DEF MessageRead
<1>6. CASE LoseConnection
  BY <1>2, <1>6 DEF LoseConnection
<1>7. CASE Write
  BY <1>7, SendQueuedKeeps, HandleWriteKeeps DEF Write, WriterStep
<1>8. CASE PeerSends \/ SocketReceives
  BY <1>1, <1>8 DEF PeerSends, SocketReceives
<1> QED
  BY <1>1, <1>3, <1>4, <1>5, <1>6, <1>7, <1>8 DEF TalkNext, Read, talkVars

\* The inductive invariant of the writer.
THEOREM WriterInvariant == TalkSpec => []WriterInv
  BY TalkInitInv, TalkStepInv, PTL DEF TalkSpec

\* The fields of the writer keep their types.
THEOREM WriterTypeCorrect == TalkSpec => []WriterTypeOK
<1>1. WriterInv => WriterTypeOK
  BY DEF WriterInv, Sound, WriterTypeOK
<1> QED
  BY <1>1, WriterInvariant, PTL

\* However many responses are started, whichever sends are deferred, short or
\* refused: no piece is lost, doubled or overtaken without a failed send that
\* HandleWrite will notice or has noticed.
THEOREM NoPieceLost == TalkSpec => []NothingLost
<1>1. WriterInv => NothingLost
  BY DEF WriterInv, Sound, Noticed, NothingLost
<1> QED
  BY <1>1, WriterInvariant, PTL

\* Whatever the handlers do, the reader still is the one of FrameReader.
THEOREM ReaderImplemented == TalkSpec => ReaderSpec
<1>1. TalkInit => ReaderInit
  BY DEF TalkInit
<1>2. [TalkNext]_talkVars => [ReaderNext]_readerVars
  BY DEF TalkNext, talkVars, PeerSends, SocketReceives, Read, HeaderRead, PartRead,
         MessageRead, LoseConnection, Write, ReaderNext, ReaderStep
<1> QED
  BY <1>1, <1>2, PTL DEF TalkSpec, ReaderSpec

\* So the stream of each client is read in step with its frames while responses
\* are written, sends fail and HandleWrite stops the client.
THEOREM TalkAligned == TalkSpec => []Aligned
  BY ReaderImplemented, ReaderAligned, PTL

\* And the server keeps the promise of MessageRecieved.
THEOREM TalkChannel == TalkSpec => ImplementsChannel
  BY ReaderImplemented, ChannelImplemented, PTL

\* And a client that waits until its frames are handled, and whose headers come in
\* one piece, is not refused for a size.
THEOREM TalkPolite == TalkSpec => []PoliteNeverRefused
  BY ReaderImplemented, PoliteServed, PTL

=============================================================================
