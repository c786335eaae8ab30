---------------------------- MODULE FrameReader -----------------------------
(***************************************************************************)
(* How AsyncTcpClient::StartRead cuts the byte stream of one connection    *)
(* into messages.  A header is read with async_receive, which returns what *)
(* has arrived, eight bytes at most; a message with async_read until at    *)
(* least its length is in buffer_, which may read on into the next frame.  *)
(* Module AsyncTcpClient has the results "ok", "empty" and "badsize" of    *)
(* these reads; here it is seen which of them a stream leads to.           *)
(***************************************************************************)
EXTENDS FrameCodec, SequencesExt

CONSTANTS
  Message,        \* messages of the peer, as sequences of bytes
  ReadCap,        \* bytes one read of async_read has room for (512 or more)
  MaxMessages     \* bound: messages the peer sends

\* A frame can announce no longer message than its header can hold.
ASSUME MessageAssumption ==
  Message \subseteq Seq(Byte) /\ \A m \in Message : IsLength(Len(m))
ASSUME ReadCapAssumption == ReadCap \in Nat \ {0}
ASSUME MaxMessagesAssumption == MaxMessages \in Nat

VARIABLES
  written,     \* messages the peer has written
  wire,        \* bytes written and not yet read
  ready,       \* how many of them have arrived
  at,          \* "header" or "body": the outstanding read; "badsize" or "lost":
               \* ConnectionClosed was raised with message_size or an error
  want,        \* msg_length of the outstanding async_read
  buffer,      \* buffer_
  delivered,   \* messages MessageRecieved was raised with
  handled,     \* frames whose last handler has come to its StartRead
  polite       \* history: the peer wrote no frame before the last one was
               \* handled, no header was split and no connection lost

readerVars == <<written, wire, ready, at, want, buffer, delivered, handled, polite>>

NonEmpty(message) == message # <<>>

AtMost(n) == IF ready < n THEN ready ELSE n

-----------------------------------------------------------------------------
\* The peer writes one more frame.
PeerWrites ==
  /\ Len(written) < MaxMessages
  /\ \E m \in Message :
       /\ written' = Append(written, m)
       /\ wire' = wire \o Frame(m)
  /\ polite' = (polite /\ handled = Len(written))
  /\ UNCHANGED <<ready, at, want, buffer, delivered, handled>>

\* Some of its bytes arrive.
Arrives ==
  /\ \E n \in ready + 1 .. Len(wire) : ready' = n
  /\ polite' = (polite /\ (at = "header" => ready' >= HeaderSize))
  /\ UNCHANGED <<written, wire, at, want, buffer, delivered, handled>>

\* The read takes n bytes from the socket.
Take(n) ==
  /\ wire' = SubSeq(wire, n + 1, Len(wire))
  /\ ready' = ready - n

FaultyHandleHeader(h) ==
  /\ at' = "body"
  /\ want' = Decode(h)
  /\ UNCHANGED handled

\* The header handler of StartRead, for the header h.
HandleHeader(h) ==
  \/ /\ Decode(h) = 0
     /\ handled' = handled + 1
     /\ UNCHANGED <<at, want>>
  \/ /\ Decode(h) # 0
     /\ at' = "body"
     /\ want' = Decode(h)
     /\ UNCHANGED handled

FaultyReadHeader ==
  /\ at = "header"
  /\ ready > 0
  /\ Take(AtMost(HeaderSize))
  /\ HandleHeader(SubSeq(wire, 1, HeaderSize))
  /\ UNCHANGED <<written, buffer, delivered, polite>>

\* async_receive: what has arrived is the header, whole or not.
ReadHeader ==
  /\ at = "header"
  /\ ready > 0
  /\ Take(AtMost(HeaderSize))
  /\ \/ /\ ready < HeaderSize
        /\ at' = "badsize"
        /\ UNCHANGED <<want, handled>>
     \/ /\ ready >= HeaderSize
        /\ HandleHeader(SubSeq(wire, 1, HeaderSize))
  /\ UNCHANGED <<written, buffer, delivered, polite>>

\* async_read has too few bytes and reads what has arrived.
ReadBody ==
  /\ at = "body"
  /\ Len(buffer) < want
  /\ ready > 0
  /\ Take(AtMost(ReadCap))
  /\ buffer' = buffer \o SubSeq(wire, 1, AtMost(ReadCap))
  /\ UNCHANGED <<written, at, want, delivered, handled, polite>>

FaultyHandleBody ==
  /\ at = "body"
  /\ Len(buffer) >= want
  /\ at' = "header"
  /\ delivered' = Append(delivered, buffer)
  /\ buffer' = <<>>
  /\ handled' = handled + 1
  /\ UNCHANGED <<written, wire, ready, want, polite>>

FaultyHandleBodyWhole ==
  /\ at = "body"
  /\ Len(buffer) >= want
  /\ \/ /\ Len(buffer) # want + HeaderSize
        /\ at' = "badsize"
        /\ UNCHANGED <<buffer, delivered, handled>>
     \/ /\ Len(buffer) = want + HeaderSize
        /\ at' = "header"
        /\ delivered' = Append(delivered, buffer)
        /\ buffer' = <<>>
        /\ handled' = handled + 1
  /\ UNCHANGED <<written, wire, ready, want, polite>>

\* The message handler: the size must be exact.
HandleBody ==
  /\ at = "body"
  /\ Len(buffer) >= want
  /\ \/ /\ Len(buffer) # want
        /\ at' = "badsize"
        /\ UNCHANGED <<buffer, delivered, handled>>
     \/ /\ Len(buffer) = want
        /\ at' = "header"
        /\ delivered' = Append(delivered, buffer)
        /\ buffer' = <<>>
        /\ handled' = handled + 1
  /\ UNCHANGED <<written, wire, ready, want, polite>>

\* The outstanding read completes with an error.
ConnectionLost ==
  /\ at = "header" \/ (at = "body" /\ Len(buffer) < want)
  /\ at' = "lost"
  /\ polite' = FALSE
  /\ UNCHANGED <<written, wire, ready, want, buffer, delivered, handled>>

-----------------------------------------------------------------------------
ReaderInit ==
  /\ written = <<>>
  /\ wire = <<>>
  /\ ready = 0
  /\ at = "header"
  /\ want = 0
  /\ buffer = <<>>
  /\ delivered = <<>>
  /\ handled = 0
  /\ polite = TRUE

ReaderStep == ReadHeader \/ ReadBody \/ HandleBody

ReaderNext == PeerWrites \/ Arrives \/ ReaderStep \/ ConnectionLost

ReaderSpec == ReaderInit /\ [][ReaderNext]_readerVars

-----------------------------------------------------------------------------
(* Properties. *)

\* Every variable has its type; no empty message is ever delivered.
ReaderTypeOK ==
  /\ written \in Seq(Message)
  /\ wire \in Seq(Byte)
  /\ ready \in 0..Len(wire)
  /\ at \in {"header", "body", "badsize", "lost"}
  /\ IsLength(want)
  /\ buffer \in Seq(Byte)
  /\ delivered \in Seq(Seq(Byte) \ {<<>>})
  /\ handled \in Nat
  /\ polite \in BOOLEAN

\* The reader never loses its place in the stream: as long as it reads, what it
\* has buffered and what is on the wire are the frames it has not handled,
\* without the header of the first while its message is being read.
Frames(messages) == FlattenSeq([i \in 1..Len(messages) |-> Frame(messages[i])])

Unhandled == SubSeq(written, handled + 1, Len(written))

Aligned ==
  /\ handled <= Len(written)
  /\ at = "header" => buffer = <<>> /\ wire = Frames(Unhandled)
  /\ at = "body" =>
       /\ Unhandled # <<>>
       /\ want = Len(Head(Unhandled))
       /\ buffer \o wire = Head(Unhandled) \o Frames(Tail(Unhandled))

\* The messages of the peer that MessageRecieved is raised for: an empty frame is
\* answered by the header handler.
Raised(messages) ==
  FlattenSeq([i \in 1..Len(messages) |->
                IF NonEmpty(messages[i]) THEN <<messages[i]>> ELSE <<>>])

\* The messages given to MessageRecieved are those of the peer: module
\* MessageChannel, whatever the segments the stream arrives in.
Channel == INSTANCE MessageChannel
             WITH Message  <- {m \in Message : NonEmpty(m)},
                  sent     <- Raised(written),
                  received <- delivered,
                  open     <- at \in {"header", "body"}

ImplementsChannel == Channel!ChannelSpec

\* A peer that writes a frame only when the last one is handled, and whose headers
\* arrive in one piece, is never disconnected for a wrong size, however the network
\* cuts its messages.  (A header that is cut is refused, whatever the peer does.)
PoliteNeverRefused == polite => at # "badsize"

\* The message task receives "the message with the size of msg_length": it never
\* reads more than that.
ReadsOneMessage == at = "body" => Len(buffer) <= want

=============================================================================
