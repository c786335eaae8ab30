------------------------- MODULE FrameReaderProofs --------------------------
(***************************************************************************)
(* What holds of the framing for messages of every length and segments of  *)
(* every size: the length that Respond writes is the one StartRead reads,  *)
(* the reader keeps its place in the stream, and what it delivers is what  *)
(* was sent.                                                               *)
(***************************************************************************)
EXTENDS FrameReader, StreamLemmas, TLAPS

\* A number is its lowest byte and 256 times the rest.
LEMMA LowByte ==
  ASSUME NEW n \in Nat
  PROVE  /\ Shift(n) \in Nat
         /\ n % 256 \in Byte
         /\ n = (n % 256) + 256 * Shift(n)
  BY SMT DEF Shift, Byte

LEMMA ByteMod ==
  ASSUME NEW b \in Byte
  PROVE  b % 256 = b
  BY SMT DEF Byte

\* The four bytes of a length are bytes, and the last one is not cut.
LEMMA EncodedBytes ==
  ASSUME NEW n \in Nat
  PROVE  /\ \A i \in 1..4 : Encode(n)[i] \in Byte
         /\ Encode(n) \in Seq(Byte)
         /\ Len(Encode(n)) = 4
<1>1. /\ Shift(n) \in Nat /\ Shift(Shift(n)) \in Nat
      /\ Shift(Shift(Shift(n))) \in Nat
  BY LowByte
<1>2. /\ n % 256 \in Byte /\ Shift(n) % 256 \in Byte
      /\ Shift(Shift(n)) % 256 \in Byte /\ Shift(Shift(Shift(n))) % 256 \in Byte
  BY <1>1, LowByte
<1> QED
  BY <1>2, SMT DEF Encode

\* StartRead finds in the header of a frame the length that Respond's encoding
\* was given, for every length a header can hold.
THEOREM LengthRoundTrip ==
  ASSUME NEW message \in Seq(Byte), IsLength(Len(message))
  PROVE  Decode(Frame(message)) = Len(message)
<1> DEFINE n  == Len(message)
           n1 == Shift(n)
           n2 == Shift(n1)
           n3 == Shift(n2)
<1>1. n \in Nat /\ n1 \in Nat /\ n2 \in Nat /\ n3 \in Byte
  BY LowByte DEF IsLength
<1>2. n = (n % 256) + 256 * n1
  BY <1>1, LowByte
<1>3. n1 = (n1 % 256) + 256 * n2
  BY <1>1, LowByte
<1>4. n2 = (n2 % 256) + 256 * n3
  BY <1>1, LowByte
<1>5. n3 % 256 = n3
  BY <1>1, ByteMod
<1>6. /\ Frame(message)[5] = n % 256
      /\ Frame(message)[6] = n1 % 256
      /\ Frame(message)[7] = n2 % 256
      /\ Frame(message)[8] = n3 % 256
  BY SMT DEF Frame, Encode
<1> HIDE DEF n, n1, n2, n3
<1>7. Decode(Frame(message)) = n
  BY <1>1, <1>2, <1>3, <1>4, <1>5, <1>6, SMT DEF Decode, Byte
<1> QED
  BY <1>7 DEF n

\* Shifting removes the lowest byte and nothing else.
LEMMA ShiftOut ==
  ASSUME NEW b \in Byte, NEW n \in Nat
  PROVE  b + 256 * n \in Nat /\ Shift(b + 256 * n) = n
<1>1. b \in 0..255
  BY DEF Byte
<1> QED
  BY <1>1, SMT DEF Shift

\* Eight bytes always decode to a length.
LEMMA DecodeType ==
  ASSUME NEW h, \A i \in 5..8 : h[i] \in Byte
  PROVE  IsLength(Decode(h))
<1> DEFINE d3 == h[8]
           d2 == h[7] + 256 * d3
           d1 == h[6] + 256 * d2
<1>1. h[5] \in Byte /\ h[6] \in Byte /\ h[7] \in Byte /\ d3 \in Byte
  BY SMT
<1>2. d3 \in Nat
  BY <1>1, SMT DEF Byte
<1>3. d2 \in Nat /\ Shift(d2) = d3
  BY <1>1, <1>2, ShiftOut
<1>4. d1 \in Nat /\ Shift(d1) = d2
  BY <1>1, <1>3, ShiftOut
<1>5. Decode(h) \in Nat /\ Shift(Decode(h)) = d1
  BY <1>1, <1>4, ShiftOut DEF Decode
<1> QED
  BY <1>1, <1>3, <1>4, <1>5 DEF IsLength

\* 2^32
Lengths == 256 * (256 * (256 * 256))

\* What Respond writes of a message too long for a header, of which it sends all:
\* the reader finds what is left of the length without its multiples of 2^32.
THEOREM LengthCut ==
  ASSUME NEW message \in Seq(Byte)
  PROVE  /\ IsLength(Decode(Frame(message)))
         /\ \E k \in Nat : Len(message) = Decode(Frame(message)) + Lengths * k
<1> DEFINE n  == Len(message)
           n1 == Shift(n)
           n2 == Shift(n1)
           n3 == Shift(n2)
           n4 == Shift(n3)
<1>1. n \in Nat /\ n1 \in Nat /\ n2 \in Nat /\ n3 \in Nat /\ n4 \in Nat
  <2>1. n \in Nat
    OBVIOUS
  <2> QED
    BY <2>1, LowByte
<1>2. n % 256 \in 0..255 /\ n = (n % 256) + 256 * n1
  BY <1>1, LowByte DEF Byte
<1>3. n1 % 256 \in 0..255 /\ n1 = (n1 % 256) + 256 * n2
  BY <1>1, LowByte DEF Byte
<1>4. n2 % 256 \in 0..255 /\ n2 = (n2 % 256) + 256 * n3
  BY <1>1, LowByte DEF Byte
<1>5. n3 % 256 \in 0..255 /\ n3 = (n3 % 256) + 256 * n4
  BY <1>1, LowByte DEF Byte
<1>6. /\ Frame(message)[5] = n % 256
      /\ Frame(message)[6] = n1 % 256
      /\ Frame(message)[7] = n2 % 256
      /\ Frame(message)[8] = n3 % 256
  BY SMT DEF Frame, Encode
<1>7. IsLength(Decode(Frame(message)))
  <2>1. \A i \in 5..8 : Frame(message)[i] \in Byte
    <3>1. /\ Frame(message)[5] \in Byte /\ Frame(message)[6] \in Byte
          /\ Frame(message)[7] \in Byte /\ Frame(message)[8] \in Byte
      BY <1>2, <1>3, <1>4, <1>5, <1>6, Zenon DEF Byte
    <3>2. \A i \in 5..8 : i = 5 \/ i = 6 \/ i = 7 \/ i = 8
      OBVIOUS
    <3> QED
      BY <3>1, <3>2, Zenon
  <2> QED
    BY <2>1, DecodeType
<1> DEFINE d0 == n % 256
           d1 == n1 % 256
           d2 == n2 % 256
           d3 == n3 % 256
           d  == d0 + 256 * (d1 + 256 * (d2 + 256 * d3))
<1>8. Decode(Frame(message)) = d
  BY <1>6, Zenon DEF Decode
<1> HIDE DEF d0, d1, d2, d3, n, n1, n2, n3, n4
<1>9. d0 \in 0..255 /\ d1 \in 0..255 /\ d2 \in 0..255 /\ d3 \in 0..255
  BY <1>2, <1>3, <1>4, <1>5 DEF d0, d1, d2, d3
<1>10. n = d + Lengths * n4
  <2>1. n = d0 + 256 * n1 /\ n1 = d1 + 256 * n2 /\ n2 = d2 + 256 * n3 /\ n3 = d3 + 256 * n4
    BY <1>2, <1>3, <1>4, <1>5 DEF d0, d1, d2, d3
  <2> QED
    BY <1>1, <1>9, <2>1 DEF Lengths
<1> HIDE DEF d
<1>11. n = Decode(Frame(message)) + Lengths * n4
  BY <1>8, <1>10
<1> QED
  BY <1>7, <1>1, <1>11 DEF n

\* A frame is a sequence of bytes.
LEMMA FrameType ==
  ASSUME NEW message \in Seq(Byte)
  PROVE  Frame(message) \in Seq(Byte)
<1>1. <<0, 0, 0, 0>> \in Seq(Byte)
  BY SMT DEF Byte
<1>2. Encode(Len(message)) \in Seq(Byte)
  BY EncodedBytes
<1> QED
  BY <1>1, <1>2, SMT DEF Frame

\* Inductive: the type, and a message that is being read is never empty.
ReaderInv ==
  /\ ReaderTypeOK
  /\ at = "body" => want > 0

LEMMA TakeType ==
  ASSUME wire \in Seq(Byte), ready \in 0..Len(wire),
         NEW n \in 1..ready, Take(n)
  PROVE  wire' \in Seq(Byte) /\ ready' \in 0..Len(wire')
<1>1. wire' \in Seq(Byte) /\ Len(wire') = Len(wire) - n
  BY DEF Take
<1> QED
  BY <1>1 DEF Take

LEMMA ReaderInvInit == ReaderInit => ReaderInv
<1>1. Shift(0) = 0 /\ 0 \in Byte
  BY SMT DEF Shift, Byte
<1>2. IsLength(0)
  BY <1>1 DEF IsLength
<1> QED
  BY <1>2 DEF ReaderInit, ReaderInv, ReaderTypeOK

LEMMA ReaderInvNext == ReaderInv /\ [ReaderNext]_readerVars => ReaderInv'
<1> SUFFICES ASSUME ReaderInv, [ReaderNext]_readerVars
             PROVE  ReaderInv'
  OBVIOUS
<1> USE MessageAssumption, ReadCapAssumption DEF ReaderInv, ReaderTypeOK
<1>1. CASE PeerWrites
  <2>1. PICK m \in Message : written' = Append(written, m) /\ wire' = wire \o Frame(m)
    BY <1>1 DEF PeerWrites
  <2>2. Frame(m) \in Seq(Byte)
    BY FrameType
  <2>3. wire' \in Seq(Byte) /\ Len(wire') >= Len(wire)
    BY <2>1, <2>2
  <2> QED
    BY <1>1, <2>1, <2>3 DEF PeerWrites
<1>2. CASE Arrives
  BY <1>2 DEF Arrives
<1>3. CASE ReadHeader
  <2> DEFINE n == AtMost(HeaderSize)
  <2>1. n \in 1..ready /\ Take(n)
    BY <1>3 DEF ReadHeader, AtMost, HeaderSize
  <2>2. wire' \in Seq(Byte) /\ ready' \in 0..Len(wire')
    BY <2>1, TakeType
  <2>3. CASE ready < HeaderSize
    BY <1>3, <2>2, <2>3 DEF ReadHeader, HeaderSize
  <2>4. CASE ready >= HeaderSize
    <3> DEFINE h == SubSeq(wire, 1, HeaderSize)
    <3>1. HandleHeader(h)
      BY <1>3, <2>4 DEF ReadHeader, HeaderSize
    <3>2. \A i \in 5..8 : h[i] \in Byte
      BY <2>4 DEF HeaderSize
    <3>3. IsLength(Decode(h))
      BY <3>2, DecodeType
    <3>4. IsLength(want') /\ handled' \in Nat /\ at' \in {"header", "body"}
      BY <1>3, <3>1, <3>3 DEF HandleHeader, ReadHeader
    <3>5. at' = "body" => want' > 0
      BY <1>3, <3>1, <3>3 DEF HandleHeader, ReadHeader, IsLength
    <3> QED
      BY <1>3, <2>2, <3>4, <3>5 DEF ReadHeader
  <2> QED
    BY <2>3, <2>4 DEF HeaderSize
<1>4. CASE ReadBody
  <2> DEFINE n == AtMost(ReadCap)
  <2>1. n \in 1..ready /\ Take(n)
    BY <1>4 DEF ReadBody, AtMost
  <2>2. wire' \in Seq(Byte) /\ ready' \in 0..Len(wire')
    BY <2>1, TakeType
  <2>3. SubSeq(wire, 1, n) \in Seq(Byte)
    BY <2>1
  <2> QED
    BY <1>4, <2>2, <2>3 DEF ReadBody
<1>5. CASE HandleBody
  <2>1. CASE Len(buffer) # want
    BY <1>5, <2>1 DEF HandleBody
  <2>2. CASE Len(buffer) = want
    <3> DEFINE Whole == Seq(Byte) \ {<<>>}
    <3>1. buffer \in Whole /\ delivered \in Seq(Whole)
      BY <1>5, <2>2 DEF HandleBody
    <3>2. delivered' = Append(delivered, buffer)
      BY <1>5, <2>2 DEF HandleBody
    <3> HIDE DEF Whole
    <3>3. delivered' \in Seq(Whole)
      BY <3>1, <3>2
    <3> USE DEF Whole
    <3> QED
      BY <1>5, <2>2, <3>3 DEF HandleBody
  <2> QED
    BY <2>1, <2>2
<1>6. CASE ConnectionLost
  BY <1>6 DEF ConnectionLost
<1>7. CASE UNCHANGED readerVars
  BY <1>7 DEF readerVars
<1> QED
  BY <1>1, <1>2, <1>3, <1>4, <1>5, <1>6, <1>7 DEF ReaderNext, ReaderStep

\* Every variable of the reader keeps its type, and no empty message is ever
\* delivered, for all messages and sizes of reads.
THEOREM ReaderTypeCorrect == ReaderSpec => []ReaderTypeOK
<1>1. ReaderInv => ReaderTypeOK
  BY DEF ReaderInv
<1> QED
  BY <1>1, ReaderInvInit, ReaderInvNext, PTL DEF ReaderSpec

-----------------------------------------------------------------------------
(* Streams of frames. *)

LEMMA FrameSeqType ==
  ASSUME NEW s \in Seq(Message)
  PROVE  [i \in 1..Len(s) |-> Frame(s[i])] \in Seq(Seq(Byte))
<1>1. ASSUME NEW i \in 1..Len(s) PROVE Frame(s[i]) \in Seq(Byte)
  <2>1. s[i] \in Seq(Byte)
    BY MessageAssumption
  <2> QED
    BY <2>1, FrameType
<1> QED
  BY <1>1

LEMMA FramesType ==
  ASSUME NEW s \in Seq(Message)
  PROVE  Frames(s) \in Seq(Byte)
  BY FrameSeqType, FlattenType DEF Frames

\* One more frame is written at the end of the stream.
LEMMA FramesAppend ==
  ASSUME NEW s \in Seq(Message), NEW m \in Message
  PROVE  Frames(Append(s, m)) = Frames(s) \o Frame(m)
<1> DEFINE t == Append(s, m)
           f == [i \in 1..Len(s) |-> Frame(s[i])]
           g == [i \in 1..Len(t) |-> Frame(t[i])]
<1>1. /\ t \in Seq(Message) /\ Len(t) = Len(s) + 1 /\ t[Len(s) + 1] = m
      /\ \A i \in 1..Len(s) : t[i] = s[i]
  OBVIOUS
<1>2. f \in Seq(Seq(Byte)) /\ Len(f) = Len(s)
  BY FrameSeqType
<1>3. Frame(m) \in Seq(Byte)
  BY MessageAssumption, FrameType
<1>4. g = Append(f, Frame(m))
  <2> DEFINE e == Frame(m)
  <2> HIDE DEF t, e
  <2>1. \A i \in 1..Len(s) + 1 : g[i] = IF i = Len(s) + 1 THEN e ELSE f[i]
    BY <1>1 DEF e
  <2>2. Append(f, e) = [i \in 1..Len(s) + 1 |-> IF i = Len(s) + 1 THEN e ELSE f[i]]
    BY <1>2, <1>3 DEF e
  <2>3. g = [i \in 1..Len(s) + 1 |-> g[i]]
    BY <1>1
  <2> HIDE DEF f, g
  <2> QED
    BY <2>1, <2>2, <2>3 DEF e
<1> HIDE DEF f
<1>5. FlattenSeq(g) = FlattenSeq(f) \o Frame(m)
  BY <1>2, <1>3, <1>4, FlattenAppend
<1> QED
  BY <1>5 DEF Frames, f

\* A stream that is not empty begins with a frame.
LEMMA FramesCons ==
  ASSUME NEW s \in Seq(Message), s # <<>>
  PROVE  Frames(s) = Frame(Head(s)) \o Frames(Tail(s))
<1> DEFINE m == Head(s)
           t == Tail(s)
           f == [i \in 1..Len(s) |-> Frame(s[i])]
           g == [i \in 1..Len(t) |-> Frame(t[i])]
           e == Frame(m)
<1>1. /\ m \in Message /\ m = s[1]
      /\ t \in Seq(Message) /\ Len(s) = Len(t) + 1 /\ Len(t) \in Nat
      /\ \A i \in 1..Len(t) : t[i] = s[i + 1]
  OBVIOUS
<1>2. g \in Seq(Seq(Byte)) /\ f \in Seq(Seq(Byte))
  BY <1>1, FrameSeqType
<1>3. e \in Seq(Byte) /\ <<e>> \in Seq(Seq(Byte))
  BY <1>1, MessageAssumption, FrameType
<1>4. Len(g) = Len(t) /\ Len(f) = Len(t) + 1
  BY <1>1, <1>2
<1>5. \A i \in 1..Len(t) + 1 : f[i] = IF i = 1 THEN e ELSE g[i - 1]
  <2> SUFFICES ASSUME NEW i \in 1..Len(t) + 1
               PROVE  f[i] = IF i = 1 THEN e ELSE g[i - 1]
    OBVIOUS
  <2>1. f[i] = Frame(s[i])
    BY <1>1
  <2>2. CASE i = 1
    BY <2>1, <2>2, <1>1
  <2>3. CASE i # 1
    <3>1. i - 1 \in 1..Len(t) /\ (i - 1) + 1 = i
      BY <2>3, <1>1
    <3>2. g[i - 1] = Frame(t[i - 1]) /\ t[i - 1] = s[i]
      BY <3>1, <1>1
    <3> QED
      BY <2>1, <2>3, <3>2
  <2> QED
    BY <2>2, <2>3
<1> HIDE DEF m, t, f, g, e
<1>6. f = <<e>> \o g
  <2>1. /\ <<e>> \o g \in Seq(Seq(Byte)) /\ Len(<<e>> \o g) = Len(t) + 1
        /\ \A i \in 1..Len(t) + 1 : (<<e>> \o g)[i] = IF i = 1 THEN e ELSE g[i - 1]
    BY <1>1, <1>2, <1>3, <1>4
  <2> QED
    BY <1>1, <1>2, <1>4, <1>5, <2>1, SeqEqual
<1>7. FlattenSeq(f) = FlattenSeq(<<e>>) \o FlattenSeq(g)
  BY <1>2, <1>3, <1>6, FlattenConcat
<1>8. FlattenSeq(<<e>>) = e
  <2>1. <<e>> = Append(<<>>, e) /\ <<>> \in Seq(Seq(Byte))
    BY <1>3
  <2>2. FlattenSeq(Append(<<>>, e)) = FlattenSeq(<<>>) \o e
    BY <1>3, <2>1, FlattenAppend
  <2>3. <<>> \o e = e
    BY <1>3
  <2> QED
    BY <2>1, <2>2, <2>3, FlattenEmpty
<1> QED
  BY <1>7, <1>8 DEF Frames, f, g, e, m, t

\* What MessageRecieved is raised for is empty or one message.
Once(m) == IF NonEmpty(m) THEN <<m>> ELSE <<>>

LEMMA RaisedSeqType ==
  ASSUME NEW s \in Seq(Message)
  PROVE  [i \in 1..Len(s) |-> Once(s[i])] \in Seq(Seq(Message))
<1>1. ASSUME NEW i \in 1..Len(s) PROVE Once(s[i]) \in Seq(Message)
  BY DEF Once
<1> QED
  BY <1>1

LEMMA RaisedType ==
  ASSUME NEW s \in Seq(Message)
  PROVE  Raised(s) \in Seq(Message)
<1>1. Raised(s) = FlattenSeq([i \in 1..Len(s) |-> Once(s[i])])
  BY DEF Raised, Once
<1> QED
  BY <1>1, RaisedSeqType, FlattenType

LEMMA RaisedAppend ==
  ASSUME NEW s \in Seq(Message), NEW m \in Message
  PROVE  Raised(Append(s, m)) = Raised(s) \o Once(m)
<1> DEFINE t == Append(s, m)
           f == [i \in 1..Len(s) |-> Once(s[i])]
           g == [i \in 1..Len(t) |-> Once(t[i])]
<1>1. /\ t \in Seq(Message) /\ Len(t) = Len(s) + 1 /\ t[Len(s) + 1] = m
      /\ \A i \in 1..Len(s) : t[i] = s[i]
  OBVIOUS
<1>2. f \in Seq(Seq(Message)) /\ Len(f) = Len(s)
  BY RaisedSeqType
<1>3. Once(m) \in Seq(Message)
  BY DEF Once
<1>4. g = Append(f, Once(m))
  <2> DEFINE e == Once(m)
  <2> HIDE DEF t, e
  <2>1. \A i \in 1..Len(s) + 1 : g[i] = IF i = Len(s) + 1 THEN e ELSE f[i]
    BY <1>1 DEF e
  <2>2. Append(f, e) = [i \in 1..Len(s) + 1 |-> IF i = Len(s) + 1 THEN e ELSE f[i]]
    BY <1>2, <1>3 DEF e
  <2>3. g = [i \in 1..Len(s) + 1 |-> g[i]]
    BY <1>1
  <2> HIDE DEF f, g
  <2> QED
    BY <2>1, <2>2, <2>3 DEF e
<1> HIDE DEF f
<1>5. FlattenSeq(g) = FlattenSeq(f) \o Once(m)
  BY <1>2, <1>3, <1>4, FlattenAppend
<1> QED
  BY <1>5 DEF Raised, Once, f

LEMMA RaisedConcat ==
  ASSUME NEW s \in Seq(Message), NEW t \in Seq(Message)
  PROVE  Raised(s \o t) = Raised(s) \o Raised(t)
<1> DEFINE u == s \o t
           f == [i \in 1..Len(s) |-> Once(s[i])]
           g == [i \in 1..Len(t) |-> Once(t[i])]
           h == [i \in 1..Len(u) |-> Once(u[i])]
<1>1. /\ u \in Seq(Message) /\ Len(u) = Len(s) + Len(t)
      /\ \A i \in 1..Len(u) : u[i] = IF i <= Len(s) THEN s[i] ELSE t[i - Len(s)]
  OBVIOUS
<1>2. /\ f \in Seq(Seq(Message)) /\ Len(f) = Len(s)
      /\ g \in Seq(Seq(Message)) /\ Len(g) = Len(t)
      /\ h \in Seq(Seq(Message)) /\ Len(h) = Len(u)
  BY <1>1, RaisedSeqType
<1>3. \A i \in 1..Len(u) : h[i] = IF i <= Len(s) THEN f[i] ELSE g[i - Len(s)]
  <2> SUFFICES ASSUME NEW i \in 1..Len(u)
               PROVE  h[i] = IF i <= Len(s) THEN f[i] ELSE g[i - Len(s)]
    OBVIOUS
  <2>1. h[i] = Once(u[i])
    OBVIOUS
  <2>2. CASE i <= Len(s)
    BY <2>1, <2>2, <1>1
  <2>3. CASE ~(i <= Len(s))
    <3>1. i - Len(s) \in 1..Len(t)
      BY <2>3, <1>1
    <3> QED
      BY <2>1, <2>3, <3>1, <1>1
  <2> QED
    BY <2>2, <2>3
<1> HIDE DEF u, f, g, h
<1>4. h = f \o g
  <2> DEFINE M == Seq(Message)
  <2>0. f \in Seq(M) /\ g \in Seq(M) /\ h \in Seq(M)
    BY <1>2
  <2> HIDE DEF M
  <2>1. /\ f \o g \in Seq(M) /\ Len(f \o g) = Len(f) + Len(g)
        /\ \A i \in 1..Len(f) + Len(g) :
             (f \o g)[i] = IF i <= Len(f) THEN f[i] ELSE g[i - Len(f)]
    BY <2>0, ConcatProperties, Zenon
  <2>2. Len(h) = Len(f \o g) /\ \A i \in 1..Len(h) : h[i] = (f \o g)[i]
    BY <1>1, <1>2, <1>3, <2>1
  <2> QED
    BY <2>0, <2>1, <2>2, SeqEqual
<1>5. FlattenSeq(h) = FlattenSeq(f) \o FlattenSeq(g)
  BY <1>2, <1>4, FlattenConcat
<1> QED
  BY <1>5 DEF Raised, Once, f, g, h, u

-----------------------------------------------------------------------------
(* The reader keeps its place in the stream. *)

\* Two ways to cut a stream at one place are one.
LEMMA SameCut ==
  ASSUME NEW S, NEW a \in Seq(S), NEW b \in Seq(S), NEW c \in Seq(S), NEW d \in Seq(S),
         Len(a) = Len(c), a \o b = c \o d
  PROVE  a = c /\ b = d
<1>1. a = c
  <2>1. \A i \in 1..Len(a) : (a \o b)[i] = a[i] /\ (c \o d)[i] = c[i]
    OBVIOUS
  <2> QED
    BY <2>1, SeqEqual
<1>2. Len(b) = Len(d)
  BY ConcatProperties
<1>3. ASSUME NEW i \in 1..Len(b) PROVE b[i] = d[i]
  <2>1. (a \o b)[Len(a) + i] = b[i] /\ (c \o d)[Len(c) + i] = d[i]
    BY <1>2
  <2> QED
    BY <2>1
<1> QED
  BY <1>1, <1>2, <1>3, SeqEqual

LEMMA Cut ==
  ASSUME NEW S, NEW s \in Seq(S), NEW n \in 0..Len(s)
  PROVE  /\ s = SubSeq(s, 1, n) \o SubSeq(s, n + 1, Len(s))
         /\ SubSeq(s, 1, n) \in Seq(S) /\ Len(SubSeq(s, 1, n)) = n
         /\ \A i \in 1..n : SubSeq(s, 1, n)[i] = s[i]
         /\ SubSeq(s, n + 1, Len(s)) \in Seq(S)
         /\ Len(SubSeq(s, n + 1, Len(s))) = Len(s) - n
<1> DEFINE a == SubSeq(s, 1, n)
           b == SubSeq(s, n + 1, Len(s))
<1>1. /\ a \in Seq(S) /\ Len(a) = n /\ \A i \in 1..n : a[i] = s[i]
      /\ b \in Seq(S) /\ Len(b) = Len(s) - n
      /\ \A i \in 1..Len(s) - n : b[i] = s[n + i]
  OBVIOUS
<1> HIDE DEF a, b
<1>2. a \o b \in Seq(S) /\ Len(a \o b) = Len(s)
  BY <1>1
<1>3. ASSUME NEW i \in 1..Len(s) PROVE (a \o b)[i] = s[i]
  <2>1. (a \o b)[i] = IF i <= n THEN a[i] ELSE b[i - n]
    BY <1>1, ConcatProperties
  <2>2. CASE i <= n
    BY <1>1, <2>1, <2>2
  <2>3. CASE ~(i <= n)
    <3>1. i - n \in 1..Len(s) - n /\ n + (i - n) = i
      BY <2>3
    <3> QED
      BY <1>1, <2>1, <2>3, <3>1
  <2> QED
    BY <2>2, <2>3
<1>4. a \o b = s
  BY <1>2, <1>3, SeqEqual
<1> QED
  BY <1>1, <1>4 DEF a, b

LEMMA UnhandledType ==
  ASSUME written \in Seq(Message), handled \in 0..Len(written)
  PROVE  /\ Unhandled \in Seq(Message)
         /\ Len(Unhandled) = Len(written) - handled
         /\ \A i \in 1..Len(Unhandled) : Unhandled[i] = written[handled + i]
  BY DEF Unhandled

\* A frame that was handled is the first of those that were not.
LEMMA OneHandled ==
  ASSUME written \in Seq(Message), handled \in 0..Len(written), Unhandled # <<>>,
         handled' = handled + 1, UNCHANGED written
  PROVE  /\ handled' \in 0..Len(written)
         /\ Unhandled' = Tail(Unhandled)
         /\ written[handled + 1] = Head(Unhandled)
         /\ SubSeq(written', 1, handled') =
              Append(SubSeq(written, 1, handled), Head(Unhandled))
<1>1. /\ Unhandled \in Seq(Message) /\ Len(Unhandled) = Len(written) - handled
      /\ \A i \in 1..Len(Unhandled) : Unhandled[i] = written[handled + i]
  BY UnhandledType
<1>2. Len(Unhandled) > 0 /\ handled' \in 0..Len(written) /\ Len(written) \in Nat
  BY <1>1
<1>3. /\ Unhandled' \in Seq(Message) /\ Len(Unhandled') = Len(written) - (handled + 1)
      /\ \A i \in 1..Len(Unhandled') : Unhandled'[i] = written[(handled + 1) + i]
  BY <1>2 DEF Unhandled
<1>4. /\ Tail(Unhandled) \in Seq(Message) /\ Len(Tail(Unhandled)) = Len(Unhandled) - 1
      /\ \A i \in 1..Len(Tail(Unhandled)) : Tail(Unhandled)[i] = Unhandled[i + 1]
      /\ Head(Unhandled) = Unhandled[1] /\ Head(Unhandled) \in Message
  BY <1>1, <1>2
<1>5. Unhandled' = Tail(Unhandled)
  <2>1. ASSUME NEW i \in 1..Len(Unhandled') PROVE Unhandled'[i] = Tail(Unhandled)[i]
    <3>1. (handled + 1) + i = handled + (i + 1) /\ i + 1 \in 1..Len(Unhandled)
      BY <1>1, <1>2, <1>3
    <3>2. i \in 1..Len(Tail(Unhandled))
      BY <1>1, <1>3, <1>4
    <3> QED
      BY <1>1, <1>3, <1>4, <3>1, <3>2
  <2>2. Len(Unhandled') = Len(Tail(Unhandled))
    BY <1>1, <1>3, <1>4
  <2> QED
    BY <1>3, <1>4, <2>1, <2>2, SeqEqual
<1>6. written[handled + 1] = Head(Unhandled)
  BY <1>1, <1>2, <1>4
<1>7. SubSeq(written, 1, handled + 1) = Append(SubSeq(written, 1, handled), Head(Unhandled))
  <2> DEFINE p == SubSeq(written, 1, handled)
             q == SubSeq(written, 1, handled + 1)
             m == Head(Unhandled)
  <2>1. /\ p \in Seq(Message) /\ Len(p) = handled /\ \A i \in 1..handled : p[i] = written[i]
    OBVIOUS
  <2>2. /\ q \in Seq(Message) /\ Len(q) = handled + 1
        /\ \A i \in 1..handled + 1 : q[i] = written[i]
    BY <1>2
  <2> HIDE DEF p, q, m
  <2>3. m \in Message /\ m = written[handled + 1]
    BY <1>4, <1>6 DEF m
  <2>4. /\ Append(p, m) \in Seq(Message) /\ Len(Append(p, m)) = handled + 1
        /\ \A i \in 1..handled + 1 : Append(p, m)[i] = IF i = handled + 1 THEN m ELSE p[i]
    BY <2>1, <2>3
  <2>5. \A i \in 1..handled + 1 : q[i] = Append(p, m)[i]
    BY <2>1, <2>2, <2>3, <2>4
  <2>6. q = Append(p, m)
    BY <2>2, <2>4, <2>5, SeqEqual
  <2> QED
    BY <2>6 DEF p, q, m
<1> QED
  BY <1>2, <1>5, <1>6, <1>7

LEMMA OneWritten ==
  ASSUME written \in Seq(Message), handled \in 0..Len(written), NEW m \in Message,
         written' = Append(written, m), UNCHANGED handled
  PROVE  /\ handled' \in 0..Len(written')
         /\ Unhandled' = Append(Unhandled, m)
         /\ SubSeq(written', 1, handled') = SubSeq(written, 1, handled)
<1>1. /\ Unhandled \in Seq(Message) /\ Len(Unhandled) = Len(written) - handled
      /\ \A i \in 1..Len(Unhandled) : Unhandled[i] = written[handled + i]
  BY UnhandledType
<1>2. /\ written' \in Seq(Message) /\ Len(written') = Len(written) + 1
      /\ \A i \in 1..Len(written) : written'[i] = written[i]
      /\ written'[Len(written) + 1] = m /\ Len(written) \in Nat
  OBVIOUS
<1>3. handled' \in 0..Len(written')
  BY <1>2
<1>4. /\ Unhandled' \in Seq(Message) /\ Len(Unhandled') = Len(Unhandled) + 1
      /\ \A i \in 1..Len(Unhandled') : Unhandled'[i] = written'[handled + i]
  BY <1>1, <1>2, <1>3 DEF Unhandled
<1>5. /\ Append(Unhandled, m) \in Seq(Message)
      /\ Len(Append(Unhandled, m)) = Len(Unhandled) + 1
      /\ \A i \in 1..Len(Unhandled) : Append(Unhandled, m)[i] = Unhandled[i]
      /\ Append(Unhandled, m)[Len(Unhandled) + 1] = m
  BY <1>1, AppendProperties
<1>6. ASSUME NEW i \in 1..Len(Unhandled') PROVE Unhandled'[i] = Append(Unhandled, m)[i]
  <2>1. CASE i = Len(Unhandled) + 1
    <3>1. handled + i = Len(written) + 1
      BY <1>1, <1>2, <2>1
    <3> QED
      BY <1>2, <1>4, <1>5, <2>1, <3>1
  <2>2. CASE i # Len(Unhandled) + 1
    <3>0. Len(Unhandled) \in Nat /\ Len(written) = handled + Len(Unhandled)
      BY <1>1, <1>2
    <3>1. i \in 1..Len(Unhandled) /\ handled + i \in 1..Len(written)
      <4>1. i \in 1..Len(Unhandled) + 1
        BY <1>4
      <4>2. i \in 1..Len(Unhandled)
        BY <3>0, <4>1, <2>2
      <4> QED
        BY <3>0, <4>2
    <3> QED
      BY <1>1, <1>2, <1>4, <1>5, <2>2, <3>1
  <2> QED
    BY <2>1, <2>2
<1>7. Unhandled' = Append(Unhandled, m)
  BY <1>4, <1>5, <1>6, SeqEqual
<1>8. SubSeq(written', 1, handled) = SubSeq(written, 1, handled)
  <2>1. /\ SubSeq(written, 1, handled) \in Seq(Message)
        /\ Len(SubSeq(written, 1, handled)) = handled
        /\ \A i \in 1..handled : SubSeq(written, 1, handled)[i] = written[i]
    OBVIOUS
  <2>2. /\ SubSeq(written', 1, handled) \in Seq(Message)
        /\ Len(SubSeq(written', 1, handled)) = handled
        /\ \A i \in 1..handled : SubSeq(written', 1, handled)[i] = written'[i]
    BY <1>2, <1>3
  <2>3. \A i \in 1..handled : written'[i] = written[i]
    BY <1>2
  <2> QED
    BY <2>1, <2>2, <2>3, SeqEqual
<1> QED
  BY <1>3, <1>7, <1>8

\* The first eight bytes of a frame tell the length of its message, and after
\* them comes the message.
LEMMA HeaderOff ==
  ASSUME NEW m \in Message, NEW x \in Seq(Byte), wire = Frame(m) \o x
  PROVE  /\ wire \in Seq(Byte) /\ HeaderSize \in 0..Len(wire)
         /\ Decode(SubSeq(wire, 1, HeaderSize)) = Len(m)
         /\ SubSeq(wire, HeaderSize + 1, Len(wire)) = m \o x
<1> DEFINE z == <<0, 0, 0, 0>>
           e == Encode(Len(m))
           h == z \o e
<1>0. m \in Seq(Byte) /\ IsLength(Len(m)) /\ Len(m) \in Nat
  BY MessageAssumption
<1>1. z \in Seq(Byte) /\ Len(z) = 4
  BY SMT DEF Byte
<1>2. e \in Seq(Byte) /\ Len(e) = 4
  BY <1>0, EncodedBytes
<1> HIDE DEF z, e
<1>3. h \in Seq(Byte) /\ Len(h) = 8
  <2>1. h \in Seq(Byte) /\ Len(h) = Len(z) + Len(e)
    BY <1>1, <1>2, ConcatProperties, Zenon
  <2> QED
    BY <2>1, <1>1, <1>2
<1>4. Frame(m) = h \o m
  BY <1>0, <1>1, <1>2, ConcatAssociative DEF Frame, z, e
<1> HIDE DEF h
<1>5. wire = h \o (m \o x) /\ m \o x \in Seq(Byte)
  BY <1>0, <1>3, <1>4, ConcatAssociative
<1>6. wire \in Seq(Byte) /\ 8 \in 0..Len(wire)
  <2> DEFINE y == m \o x
  <2>1. y \in Seq(Byte) /\ wire = h \o y
    BY <1>5
  <2> HIDE DEF y
  <2>2. wire \in Seq(Byte) /\ Len(wire) = Len(h) + Len(y)
    <3>1. h \o y \in Seq(Byte) /\ Len(h \o y) = Len(h) + Len(y)
      BY <1>3, <2>1, ConcatProperties, Zenon
    <3> QED
      BY <2>1, <3>1
  <2>3. Len(y) \in Nat
    BY <2>1
  <2> QED
    BY <1>3, <2>2, <2>3
<1> DEFINE a == SubSeq(wire, 1, 8)
           b == SubSeq(wire, 8 + 1, Len(wire))
<1>7. wire = a \o b /\ a \in Seq(Byte) /\ b \in Seq(Byte) /\ Len(a) = 8
  BY <1>6, Cut
<1> HIDE DEF a, b
<1>8. a = h /\ b = m \o x
  BY <1>3, <1>5, <1>7, SameCut
<1>9. Decode(h) = Len(m)
  <2>1. ASSUME NEW i \in 1..8 PROVE (h \o m)[i] = h[i]
    <3>1. i \in 1..Len(h) + Len(m) /\ i <= Len(h)
      BY <1>0, <1>3
    <3>2. (h \o m)[i] = IF i <= Len(h) THEN h[i] ELSE m[i - Len(h)]
      BY <1>0, <1>3, <3>1, ConcatProperties, Zenon
    <3> QED
      BY <3>1, <3>2
  <2>2. Decode(h) = Decode(h \o m)
    <3>1. 5 \in 1..8 /\ 6 \in 1..8 /\ 7 \in 1..8 /\ 8 \in 1..8
      OBVIOUS
    <3>2. /\ h[5] = (h \o m)[5] /\ h[6] = (h \o m)[6]
          /\ h[7] = (h \o m)[7] /\ h[8] = (h \o m)[8]
      BY <2>1, <3>1, Zenon
    <3> QED
      BY <3>2, Zenon DEF Decode
  <2> QED
    BY <2>2, <1>0, <1>4, LengthRoundTrip
<1> QED
  BY <1>6, <1>8, <1>9 DEF HeaderSize, a, b

\* Inductive: between reads the reader is at the beginning of a frame or inside
\* the message of one, and what it has delivered is what the frames before hold.
Delivers == delivered = Raised(SubSeq(written, 1, handled))

StreamInv == ReaderInv /\ Aligned /\ Delivers

LEMMA StreamTypes ==
  ASSUME StreamInv
  PROVE  /\ written \in Seq(Message) /\ handled \in 0..Len(written)
         /\ Unhandled \in Seq(Message) /\ SubSeq(written, 1, handled) \in Seq(Message)
         /\ wire \in Seq(Byte) /\ buffer \in Seq(Byte) /\ ready \in 0..Len(wire)
<1>1. /\ written \in Seq(Message) /\ handled \in Nat /\ handled <= Len(written)
      /\ wire \in Seq(Byte) /\ buffer \in Seq(Byte) /\ ready \in 0..Len(wire)
  BY DEF StreamInv, ReaderInv, ReaderTypeOK, Aligned
<1>2. handled \in 0..Len(written)
  BY <1>1
<1> QED
  BY <1>1, <1>2, UnhandledType

LEMMA StreamInvInit == ReaderInit => StreamInv
<1> SUFFICES ASSUME ReaderInit PROVE StreamInv
  OBVIOUS
<1>1. written = <<>> /\ handled = 0 /\ Len(written) = 0
  BY DEF ReaderInit
<1>2. Unhandled = <<>> /\ SubSeq(written, 1, handled) = <<>>
  BY <1>1 DEF Unhandled
<1>3. Frames(<<>>) = <<>> /\ Raised(<<>>) = <<>>
  <2>1. [i \in 1..Len(<<>>) |-> Frame(<<>>[i])] = <<>>
    BY SMT
  <2>2. [i \in 1..Len(<<>>) |-> IF NonEmpty(<<>>[i]) THEN <<(<<>>)[i]>> ELSE <<>>] = <<>>
    BY SMT
  <2> QED
    BY <2>1, <2>2, FlattenEmpty DEF Frames, Raised
<1>4. handled <= Len(written)
  BY <1>1
<1>5. wire = Frames(Unhandled) /\ delivered = Raised(SubSeq(written, 1, handled))
  BY <1>2, <1>3, Zenon DEF ReaderInit
<1>6. at = "header" /\ buffer = <<>>
  BY DEF ReaderInit
<1> QED
  BY <1>4, <1>5, <1>6, ReaderInvInit DEF StreamInv, Aligned, Delivers

\* A read that leaves the handled frames as they are, and those that are not.
LEMMA SameFrames ==
  ASSUME StreamInv, UNCHANGED <<written, delivered, handled>>
  PROVE  /\ handled' <= Len(written') /\ Delivers'
         /\ Unhandled' = Unhandled
  BY DEF StreamInv, Aligned, Delivers, Unhandled

\* The ways to keep Aligned.
LEMMA AtFrame ==
  ASSUME handled' \in 0..Len(written'), at' = "header", buffer' = <<>>,
         wire' = Frames(Unhandled')
  PROVE  Aligned'
  BY DEF Aligned

LEMMA InMessage ==
  ASSUME handled' \in 0..Len(written'), at' = "body", Unhandled' # <<>>,
         want' = Len(Head(Unhandled')),
         buffer' \o wire' = Head(Unhandled') \o Frames(Tail(Unhandled'))
  PROVE  Aligned'
  BY DEF Aligned

LEMMA NotReading ==
  ASSUME handled' \in 0..Len(written'), at' \notin {"header", "body"}
  PROVE  Aligned'
  BY DEF Aligned

LEMMA WriteKeeps ==
  ASSUME StreamInv, PeerWrites
  PROVE  Aligned' /\ Delivers'
<1> DEFINE u == Unhandled
<1>0. /\ written \in Seq(Message) /\ handled \in 0..Len(written) /\ u \in Seq(Message)
      /\ wire \in Seq(Byte) /\ buffer \in Seq(Byte)
  BY StreamTypes
<1>1. PICK m \in Message : written' = Append(written, m) /\ wire' = wire \o Frame(m)
  BY DEF PeerWrites
<1>2. UNCHANGED <<at, want, buffer, delivered, handled>>
  BY DEF PeerWrites
<1>3. /\ handled' \in 0..Len(written')
      /\ Unhandled' = Append(u, m)
      /\ SubSeq(written', 1, handled') = SubSeq(written, 1, handled)
  BY <1>0, <1>1, <1>2, OneWritten
<1>4. Frame(m) \in Seq(Byte)
  BY MessageAssumption, FrameType
<1> HIDE DEF u
<1>5. ASSUME at = "header" PROVE Aligned'
  <2>1. buffer = <<>> /\ wire = Frames(u)
    BY <1>5 DEF StreamInv, Aligned, u
  <2>2. wire' = Frames(Unhandled')
    BY <1>0, <1>1, <1>3, <2>1, FramesAppend
  <2> QED
    BY <1>2, <1>3, <1>5, <2>1, <2>2, AtFrame
<1>6. ASSUME at = "body" PROVE Aligned'
  <2> DEFINE r == Tail(u)
             h == Head(u)
  <2>1. u # <<>> /\ want = Len(h) /\ buffer \o wire = h \o Frames(r)
    BY <1>6 DEF StreamInv, Aligned, u
  <2>2. h \in Message /\ r \in Seq(Message) /\ h \in Seq(Byte)
    BY <1>0, <2>1, MessageAssumption
  <2>3. /\ Append(u, m) # <<>> /\ Head(Append(u, m)) = h
        /\ Tail(Append(u, m)) = Append(r, m)
    BY <1>0, <2>1, HeadTailAppend, AppendProperties
  <2> HIDE DEF r, h
  <2>4. Frames(Append(r, m)) = Frames(r) \o Frame(m) /\ Frames(r) \in Seq(Byte)
    BY <2>2, FramesAppend, FramesType
  <2>5. buffer \o wire' = (buffer \o wire) \o Frame(m)
    <3> DEFINE e == Frame(m)
    <3> HIDE DEF e
    <3>1. wire \in Seq(Byte) /\ buffer \in Seq(Byte) /\ e \in Seq(Byte)
      BY <1>0, <1>4 DEF e
    <3>2. buffer \o (wire \o e) = (buffer \o wire) \o e
      BY <3>1
    <3> QED
      BY <1>1, <3>2 DEF e
  <2>6. h \o Frames(Append(r, m)) = (h \o Frames(r)) \o Frame(m)
    BY <1>4, <2>2, <2>4, ConcatAssociative
  <2>7. buffer \o wire' = h \o Frames(Append(r, m))
    BY <2>1, <2>5, <2>6
  <2> QED
    BY <1>2, <1>3, <1>6, <2>1, <2>3, <2>7, InMessage
<1>7. ASSUME at \notin {"header", "body"} PROVE Aligned'
  BY <1>2, <1>3, <1>7, NotReading
<1>8. Delivers'
  BY <1>2, <1>3 DEF StreamInv, Delivers
<1> QED
  BY <1>5, <1>6, <1>7, <1>8

\* The header is cut off: the message follows, or there is none.
LEMMA HeaderKeeps ==
  ASSUME StreamInv, ReadHeader
  PROVE  Aligned' /\ Delivers'
<1>0. /\ written \in Seq(Message) /\ handled \in 0..Len(written)
      /\ Unhandled \in Seq(Message) /\ SubSeq(written, 1, handled) \in Seq(Message)
      /\ wire \in Seq(Byte) /\ ready \in 0..Len(wire)
  BY StreamTypes
<1>1. buffer = <<>> /\ wire = Frames(Unhandled) /\ at = "header"
  BY DEF StreamInv, Aligned, ReadHeader
<1>2. UNCHANGED <<written, buffer, delivered>>
  BY DEF ReadHeader
<1>3. CASE ready < HeaderSize /\ at' = "badsize" /\ UNCHANGED <<want, handled>>
  BY <1>2, <1>3, SameFrames DEF Aligned
<1>4. CASE ready >= HeaderSize /\ HandleHeader(SubSeq(wire, 1, HeaderSize))
  <2> DEFINE m == Head(Unhandled)
             r == Tail(Unhandled)
  <2>1. Unhandled # <<>>
    <3>1. Len(wire) # 0
      BY <1>0, <1>4 DEF HeaderSize
    <3>2. Frames(<<>>) = <<>>
      <4>1. [i \in 1..Len(<<>>) |-> Frame(<<>>[i])] = <<>>
        BY SMT
      <4> QED
        BY <4>1, FlattenEmpty DEF Frames
    <3> QED
      BY <1>1, <3>1, <3>2
  <2>2. m \in Message /\ m \in Seq(Byte) /\ r \in Seq(Message)
    BY <1>0, <2>1, MessageAssumption
  <2>3. wire = Frame(m) \o Frames(r) /\ Frames(r) \in Seq(Byte)
    BY <1>0, <1>1, <2>1, <2>2, FramesCons, FramesType
  <2>4. /\ Decode(SubSeq(wire, 1, HeaderSize)) = Len(m)
        /\ SubSeq(wire, HeaderSize + 1, Len(wire)) = m \o Frames(r)
    BY <2>2, <2>3, HeaderOff
  <2>5. wire' = m \o Frames(r)
    <3>1. AtMost(HeaderSize) = HeaderSize
      BY <1>0, <1>4 DEF AtMost, HeaderSize
    <3> QED
      BY <2>4, <3>1 DEF ReadHeader, Take
  <2>6. CASE Len(m) = 0
    <3>1. handled' = handled + 1 /\ at' = "header"
      BY <1>1, <1>4, <2>4, <2>6 DEF HandleHeader
    <3>2. /\ handled' \in 0..Len(written) /\ Unhandled' = r
          /\ SubSeq(written', 1, handled') = Append(SubSeq(written, 1, handled), m)
      BY <1>0, <1>2, <2>1, <3>1, OneHandled
    <3>3. m = <<>>
      BY <2>2, <2>6
    <3>4. wire' = Frames(r)
      BY <2>3, <2>5, <3>3
    <3>5. Raised(SubSeq(written', 1, handled')) = Raised(SubSeq(written, 1, handled))
      <4>1. Once(m) = <<>>
        BY <3>3 DEF Once, NonEmpty
      <4>2. Raised(SubSeq(written', 1, handled')) = Raised(SubSeq(written, 1, handled)) \o <<>>
        BY <1>0, <2>2, <3>2, <4>1, RaisedAppend
      <4>3. Raised(SubSeq(written, 1, handled)) \in Seq(Message)
        BY <1>0, RaisedType
      <4> QED
        BY <4>2, <4>3
    <3> QED
      BY <1>1, <1>2, <3>1, <3>2, <3>4, <3>5 DEF StreamInv, Aligned, Delivers
  <2>7. CASE Len(m) # 0
    <3>1. at' = "body" /\ want' = Len(m) /\ UNCHANGED handled
      BY <1>4, <2>4, <2>7 DEF HandleHeader
    <3>2. buffer' \o wire' = m \o Frames(r)
      BY <1>1, <1>2, <2>2, <2>3, <2>5
    <3> QED
      BY <1>2, <2>1, <3>1, <3>2, SameFrames DEF Aligned
  <2> QED
    BY <2>6, <2>7
<1> QED
  BY <1>3, <1>4 DEF ReadHeader

\* Bytes go from the socket into buffer_, in order.
LEMMA BodyKeeps ==
  ASSUME StreamInv, ReadBody
  PROVE  Aligned' /\ Delivers'
<1> DEFINE n == AtMost(ReadCap)
           a == SubSeq(wire, 1, n)
           b == SubSeq(wire, n + 1, Len(wire))
<1>1. wire \in Seq(Byte) /\ buffer \in Seq(Byte) /\ ready \in 0..Len(wire)
  BY StreamTypes
<1>2. n \in 0..Len(wire)
  BY <1>1, ReadCapAssumption DEF AtMost
<1>3. wire = a \o b /\ a \in Seq(Byte) /\ b \in Seq(Byte)
  BY <1>1, <1>2, Cut
<1>4. /\ buffer' = buffer \o a /\ wire' = b /\ at = "body"
      /\ UNCHANGED <<written, at, want, delivered, handled>>
  BY DEF ReadBody, Take
<1> HIDE DEF n, a, b
<1>5. buffer' \o wire' = buffer \o wire
  BY <1>1, <1>3, <1>4, ConcatAssociative
<1> QED
  BY <1>4, <1>5, SameFrames DEF StreamInv, Aligned

\* A message of the right size is the one of the frame, and the next frame
\* follows it on the wire.
LEMMA WholeMessage ==
  ASSUME StreamInv, at = "body", Len(buffer) = want
  PROVE  /\ Unhandled # <<>> /\ Head(Unhandled) \in Message /\ Tail(Unhandled) \in Seq(Message)
         /\ buffer = Head(Unhandled) /\ wire = Frames(Tail(Unhandled))
         /\ NonEmpty(buffer)
<1>0. Unhandled \in Seq(Message) /\ wire \in Seq(Byte) /\ buffer \in Seq(Byte)
  BY StreamTypes
<1>1. /\ Unhandled # <<>> /\ want = Len(Head(Unhandled)) /\ want > 0
      /\ buffer \o wire = Head(Unhandled) \o Frames(Tail(Unhandled))
  BY DEF StreamInv, Aligned, ReaderInv
<1>2. /\ Head(Unhandled) \in Message /\ Tail(Unhandled) \in Seq(Message)
      /\ Head(Unhandled) \in Seq(Byte)
  BY <1>0, <1>1, MessageAssumption
<1>3. Frames(Tail(Unhandled)) \in Seq(Byte)
  BY <1>2, FramesType
<1>4. buffer = Head(Unhandled) /\ wire = Frames(Tail(Unhandled))
  BY <1>0, <1>1, <1>2, <1>3, SameCut
<1>5. buffer # <<>>
  BY <1>1
<1> QED
  BY <1>1, <1>2, <1>4, <1>5 DEF NonEmpty

LEMMA MessageKeeps ==
  ASSUME StreamInv, HandleBody
  PROVE  Aligned' /\ Delivers'
<1>0. /\ written \in Seq(Message) /\ handled \in 0..Len(written)
      /\ SubSeq(written, 1, handled) \in Seq(Message)
  BY StreamTypes
<1>1. UNCHANGED <<written, wire>> /\ at = "body"
  BY DEF HandleBody
<1>2. CASE at' = "badsize" /\ UNCHANGED <<buffer, delivered, handled>>
  BY <1>1, <1>2, SameFrames DEF Aligned
<1>3. CASE /\ Len(buffer) = want /\ at' = "header" /\ delivered' = Append(delivered, buffer)
           /\ buffer' = <<>> /\ handled' = handled + 1
  <2> DEFINE m == Head(Unhandled)
             r == Tail(Unhandled)
             p == SubSeq(written, 1, handled)
  <2>1. /\ Unhandled # <<>> /\ m \in Message /\ r \in Seq(Message)
        /\ buffer = m /\ wire = Frames(r) /\ NonEmpty(m)
    BY <1>1, <1>3, WholeMessage
  <2>2. /\ handled' \in 0..Len(written) /\ Unhandled' = r
        /\ SubSeq(written', 1, handled') = Append(p, m)
    BY <1>0, <1>1, <1>3, <2>1, OneHandled
  <2>3. Raised(Append(p, m)) = Append(Raised(p), m)
    <3>1. Once(m) = <<m>>
      BY <2>1 DEF Once
    <3>2. Raised(Append(p, m)) = Raised(p) \o <<m>>
      BY <1>0, <2>1, <3>1, RaisedAppend
    <3>3. Raised(p) \in Seq(Message)
      BY <1>0, RaisedType
    <3> QED
      BY <2>1, <3>2, <3>3, AppendIsConcat
  <2>4. Delivers'
    BY <1>3, <2>1, <2>2, <2>3 DEF StreamInv, Delivers
  <2>5. handled' \in 0..Len(written') /\ wire' = Frames(Unhandled')
    BY <1>1, <2>1, <2>2
  <2> QED
    BY <1>3, <2>4, <2>5, AtFrame
<1> QED
  BY <1>2, <1>3 DEF HandleBody

LEMMA StreamInvNext == StreamInv /\ [ReaderNext]_readerVars => StreamInv'
<1> SUFFICES ASSUME StreamInv, [ReaderNext]_readerVars PROVE StreamInv'
  OBVIOUS
<1>1. ReaderInv'
  BY ReaderInvNext DEF StreamInv
<1>2. CASE Arrives \/ UNCHANGED readerVars
  <2>1. UNCHANGED <<written, wire, at, want, buffer, delivered, handled>>
    BY <1>2 DEF Arrives, readerVars
  <2>2. Delivers' /\ Unhandled' = Unhandled /\ handled' <= Len(written')
    BY <2>1, SameFrames
  <2>3. Aligned'
    BY <2>1, <2>2 DEF StreamInv, Aligned
  <2> QED
    BY <1>1, <2>2, <2>3 DEF StreamInv
<1>3. CASE ConnectionLost
  <2>1. UNCHANGED <<written, delivered, handled>> /\ at' = "lost"
    BY <1>3 DEF ConnectionLost
  <2>2. Delivers' /\ handled' <= Len(written')
    BY <2>1, SameFrames
  <2>3. Aligned'
    BY <2>1, <2>2 DEF Aligned
  <2> QED
    BY <1>1, <2>2, <2>3 DEF StreamInv
<1> QED
  BY <1>1, <1>2, <1>3, WriteKeeps, HeaderKeeps, BodyKeeps, MessageKeeps
     DEF ReaderNext, ReaderStep, StreamInv

\* The inductive invariant of the stream.
THEOREM StreamInvariant == ReaderSpec => []StreamInv
  BY StreamInvInit, StreamInvNext, PTL DEF ReaderSpec

\* Whatever frames the peer writes, in segments of whatever sizes they arrive:
\* StartRead never takes bytes of a message for a header, nor the other way round.
THEOREM ReaderAligned == ReaderSpec => []Aligned
<1>1. StreamInv => Aligned
  BY DEF StreamInv
<1> QED
  BY <1>1, StreamInvariant, PTL

-----------------------------------------------------------------------------
(* A peer that waits. *)

\* Inductive with StreamInv: at most one frame is not handled, and what has
\* arrived of a header is all of it.
Waits ==
  polite =>
    /\ at # "badsize"
    /\ Len(written) <= handled + 1
    /\ at = "header" => ready = 0 \/ ready >= HeaderSize

\* Nothing is left on the wire after the only frame.
LEMMA NothingFollows ==
  ASSUME StreamInv, Waits, polite
  PROVE  /\ Unhandled # <<>> => Tail(Unhandled) = <<>>
         /\ Frames(<<>>) = <<>>
<1>1. /\ Unhandled \in Seq(Message) /\ Len(Unhandled) = Len(written) - handled
      /\ Len(written) \in Nat /\ handled \in Nat
  BY StreamTypes, UnhandledType
<1>2. Len(Unhandled) <= 1
  BY <1>1 DEF Waits
<1>3. [i \in 1..Len(<<>>) |-> Frame(<<>>[i])] = <<>>
  BY SMT
<1> QED
  BY <1>1, <1>2, <1>3, FlattenEmpty DEF Frames

LEMMA WaitsInit == ReaderInit => Waits
  BY SMT DEF ReaderInit, Waits

LEMMA WaitsNext == StreamInv /\ Waits /\ [ReaderNext]_readerVars => Waits'
<1> SUFFICES ASSUME StreamInv, Waits, [ReaderNext]_readerVars, polite'
             PROVE  Waits'
  BY DEF Waits
<1>0. /\ written \in Seq(Message) /\ handled \in 0..Len(written) /\ Len(written) \in Nat
      /\ wire \in Seq(Byte) /\ buffer \in Seq(Byte) /\ ready \in 0..Len(wire)
      /\ Unhandled \in Seq(Message)
  BY StreamTypes
<1>1. CASE PeerWrites
  <2>1. PICK m \in Message : written' = Append(written, m)
    BY <1>1 DEF PeerWrites
  <2>2. polite /\ handled = Len(written) /\ UNCHANGED <<ready, at, handled>>
    BY <1>1, Zenon DEF PeerWrites
  <2>3. Len(written') = handled + 1
    BY <1>0, <2>1, <2>2
  <2> QED
    BY <1>0, <2>2, <2>3 DEF Waits
<1>2. CASE Arrives
  <2>1. polite /\ (at = "header" => ready' >= HeaderSize)
    BY <1>2, Zenon DEF Arrives
  <2>2. UNCHANGED <<written, at, handled>>
    BY <1>2 DEF Arrives
  <2> QED
    BY <2>1, <2>2 DEF Waits
<1>3. CASE ReadHeader
  <2>0. polite /\ ready >= HeaderSize /\ HandleHeader(SubSeq(wire, 1, HeaderSize))
    <3>1. polite /\ at = "header" /\ ready > 0
      BY <1>3 DEF ReadHeader
    <3>2. ready >= HeaderSize
      BY <1>0, <3>1 DEF Waits
    <3> QED
      BY <1>0, <1>3, <3>1, <3>2 DEF ReadHeader, HeaderSize
  <2>1. CASE at' = "body"
    BY <1>0, <1>3, <2>0, <2>1 DEF ReadHeader, HandleHeader, Waits
  <2>2. CASE at' # "body"
    <3>1. at' = "header" /\ handled' = handled + 1
      BY <1>3, <2>0, <2>2 DEF ReadHeader, HandleHeader
    <3>2. Aligned'
      BY <1>3, HeaderKeeps
    <3>3. wire' = Frames(Unhandled') /\ handled' <= Len(written')
      BY <3>1, <3>2 DEF Aligned
    <3>4. Unhandled' = <<>>
      <4>1. UNCHANGED written /\ Len(written) <= handled + 1
        BY <1>3, <2>0 DEF ReadHeader, Waits
      <4>2. handled' = Len(written)
        BY <1>0, <3>1, <3>3, <4>1
      <4> QED
        BY <1>0, <4>1, <4>2 DEF Unhandled
    <3>5. wire' = <<>>
      BY <2>0, <3>3, <3>4, NothingFollows
    <3>6. ready' \in 0..Len(wire')
      BY ReaderInvNext DEF StreamInv, ReaderInv, ReaderTypeOK
    <3>7. ready' = 0
      BY <3>5, <3>6
    <3> QED
      BY <1>0, <1>3, <3>1, <3>7, <2>0 DEF ReadHeader, Waits
  <2> QED
    BY <2>1, <2>2
<1>4. CASE ReadBody
  BY <1>4 DEF ReadBody, Waits
<1>5. CASE HandleBody
  <2>0. polite /\ at = "body"
    BY <1>5 DEF HandleBody
  <2> DEFINE m == Head(Unhandled)
  <2>1. Unhandled # <<>> /\ want = Len(m) /\ buffer \o wire = m \o <<>>
    BY <2>0, NothingFollows DEF StreamInv, Aligned
  <2>2. m \in Seq(Byte)
    BY <1>0, <2>1, MessageAssumption
  <2> HIDE DEF m
  <2>3. Len(buffer) + Len(wire) = Len(m) /\ Len(wire) \in Nat /\ Len(buffer) \in Nat
    <3>1. buffer \o wire = m
      BY <2>1, <2>2
    <3> QED
      BY <1>0, <3>1, ConcatProperties
  <2>4. Len(buffer) = want /\ ready = 0
    BY <1>0, <1>5, <2>1, <2>3 DEF HandleBody
  <2> QED
    BY <1>0, <1>5, <2>0, <2>4 DEF HandleBody, Waits
<1>6. CASE ConnectionLost
  BY <1>6 DEF ConnectionLost
<1>7. CASE UNCHANGED readerVars
  BY <1>7 DEF readerVars, Waits
<1> QED
  BY <1>1, <1>2, <1>3, <1>4, <1>5, <1>6, <1>7 DEF ReaderNext, ReaderStep

\* The size checks of StartRead hit no peer that waits for each response and whose
\* headers arrive in one piece.
THEOREM PoliteServed == ReaderSpec => []PoliteNeverRefused
<1>1. Waits => PoliteNeverRefused
  BY DEF Waits, PoliteNeverRefused
<1> QED
  BY <1>1, WaitsInit, WaitsNext, StreamInvariant, PTL DEF ReaderSpec

-----------------------------------------------------------------------------
(* The channel. *)

Promised == Raised(written)
Reading == at \in {"header", "body"}
channelVars == <<Promised, delivered, Reading>>

LEMMA ChannelInitially == ReaderInit => Channel!ChannelInit
<1>1. [i \in 1..Len(<<>>) |-> IF NonEmpty(<<>>[i]) THEN <<(<<>>)[i]>> ELSE <<>>] = <<>>
  BY SMT
<1>2. Raised(<<>>) = <<>>
  BY <1>1, FlattenEmpty DEF Raised
<1> QED
  BY <1>2 DEF ReaderInit, Channel!ChannelInit

\* A frame with a message goes into the channel, an empty one does not.
LEMMA WriteSends ==
  ASSUME StreamInv, PeerWrites
  PROVE  Channel!SendMessage \/ UNCHANGED channelVars
<1>0. written \in Seq(Message)
  BY StreamTypes
<1>1. PICK m \in Message : written' = Append(written, m)
  BY DEF PeerWrites
<1>2. UNCHANGED <<delivered, at>>
  BY DEF PeerWrites
<1>3. Raised(written') = Raised(written) \o Once(m) /\ Raised(written) \in Seq(Message)
  BY <1>0, <1>1, RaisedAppend, RaisedType
<1>4. CASE NonEmpty(m)
  <2>1. Raised(written') = Append(Raised(written), m)
    BY <1>3, <1>4, AppendIsConcat DEF Once
  <2>2. m \in {x \in Message : NonEmpty(x)}
    BY <1>4
  <2> QED
    BY <1>2, <2>1, <2>2 DEF Channel!SendMessage, Reading
<1>5. CASE ~NonEmpty(m)
  <2>1. Raised(written') = Raised(written)
    BY <1>3, <1>5 DEF Once
  <2> QED
    BY <1>2, <2>1 DEF channelVars, Promised, Reading
<1> QED
  BY <1>4, <1>5

\* A whole message is the next one of the channel.
LEMMA MessageReceives ==
  ASSUME StreamInv, HandleBody, Len(buffer) = want
  PROVE  Channel!ReceiveMessage
<1> DEFINE m == Head(Unhandled)
           r == Tail(Unhandled)
           p == SubSeq(written, 1, handled)
           q == SubSeq(written, handled + 1, Len(written))
<1>0. /\ written \in Seq(Message) /\ handled \in 0..Len(written)
      /\ p \in Seq(Message) /\ q \in Seq(Message) /\ q = Unhandled
  BY StreamTypes DEF Unhandled
<1>1. /\ UNCHANGED written /\ at = "body" /\ at' = "header"
      /\ delivered' = Append(delivered, buffer)
  BY DEF HandleBody
<1>2. q # <<>> /\ m \in Message /\ r \in Seq(Message) /\ buffer = m /\ NonEmpty(m)
  BY <1>0, <1>1, WholeMessage
<1>3. written = p \o q
  BY <1>0, Cut
<1>4. q = <<m>> \o r
  <2>1. q # <<>> /\ q \in Seq(Message) /\ m = Head(q) /\ r = Tail(q) /\ m \in Message
    BY <1>0, <1>2, Zenon
  <2> HIDE DEF q, m, r
  <2>2. /\ Len(q) = Len(r) + 1 /\ \A i \in 1..Len(r) : r[i] = q[i + 1]
        /\ r \in Seq(Message) /\ Len(r) \in Nat /\ m = q[1]
    BY <2>1
  <2>3. /\ <<m>> \o r \in Seq(Message) /\ Len(<<m>> \o r) = Len(r) + 1
        /\ \A i \in 1..Len(r) + 1 : (<<m>> \o r)[i] = IF i = 1 THEN m ELSE r[i - 1]
    BY <2>1, <2>2
  <2>4. ASSUME NEW i \in 1..Len(r) + 1 PROVE q[i] = (<<m>> \o r)[i]
    <3>1. CASE i = 1
      BY <2>2, <2>3, <3>1
    <3>2. CASE i # 1
      <4>1. i - 1 \in 1..Len(r) /\ (i - 1) + 1 = i
        BY <2>2, <3>2
      <4> QED
        BY <2>2, <2>3, <3>2, <4>1
    <3> QED
      BY <3>1, <3>2
  <2> QED
    BY <2>1, <2>2, <2>3, <2>4, SeqEqual
<1> HIDE DEF p, q, m, r
<1>5. Raised(<<m>>) = <<m>>
  <2>0. <<>> \in Seq(Message) /\ Append(<<>>, m) = <<m>>
    BY <1>2
  <2>1. Raised(<<m>>) = Raised(<<>>) \o Once(m)
    BY <1>2, <2>0, RaisedAppend, Zenon
  <2>2. Raised(<<>>) = <<>>
    <3>1. [i \in 1..Len(<<>>) |-> IF NonEmpty(<<>>[i]) THEN <<(<<>>)[i]>> ELSE <<>>] = <<>>
      BY SMT
    <3> QED
      BY <3>1, FlattenEmpty DEF Raised
  <2> QED
    BY <1>2, <2>0, <2>1, <2>2 DEF Once
<1>6. Raised(written) = Raised(p) \o (<<m>> \o Raised(r))
  <2>1. <<m>> \in Seq(Message)
    BY <1>2
  <2>2. Raised(q) = <<m>> \o Raised(r)
    BY <1>2, <1>4, <1>5, <2>1, RaisedConcat
  <2> QED
    BY <1>0, <1>3, <2>2, RaisedConcat
<1>7. delivered = Raised(p)
  BY DEF StreamInv, Delivers, p
<1>8. Raised(p) \in Seq(Message) /\ Raised(r) \in Seq(Message)
  BY <1>0, <1>2, RaisedType
<1>9. /\ Len(delivered) < Len(Raised(written))
      /\ Raised(written)[Len(delivered) + 1] = m
  <2> DEFINE a == Raised(p)
             b == Raised(r)
  <2>1. a \in Seq(Message) /\ b \in Seq(Message) /\ m \in Message
    BY <1>2, <1>8
  <2> HIDE DEF a, b
  <2>2. Len(a) < Len(a \o (<<m>> \o b)) /\ (a \o (<<m>> \o b))[Len(a) + 1] = m
    BY <2>1
  <2> QED
    BY <1>6, <1>7, <2>2 DEF a, b
<1> QED
  BY <1>1, <1>2, <1>9 DEF Channel!ReceiveMessage

LEMMA ChannelStep ==
  StreamInv /\ [ReaderNext]_readerVars => [Channel!ChannelNext]_channelVars
<1> SUFFICES ASSUME StreamInv, [ReaderNext]_readerVars
             PROVE  [Channel!ChannelNext]_channelVars
  OBVIOUS
<1>1. CASE PeerWrites
  BY <1>1, WriteSends DEF Channel!ChannelNext
<1>2. CASE HandleBody
  <2>1. CASE Len(buffer) = want
    BY <1>2, <2>1, MessageReceives DEF Channel!ChannelNext
  <2>2. CASE Len(buffer) # want
    <3>1. UNCHANGED <<written, delivered>> /\ at = "body" /\ at' = "badsize"
      BY <1>2, <2>2 DEF HandleBody
    <3> QED
      BY <3>1 DEF Channel!ChannelNext, Channel!CloseChannel
  <2> QED
    BY <2>1, <2>2
<1>3. CASE ConnectionLost
  BY <1>3 DEF ConnectionLost, Channel!ChannelNext, Channel!CloseChannel
<1>4. CASE ReadHeader
  <2>1. UNCHANGED <<written, delivered>> /\ at = "header"
    BY <1>4 DEF ReadHeader
  <2>2. CASE at' = "badsize"
    BY <2>1, <2>2 DEF Channel!ChannelNext, Channel!CloseChannel
  <2>3. CASE at' # "badsize"
    <3>1. at' \in {"header", "body"}
      BY <1>4, <2>1, <2>3 DEF ReadHeader, HandleHeader
    <3> QED
      BY <2>1, <3>1 DEF channelVars, Promised, Reading
  <2> QED
    BY <2>2, <2>3
<1>5. CASE Arrives \/ ReadBody \/ UNCHANGED readerVars
  <2>1. UNCHANGED <<written, delivered, at>>
    BY <1>5 DEF Arrives, ReadBody, readerVars
  <2> QED
    BY <2>1 DEF channelVars, Promised, Reading
<1> QED
  BY <1>1, <1>2, <1>3, <1>4, <1>5 DEF ReaderNext, ReaderStep

\* The subscribers of MessageRecieved are given the messages of the peer whole,
\* once and in order, until the connection is closed: for all messages, all
\* segments and all sizes of reads.
THEOREM ChannelImplemented == ReaderSpec => ImplementsChannel
  BY ChannelInitially, ChannelStep, StreamInvariant, PTL
     DEF ReaderSpec, ImplementsChannel, Channel!ChannelSpec, channelVars, Promised, Reading

=============================================================================
