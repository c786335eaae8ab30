----------------------------- MODULE FrameCodec -----------------------------
(***************************************************************************)
(* The header of a frame: eight bytes, of which the last four hold the     *)
(* length of the message that follows, low byte first.                     *)
(***************************************************************************)
EXTENDS Naturals, Sequences

Byte == 0..255

HeaderSize == 8

\* n without its lowest byte.
Shift(n) == n \div 256

\* The lengths a header can hold, those below 2^32.
IsLength(n) == n \in Nat /\ Shift(Shift(Shift(n))) \in Byte

\* The length as Respond writes it.
Encode(n) ==
  << n % 256, Shift(n) % 256, Shift(Shift(n)) % 256, Shift(Shift(Shift(n))) % 256 >>

FaultyDecode(h) == h[8] + 256 * (h[7] + 256 * (h[6] + 256 * h[5]))

\* The length as the header handler of StartRead reads it.
Decode(h) == h[5] + 256 * (h[6] + 256 * (h[7] + 256 * h[8]))

\* A frame; the first two bytes (code and flags of a response) and the two
\* reserved ones are not looked at by StartRead.
Frame(message) == <<0, 0, 0, 0>> \o Encode(Len(message)) \o message

=============================================================================
