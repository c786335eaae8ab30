--------------------------- MODULE MessageChannel ---------------------------
(***************************************************************************)
(* What a client connection promises to the subscribers of MessageRecieved *)
(* (shared/net/itcp_client.h): the messages of the peer arrive whole, once *)
(* and in order, until the connection is closed.                           *)
(***************************************************************************)
EXTENDS Naturals, Sequences

CONSTANT Message

VARIABLES
  sent,        \* the messages of the peer
  received,    \* those given to the subscribers
  open         \* is the connection still read?

ChannelInit ==
  /\ sent = <<>>
  /\ received = <<>>
  /\ open = TRUE

SendMessage ==
  /\ \E m \in Message : sent' = Append(sent, m)
  /\ UNCHANGED <<received, open>>

ReceiveMessage ==
  /\ open
  /\ Len(received) < Len(sent)
  /\ received' = Append(received, sent[Len(received) + 1])
  /\ UNCHANGED <<sent, open>>

CloseChannel ==
  /\ open
  /\ open' = FALSE
  /\ UNCHANGED <<sent, received>>

ChannelNext == SendMessage \/ ReceiveMessage \/ CloseChannel

ChannelSpec == ChannelInit /\ [][ChannelNext]_<<sent, received, open>>

=============================================================================
