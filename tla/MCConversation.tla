--------------------------- MODULE MCConversation ---------------------------
(* Messages for TLC: empty, one that fits one read, and one that needs     *)
(* several and looks like a header of an empty message.                    *)
EXTENDS Conversation

MCMessage == { <<>>, <<1>>, <<0, 0, 0, 0, 0, 0, 0, 0, 0>> }

=============================================================================
