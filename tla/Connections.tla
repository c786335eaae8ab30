---------------------------- MODULE Connections ----------------------------
(* The TCP connections that may be accepted; a connection also names the   *)
(* socket, the client object and the client id that it is given.           *)
CONSTANT Client
=============================================================================
