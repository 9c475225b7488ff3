--------------------------- MODULE MCUtcpReceive ---------------------------
(* Small instance of UtcpReceive. *)
EXTENDS UtcpReceive
=============================================================================
