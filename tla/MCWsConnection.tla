--------------------------- MODULE MCWsConnection ---------------------------
(* WsConnection on small instances; the .cfg files choose the bounds.      *)
EXTENDS WsConnection
=============================================================================
