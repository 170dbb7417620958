--------------------------- MODULE MCReconnectLoop ---------------------------
(* ReconnectLoop with the client's own constants, in seconds.              *)
EXTENDS ReconnectLoop

MCBase == 1
MCMaxDelay == 5
MCGiveUp == 60
=============================================================================
