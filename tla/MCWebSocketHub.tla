--------------------------- MODULE MCWebSocketHub ---------------------------
(***************************************************************************)
(* Three broadcasts about one book, one of them by a PATCH that leaves its *)
(* row alone.                                                              *)
(***************************************************************************)
EXTENDS WebSocketHub

CONSTANTS w1, w2, b1

OneBook == << b1, b1, b1 >>
=============================================================================
