--------------------------- MODULE MCToreroServe ---------------------------
(***************************************************************************)
(* ToreroServe under TLC.  The threads and the kinds of requests are given *)
(* by each configuration.                                                  *)
(***************************************************************************)
EXTENDS ToreroServe
=============================================================================
