--------------------------- MODULE MCRttEstimator ---------------------------
(***************************************************************************)
(* RttEstimator under TLC: the configuration names the round-trip times   *)
(* and the length of the file.                                             *)
(***************************************************************************)
EXTENDS RttEstimator
=============================================================================
