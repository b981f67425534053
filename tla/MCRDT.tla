------------------------------- MODULE MCRDT -------------------------------
(***************************************************************************)
(* RDT under TLC.  Each configuration gives the constants: the size of the *)
(* file in chunks, the capacity of a direction and the network's mode.     *)
(***************************************************************************)
EXTENDS RDT
=============================================================================
