----------------------------- MODULE MCJukebox -----------------------------
(***************************************************************************)
(* Jukebox under TLC: the configuration gives the number of connections    *)
(* and the sizes of the answers.                                           *)
(***************************************************************************)
EXTENDS Jukebox
=============================================================================
