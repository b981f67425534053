--------------------------- MODULE MCMusicServer ---------------------------
(***************************************************************************)
(* MusicServer under TLC: each configuration gives the clients and the     *)
(* sizes of the answers, of a chunk and of a socket's send buffer.         *)
(***************************************************************************)
EXTENDS MusicServer
=============================================================================
