---------------------------- MODULE MCDnsNames -----------------------------
(***************************************************************************)
(* DnsNames under TLC.  The hostnames have one to three parts, among them  *)
(* the longest part that is read as such, the shortest that is not and the *)
(* shortest that cannot be encoded; the other messages are all of up to    *)
(* five bytes from a few, with which the characters of one, two and three  *)
(* bytes can be written, and parts of them.                                *)
(***************************************************************************)
EXTENDS DnsNames

Part(length) == [i \in 1..length |-> 97]

MCHostnames ==
  {<<Part(1)>>, <<Part(2), Part(1)>>, <<Part(3), Part(2), Part(1)>>,
   <<Part(191), Part(1)>>, <<Part(192), Part(1)>>, <<Part(1), Part(256)>>}

MCBuffers == UNION {[1..n -> {0, 1, 2, 3, 169, 192, 195, 227}] : n \in 0..5}
=============================================================================
