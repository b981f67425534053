------------------------- MODULE ChunkedDataSender -------------------------
(***************************************************************************)
(* The two senders of the music server, ArraySender and FileSender: what   *)
(* one call of send_next_chunk does when the socket buffer has so much     *)
(* room.  A sender goes through len bytes in chunks.  done counts those    *)
(* that were sent (curr_loc, bytes_sent); pos is where the next chunk is   *)
(* taken from, which is done in an array and the position of the stream    *)
(* in a file.                                                              *)
(***************************************************************************)
EXTENDS Integers, Sequences

CONSTANT ChunkSize  \* CHUNK_SIZE, 4096 in the code

ASSUME ChunkAssumption == ChunkSize \in Nat \ {0}

\* "header" and "text" are sent by an ArraySender, "song" by a FileSender.
Kinds == {"header", "text", "song"}

\* A null pointer, and a fresh sender.
NoSender == [kind |-> "none", len |-> 0, done |-> 0, pos |-> 0]
NewSender(kind, len) == [kind |-> kind, len |-> len, done |-> 0, pos |-> 0]

Smaller(a, b) == IF a < b THEN a ELSE b

\* The bytes at positions pos + 1 .. pos + n: 0 for the header, their number in
\* the text or song otherwise.
Bytes(s, n) == [i \in 1..n |-> IF s.kind = "header" THEN 0 ELSE s.pos + i]

\* Mutant: every chunk has the full size.
InChunkAlwaysFull(s) == ChunkSize

\* bytes_in_chunk, and bytes_read, which is less at the end of the file.
InChunk(s) == Smaller(s.len - s.done, ChunkSize)

Read(s) ==
  IF s.kind # "song" THEN InChunk(s)
  ELSE IF s.pos < s.len THEN Smaller(InChunk(s), s.len - s.pos) ELSE 0

\* send_next_chunk returns 0: nothing is left.
Finished(s) == InChunk(s) = 0

\* A read at the end of the file gives nothing, and send of nothing returns 0,
\* which ends the program.
Exits(s) == ~Finished(s) /\ Read(s) = 0

\* send_next_chunk returns -1: the socket buffer is full.
Blocked(s, room) == Read(s) > 0 /\ room = 0

\* What the socket takes of the chunk.
Accepted(s, room) == Smaller(Read(s), room)

\* seekg does nothing once a read came up short, which sets failbit.
Seek(s, target) == IF Read(s) < InChunk(s) THEN s.pos + Read(s) ELSE target

\* Mutants: the whole chunk is taken for sent; the stream is rewound by the whole
\* chunk.
AfterSendOfChunk(s, n) == [s EXCEPT !.done = @ + Read(s), !.pos = @ + Read(s)]
AfterSendRewindsAll(s, n) ==
  [s EXCEPT !.done = @ + n,
            !.pos = IF n < Read(s) THEN Seek(s, @) ELSE @ + n]

\* n bytes were sent: the stream is rewound by those that were not.
AfterSend(s, n) ==
  [s EXCEPT !.done = @ + n,
            !.pos = IF n < Read(s) THEN Seek(s, @ + n) ELSE @ + n]

\* Nothing was sent: the stream, already behind the chunk, moves on by as much
\* again.
AfterBlock(s) ==
  IF s.kind = "song"
  THEN [s EXCEPT !.pos = Seek(s, @ + 2 * Read(s))]
  ELSE s
=============================================================================
