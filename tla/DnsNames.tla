------------------------------ MODULE DnsNames ------------------------------
(***************************************************************************)
(* The names in DNS messages: get_dns_name_encoding, construct_query and   *)
(* decode_dns_name, one step for each turn of their loops.                 *)
(*                                                                         *)
(* A message is a sequence of bytes, counted from 0 as in the code.  Where *)
(* a name in it ends in a pointer, decode_dns_name calls itself; what the  *)
(* calls have read so far is joined here, since the outer ones only wait   *)
(* for the inner one.  A text is the sequence of its parts, as split('.')  *)
(* gives them ("" has one part, which is empty), and a part is the         *)
(* sequence of the bytes that encode() gives and decode() takes, UTF-8.    *)
(* The names that are asked for are ASCII, one byte for each character.    *)
(***************************************************************************)
EXTENDS Integers, Sequences

CONSTANTS
  Hostnames,   \* the names that are asked for, as sequences of parts
  QueryIds,    \* values of query_id
  QueryTypes,  \* values of query_type
  Buffers,     \* messages of any other content
  MaxDepth     \* how many calls Python nests before it raises RecursionError, 1000

\* A byte, an ASCII character, and the numbers of 16 and of 14 bits.
Bytes == {n \in Nat : n < 256}
Characters == {n \in Nat : n < 128}
Halves == {n \in Nat : n < 65536}
Offsets == {n \in Nat : n < 16384}

ASSUME DnsAssumption ==
  /\ Hostnames \subseteq Seq(Seq(Characters)) /\ <<>> \notin Hostnames
  /\ QueryIds \subseteq Halves /\ QueryTypes \subseteq Halves
  /\ Buffers \subseteq Seq(Bytes)
  /\ MaxDepth \in Nat /\ MaxDepth > 2

VARIABLES
  name,      \* the argument of construct_query, and the name that is decoded; or Unknown
  buffer,    \* the query, then the argument buffer of decode_dns_name
  offsets,   \* where in the query each part of the name, and the byte behind them, is
  behind,    \* the index behind the name that is decoded
  position,  \* position of the innermost call
  toReturn,  \* the labels that the calls have read, in order
  fresh,     \* TRUE: the innermost call has not read a label
  jumps,     \* the offsets that the outer calls went on to
  end,       \* the index that the outermost call returns
  status     \* "encoding", "sent", "decoding", "decoded", or the exception raised

messageVars == <<name, buffer, offsets, behind>>
decodingVars == <<position, toReturn, fresh, jumps, end>>
vars == <<messageVars, decodingVars, status>>

\* A name of which nothing is known.
Unknown == <<>>

Raise(exception) ==
  /\ status' = exception
  /\ UNCHANGED <<messageVars, decodingVars>>

-----------------------------------------------------------------------------
(* construct_query and get_dns_name_encoding. *)

\* "!H"
TwoBytes(n) == <<n \div 256, n % 256>>

\* The code packs id, flags and counts.
QueryHeader(id) == TwoBytes(id) \o <<0, 0, 0, 1, 0, 0, 0, 0, 0, 0>>

QueryNameStart == 12

\* A length is packed in one byte.
EncodePart ==
  /\ status = "encoding" /\ Len(offsets) < Len(name)
  /\ LET item == name[Len(offsets) + 1] IN
     /\ Len(item) < 256
     /\ buffer' = buffer \o <<Len(item)>> \o item
  /\ offsets' = Append(offsets, Len(buffer))
  /\ UNCHANGED <<name, behind, decodingVars, status>>

EncodingFails ==
  /\ status = "encoding" /\ Len(offsets) < Len(name)
  /\ Len(name[Len(offsets) + 1]) >= 256
  /\ Raise("struct.error")

EndOfEncoding ==
  /\ status = "encoding" /\ Len(offsets) = Len(name)
  /\ \E type \in QueryTypes : buffer' = buffer \o <<0>> \o TwoBytes(type) \o TwoBytes(1)
  /\ offsets' = Append(offsets, Len(buffer))
  /\ status' = "sent"
  /\ UNCHANGED <<name, behind, decodingVars>>

-----------------------------------------------------------------------------
(* The answer of a server. *)

PointerTo(offset) == <<192 + offset \div 256, offset % 256>>

\* The name once more: its first k parts, and a pointer to the others if there are any.
NameAgain(k) ==
  SubSeq(buffer, QueryNameStart + 1, offsets[k + 1])
    \o IF k < Len(name) THEN PointerTo(offsets[k + 1]) ELSE <<0>>

\* The server repeats the query, and writes the name again: in a first record, and in
\* a second as a pointer to the first.
Message(k) == buffer \o NameAgain(k) \o PointerTo(Len(buffer))

\* Any of the three names is decoded.
Asked(k) ==
  LET second == Len(buffer) + Len(NameAgain(k)) IN
  \/ position' = QueryNameStart /\ behind' = offsets[Len(name) + 1] + 1
  \/ position' = Len(buffer) /\ behind' = second
  \/ position' = second /\ behind' = second + 2

\* The message may arrive cut.  No pointer reaches further than 16383.
Answer ==
  /\ status = "sent" /\ Len(buffer) < 16384
  /\ \E k \in 0..Len(name) :
       /\ \E length \in 0..Len(Message(k)) : buffer' = SubSeq(Message(k), 1, length)
       /\ Asked(k)
  /\ status' = "decoding"
  /\ UNCHANGED <<name, offsets, toReturn, fresh, jumps, end>>

-----------------------------------------------------------------------------
(* decode_dns_name *)

Byte(i) == buffer[i + 1]
Has(i) == i < Len(buffer)

\* Mutant: only the uppermost bit is tested.
IsPointerByOneBit(length) == length >= 128

\* The code's test of the two upper bits.
IsPointer(length) == length >= 192

\* Mutant: these two bits are not taken off.
OffsetWithBits(length, b2) == length * 256 + b2

Offset(length, b2) == (length % 64) * 256 + b2

Continuation == 128..191

\* One well-formed character of UTF-8.  Of the longer forms those are left out
\* that a shorter one could take, the surrogates, and what is above U+10FFFF.
IsCharacter(c) ==
  \/ Len(c) = 1 /\ c[1] < 128
  \/ Len(c) = 2 /\ c[1] \in 194..223 /\ c[2] \in Continuation
  \/ /\ Len(c) = 3 /\ c[1] \in 224..239 /\ {c[2], c[3]} \subseteq Continuation
     /\ (c[1] = 224 => c[2] >= 160) /\ (c[1] = 237 => c[2] < 160)
  \/ /\ Len(c) = 4 /\ c[1] \in 240..244 /\ {c[2], c[3], c[4]} \subseteq Continuation
     /\ (c[1] = 240 => c[2] >= 144) /\ (c[1] = 244 => c[2] < 144)

\* decode() raises no error: each byte belongs to a character.  (No byte can belong
\* to two, since the first byte of a character is not a continuation.)
Decodable(label) ==
  \A i \in DOMAIN label :
    \E first \in (i - 3)..i, last \in i..(i + 3) :
      /\ 1 <= first /\ last <= Len(label)
      /\ IsCharacter(SubSeq(label, first, last))

\* What decode() returns.
Texts == {text \in Seq(Bytes) : Decodable(text)}

\* Nothing to unpack: the slice is empty.
NoLength == ~Has(position) /\ Raise("struct.error")

\* The byte that ends a name.  The innermost call takes the last dot away; if it
\* has read no label, the one before the pointer stays.
EndOfName ==
  /\ Has(position) /\ Byte(position) = 0
  /\ toReturn' = IF fresh THEN Append(toReturn, <<>>) ELSE toReturn
  /\ end' = IF jumps = <<>> THEN position + 1 ELSE end
  /\ position' = position + 1
  /\ status' = "decoded"
  /\ UNCHANGED <<messageVars, fresh, jumps>>

\* Mutant: a pointer to a name that ends in a pointer is given up.
TooDeepAtOnce == Len(jumps) + 1 >= 2

\* One more call raises RecursionError.
TooDeep == Len(jumps) + 1 >= MaxDepth

\* Mutant: the loop goes on at the offset, without a call.
PointerInALoop ==
  /\ Has(position) /\ IsPointer(Byte(position)) /\ Has(position + 1)
  /\ position' = Offset(Byte(position), Byte(position + 1))
  /\ end' = IF jumps = <<>> THEN position + 2 ELSE end
  /\ fresh' = TRUE
  /\ UNCHANGED <<messageVars, toReturn, jumps, status>>

\* The call for the name at the offset, whose end is not used.
Pointer ==
  /\ Has(position) /\ IsPointer(Byte(position)) /\ Has(position + 1)
  /\ ~TooDeep
  /\ position' = Offset(Byte(position), Byte(position + 1))
  /\ jumps' = Append(jumps, position')
  /\ end' = IF jumps = <<>> THEN position + 2 ELSE end
  /\ fresh' = TRUE
  /\ UNCHANGED <<messageVars, toReturn, status>>

PointerFails ==
  /\ Has(position) /\ IsPointer(Byte(position))
  /\ \/ ~Has(position + 1) /\ Raise("struct.error")
     \/ Has(position + 1) /\ TooDeep /\ Raise("RecursionError")

LabelAt(length) == SubSeq(buffer, position + 2, position + 1 + length)

Label ==
  /\ Has(position) /\ Byte(position) # 0 /\ ~IsPointer(Byte(position))
  /\ LET length == Byte(position) IN
     /\ Has(position + length) /\ Decodable(LabelAt(length))
     /\ toReturn' = Append(toReturn, LabelAt(length))
     /\ position' = position + 1 + length
  /\ fresh' = FALSE
  /\ UNCHANGED <<messageVars, jumps, end, status>>

LabelFails ==
  /\ Has(position) /\ Byte(position) # 0 /\ ~IsPointer(Byte(position))
  /\ LET length == Byte(position) IN
     IF Has(position + length)
     THEN ~Decodable(LabelAt(length)) /\ Raise("UnicodeDecodeError")
     ELSE Raise("struct.error")

-----------------------------------------------------------------------------
\* A query is made, or a message that is no answer to one is decoded.
Init ==
  /\ \/ /\ name \in Hostnames /\ status = "encoding" /\ position = 0
        /\ \E id \in QueryIds : buffer = QueryHeader(id)
     \/ /\ name = Unknown /\ status = "decoding" /\ position \in 0..3
        /\ buffer \in Buffers
  /\ offsets = <<>> /\ behind = 0
  /\ toReturn = <<>> /\ fresh = TRUE /\ jumps = <<>> /\ end = 0

Turn ==
  /\ status = "decoding"
  /\ NoLength \/ EndOfName \/ Pointer \/ PointerFails \/ Label \/ LabelFails

Next == EncodePart \/ EncodingFails \/ EndOfEncoding \/ Answer \/ Turn

Spec == Init /\ [][Next]_vars /\ WF_vars(Turn)
-----------------------------------------------------------------------------
(* Properties. *)

TypeOK ==
  /\ name \in Hostnames \cup {Unknown}
  /\ buffer \in Seq(Bytes) /\ offsets \in Seq(Nat) /\ behind \in Nat
  /\ position \in Nat /\ end \in Nat /\ fresh \in BOOLEAN
  /\ toReturn \in Seq(Texts) /\ jumps \in Seq(Offsets)
  /\ status \in {"encoding", "sent", "decoding", "decoded",
                 "struct.error", "UnicodeDecodeError", "RecursionError"}

\* The lengths that get_dns_name_encoding writes and decode_dns_name reads as such.
Labels == \A i \in DOMAIN name : 1 <= Len(name[i]) /\ Len(name[i]) < 192

\* Whichever way the name asked for is written in an answer, it is decoded to itself,
\* and the index returned is the one behind it.  If the name in the message is cut,
\* and only then, an error is raised; never is another name returned.
NameArrives ==
  name # Unknown /\ Labels /\ status \notin {"encoding", "sent", "decoding"} =>
    IF Len(buffer) < behind
    THEN status = "struct.error"
    ELSE status = "decoded" /\ toReturn = name /\ end = behind

\* In a message with fewer bytes than calls may be nested, the recursion is given up
\* only when a pointer leads back to where another one led before.
RecursionOnlyInCircles ==
  status = "RecursionError" /\ Len(buffer) < MaxDepth =>
    \E i, j \in DOMAIN jumps : i # j /\ jumps[i] = jumps[j]

\* Whatever the message, decoding comes to an end.
DecodingEnds == status = "decoding" ~> status # "decoding"
=============================================================================
