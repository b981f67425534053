------------------------------ MODULE DnsProofs ------------------------------
(***************************************************************************)
(* Proofs about DnsNames, for any names, messages and recursion limit.     *)
(*                                                                         *)
(* QueryInv says where construct_query has put the parts of a name, and    *)
(* Written(k) where a server has put them again; a message that arrives    *)
(* cut agrees with that as far as it goes.  Reading(k) is how far the      *)
(* calls of decode_dns_name are: the parts read so far are those of the    *)
(* name, the next one is at position, and the index to be returned is      *)
(* known once there was a pointer.                                         *)
(***************************************************************************)
EXTENDS DnsNames, FiniteSetTheorems, SequenceTheorems, TLAPS

\* What is in a message b, as far as it goes: a part, the byte that ends a name, a
\* pointer.
PartAt(b, at, part) ==
  /\ at < Len(b) => b[at + 1] = Len(part)
  /\ \A j \in 1..Len(part) : at + j < Len(b) => b[at + j + 1] = part[j]

EndAt(b, at) == at < Len(b) => b[at + 1] = 0

PointerAt(b, at, offset) ==
  /\ at < Len(b) => b[at + 1] = PointerTo(offset)[1]
  /\ at + 1 < Len(b) => b[at + 2] = PointerTo(offset)[2]

\* The parts of the name that were encoded follow one another.
Behind(i) == offsets[i] + 1 + Len(name[i])

QueryInv ==
  /\ status \in {"encoding", "sent"} => name # Unknown
  /\ name # Unknown =>
       /\ Len(offsets) <= Len(name) + 1 /\ (offsets # <<>> => offsets[1] = QueryNameStart)
       /\ \A i, j \in DOMAIN offsets : i < j => Behind(i) <= offsets[j]
       /\ \A i, j \in DOMAIN offsets : j = i + 1 => Behind(i) = offsets[j]
       /\ \A i \in DOMAIN offsets :
            IF i <= Len(name) THEN PartAt(buffer, offsets[i], name[i])
                              ELSE EndAt(buffer, offsets[i])
       /\ status = "encoding" =>
            /\ Len(offsets) <= Len(name)
            /\ Len(buffer) = IF offsets = <<>> THEN QueryNameStart ELSE Behind(Len(offsets))
       /\ status = "sent" =>
            Len(offsets) = Len(name) + 1 /\ Len(buffer) = offsets[Len(name) + 1] + 5

\* Where the name is written again, and where the pointer to that is.
First == offsets[Len(name) + 1] + 5
Again(i) == First + offsets[i] - QueryNameStart
Second(k) == Again(k + 1) + IF k < Len(name) THEN 2 ELSE 1

Written(k) ==
  /\ Len(offsets) = Len(name) + 1 /\ First < 16384
  /\ \A i \in 1..k : PartAt(buffer, Again(i), name[i])
  /\ IF k < Len(name) THEN PointerAt(buffer, Again(k + 1), offsets[k + 1])
                      ELSE EndAt(buffer, Again(k + 1))
  /\ PointerAt(buffer, Second(k), First)

\* The part that is read next is at position, in a name that ends at last.
NextPart == Len(toReturn) + 1

Part(at, i, k, last) ==
  \/ at = offsets[i] /\ last = offsets[Len(name) + 1] + 1
  \/ at = Again(i) /\ i <= k + 1 /\ last = Second(k) /\ Len(jumps) <= 1

Reads(k, last) ==
  \/ Part(position, NextPart, k, last)
  \/ position = Second(k) /\ NextPart = 1 /\ last = Second(k) + 2 /\ jumps = <<>>

\* The index behind the name is last, or was left behind by a pointer.
Returns(last) ==
  IF jumps = <<>> THEN behind = last
  ELSE last <= behind /\ end = behind /\ behind <= Len(buffer)

Reading(k) ==
  /\ Len(toReturn) <= Len(name) /\ \A i \in 1..Len(toReturn) : toReturn[i] = name[i]
  /\ fresh => Len(toReturn) < Len(name)
  /\ \E last \in Nat : Reads(k, last) /\ Returns(last)

ArrivalInv ==
  name # Unknown /\ Labels =>
    /\ status \in {"encoding", "sent"} => toReturn = <<>> /\ fresh
    /\ status = "decoding" => \E k \in 0..Len(name) : Written(k) /\ Reading(k)
    /\ NameArrives

\* A pointer is followed only from a place inside the message, which is not before the
\* one that the last pointer led to.
CircleInv ==
  /\ status \in {"encoding", "sent"} => jumps = <<>>
  /\ \A i \in 1..Len(jumps) : i < Len(jumps) => jumps[i] + 1 < Len(buffer)
  /\ jumps # <<>> => jumps[Len(jumps)] <= position
  /\ RecursionOnlyInCircles

IInv == TypeOK /\ QueryInv /\ ArrivalInv /\ CircleInv

-----------------------------------------------------------------------------
(* Bytes. *)

\* The sets of numbers.
LEMMA Numbers ==
  /\ \A n : n \in Bytes <=> n \in Nat /\ n < 256
  /\ \A n : n \in Characters <=> n \in Nat /\ n < 128
  /\ \A n : n \in Halves <=> n \in Nat /\ n < 65536
  /\ \A n : n \in Offsets <=> n \in Nat /\ n < 16384
  BY DEF Bytes, Characters, Halves, Offsets

\* Every sequence of ASCII characters is a text that decode() takes, also the empty one.
LEMMA AsciiIsText == Seq(Characters) \subseteq Texts
<1> SUFFICES ASSUME NEW part \in Seq(Characters) PROVE part \in Texts
  OBVIOUS
<1>1. part \in Seq(Bytes)
  <2>1. Characters \subseteq Bytes
    BY Numbers
  <2>2. QED
    BY <2>1, SeqMonotonic
<1>2. ASSUME NEW i \in DOMAIN part
      PROVE  \E first \in (i - 3)..i, last \in i..(i + 3) :
               /\ 1 <= first /\ last <= Len(part)
               /\ IsCharacter(SubSeq(part, first, last))
  <2>1. i \in 1..Len(part) /\ i \in Int /\ part[i] \in Characters
    BY ElementOfSeq
  <2> DEFINE c == SubSeq(part, i, i)
  <2>2. Len(c) = 1 /\ c[1] = part[i]
    BY <2>1
  <2> HIDE DEF c
  <2>3. IsCharacter(c)
    BY <2>1, <2>2, Numbers DEF IsCharacter
  <2>4. IsCharacter(SubSeq(part, i, i))
    BY <2>3 DEF c
  <2>5. i \in (i - 3)..i /\ i \in i..(i + 3) /\ 1 <= i /\ i <= Len(part)
    BY <2>1
  <2>6. QED
    BY <2>4, <2>5
<1>3. Decodable(part)
  BY <1>2 DEF Decodable
<1>4. QED
  BY <1>1, <1>3 DEF Texts

\* The parts of a name are texts.
LEMMA NamesAreTexts == Seq(Seq(Characters)) \subseteq Seq(Texts)
  BY AsciiIsText, SeqMonotonic

\* Numbers of 16 and of 14 bits in two bytes.
LEMMA TwoBytesTypes ==
  ASSUME NEW n \in Halves
  PROVE  TwoBytes(n) \in Seq(Bytes) /\ Len(TwoBytes(n)) = 2
<1>1. n \in Nat /\ n < 65536
  BY Numbers
<1>2. n \div 256 \in Nat /\ n \div 256 < 256
  BY <1>1
<1>3. n % 256 \in Nat /\ n % 256 < 256
  BY <1>1
<1>4. n \div 256 \in Bytes /\ n % 256 \in Bytes
  BY <1>2, <1>3, Numbers
<1>5. QED
  BY <1>4 DEF TwoBytes

LEMMA PointerTypes ==
  ASSUME NEW offset \in Offsets
  PROVE  /\ PointerTo(offset) \in Seq(Bytes) /\ Len(PointerTo(offset)) = 2
         /\ PointerTo(offset)[1] \in Bytes /\ PointerTo(offset)[1] >= 192
         /\ PointerTo(offset)[2] \in Bytes
         /\ Offset(PointerTo(offset)[1], PointerTo(offset)[2]) = offset
<1>1. offset \in Nat /\ offset < 16384
  BY Numbers
<1>2. PICK q \in Nat, r \in Nat : q = offset \div 256 /\ r = offset % 256
  BY <1>1
<1>3. q < 64
  BY <1>1, <1>2
<1>4. r < 256 /\ offset = q * 256 + r
  BY <1>1, <1>2
<1>5. (192 + q) % 64 = q
  BY <1>3
<1>6. 192 + q \in Bytes /\ r \in Bytes
  BY <1>3, <1>4, Numbers
<1>7. PointerTo(offset) = <<192 + q, r>>
  BY <1>2 DEF PointerTo
<1>8. Offset(192 + q, r) = offset
  BY <1>4, <1>5 DEF Offset
<1>9. QED
  BY <1>6, <1>7, <1>8

\* Whatever two bytes are read, the offset has 14 bits.
LEMMA OffsetTypes ==
  ASSUME NEW length \in Bytes, NEW b2 \in Bytes
  PROVE  Offset(length, b2) \in Offsets
<1>1. PICK r \in Nat : r = length % 64 /\ r < 64
  BY Numbers
<1>2. b2 \in Nat /\ b2 < 256
  BY Numbers
<1>3. r * 256 + b2 \in Nat /\ r * 256 + b2 < 16384
  BY <1>1, <1>2
<1>4. QED
  BY <1>1, <1>3, Numbers DEF Offset

\* The position and the bytes of a message, while it is decoded.
LEMMA ByteTypes ==
  ASSUME TypeOK, NEW i \in Nat, Has(i)
  PROVE  Byte(i) \in Bytes
<1>1. buffer \in Seq(Bytes)
  BY DEF TypeOK
<1>2. PICK n \in 1..Len(buffer) : n = i + 1
  BY <1>1 DEF Has
<1>3. QED
  BY <1>1, <1>2, ElementOfSeq DEF Byte

LEMMA NameTypes ==
  ASSUME TypeOK, name # Unknown
  PROVE  name \in Seq(Seq(Characters)) /\ Len(name) \in Nat \ {0}
<1>1. name \in Hostnames
  BY DEF TypeOK
<1>2. name \in Seq(Seq(Characters)) /\ name # <<>>
  BY <1>1, DnsAssumption
<1>3. QED
  BY <1>2, EmptySeq

\* The bytes of a, from at on, that stand d further in b.
LEMMA MovedPart ==
  ASSUME NEW a \in Seq(Bytes), NEW b \in Seq(Bytes), NEW at \in Nat, NEW d \in Int,
         NEW part \in Seq(Characters), PartAt(a, at, part), at + Len(part) < Len(a),
         \A i \in at..(at + Len(part)) : i + d < Len(b) => b[i + d + 1] = a[i + 1]
  PROVE  PartAt(b, at + d, part)
<1>1. Len(part) \in Nat /\ Len(a) \in Nat /\ Len(b) \in Nat
  OBVIOUS
<1>2. at + d < Len(b) => b[at + d + 1] = Len(part)
  BY <1>1 DEF PartAt
<1>3. ASSUME NEW j \in 1..Len(part), at + d + j < Len(b)
      PROVE  b[at + d + j + 1] = part[j]
  <2>1. at + j \in at..(at + Len(part)) /\ (at + j) + d < Len(b) /\ at + j < Len(a)
    BY <1>1, <1>3
  <2>2. b[(at + j) + d + 1] = a[(at + j) + 1]
    BY <2>1
  <2>3. a[at + j + 1] = part[j]
    BY <2>1 DEF PartAt
  <2>4. (at + j) + d + 1 = at + d + j + 1 /\ (at + j) + 1 = at + j + 1
    BY <1>1
  <2>5. QED
    BY <2>2, <2>3, <2>4
<1>4. QED
  BY <1>2, <1>3 DEF PartAt

\* A message that goes on, or is cut.
LEMMA SamePart ==
  ASSUME NEW a \in Seq(Bytes), NEW b \in Seq(Bytes), NEW at \in Nat,
         NEW part \in Seq(Characters), PartAt(a, at, part), at + Len(part) < Len(a),
         \A i \in 1..Len(a) : i <= Len(b) => b[i] = a[i]
  PROVE  PartAt(b, at, part)
<1>1. PICK d \in Int : d = 0
  OBVIOUS
<1>2. ASSUME NEW i \in at..(at + Len(part)), i + d < Len(b)
      PROVE  b[i + d + 1] = a[i + 1]
  <2>1. i + 1 \in 1..Len(a) /\ i + 1 <= Len(b) /\ i + d + 1 = i + 1
    BY <1>1, <1>2
  <2>2. QED
    BY <2>1
<1>3. PartAt(b, at + d, part)
  BY <1>2, MovedPart
<1>4. at + d = at
  BY <1>1
<1>5. QED
  BY <1>3, <1>4

\* What is appended to a sequence of bytes.
LEMMA Appended ==
  ASSUME NEW a \in Seq(Bytes), NEW b \in Seq(Bytes)
  PROVE  /\ a \o b \in Seq(Bytes) /\ Len(a \o b) = Len(a) + Len(b)
         /\ Len(a) \in Nat /\ Len(b) \in Nat
         /\ \A i \in 1..Len(a) : (a \o b)[i] = a[i]
         /\ \A i \in 1..Len(b) : (a \o b)[Len(a) + i] = b[i]
<1>1. /\ a \o b \in Seq(Bytes) /\ Len(a \o b) = Len(a) + Len(b)
      /\ Len(a) \in Nat /\ Len(b) \in Nat
      /\ \A i \in 1..Len(a) + Len(b) : (a \o b)[i] = IF i <= Len(a) THEN a[i] ELSE b[i - Len(a)]
  BY ConcatProperties
<1>2. ASSUME NEW i \in 1..Len(b) PROVE (a \o b)[Len(a) + i] = b[i]
  <2>1. Len(a) + i \in 1..Len(a) + Len(b) /\ ~(Len(a) + i <= Len(a)) /\ Len(a) + i - Len(a) = i
    BY <1>1
  <2>2. QED
    BY <1>1, <2>1
<1>3. \A i \in 1..Len(a) : i \in 1..Len(a) + Len(b) /\ i <= Len(a)
  BY <1>1
<1>4. QED
  BY <1>1, <1>2, <1>3

-----------------------------------------------------------------------------
(* The query. *)

\* A part behind the bytes of a.
LEMMA PartAppended ==
  ASSUME NEW a \in Seq(Bytes), NEW item \in Seq(Characters), Len(item) < 256,
         NEW b, b = a \o <<Len(item)>> \o item
  PROVE  /\ b \in Seq(Bytes) /\ Len(b) = Len(a) + 1 + Len(item)
         /\ \A i \in 1..Len(a) : b[i] = a[i]
         /\ PartAt(b, Len(a), item)
<1>1. /\ Len(item) \in Nat /\ Len(a) \in Nat
      /\ <<Len(item)>> \in Seq(Bytes) /\ Len(<<Len(item)>>) = 1 /\ item \in Seq(Bytes)
  <2>1. Len(item) \in Nat /\ Len(a) \in Nat
    OBVIOUS
  <2>2. Len(item) \in Bytes /\ Characters \subseteq Bytes
    BY <2>1, Numbers
  <2>3. QED
    BY <2>1, <2>2, SeqMonotonic
<1>2. PICK c \in Seq(Bytes) :
        /\ c = a \o <<Len(item)>> /\ Len(c) = Len(a) + 1
        /\ \A i \in 1..Len(a) : c[i] = a[i]
        /\ \A i \in 1..1 : c[Len(a) + i] = <<Len(item)>>[i]
  BY <1>1, Appended
<1>3. c[Len(a) + 1] = Len(item)
  BY <1>2
<1>4. /\ b \in Seq(Bytes) /\ Len(b) = Len(c) + Len(item)
      /\ \A i \in 1..Len(c) : b[i] = c[i]
      /\ \A i \in 1..Len(item) : b[Len(c) + i] = item[i]
  BY <1>1, <1>2, Appended
<1>5. \A i \in 1..Len(a) : b[i] = a[i]
  BY <1>1, <1>2, <1>4
<1>6. b[Len(a) + 1] = Len(item)
  BY <1>1, <1>2, <1>3, <1>4
<1>7. ASSUME NEW j \in 1..Len(item) PROVE b[Len(a) + j + 1] = item[j]
  <2>1. Len(a) + j + 1 = Len(c) + j
    BY <1>1, <1>2
  <2>2. QED
    BY <1>4, <2>1
<1>8. PartAt(b, Len(a), item)
  BY <1>6, <1>7 DEF PartAt
<1>9. QED
  BY <1>1, <1>2, <1>4, <1>5, <1>8

\* The parts of the name.
LEMMA PartTypes ==
  ASSUME TypeOK, name # Unknown, NEW i \in 1..Len(name)
  PROVE  name[i] \in Seq(Characters) /\ Len(name[i]) \in Nat
<1>1. name \in Seq(Seq(Characters))
  BY NameTypes
<1>2. PICK part \in Seq(Characters) : part = name[i]
  BY <1>1, ElementOfSeq
<1>3. QED
  BY <1>2

\* While a query is made, what was written ends in it.
LEMMA EndsInside ==
  ASSUME TypeOK, QueryInv, status = "encoding", NEW i \in DOMAIN offsets
  PROVE  /\ i \in 1..Len(offsets) /\ i <= Len(name) /\ name # Unknown /\ offsets[i] \in Nat
         /\ Behind(i) <= Len(buffer) /\ (i = Len(offsets) => Behind(i) = Len(buffer))
<1>1. name # Unknown
  BY DEF QueryInv
<1>2. /\ offsets \in Seq(Nat) /\ Len(offsets) \in Nat /\ DOMAIN offsets = 1..Len(offsets)
      /\ Len(name) \in Nat
  BY <1>1, NameTypes DEF TypeOK
<1>3. Len(offsets) <= Len(name) /\ offsets # <<>> /\ Len(buffer) = Behind(Len(offsets))
  BY <1>1, <1>2 DEF QueryInv
<1>4. i \in 1..Len(offsets) /\ i <= Len(name) /\ Len(offsets) \in DOMAIN offsets
  BY <1>2, <1>3
<1>5. offsets[i] \in Nat /\ offsets[Len(offsets)] \in Nat
  BY <1>2, <1>4
<1>6. Len(name[i]) \in Nat /\ Len(name[Len(offsets)]) \in Nat
  <2>1. i \in 1..Len(name) /\ Len(offsets) \in 1..Len(name)
    BY <1>2, <1>3, <1>4
  <2>2. QED
    BY <1>1, <2>1, PartTypes
<1>7. CASE i = Len(offsets)
  BY <1>1, <1>3, <1>4, <1>5, <1>6, <1>7 DEF Behind
<1>8. CASE i # Len(offsets)
  <2>1. Behind(i) <= offsets[Len(offsets)]
    BY <1>1, <1>2, <1>4, <1>8 DEF QueryInv
  <2>2. QED
    BY <1>1, <1>3, <1>4, <1>5, <1>6, <1>8, <2>1 DEF Behind
<1>9. QED
  BY <1>7, <1>8

\* One more part, or the byte that ends the name, is written behind the others.
LEMMA OffsetAdded ==
  ASSUME TypeOK, QueryInv, status = "encoding", buffer' \in Seq(Bytes), UNCHANGED name,
         \A i \in 1..Len(buffer) : i <= Len(buffer') => buffer'[i] = buffer[i],
         offsets' = Append(offsets, Len(buffer)), NEW n, n = Len(offsets) + 1,
         IF n <= Len(name) THEN PartAt(buffer', Len(buffer), name[n])
                           ELSE EndAt(buffer', Len(buffer))
  PROVE  /\ offsets' \in Seq(Nat) /\ Len(offsets') = n /\ n \in 1..(Len(name) + 1)
         /\ offsets'[1] = QueryNameStart
         /\ \A i, j \in DOMAIN offsets' : i < j => Behind(i)' <= offsets'[j]
         /\ \A i, j \in DOMAIN offsets' : j = i + 1 => Behind(i)' = offsets'[j]
         /\ \A i \in DOMAIN offsets' :
              IF i <= Len(name') THEN PartAt(buffer', offsets'[i], name'[i])
                                 ELSE EndAt(buffer', offsets'[i])
<1>1. name # Unknown
  BY DEF QueryInv
<1>2. /\ offsets \in Seq(Nat) /\ Len(offsets) \in Nat /\ DOMAIN offsets = 1..Len(offsets)
      /\ buffer \in Seq(Bytes) /\ Len(buffer) \in Nat /\ Len(name) \in Nat
      /\ Len(offsets) <= Len(name)
  BY <1>1, NameTypes DEF TypeOK, QueryInv
<1>3. /\ offsets' \in Seq(Nat) /\ Len(offsets') = n /\ n \in 1..(Len(name) + 1)
      /\ DOMAIN offsets' = 1..n /\ offsets'[n] = Len(buffer)
      /\ \A i \in DOMAIN offsets : i \in 1..n /\ i < n /\ offsets'[i] = offsets[i]
      /\ \A i \in 1..n : i = n \/ i \in DOMAIN offsets
  BY <1>2
<1>4. offsets'[1] = QueryNameStart
  <2>1. CASE offsets = <<>>
    BY <1>1, <1>3, <2>1 DEF QueryInv
  <2>2. CASE offsets # <<>>
    BY <1>1, <1>2, <1>3, <2>2 DEF QueryInv
  <2>3. QED
    BY <2>1, <2>2
<1>5. ASSUME NEW i \in DOMAIN offsets
      PROVE  /\ Behind(i)' = Behind(i) /\ Behind(i) <= Len(buffer) /\ i < n
             /\ i + 1 = n => Behind(i) = Len(buffer)
  <2>1. Behind(i)' = Behind(i)
    BY <1>3 DEF Behind
  <2>2. /\ Behind(i) <= Len(buffer) /\ (i = Len(offsets) => Behind(i) = Len(buffer))
    BY EndsInside
  <2>3. QED
    BY <1>2, <1>3, <2>1, <2>2
<1>6. ASSUME NEW i \in DOMAIN offsets', NEW j \in DOMAIN offsets', i < j
      PROVE  Behind(i)' <= offsets'[j] /\ (j = i + 1 => Behind(i)' = offsets'[j])
  <2>1. i \in DOMAIN offsets
    BY <1>2, <1>3, <1>6
  <2>2. CASE j = n
    BY <1>3, <1>5, <2>1, <2>2
  <2>3. CASE j \in DOMAIN offsets
    BY <1>1, <1>3, <1>5, <1>6, <2>1, <2>3 DEF QueryInv
  <2>4. QED
    BY <1>3, <2>2, <2>3
<1>7. ASSUME NEW i \in DOMAIN offsets
      PROVE  i <= Len(name) /\ PartAt(buffer', offsets[i], name[i])
  <2>1. i <= Len(name) /\ offsets[i] \in Nat /\ Behind(i) <= Len(buffer) /\ i \in 1..Len(name)
    BY <1>2, EndsInside
  <2>2. PICK at \in Nat, part \in Seq(Characters) : at = offsets[i] /\ part = name[i]
    BY <1>1, <2>1, PartTypes
  <2>3. PartAt(buffer, at, part)
    BY <1>1, <2>1, <2>2 DEF QueryInv
  <2>4. at + Len(part) < Len(buffer)
    <3>1. Len(part) \in Nat
      OBVIOUS
    <3>2. QED
      BY <1>2, <2>1, <2>2, <3>1 DEF Behind
  <2>5. PartAt(buffer', at, part)
    BY <1>2, <2>3, <2>4, SamePart
  <2>6. QED
    BY <2>1, <2>2, <2>5
<1>8. ASSUME NEW i \in DOMAIN offsets'
      PROVE  IF i <= Len(name') THEN PartAt(buffer', offsets'[i], name'[i])
                                ELSE EndAt(buffer', offsets'[i])
  <2>1. CASE i = n
    BY <1>3, <2>1
  <2>2. CASE i \in DOMAIN offsets
    BY <1>3, <1>7, <2>2
  <2>3. QED
    BY <1>3, <2>1, <2>2
<1>9. \A i, j \in DOMAIN offsets' : j = i + 1 => i < j
  BY <1>3
<1>10. QED
  BY <1>3, <1>4, <1>6, <1>8, <1>9

\* One turn of get_dns_name_encoding's loop.
LEMMA EncodePartStep ==
  ASSUME IInv, EncodePart
  PROVE  IInv'
<1>1. /\ status = "encoding" /\ Len(offsets) < Len(name) /\ offsets' = Append(offsets, Len(buffer))
      /\ UNCHANGED <<name, behind, position, toReturn, fresh, jumps, end, status>>
  BY DEF EncodePart, decodingVars
<1>2. TypeOK /\ QueryInv /\ name # Unknown /\ jumps = <<>>
  BY <1>1 DEF IInv, QueryInv, CircleInv
<1>3. Len(offsets) \in Nat /\ Len(name) \in Nat /\ buffer \in Seq(Bytes)
  BY <1>2, NameTypes DEF TypeOK
<1>4. PICK n \in 1..Len(name) : n = Len(offsets) + 1
  BY <1>1, <1>3
<1>5. PICK item \in Seq(Characters) : item = name[n]
  BY <1>2, PartTypes
<1>6. Len(item) < 256 /\ buffer' = buffer \o <<Len(item)>> \o item
  BY <1>4, <1>5 DEF EncodePart
<1>7. /\ buffer' \in Seq(Bytes) /\ Len(buffer') = Len(buffer) + 1 + Len(item)
      /\ \A i \in 1..Len(buffer) : buffer'[i] = buffer[i]
      /\ PartAt(buffer', Len(buffer), item)
  BY <1>3, <1>6, PartAppended
<1>8. /\ offsets' \in Seq(Nat) /\ Len(offsets') = n
      /\ offsets'[1] = QueryNameStart
      /\ \A i, j \in DOMAIN offsets' : i < j => Behind(i)' <= offsets'[j]
      /\ \A i, j \in DOMAIN offsets' : j = i + 1 => Behind(i)' = offsets'[j]
      /\ \A i \in DOMAIN offsets' :
           IF i <= Len(name') THEN PartAt(buffer', offsets'[i], name'[i])
                              ELSE EndAt(buffer', offsets'[i])
  <2>1. n <= Len(name) /\ PartAt(buffer', Len(buffer), name[n])
    BY <1>5, <1>7
  <2>2. QED
    BY <1>1, <1>2, <1>4, <1>7, <2>1, OffsetAdded
<1>9. Len(buffer') = Behind(Len(offsets))'
  <2>1. offsets'[n] = Len(buffer)
    BY <1>1, <1>2, <1>4 DEF TypeOK
  <2>2. Behind(n)' = offsets'[n] + 1 + Len(name[n])
    BY <1>1 DEF Behind
  <2>3. Len(buffer) \in Nat /\ Len(item) \in Nat
    BY <1>3
  <2>4. Len(buffer') = Behind(n)'
    BY <1>5, <1>7, <2>1, <2>2, <2>3
  <2>5. QED
    BY <1>8, <2>4 DEF Behind
<1>10. QueryInv'
  <2>1. offsets' # <<>>
    BY <1>8
  <2>2. Len(offsets') <= Len(name') + 1 /\ Len(offsets') <= Len(name') /\ status' # "sent"
    BY <1>1, <1>3, <1>4, <1>8
  <2>3. QED
    BY <1>1, <1>2, <1>8, <1>9, <2>1, <2>2 DEF QueryInv
<1>11. TypeOK'
  BY <1>1, <1>2, <1>7, <1>8 DEF TypeOK
<1>12. ArrivalInv'
  BY <1>1, <1>2 DEF IInv, ArrivalInv, NameArrives, Labels
<1>13. CircleInv'
  BY <1>1, <1>2 DEF CircleInv, RecursionOnlyInCircles
<1>14. QED
  BY <1>10, <1>11, <1>12, <1>13 DEF IInv

\* The name is one that no query can carry.
LEMMA EncodingFailsStep ==
  ASSUME IInv, EncodingFails
  PROVE  IInv'
<1>1. /\ status = "encoding" /\ status' = "struct.error" /\ Len(offsets) < Len(name)
      /\ Len(name[Len(offsets) + 1]) >= 256
      /\ UNCHANGED <<name, buffer, offsets, behind, position, toReturn, fresh, jumps, end>>
  BY DEF EncodingFails, Raise, messageVars, decodingVars
<1>2. TypeOK /\ QueryInv /\ name # Unknown /\ jumps = <<>>
  BY <1>1 DEF IInv, QueryInv, CircleInv
<1>3. ~Labels
  <2>1. PICK n \in DOMAIN name : n = Len(offsets) + 1
    BY <1>1, <1>2, NameTypes DEF TypeOK
  <2>2. n \in 1..Len(name)
    BY <1>2, <2>1, NameTypes
  <2>3. PICK l \in Nat : l = Len(name[n])
    BY <1>2, <2>2, PartTypes
  <2>4. l >= 256
    BY <1>1, <2>1, <2>3
  <2>5. ~(Len(name[n]) < 192)
    BY <2>3, <2>4
  <2>6. QED
    BY <2>1, <2>5 DEF Labels
<1>4. TypeOK' /\ QueryInv'
  BY <1>1, <1>2 DEF TypeOK, QueryInv, Behind
<1>5. ArrivalInv'
  BY <1>1, <1>3 DEF ArrivalInv, Labels
<1>6. CircleInv'
  BY <1>1, <1>2 DEF CircleInv, RecursionOnlyInCircles
<1>7. QED
  BY <1>4, <1>5, <1>6 DEF IInv

\* The bytes behind the name: z ends it, t and u are of two bytes.
LEMMA TailTypes ==
  ASSUME NEW a \in Seq(Bytes), NEW z \in Seq(Bytes), NEW t \in Seq(Bytes), NEW u \in Seq(Bytes),
         Len(z) = 1, z[1] = 0, Len(t) = 2, Len(u) = 2
  PROVE  /\ a \o z \o t \o u \in Seq(Bytes) /\ Len(a \o z \o t \o u) = Len(a) + 5
         /\ \A i \in 1..Len(a) : (a \o z \o t \o u)[i] = a[i]
         /\ EndAt(a \o z \o t \o u, Len(a))
<1> DEFINE c == a \o z
<1> DEFINE d == c \o t
<1> DEFINE b == d \o u
<1>1. /\ c \in Seq(Bytes) /\ Len(c) = Len(a) + Len(z) /\ Len(a) \in Nat
      /\ \A i \in 1..Len(a) : c[i] = a[i]
      /\ \A i \in 1..Len(z) : c[Len(a) + i] = z[i]
  BY Appended
<1> HIDE DEF c
<1>2. d \in Seq(Bytes) /\ Len(d) = Len(c) + Len(t) /\ \A i \in 1..Len(c) : d[i] = c[i]
  BY <1>1, Appended
<1> HIDE DEF d
<1>3. b \in Seq(Bytes) /\ Len(b) = Len(d) + Len(u) /\ \A i \in 1..Len(d) : b[i] = d[i]
  BY <1>2, Appended
<1> HIDE DEF b
<1>4. Len(c) = Len(a) + 1 /\ Len(d) = Len(a) + 3 /\ Len(b) = Len(a) + 5 /\ Len(a) \in Nat
  BY <1>1, <1>2, <1>3
<1>5. \A i \in 1..Len(a) : b[i] = a[i]
  BY <1>1, <1>2, <1>3, <1>4
<1>6. b[Len(a) + 1] = 0
  <2>1. PICK n \in Nat : n = Len(a) + 1
    BY <1>1
  <2>2. c[n] = 0
    BY <1>1, <2>1
  <2>3. n \in 1..Len(c) /\ n \in 1..Len(d)
    BY <1>4, <2>1
  <2>4. QED
    BY <1>2, <1>3, <2>1, <2>2, <2>3
<1>7. EndAt(b, Len(a))
  BY <1>6 DEF EndAt
<1>8. b = a \o z \o t \o u
  BY DEF b, c, d
<1>9. QED
  BY <1>3, <1>4, <1>5, <1>7, <1>8

\* The query is complete.
LEMMA EndOfEncodingStep ==
  ASSUME IInv, EndOfEncoding
  PROVE  IInv'
<1>1. /\ status = "encoding" /\ status' = "sent" /\ Len(offsets) = Len(name)
      /\ offsets' = Append(offsets, Len(buffer))
      /\ UNCHANGED <<name, behind, position, toReturn, fresh, jumps, end>>
  BY DEF EndOfEncoding, decodingVars
<1>2. TypeOK /\ QueryInv /\ name # Unknown /\ jumps = <<>>
  BY <1>1 DEF IInv, QueryInv, CircleInv
<1>3. Len(name) \in Nat /\ buffer \in Seq(Bytes)
  BY <1>2, NameTypes DEF TypeOK
<1>4. PICK type \in Halves : buffer' = buffer \o <<0>> \o TwoBytes(type) \o TwoBytes(1)
  BY DnsAssumption DEF EndOfEncoding
<1>5. /\ buffer' \in Seq(Bytes) /\ Len(buffer') = Len(buffer) + 5
      /\ \A i \in 1..Len(buffer) : buffer'[i] = buffer[i]
      /\ EndAt(buffer', Len(buffer))
  <2>1. 1 \in Halves
    BY Numbers
  <2>2. PICK t \in Seq(Bytes), u \in Seq(Bytes) :
          t = TwoBytes(type) /\ Len(t) = 2 /\ u = TwoBytes(1) /\ Len(u) = 2
    BY <2>1, TwoBytesTypes
  <2>3. PICK z \in Seq(Bytes) : z = <<0>> /\ Len(z) = 1 /\ z[1] = 0
    <3>1. 0 \in Bytes
      BY Numbers
    <3>2. <<0>> \in Seq(Bytes) /\ Len(<<0>>) = 1 /\ <<0>>[1] = 0
      BY <3>1
    <3>3. QED
      BY <3>2
  <2>4. Len(z) = 1 /\ z[1] = 0 /\ Len(t) = 2 /\ Len(u) = 2
    BY <2>2, <2>3
  <2>5. PICK a \in Seq(Bytes) : a = buffer
    BY <1>3
  <2>6. buffer' = a \o z \o t \o u
    BY <1>4, <2>2, <2>3, <2>5
  <2>7. /\ a \o z \o t \o u \in Seq(Bytes)
        /\ Len(a \o z \o t \o u) = Len(a) + 5
        /\ \A i \in 1..Len(a) : (a \o z \o t \o u)[i] = a[i]
        /\ EndAt(a \o z \o t \o u, Len(a))
    BY <2>4, TailTypes
  <2>8. QED
    BY <2>5, <2>6, <2>7
<1>6. PICK n \in Nat : n = Len(name) + 1
  BY <1>3
<1>7. /\ offsets' \in Seq(Nat) /\ Len(offsets') = n
      /\ offsets'[1] = QueryNameStart
      /\ \A i, j \in DOMAIN offsets' : i < j => Behind(i)' <= offsets'[j]
      /\ \A i, j \in DOMAIN offsets' : j = i + 1 => Behind(i)' = offsets'[j]
      /\ \A i \in DOMAIN offsets' :
           IF i <= Len(name') THEN PartAt(buffer', offsets'[i], name'[i])
                              ELSE EndAt(buffer', offsets'[i])
  <2>1. ~(n <= Len(name)) /\ n = Len(offsets) + 1
    BY <1>1, <1>3, <1>6
  <2>2. QED
    BY <1>1, <1>2, <1>5, <2>1, OffsetAdded
<1>8. offsets'[n] = Len(buffer)
  BY <1>1, <1>2, <1>6 DEF TypeOK
<1>9. QueryInv'
  BY <1>1, <1>2, <1>3, <1>5, <1>6, <1>7, <1>8 DEF QueryInv
<1>10. TypeOK'
  BY <1>1, <1>2, <1>5, <1>7 DEF TypeOK
<1>11. ArrivalInv'
  BY <1>1, <1>2 DEF IInv, ArrivalInv, NameArrives, Labels
<1>12. CircleInv'
  BY <1>1, <1>2 DEF CircleInv, RecursionOnlyInCircles
<1>13. QED
  BY <1>9, <1>10, <1>11, <1>12 DEF IInv

-----------------------------------------------------------------------------
(* The answer. *)

\* Where the parts of a name are in a complete query.
LEMMA Places ==
  ASSUME TypeOK, QueryInv, name # Unknown, Len(offsets) = Len(name) + 1
  PROVE  /\ Len(name) \in Nat \ {0} /\ offsets[1] = 12
         /\ \A i \in 1..(Len(name) + 1) :
              offsets[i] \in Nat /\ offsets[i] >= 12 /\ offsets[i] <= offsets[Len(name) + 1]
         /\ \A i \in 1..Len(name) :
              Len(name[i]) \in Nat /\ offsets[i + 1] = offsets[i] + 1 + Len(name[i])
         /\ \A i, j \in 1..(Len(name) + 1) :
              i < j => offsets[i] + 1 + Len(name[i]) <= offsets[j]
<1>1. Len(name) \in Nat \ {0}
  BY NameTypes
<1>2. PICK p \in Nat : p = Len(name) /\ p > 0
  BY <1>1
<1>3. offsets \in Seq(Nat) /\ Len(offsets) = p + 1 /\ DOMAIN offsets = 1..(p + 1)
  BY <1>2 DEF TypeOK
<1>4. \A i \in 1..(p + 1) : offsets[i] \in Nat
  BY <1>3
<1>5. \A i \in 1..p : Len(name[i]) \in Nat
  BY <1>2, PartTypes
<1>6. /\ offsets[1] = 12
      /\ \A i, j \in 1..(p + 1) : i < j => Behind(i) <= offsets[j]
      /\ \A i, j \in 1..(p + 1) : j = i + 1 => Behind(i) = offsets[j]
  <2>1. offsets # <<>>
    BY <1>2, <1>3, EmptySeq
  <2>2. offsets[1] = 12
    BY <2>1 DEF QueryInv, QueryNameStart
  <2>3. /\ \A i, j \in DOMAIN offsets : i < j => Behind(i) <= offsets[j]
        /\ \A i, j \in DOMAIN offsets : j = i + 1 => Behind(i) = offsets[j]
    BY DEF QueryInv
  <2>4. QED
    BY <1>3, <2>2, <2>3
<1>7. \A i, j \in 1..(p + 1) : i < j => offsets[i] + 1 + Len(name[i]) <= offsets[j]
  BY <1>6 DEF Behind
<1>8. ASSUME NEW i \in 1..p PROVE offsets[i + 1] = offsets[i] + 1 + Len(name[i])
  <2>1. i \in 1..(p + 1) /\ i + 1 \in 1..(p + 1)
    BY <1>2
  <2>2. QED
    BY <1>6, <2>1 DEF Behind
<1>9. ASSUME NEW i \in 1..(p + 1) PROVE offsets[i] >= 12 /\ offsets[i] <= offsets[p + 1]
  <2>1. CASE i = 1
    <3>1. 1 \in 1..p /\ 1 < p + 1 /\ 1 \in 1..(p + 1) /\ p + 1 \in 1..(p + 1)
      BY SMTT(30), <1>2
    <3>2. offsets[1] + 1 + Len(name[1]) <= offsets[p + 1]
      BY <1>7, <3>1
    <3>3. QED
      BY <1>4, <1>5, <1>6, <2>1, <3>1, <3>2
  <2>2. CASE i > 1
    <3>1. 1 \in 1..p /\ 1 < i /\ 1 \in 1..(p + 1) /\ p + 1 \in 1..(p + 1)
      BY <1>2, <2>2
    <3>2. offsets[1] + 1 + Len(name[1]) <= offsets[i]
      BY <1>7, <2>2, <3>1
    <3>3. offsets[i] >= 12
      BY <1>4, <1>5, <1>6, <3>1, <3>2
    <3>4. CASE i = p + 1
      BY <1>4, <3>3, <3>4
    <3>5. CASE i < p + 1
      <4>1. offsets[i] + 1 + Len(name[i]) <= offsets[p + 1] /\ i \in 1..p
        BY <1>7, <3>1, <3>5
      <4>2. Len(name[i]) \in Nat /\ offsets[i] \in Nat /\ offsets[p + 1] \in Nat
        BY <1>4, <1>5, <3>1, <4>1
      <4>3. PICK x \in Nat, y \in Nat, z \in Nat :
              x = offsets[i] /\ y = Len(name[i]) /\ z = offsets[p + 1]
        BY <4>2
      <4>4. x + 1 + y <= z /\ x >= 12
        BY <3>3, <4>1, <4>3
      <4>5. x <= z
        BY <4>4
      <4>6. QED
        BY <3>3, <4>3, <4>5
    <3>6. QED
      BY <3>4, <3>5
  <2>3. QED
    BY <2>1, <2>2
<1>10. QED
  BY <1>1, <1>2, <1>4, <1>5, <1>6, <1>7, <1>8, <1>9

\* The bytes of a from the index start up to last once more, with tail behind them.
LEMMA CopyTypes ==
  ASSUME NEW a \in Seq(Bytes), NEW tail \in Seq(Bytes), NEW start \in Nat, NEW last \in Nat,
         start <= last, last <= Len(a)
  PROVE  /\ SubSeq(a, start + 1, last) \o tail \in Seq(Bytes)
         /\ Len(SubSeq(a, start + 1, last) \o tail) = last - start + Len(tail)
         /\ \A i \in 1..(last - start) : (SubSeq(a, start + 1, last) \o tail)[i] = a[start + i]
         /\ \A i \in 1..Len(tail) : (SubSeq(a, start + 1, last) \o tail)[last - start + i] = tail[i]
<1> DEFINE b == SubSeq(a, start + 1, last)
<1> DEFINE c == b \o tail
<1>1. b \in Seq(Bytes) /\ Len(b) = last - start /\ \A i \in 1..(last - start) : b[i] = a[start + i]
  <2>1. \A i \in (start + 1)..last : a[i] \in Bytes
    <3>1. \A i \in (start + 1)..last : i \in 1..Len(a)
      OBVIOUS
    <3>2. QED
      BY <3>1, ElementOfSeq
  <2>2. /\ b \in Seq(Bytes)
        /\ Len(b) = IF start + 1 <= last THEN last - (start + 1) + 1 ELSE 0
        /\ \A i \in 1..(last - (start + 1) + 1) : b[i] = a[start + 1 + i - 1]
    BY <2>1, SubSeqProperties
  <2>3. /\ last - (start + 1) + 1 = last - start
        /\ \A i \in 1..(last - start) : start + 1 + i - 1 = start + i
    OBVIOUS
  <2> HIDE DEF b
  <2>4. QED
    BY <2>2, <2>3
<1> HIDE DEF b
<1>2. /\ c \in Seq(Bytes) /\ Len(c) = Len(b) + Len(tail)
      /\ \A i \in 1..Len(b) : c[i] = b[i]
      /\ \A i \in 1..Len(tail) : c[Len(b) + i] = tail[i]
  BY <1>1, Appended
<1> HIDE DEF c
<1>3. /\ c \in Seq(Bytes) /\ Len(c) = last - start + Len(tail)
      /\ \A i \in 1..(last - start) : c[i] = a[start + i]
      /\ \A i \in 1..Len(tail) : c[last - start + i] = tail[i]
  BY <1>1, <1>2
<1>4. c = SubSeq(a, start + 1, last) \o tail
  BY DEF b, c
<1>5. QED
  BY <1>3, <1>4

\* What a message with c and r behind the bytes of a holds, as far as it arrives.
Copied(b, a, c, r) ==
  /\ \A i \in 1..Len(a) : i <= Len(b) => b[i] = a[i]
  /\ \A i \in 1..Len(c) : Len(a) + i <= Len(b) => b[Len(a) + i] = c[i]
  /\ \A i \in 1..Len(r) : Len(a) + Len(c) + i <= Len(b) => b[Len(a) + Len(c) + i] = r[i]

\* What is left of a message that is cut.
LEMMA CutMessage ==
  ASSUME NEW w \in Seq(Bytes), NEW n \in 0..Len(w), NEW b, b = SubSeq(w, 1, n)
  PROVE  b \in Seq(Bytes) /\ Len(b) = n /\ \A i \in 1..n : b[i] = w[i]
<1>1. \A i \in 1..n : w[i] \in Bytes
  BY ElementOfSeq
<1>2. /\ b \in Seq(Bytes) /\ Len(b) = IF 1 <= n THEN n - 1 + 1 ELSE 0
      /\ \A i \in 1..(n - 1 + 1) : b[i] = w[1 + i - 1]
  BY <1>1, SubSeqProperties
<1>3. n - 1 + 1 = n /\ \A i \in 1..n : 1 + i - 1 = i
  OBVIOUS
<1>4. QED
  BY <1>2, <1>3

\* A message that arrives cut.
LEMMA CopyArrives ==
  ASSUME NEW a \in Seq(Bytes), NEW c \in Seq(Bytes), NEW r \in Seq(Bytes), NEW n \in Nat
  PROVE  n <= Len(a \o c \o r) =>
         /\ SubSeq(a \o c \o r, 1, n) \in Seq(Bytes)
         /\ Copied(SubSeq(a \o c \o r, 1, n), a, c, r)
<1> DEFINE d == a \o c
<1> DEFINE w == d \o r
<1> DEFINE b == SubSeq(w, 1, n)
<1>1. /\ d \in Seq(Bytes) /\ Len(d) = Len(a) + Len(c) /\ Len(a) \in Nat /\ Len(c) \in Nat
      /\ \A i \in 1..Len(a) : d[i] = a[i]
      /\ \A i \in 1..Len(c) : d[Len(a) + i] = c[i]
  BY Appended
<1> HIDE DEF d
<1>2. /\ w \in Seq(Bytes) /\ Len(w) = Len(d) + Len(r) /\ Len(r) \in Nat
      /\ \A i \in 1..Len(d) : w[i] = d[i]
      /\ \A i \in 1..Len(r) : w[Len(d) + i] = r[i]
  BY <1>1, Appended
<1> HIDE DEF w
<1>3. ASSUME n <= Len(w)
      PROVE  b \in Seq(Bytes) /\ Len(b) = n /\ \A i \in 1..n : b[i] = w[i]
  <2>1. Len(w) \in Nat /\ n \in 0..Len(w)
    BY <1>2, <1>3
  <2>2. QED
    BY <1>2, <2>1, CutMessage
<1> HIDE DEF b
<1>4. ASSUME n <= Len(w)
      PROVE  Copied(b, a, c, r)
  <2>1. ASSUME NEW i \in Nat, 1 <= i, i <= n
        PROVE  b[i] = w[i] /\ (i <= Len(a) + Len(c) => b[i] = d[i])
    BY <1>1, <1>2, <1>3, <1>4, <2>1
  <2>2. ASSUME NEW i \in 1..Len(a), i <= n
        PROVE  b[i] = a[i]
    BY <1>1, <2>1, <2>2
  <2>3. ASSUME NEW i \in 1..Len(c), Len(a) + i <= n
        PROVE  b[Len(a) + i] = c[i]
    <3>1. i \in Nat /\ 1 <= i /\ i <= Len(c)
      BY <1>1
    <3>2. Len(a) + i \in Nat /\ 1 <= Len(a) + i /\ Len(a) + i <= Len(a) + Len(c)
      BY <1>1, <3>1
    <3>3. QED
      BY <1>1, <2>1, <2>3, <3>2
  <2>4. ASSUME NEW i \in 1..Len(r), Len(a) + Len(c) + i <= n
        PROVE  b[Len(a) + Len(c) + i] = r[i]
    <3>1. i \in Nat /\ 1 <= i
      BY <1>2
    <3>2. Len(a) + Len(c) + i \in Nat /\ 1 <= Len(a) + Len(c) + i
      BY <1>1, <3>1
    <3>3. QED
      BY <1>1, <1>2, <2>1, <2>4, <3>2
  <2>5. QED
    BY <1>3, <1>4, <2>2, <2>3, <2>4 DEF Copied
<1>5. n <= Len(w) => b \in Seq(Bytes) /\ Copied(b, a, c, r)
  BY <1>3, <1>4
<1>6. QED
  BY <1>5 DEF b, w, d

\* The byte or the pointer behind the parts that are written again.
Ending(k) == IF k < Len(name) THEN PointerTo(offsets[k + 1]) ELSE <<0>>

LEMMA EndingIs ==
  ASSUME TypeOK, QueryInv, name # Unknown, status = "sent", Len(buffer) < 16384,
         NEW k \in 0..Len(name)
  PROVE  /\ Ending(k) \in Seq(Bytes) /\ Len(Ending(k)) = IF k < Len(name) THEN 2 ELSE 1
         /\ First = Len(buffer) /\ First \in Offsets
         /\ offsets[k + 1] \in Nat /\ 12 <= offsets[k + 1] /\ offsets[k + 1] < First
<1>1. PICK p \in Nat : p = Len(name) /\ p > 0 /\ k \in 0..p
  BY NameTypes
<1>2. Len(offsets) = p + 1 /\ Len(buffer) = offsets[p + 1] + 5 /\ Len(buffer) \in Nat
  BY <1>1 DEF QueryInv, TypeOK
<1>3. \A i \in 1..(p + 1) :
        offsets[i] \in Nat /\ offsets[i] >= 12 /\ offsets[i] <= offsets[p + 1]
  BY <1>1, <1>2, Places
<1>4. k + 1 \in 1..(p + 1) /\ p + 1 \in 1..(p + 1)
  BY <1>1
<1>5. First = Len(buffer) /\ First \in Offsets
  BY <1>1, <1>2, Numbers DEF First
<1>6. offsets[k + 1] \in Nat /\ 12 <= offsets[k + 1] /\ offsets[k + 1] < First
  BY <1>2, <1>3, <1>4, <1>5
<1>7. offsets[k + 1] \in Offsets /\ 0 \in Bytes
  BY <1>5, <1>6, Numbers
<1>8. <<0>> \in Seq(Bytes) /\ Len(<<0>>) = 1
  BY <1>7
<1>9. PointerTo(offsets[k + 1]) \in Seq(Bytes) /\ Len(PointerTo(offsets[k + 1])) = 2
  BY <1>7, PointerTypes
<1>10. Ending(k) \in Seq(Bytes) /\ Len(Ending(k)) = IF k < Len(name) THEN 2 ELSE 1
  <2>1. CASE k < Len(name)
    BY <1>9, <2>1 DEF Ending
  <2>2. CASE ~(k < Len(name))
    BY <1>8, <2>2 DEF Ending
  <2>3. QED
    BY <2>1, <2>2
<1>11. QED
  BY <1>5, <1>6, <1>10

\* The bytes of the query's name up to the next part, and the byte or the pointer.
IsNameAgain(c, k) ==
  /\ Len(c) = offsets[k + 1] - 12 + Len(Ending(k))
  /\ \A i \in 1..(offsets[k + 1] - 12) : c[i] = buffer[12 + i]
  /\ \A i \in 1..Len(Ending(k)) : c[offsets[k + 1] - 12 + i] = Ending(k)[i]

LEMMA NameAgainIs ==
  ASSUME TypeOK, QueryInv, name # Unknown, status = "sent", Len(buffer) < 16384,
         NEW k \in 0..Len(name)
  PROVE  NameAgain(k) \in Seq(Bytes) /\ IsNameAgain(NameAgain(k), k)
<1>1. /\ offsets[k + 1] \in Nat /\ 12 <= offsets[k + 1] /\ offsets[k + 1] <= Len(buffer)
      /\ Ending(k) \in Seq(Bytes)
  BY EndingIs, Numbers
<1>2. PICK a \in Seq(Bytes), o \in Nat, e \in Seq(Bytes), s \in Nat :
        a = buffer /\ o = offsets[k + 1] /\ e = Ending(k) /\ s = 12
  BY <1>1 DEF TypeOK
<1>3. s <= o /\ o <= Len(a)
  BY <1>1, <1>2
<1> DEFINE c == SubSeq(a, s + 1, o) \o e
<1>4. /\ c \in Seq(Bytes) /\ Len(c) = o - s + Len(e)
      /\ \A i \in 1..(o - s) : c[i] = a[s + i]
      /\ \A i \in 1..Len(e) : c[o - s + i] = e[i]
  BY <1>3, CopyTypes
<1>5. c = NameAgain(k)
  BY <1>2 DEF NameAgain, QueryNameStart, Ending
<1> HIDE DEF c
<1>6. IsNameAgain(c, k)
  BY <1>2, <1>4 DEF IsNameAgain
<1>7. QED
  BY <1>4, <1>5, <1>6

\* What arrives is the query, and the name once more, as far as the message goes.
LEMMA AnswerParts ==
  ASSUME TypeOK, QueryInv, name # Unknown, status = "sent", Len(buffer) < 16384,
         NEW k \in 0..Len(name), NEW c \in Seq(Bytes), IsNameAgain(c, k),
         NEW b \in Seq(Bytes), Copied(b, buffer, c, PointerTo(First))
  PROVE  /\ Second(k) = First + Len(c) /\ Second(k) \in Nat /\ First \in Nat
         /\ \A i \in 1..k : PartAt(b, Again(i), name[i])
         /\ IF k < Len(name) THEN PointerAt(b, Again(k + 1), offsets[k + 1])
                             ELSE EndAt(b, Again(k + 1))
         /\ PointerAt(b, Second(k), First)
<1>1. PICK p \in Nat : p = Len(name) /\ p > 0 /\ k \in 0..p
  BY NameTypes
<1>2. PICK a \in Seq(Bytes) : a = buffer
  BY DEF TypeOK
<1>3. /\ Ending(k) \in Seq(Bytes) /\ Len(Ending(k)) = IF k < p THEN 2 ELSE 1
      /\ First = Len(a) /\ First \in Offsets /\ First \in Nat
      /\ offsets[k + 1] \in Nat /\ 12 <= offsets[k + 1] /\ offsets[k + 1] < First
  BY <1>1, <1>2, EndingIs, Numbers
<1>4. PICK f \in Offsets, o \in Nat, tail \in Seq(Bytes) :
        /\ f = First /\ f = Len(a) /\ f \in Nat
        /\ o = offsets[k + 1] /\ 12 <= o /\ o < f
        /\ tail = Ending(k) /\ Len(tail) = IF k < p THEN 2 ELSE 1
  BY <1>3
<1>sizes. f \in Nat /\ 12 <= o /\ o < f /\ Len(tail) = IF k < p THEN 2 ELSE 1
  BY <1>4
<1>5. PICK r \in Seq(Bytes) : r = PointerTo(f) /\ Len(r) = 2
  BY PointerTypes
<1>copied. /\ \A i \in 1..Len(a) : i <= Len(b) => b[i] = a[i]
           /\ \A i \in 1..Len(c) : Len(a) + i <= Len(b) => b[Len(a) + i] = c[i]
           /\ \A i \in 1..Len(PointerTo(First)) :
                Len(a) + Len(c) + i <= Len(b) => b[Len(a) + Len(c) + i] = PointerTo(First)[i]
  BY <1>2 DEF Copied
<1>again. \A i \in 1..Len(c) : f + i <= Len(b) => b[f + i] = c[i]
  BY <1>4, <1>copied
<1>pointer. \A i \in 1..2 : f + Len(c) + i <= Len(b) => b[f + Len(c) + i] = r[i]
  <2>1. r = PointerTo(First) /\ Len(PointerTo(First)) = 2 /\ f = Len(a)
    BY <1>4, <1>5
  <2>2. \A i \in 1..Len(PointerTo(First)) :
          Len(a) + Len(c) + i <= Len(b) => b[Len(a) + Len(c) + i] = PointerTo(First)[i]
    BY <1>copied
  <2>3. QED
    BY <2>1, <2>2
<1>parts. \A i \in 1..(o - 12) : c[i] = a[12 + i]
  BY <1>2, <1>4 DEF IsNameAgain
<1>6. /\ \A i \in 1..f : i <= Len(b) => b[i] = a[i]
      /\ \A i \in 1..Len(c) : f + i <= Len(b) => b[f + i] = c[i]
      /\ Len(c) = o - 12 + Len(tail) /\ \A i \in 1..(o - 12) : c[i] = a[12 + i]
      /\ \A i \in 1..Len(tail) : c[o - 12 + i] = tail[i]
  BY <1>2, <1>4, <1>copied DEF IsNameAgain
<1>7. Len(b) \in Nat /\ Len(c) \in Nat /\ Len(c) = o - 12 + IF k < p THEN 2 ELSE 1
  BY <1>sizes, <1>6
<1>8. Again(k + 1) = f + o - 12 /\ Second(k) = f + Len(c) /\ Second(k) \in Nat
  <2>1. Again(k + 1) = f + o - 12
    BY <1>4 DEF Again, QueryNameStart
  <2>2. Second(k) = f + o - 12 + IF k < p THEN 2 ELSE 1
    BY <1>1, <2>1 DEF Second
  <2>3. QED
    BY <1>sizes, <1>7, <2>1, <2>2
<1>9. ASSUME NEW i \in 1..k PROVE PartAt(b, Again(i), name[i])
  <2>1. /\ i \in 1..p /\ i \in 1..(p + 1) /\ k + 1 \in 1..(p + 1) /\ i < k + 1
        /\ Len(offsets) = p + 1
    BY <1>1 DEF QueryInv
  <2>place. offsets[i] \in Nat /\ offsets[i] >= 12
    BY <1>1, <2>1, Places
  <2>type. name[i] \in Seq(Characters)
    BY <1>1, <2>1, PartTypes
  <2>at. PICK at \in Nat : at = offsets[i] /\ at >= 12
    BY <2>place
  <2>2. PICK part \in Seq(Characters) : at = offsets[i] /\ part = name[i] /\ at >= 12
    BY <2>type, <2>at
  <2>3. at + 1 + Len(part) <= o /\ Len(part) \in Nat
    <3>1. offsets[i] + 1 + Len(name[i]) <= offsets[k + 1]
      BY <1>1, <2>1, Places
    <3>2. QED
      BY <1>4, <2>2, <3>1
  <2>4. PartAt(a, at, part)
    <3>1. i \in DOMAIN offsets /\ i <= Len(name)
      BY <1>1, <2>1 DEF TypeOK
    <3>2. \A h \in DOMAIN offsets :
            IF h <= Len(name) THEN PartAt(buffer, offsets[h], name[h])
                              ELSE EndAt(buffer, offsets[h])
      BY DEF QueryInv
    <3>3. PartAt(buffer, offsets[i], name[i])
      BY <3>1, <3>2
    <3>4. QED
      BY <1>2, <2>2, <3>3
  <2>5. PICK d \in Int : d = f - 12
    BY <1>sizes
  <2>6. at + Len(part) < Len(a)
    <3>1. at + Len(part) < f
      <4>1. PICK l \in Nat : l = Len(part)
        BY <2>3
      <4>2. at + 1 + l <= o
        BY <2>3, <4>1
      <4>3. f \in Nat /\ o < f
        BY <1>sizes
      <4>4. at + l < f
        BY <4>2, <4>3
      <4>5. QED
        BY <4>1, <4>4
    <3>2. f = Len(a)
      BY <1>4
    <3>3. QED
      BY <3>1, <3>2
  <2>7. ASSUME NEW j \in at..(at + Len(part)), j + d < Len(b)
        PROVE  b[j + d + 1] = a[j + 1]
    <3>1. j \in Nat /\ at <= j /\ j <= at + Len(part)
      BY <2>3
    <3>2. PICK m \in 1..(o - 12) : m = j - 11
      <4>1. at >= 12
        BY <2>2
      <4>2. 12 <= j /\ j + 1 <= o /\ o >= 12
        BY <1>sizes, <2>3, <3>1, <4>1
      <4>3. j - 11 \in 1..(o - 12)
        BY <3>1, <4>2
      <4>4. QED
        BY <4>3
    <3>3. m \in 1..Len(c)
      BY <1>7, <3>2
    <3>4. j + d + 1 = f + m /\ j + 1 = 12 + m /\ f + m <= Len(b)
      BY <1>4, <1>7, <2>5, <2>7, <3>1, <3>2
    <3>5. b[f + m] = c[m] /\ c[m] = a[12 + m]
      <4>1. f + m \in Nat /\ m \in 1..Len(c) /\ f + m <= Len(b)
        BY <1>sizes, <3>2, <3>3, <3>4
      <4>2. b[f + m] = c[m]
        BY <1>again, <4>1
      <4>3. c[m] = a[12 + m]
        BY <1>parts
      <4>4. QED
        BY <4>2, <4>3
    <3>6. QED
      BY <3>4, <3>5
  <2>8. PartAt(b, at + d, part)
    BY <2>4, <2>6, <2>7, MovedPart
  <2>9. Again(i) = at + d
    <3>1. Again(i) = f + at - 12
      BY <1>4, <2>2 DEF Again, QueryNameStart
    <3>2. QED
      BY <1>sizes, <2>5, <3>1
  <2>10. QED
    BY <2>2, <2>8, <2>9
<1>10. IF k < Len(name) THEN PointerAt(b, Again(k + 1), offsets[k + 1])
                         ELSE EndAt(b, Again(k + 1))
  <2>1. ASSUME NEW j \in Nat, 1 <= j, j <= Len(tail), f + o - 12 + j <= Len(b)
        PROVE  b[f + o - 12 + j] = tail[j]
    <3>1. j \in 1..Len(tail) /\ Len(tail) \in Nat /\ o - 12 + j \in 1..Len(c)
      BY <1>sizes, <1>7, <2>1
    <3>2. f + (o - 12 + j) = f + o - 12 + j
      BY <1>sizes, <2>1
    <3>3. QED
      BY <1>6, <2>1, <3>1, <3>2
  <2>2. CASE k < p
    <3>1. PICK g \in Nat : g = f + o - 12
      BY <1>sizes
    <3>2. /\ g < Len(b) => b[g + 1] = tail[1]
          /\ g + 1 < Len(b) => b[g + 2] = tail[2]
      <4>1. g < Len(b) => b[g + 1] = tail[1]
        BY <1>sizes, <1>7, <2>1, <2>2, <3>1
      <4>2. ASSUME g + 1 < Len(b) PROVE b[g + 2] = tail[2]
        <5>1. f + o - 12 + 2 = g + 2 /\ 2 <= Len(tail) /\ g + 2 <= Len(b)
          BY <1>sizes, <1>7, <2>2, <3>1, <4>2
        <5>2. 2 \in Nat /\ 1 <= 2
          OBVIOUS
        <5>3. f + o - 12 + 2 <= Len(b)
          BY <5>1
        <5>4. b[f + o - 12 + 2] = tail[2]
          BY <2>1, <5>1, <5>2, <5>3
        <5>5. QED
          BY <5>1, <5>4
      <4>3. QED
        BY <4>1, <4>2
    <3>3. tail = PointerTo(o)
      BY <1>1, <1>4, <2>2 DEF Ending
    <3>4. PointerAt(b, g, o)
      BY <3>2, <3>3 DEF PointerAt
    <3>5. Again(k + 1) = g /\ o = offsets[k + 1] /\ k < Len(name)
      BY <1>1, <1>4, <1>8, <2>2, <3>1
    <3>6. QED
      BY <3>4, <3>5
  <2>3. CASE ~(k < p)
    <3>1. ASSUME f + o - 12 < Len(b) PROVE b[f + o - 12 + 1] = tail[1]
      <4>1. 1 <= Len(tail) /\ f + o - 12 + 1 <= Len(b) /\ 1 \in Nat /\ 1 <= 1
        BY <1>sizes, <1>7, <2>3, <3>1
      <4>2. QED
        BY <2>1, <4>1
    <3>2. tail = <<0>>
      BY <1>1, <1>4, <2>3 DEF Ending
    <3>3. QED
      BY <1>1, <1>8, <2>3, <3>1, <3>2 DEF EndAt
  <2>4. QED
    BY <2>2, <2>3
<1>11. PointerAt(b, Second(k), First)
  <2>1. /\ f + Len(c) < Len(b) => b[f + Len(c) + 1] = r[1]
        /\ f + Len(c) + 1 < Len(b) => b[f + Len(c) + 2] = r[2]
    <3>1. PICK g \in Nat, l \in Nat : g = f + Len(c) /\ l = Len(b)
      <4>1. f + Len(c) \in Nat /\ Len(b) \in Nat
        BY <1>sizes, <1>7
      <4>2. QED
        BY <4>1
    <3>2. ASSUME NEW i \in 1..2, g + i <= l PROVE b[g + i] = r[i]
      <4>1. f + Len(c) + i = g + i /\ f + Len(c) + i <= Len(b)
        BY <3>1, <3>2
      <4>2. b[f + Len(c) + i] = r[i]
        BY <1>pointer, <4>1
      <4>3. QED
        BY <4>1, <4>2
    <3>3. (g < l => g + 1 <= l) /\ (g + 1 < l => g + 2 <= l) /\ 1 \in 1..2 /\ 2 \in 1..2
      OBVIOUS
    <3>4. (g < l => b[g + 1] = r[1]) /\ (g + 1 < l => b[g + 2] = r[2])
      BY <3>2, <3>3
    <3>5. QED
      BY <3>1, <3>4
  <2>2. QED
    BY <1>4, <1>5, <1>8, <2>1 DEF PointerAt
<1>12. QED
  BY <1>4, <1>8, <1>9, <1>10, <1>11

\* A server answers.
LEMMA AnswerStep ==
  ASSUME IInv, Answer
  PROVE  IInv'
<1>1. /\ status = "sent" /\ status' = "decoding" /\ Len(buffer) < 16384
      /\ UNCHANGED <<name, offsets, toReturn, fresh, jumps, end>>
  BY DEF Answer
<1>2. TypeOK /\ QueryInv /\ name # Unknown /\ jumps = <<>>
  BY <1>1 DEF IInv, QueryInv, CircleInv
<1>3. PICK k \in 0..Len(name), n \in Nat :
        n <= Len(Message(k)) /\ buffer' = SubSeq(Message(k), 1, n) /\ Asked(k)
  <2>1. PICK k \in 0..Len(name) :
          (\E n \in 0..Len(Message(k)) : buffer' = SubSeq(Message(k), 1, n)) /\ Asked(k)
    BY DEF Answer
  <2>2. PICK n \in 0..Len(Message(k)) : buffer' = SubSeq(Message(k), 1, n)
    BY <2>1
  <2>3. n \in Nat /\ n <= Len(Message(k))
    <3>1. PICK l : l = Len(Message(k))
      OBVIOUS
    <3>2. n \in 0..l
      BY <3>1
    <3>3. n \in Nat /\ n <= l
      BY <3>2
    <3>4. QED
      BY <3>1, <3>3
  <2>4. QED
    BY <2>1, <2>2, <2>3
<1>4. NameAgain(k) \in Seq(Bytes) /\ IsNameAgain(NameAgain(k), k)
  BY <1>1, <1>2, NameAgainIs
<1>5. First = Len(buffer) /\ First \in Offsets /\ First \in Nat
  BY <1>1, <1>2, EndingIs, Numbers
<1>6. buffer' \in Seq(Bytes) /\ Copied(buffer', buffer, NameAgain(k), PointerTo(First))
  <2>1. PICK a \in Seq(Bytes), c \in Seq(Bytes), r \in Seq(Bytes) :
          a = buffer /\ c = NameAgain(k) /\ r = PointerTo(First)
    BY <1>2, <1>4, <1>5, PointerTypes DEF TypeOK
  <2>2. Message(k) = a \o c \o r
    BY <1>5, <2>1 DEF Message
  <2>3. n <= Len(a \o c \o r) /\ buffer' = SubSeq(a \o c \o r, 1, n)
    BY <1>3, <2>2
  <2>4. buffer' \in Seq(Bytes) /\ Copied(buffer', a, c, r)
    BY <2>3, CopyArrives
  <2>5. QED
    BY <2>1, <2>4
<1>7. /\ Second(k) = First + Len(NameAgain(k)) /\ Second(k) \in Nat
      /\ \A i \in 1..k : PartAt(buffer', Again(i), name[i])
      /\ IF k < Len(name) THEN PointerAt(buffer', Again(k + 1), offsets[k + 1])
                          ELSE EndAt(buffer', Again(k + 1))
      /\ PointerAt(buffer', Second(k), First)
  BY <1>1, <1>2, <1>4, <1>6, AnswerParts
<1>8. Len(offsets) = Len(name) + 1
  BY <1>1, <1>2 DEF QueryInv
<1>9. /\ Len(name) \in Nat \ {0} /\ offsets[1] = 12
      /\ offsets[Len(name) + 1] \in Nat
  <2>1. Len(name) + 1 \in 1..(Len(name) + 1)
    BY <1>2, NameTypes
  <2>2. QED
    BY <1>2, <1>8, <2>1, Places
<1>10. position' \in Nat /\ behind' \in Nat
  <2>1. PICK s \in Nat : s = Second(k) /\ s = Len(buffer) + Len(NameAgain(k))
    BY <1>5, <1>7
  <2>2. \/ position' = 12 /\ behind' = offsets[Len(name) + 1] + 1
        \/ position' = Len(buffer) /\ behind' = s
        \/ position' = s /\ behind' = s + 2
    BY <1>3, <2>1 DEF QueryNameStart, Asked
  <2>3. Len(buffer) \in Nat
    BY <1>5
  <2>4. QED
    BY <1>9, <2>2, <2>3
<1>11. TypeOK'
  BY <1>1, <1>2, <1>6, <1>10 DEF TypeOK
<1>12. QueryInv'
  <2>1. ASSUME NEW i \in DOMAIN offsets
        PROVE  IF i <= Len(name) THEN PartAt(buffer', offsets[i], name[i])
                                 ELSE EndAt(buffer', offsets[i])
    <3>1. PICK p \in Nat : p = Len(name) /\ Len(offsets) = p + 1
      BY <1>8, <1>9
    <3>2. i \in 1..(p + 1) /\ p + 1 \in 1..(p + 1)
      BY <1>2, <3>1 DEF TypeOK
    <3>3. offsets[i] \in Nat /\ offsets[i] <= offsets[p + 1] /\ Len(buffer) = offsets[p + 1] + 5
      BY <1>1, <1>2, <3>1, <3>2, Places DEF QueryInv
    <3>4. PICK a \in Seq(Bytes), b \in Seq(Bytes), at \in Nat :
            a = buffer /\ b = buffer' /\ at = offsets[i]
      BY <1>2, <1>6, <3>3 DEF TypeOK
    <3>5. \A j \in 1..Len(a) : j <= Len(b) => b[j] = a[j]
      BY <1>6, <3>4 DEF Copied
    <3>6. CASE i <= p
      <4>1. i \in 1..Len(name) /\ i < p + 1
        BY <3>1, <3>2, <3>6
      <4>2. PICK part \in Seq(Characters) : part = name[i]
        BY <1>2, <4>1, PartTypes
      <4>3. PartAt(a, at, part)
        BY <1>2, <3>1, <3>4, <3>6, <4>2 DEF QueryInv
      <4>4. offsets[i] + 1 + Len(name[i]) <= offsets[p + 1]
        BY <1>2, <3>1, <3>2, <4>1, Places
      <4>5. at + Len(part) < Len(a)
        <5>1. PICK q \in Nat : q = offsets[p + 1]
          BY <1>9, <3>1
        <5>2. at + 1 + Len(part) <= q /\ Len(a) = q + 5 /\ Len(part) \in Nat
          BY <3>3, <3>4, <4>2, <4>4, <5>1
        <5>3. QED
          BY <5>2
      <4>6. PartAt(b, at, part)
        BY <3>5, <4>3, <4>5, SamePart
      <4>7. QED
        BY <3>1, <3>4, <3>6, <4>2, <4>6
    <3>7. CASE ~(i <= p)
      <4>1. i = p + 1
        BY <3>2, <3>7
      <4>2. EndAt(a, at)
        BY <1>2, <3>1, <3>4, <3>7 DEF QueryInv
      <4>3. at + 1 \in 1..Len(a)
        <5>1. at <= at /\ Len(a) = at + 5
          BY <3>3, <3>4, <4>1
        <5>2. QED
          BY <5>1
      <4>4. EndAt(b, at)
        BY <3>5, <4>2, <4>3 DEF EndAt
      <4>5. QED
        BY <3>1, <3>4, <3>7, <4>4
    <3>8. QED
      BY <3>6, <3>7
  <2>2. QED
    BY <1>1, <1>2, <2>1 DEF QueryInv, Behind
<1>13. ArrivalInv'
  <2>1. ASSUME Labels
        PROVE  Written(k)' /\ Reading(k)'
    <3>1. toReturn = <<>> /\ fresh
      BY <1>1, <1>2, <2>1 DEF IInv, ArrivalInv
    <3>2. First' = First /\ Second(k)' = Second(k) /\ \A i : Again(i)' = Again(i)
      BY <1>1 DEF First, Second, Again
    <3>3. Written(k)'
      BY <1>1, <1>5, <1>7, <1>8, <3>2, Numbers DEF Written
    <3>4. Len(toReturn) = 0 /\ NextPart' = 1 /\ NextPart = 1
      BY <1>1, <3>1 DEF NextPart
    <3>5. Again(1) = First
      BY <1>5, <1>9 DEF Again, QueryNameStart
    <3>6. PICK last \in Nat :
            /\ behind' = last
            /\ \/ position' = offsets[1] /\ last = offsets[Len(name) + 1] + 1
               \/ position' = Again(1) /\ last = Second(k)
               \/ position' = Second(k) /\ last = Second(k) + 2
      BY <1>3, <1>5, <1>7, <1>9, <1>10, <3>5 DEF QueryNameStart, Asked
    <3>7. Reads(k, last)'
      <4>1. 1 <= k + 1 /\ Len(jumps) <= 1
        BY <1>2
      <4>2. QED
        BY <1>1, <1>2, <3>2, <3>4, <3>6, <4>1 DEF Reads, Part
    <3>8. Returns(last)'
      BY <1>1, <1>2, <3>6 DEF Returns
    <3>9. Len(toReturn') <= Len(name') /\ Len(toReturn') < Len(name') /\ 1..Len(toReturn') = {}
      BY <1>1, <1>9, <3>4
    <3>10. Reading(k)'
      BY <3>7, <3>8, <3>9 DEF Reading
    <3>11. QED
      BY <3>3, <3>10
  <2>2. Labels' = Labels /\ k \in 0..Len(name)'
    BY <1>1 DEF Labels
  <2>3. NameArrives'
    BY <1>1 DEF NameArrives
  <2>4. QED
    BY <1>1, <2>1, <2>2, <2>3 DEF ArrivalInv
<1>14. CircleInv'
  BY <1>1, <1>2 DEF CircleInv, RecursionOnlyInCircles
<1>15. QED
  BY <1>11, <1>12, <1>13, <1>14 DEF IInv

-----------------------------------------------------------------------------
(* Decoding. *)

\* What is at position, and what comes behind it: a part, the end, or a pointer to a
\* part or to the whole name.
PartNext(k, last) ==
  /\ NextPart <= Len(name) /\ PartAt(buffer, position, name[NextPart])
  /\ position + 1 + Len(name[NextPart]) < last
  /\ Part(position + 1 + Len(name[NextPart]), NextPart + 1, k, last)

EndNext(last) ==
  NextPart = Len(name) + 1 /\ EndAt(buffer, position) /\ last = position + 1

PointerNext(k, last) ==
  /\ NextPart <= Len(name) /\ last = position + 2 /\ Len(jumps) <= 1
  /\ \E offset \in Offsets, l \in Nat :
       /\ PointerAt(buffer, position, offset) /\ l <= last
       /\ \/ offset = offsets[NextPart] /\ l = offsets[Len(name) + 1] + 1
          \/ offset = Again(NextPart) /\ NextPart = 1 /\ l = Second(k) /\ jumps = <<>>

LEMMA WhatIsNext ==
  ASSUME TypeOK, QueryInv, name # Unknown, NEW k \in 0..Len(name), Written(k),
         Len(toReturn) <= Len(name), NEW last \in Nat, Reads(k, last)
  PROVE  PartNext(k, last) \/ EndNext(last) \/ PointerNext(k, last)
<1>1. PICK p \in Nat : p = Len(name) /\ p > 0 /\ k \in 0..p
  BY NameTypes
<1>2. PICK m \in 1..(p + 1) : m = NextPart
  BY <1>1 DEF TypeOK, NextPart
<1>3. Len(offsets) = p + 1 /\ First < 16384
  BY <1>1 DEF Written
<1>4. /\ offsets[1] = 12
      /\ \A i \in 1..(p + 1) :
           offsets[i] \in Nat /\ offsets[i] >= 12 /\ offsets[i] <= offsets[p + 1]
      /\ \A i \in 1..p : Len(name[i]) \in Nat /\ offsets[i + 1] = offsets[i] + 1 + Len(name[i])
      /\ \A i, j \in 1..(p + 1) : i < j => offsets[i] + 1 + Len(name[i]) <= offsets[j]
  BY <1>1, <1>3, Places
<1>5. PICK e \in Nat : e = offsets[p + 1] /\ e >= 12
  BY <1>1, <1>4
<1>6. PICK f \in Nat : f = First /\ f = e + 5 /\ f < 16384
  BY <1>1, <1>3, <1>5 DEF First
<1>7. k \in Nat /\ k <= p /\ m \in Nat /\ 1 <= m /\ m <= p + 1
  BY <1>1
<1>8. PICK o \in Nat : o = offsets[m] /\ o >= 12 /\ o <= e
  BY <1>4, <1>5
<1>9. PICK g \in Nat : g = offsets[k + 1] /\ g >= 12 /\ g <= e
  <2>1. k + 1 \in 1..(p + 1)
    BY <1>7
  <2>2. QED
    BY <1>4, <1>5, <2>1
<1>10. Again(m) = f + o - 12 /\ Again(k + 1) = f + g - 12
  BY <1>6, <1>8, <1>9 DEF Again, QueryNameStart
<1>11. Second(k) = f + g - 12 + (IF k < p THEN 2 ELSE 1)
  BY <1>1, <1>10 DEF Second
<1>12. CASE position = offsets[m] /\ last = offsets[p + 1] + 1
  <2>1. CASE m <= p
    <3>1. m \in DOMAIN offsets /\ m \in 1..p /\ m + 1 \in 1..(p + 1)
      BY <1>3, <1>7, <2>1 DEF TypeOK
    <3>2. PartAt(buffer, position, name[m])
      BY <1>1, <1>12, <2>1, <3>1 DEF QueryInv
    <3>3. position + 1 + Len(name[m]) = offsets[m + 1]
      BY <1>4, <1>12, <3>1
    <3>4. offsets[m + 1] < last
      <4>1. PICK h \in Nat : h = offsets[m + 1] /\ h <= e
        BY <1>4, <1>5, <3>1
      <4>2. last = e + 1
        BY <1>5, <1>12
      <4>3. h < last
        BY <4>1, <4>2
      <4>4. QED
        BY <4>1, <4>3
    <3>5. PartNext(k, last)
      BY <1>1, <1>2, <1>12, <2>1, <3>2, <3>3, <3>4 DEF PartNext, Part
    <3>6. QED
      BY <3>5
  <2>2. CASE m = p + 1
    <3>1. m \in DOMAIN offsets /\ ~(m <= Len(name))
      BY <1>1, <1>3, <1>7, <2>2 DEF TypeOK
    <3>2. EndAt(buffer, offsets[m])
      BY <3>1 DEF QueryInv
    <3>3. QED
      BY <1>1, <1>2, <1>12, <2>2, <3>2 DEF EndNext
  <2>3. QED
    BY <1>7, <2>1, <2>2
<1>13. CASE position = Again(m) /\ m <= k + 1 /\ last = Second(k) /\ Len(jumps) <= 1
  <2>1. CASE m <= k
    <3>1. m \in 1..k /\ m \in 1..p /\ m + 1 \in 1..(p + 1) /\ k + 1 \in 1..(p + 1)
      BY <1>7, <2>1
    <3>2. PartAt(buffer, position, name[m])
      BY <1>13, <3>1 DEF Written
    <3>3. PICK h \in Nat, l \in Nat :
            h = offsets[m + 1] /\ l = Len(name[m]) /\ h = o + 1 + l
      BY <1>4, <1>8, <3>1
    <3>4. h <= g
      <4>1. CASE m + 1 = k + 1
        <5>1. h = g
          BY Zenon, <1>9, <3>3, <4>1
        <5>2. QED
          BY <5>1
      <4>2. CASE m + 1 < k + 1
        <5>1. m + 1 \in 1..p
          BY <1>7, <4>2
        <5>2. PICK u \in Nat : u = Len(name[m + 1])
          BY <1>4, <5>1
        <5>3. h + 1 + u <= g
          BY <1>4, <1>9, <3>1, <3>3, <4>2, <5>2
        <5>4. QED
          BY <5>3
      <4>3. QED
        BY <1>7, <2>1, <4>1, <4>2
    <3>length. h = o + 1 + l
      BY <3>3
    <3>5. position = f + o - 12 /\ Again(m + 1) = f + h - 12
      <4>1. position = f + o - 12
        BY <1>10, <1>13
      <4>2. Again(m + 1) = First + offsets[m + 1] - 12
        BY DEF Again, QueryNameStart
      <4>3. Again(m + 1) = f + h - 12
        <5>1. First = f /\ offsets[m + 1] = h
          BY <1>6, <3>3
        <5>2. QED
          BY Zenon, <4>2, <5>1
      <4>4. QED
        BY <4>1, <4>3
    <3>6. position + 1 + l = Again(m + 1) /\ position + 1 + l < last
      <4>1. last = f + g - 12 + (IF k < p THEN 2 ELSE 1)
        BY <1>11, <1>13
      <4>2. f + o - 12 + 1 + l = f + h - 12
        BY <3>length
      <4>3. f + h - 12 < last
        BY <3>4, <4>1
      <4>4. QED
        BY <3>5, <4>2, <4>3
    <3>7. m <= p /\ m + 1 <= k + 1
      BY <1>7, <2>1
    <3>8. PartNext(k, last)
      BY <1>1, <1>2, <1>13, <3>2, <3>3, <3>6, <3>7 DEF PartNext, Part
    <3>9. QED
      BY <3>8
  <2>2. CASE m = k + 1 /\ k < p
    <3>1. PointerAt(buffer, position, offsets[m])
      BY <1>1, <1>13, <2>2 DEF Written
    <3>2. position = f + g - 12 /\ last = position + 2 /\ o = g
      BY <1>8, <1>9, <1>10, <1>11, <1>13, <2>2
    <3>3. offsets[m] \in Offsets
      BY <1>6, <1>8, Numbers
    <3>4. PICK l \in Nat : l = e + 1 /\ l <= last
      <4>1. f = e + 5 /\ g >= 12
        BY <1>6, <1>9
      <4>2. last = f + g - 12 + 2
        BY <3>2
      <4>3. e + 1 \in Nat /\ e + 1 <= last
        BY <4>1, <4>2
      <4>4. QED
        BY <4>3
    <3>5. l = offsets[p + 1] + 1
      BY <1>5, <3>4
    <3>6. m <= p
      BY <1>7, <2>2
    <3>7. PointerNext(k, last)
      BY <1>1, <1>2, <1>13, <3>1, <3>2, <3>3, <3>4, <3>5, <3>6 DEF PointerNext
    <3>8. QED
      BY <3>7
  <2>3. CASE m = k + 1 /\ ~(k < p)
    <3>1. EndAt(buffer, position)
      BY <1>1, <1>13, <2>3 DEF Written
    <3>2. position = f + g - 12 /\ last = position + 1
      BY <1>10, <1>11, <1>13, <2>3
    <3>3. m = p + 1
      BY <1>7, <2>3
    <3>4. QED
      BY <1>1, <1>2, <3>1, <3>2, <3>3 DEF EndNext
  <2>4. QED
    BY <1>7, <1>13, <2>1, <2>2, <2>3
<1>14. CASE position = Second(k) /\ m = 1 /\ last = Second(k) + 2 /\ jumps = <<>>
  <2>1. PointerAt(buffer, position, First) /\ First \in Offsets
    BY <1>6, <1>14, Numbers DEF Written
  <2>2. First = Again(1)
    BY <1>4, <1>6 DEF Again, QueryNameStart
  <2>3. PICK l \in Nat : l = Second(k) /\ l <= last /\ last = l + 2
    <3>1. PICK l \in Nat : l = f + g - 12 + (IF k < p THEN 2 ELSE 1)
      BY <1>9
    <3>2. l = Second(k) /\ last = l + 2
      BY <1>11, <1>14, <3>1
    <3>3. l <= last /\ last = l + 2
      <4>1. last = l + 2
        BY <3>2
      <4>2. QED
        BY <4>1
    <3>4. QED
      BY <3>2, <3>3
  <2>4. Len(jumps) <= 1 /\ 1 <= p
    BY <1>1, <1>14
  <2>5. PointerNext(k, last)
    BY <1>1, <1>2, <1>14, <2>1, <2>2, <2>3, <2>4 DEF PointerNext
  <2>6. QED
    BY <2>5
<1>15. QED
  BY <1>1, <1>2, <1>12, <1>13, <1>14 DEF Reads, Part

\* A name that arrived is being decoded.
LEMMA NextRead ==
  ASSUME IInv, status = "decoding", name # Unknown, Labels
  PROVE  \E k \in 0..Len(name), last \in Nat :
           /\ Written(k) /\ Reads(k, last) /\ Returns(last)
           /\ PartNext(k, last) \/ EndNext(last) \/ PointerNext(k, last)
<1>1. PICK k \in 0..Len(name) : Written(k) /\ Reading(k)
  BY DEF IInv, ArrivalInv
<1>2. PICK last \in Nat : Reads(k, last) /\ Returns(last)
  BY <1>1 DEF Reading
<1>3. PartNext(k, last) \/ EndNext(last) \/ PointerNext(k, last)
  <2>1. TypeOK /\ QueryInv /\ Len(toReturn) <= Len(name)
    BY <1>1 DEF IInv, Reading
  <2>2. QED
    BY <1>1, <1>2, <2>1, WhatIsNext
<1>4. QED
  BY <1>1, <1>2, <1>3

\* The byte at position: the length of the part, the end, or a pointer's first byte.
LEMMA ByteRead ==
  ASSUME TypeOK, name # Unknown, Labels, Has(position), NEW k, NEW last
  PROVE  /\ PartNext(k, last) =>
              /\ Byte(position) = Len(name[NextPart]) /\ name[NextPart] \in Seq(Characters)
              /\ Byte(position) # 0 /\ ~IsPointer(Byte(position))
         /\ EndNext(last) => Byte(position) = 0
         /\ PointerNext(k, last) => Byte(position) # 0 /\ IsPointer(Byte(position))
<1>1. Byte(position) = buffer[position + 1] /\ position < Len(buffer)
  BY DEF Byte, Has
<1>2. ASSUME PartNext(k, last)
      PROVE  /\ Byte(position) = Len(name[NextPart]) /\ name[NextPart] \in Seq(Characters)
             /\ Byte(position) # 0 /\ ~IsPointer(Byte(position))
  <2>1. PICK n \in 1..Len(name) : n = NextPart
    <3>1. Len(toReturn) + 1 <= Len(name) /\ Len(toReturn) \in Nat /\ Len(name) \in Nat
      BY <1>2, NameTypes DEF PartNext, NextPart, TypeOK
    <3>2. QED
      BY <3>1 DEF NextPart
  <2>2. name[n] \in Seq(Characters) /\ n \in DOMAIN name
    BY PartTypes, NameTypes
  <2>3. 1 <= Len(name[n]) /\ Len(name[n]) < 192 /\ Len(name[n]) \in Nat
    BY <2>2 DEF Labels
  <2>4. Byte(position) = Len(name[n])
    BY <1>1, <1>2, <2>1 DEF PartNext, PartAt
  <2>5. QED
    BY <2>1, <2>2, <2>3, <2>4 DEF IsPointer
<1>3. ASSUME EndNext(last) PROVE Byte(position) = 0
  BY <1>1, <1>3 DEF EndNext, EndAt
<1>4. ASSUME PointerNext(k, last) PROVE Byte(position) # 0 /\ IsPointer(Byte(position))
  <2>1. PICK offset \in Offsets : PointerAt(buffer, position, offset)
    BY <1>4 DEF PointerNext
  <2>2. PointerTo(offset)[1] >= 192 /\ PointerTo(offset)[1] \in Nat
    BY PointerTypes, Numbers
  <2>3. Byte(position) = PointerTo(offset)[1]
    BY <1>1, <2>1 DEF PointerAt
  <2>4. QED
    BY <2>2, <2>3 DEF IsPointer
<1>5. QED
  BY <1>2, <1>3, <1>4

\* A name that is cut is one that no call has come to the end of.
LEMMA CutHere ==
  ASSUME TypeOK, NEW last \in Nat, Returns(last), NEW x \in Nat, x < last, ~Has(x)
  PROVE  Len(buffer) < behind
<1>1. Len(buffer) \in Nat /\ behind \in Nat /\ Len(buffer) <= x
  BY DEF TypeOK, Has
<1>2. CASE jumps = <<>>
  BY <1>1, <1>2 DEF Returns
<1>3. CASE jumps # <<>>
  BY <1>1, <1>3 DEF Returns
<1>4. QED
  BY <1>2, <1>3

\* decode_dns_name does not write to the message.
LEMMA SameQuery ==
  ASSUME QueryInv, status = "decoding", UNCHANGED messageVars,
         status' \notin {"encoding", "sent"}
  PROVE  QueryInv'
<1>1. UNCHANGED <<name, buffer, offsets>>
  BY DEF messageVars
<1>2. QED
  BY <1>1 DEF QueryInv, Behind

\* An exception ends the decoding.
LEMMA RaiseStep ==
  ASSUME IInv, status = "decoding",
         NEW e \in {"struct.error", "UnicodeDecodeError", "RecursionError"}, Raise(e),
         name # Unknown /\ Labels => e = "struct.error" /\ Len(buffer) < behind,
         e = "RecursionError" /\ Len(buffer) < MaxDepth =>
           \E i, j \in DOMAIN jumps : i # j /\ jumps[i] = jumps[j]
  PROVE  IInv'
<1>1. /\ status' = e /\ UNCHANGED messageVars
      /\ UNCHANGED <<name, buffer, offsets, behind, position, toReturn, fresh, jumps, end>>
  BY DEF Raise, messageVars, decodingVars
<1>2. TypeOK /\ QueryInv /\ CircleInv
  BY DEF IInv
<1>3. QueryInv'
  BY <1>1, <1>2, SameQuery
<1>4. TypeOK'
  BY <1>1, <1>2 DEF TypeOK
<1>5. ArrivalInv'
  BY <1>1 DEF ArrivalInv, NameArrives, Labels
<1>6. CircleInv'
  BY <1>1, <1>2 DEF CircleInv, RecursionOnlyInCircles
<1>7. QED
  BY <1>3, <1>4, <1>5, <1>6 DEF IInv

\* There is no byte at position.
LEMMA NoLengthStep ==
  ASSUME IInv, status = "decoding", NoLength
  PROVE  IInv'
<1>1. ~Has(position) /\ Raise("struct.error")
  BY DEF NoLength
<1>2. TypeOK /\ position \in Nat
  BY DEF IInv, TypeOK
<1>3. ASSUME name # Unknown, Labels PROVE Len(buffer) < behind
  <2>1. PICK k \in 0..Len(name), last \in Nat :
          /\ Returns(last)
          /\ PartNext(k, last) \/ EndNext(last) \/ PointerNext(k, last)
    BY <1>3, NextRead
  <2>2. position < last
    <3>1. CASE PartNext(k, last)
      <4>1. PICK n \in 1..Len(name) : n = NextPart
        BY <1>2, <1>3, <3>1, NameTypes DEF PartNext, NextPart, TypeOK
      <4>2. PICK l \in Nat : l = Len(name[n])
        BY <1>2, <1>3, PartTypes
      <4>3. position + 1 + l < last
        BY <3>1, <4>1, <4>2 DEF PartNext
      <4>4. QED
        BY <1>2, <4>3
    <3>2. CASE EndNext(last)
      BY <1>2, <3>2 DEF EndNext
    <3>3. CASE PointerNext(k, last)
      BY <1>2, <3>3 DEF PointerNext
    <3>4. QED
      BY <2>1, <3>1, <3>2, <3>3
  <2>3. QED
    BY <1>1, <1>2, <2>1, <2>2, CutHere
<1>4. QED
  BY <1>1, <1>3, RaiseStep

\* The byte that ends a name.
LEMMA EndOfNameStep ==
  ASSUME IInv, status = "decoding", EndOfName
  PROVE  IInv'
<1>1. /\ Has(position) /\ Byte(position) = 0
      /\ toReturn' = (IF fresh THEN Append(toReturn, <<>>) ELSE toReturn)
      /\ end' = (IF jumps = <<>> THEN position + 1 ELSE end)
      /\ position' = position + 1 /\ status' = "decoded"
      /\ UNCHANGED messageVars /\ UNCHANGED <<name, buffer, offsets, behind, fresh, jumps>>
  BY DEF EndOfName, messageVars
<1>2. TypeOK /\ QueryInv /\ CircleInv
  BY DEF IInv
<1>3. QueryInv'
  BY <1>1, <1>2, SameQuery
<1>4. position \in Nat /\ position < Len(buffer) /\ Len(buffer) \in Nat
  BY <1>1, <1>2 DEF TypeOK, Has
<1>5. toReturn' \in Seq(Texts)
  <2>1. <<>> \in Texts /\ toReturn \in Seq(Texts)
    <3>1. <<>> \in Seq(Characters)
      OBVIOUS
    <3>2. QED
      BY <1>2, <3>1, AsciiIsText DEF TypeOK
  <2>2. QED
    BY <1>1, <2>1
<1>6. end' \in Nat
  BY <1>1, <1>2, <1>4 DEF TypeOK
<1>7. TypeOK'
  BY <1>1, <1>2, <1>4, <1>5, <1>6 DEF TypeOK
<1>8. ASSUME name # Unknown, Labels
      PROVE  ~(Len(buffer) < behind) /\ toReturn' = name /\ end' = behind
  <2>1. PICK k \in 0..Len(name), last \in Nat :
          /\ Returns(last)
          /\ PartNext(k, last) \/ EndNext(last) \/ PointerNext(k, last)
    BY <1>8, NextRead
  <2>2. EndNext(last)
    BY <1>1, <1>2, <1>8, <2>1, ByteRead
  <2>3. NextPart = Len(name) + 1 /\ last = position + 1
    BY <2>2 DEF EndNext
  <2>4. /\ Len(toReturn) = Len(name) /\ \A i \in 1..Len(toReturn) : toReturn[i] = name[i]
        /\ ~fresh
    <3>1. PICK m \in 0..Len(name) : Reading(m)
      BY <1>8 DEF IInv, ArrivalInv
    <3>2. Len(toReturn) \in Nat /\ Len(name) \in Nat
      BY <1>2, <1>8, NameTypes DEF TypeOK
    <3>3. QED
      BY <2>3, <3>1, <3>2 DEF Reading, NextPart
  <2>5. toReturn' = name
    <3>1. toReturn \in Seq(Texts) /\ name \in Seq(Texts)
      BY <1>2, <1>8, NameTypes, NamesAreTexts DEF TypeOK
    <3>2. toReturn = name
      BY <2>4, <3>1, SeqEqual
    <3>3. QED
      BY <1>1, <2>4, <3>2
  <2>6. CASE jumps = <<>>
    <3>1. behind = position + 1 /\ end' = position + 1
      BY <1>1, <2>1, <2>3, <2>6 DEF Returns
    <3>2. ~(Len(buffer) < position + 1)
      BY <1>4
    <3>3. QED
      BY <2>5, <3>1, <3>2
  <2>7. CASE jumps # <<>>
    <3>1. behind <= Len(buffer) /\ end' = behind /\ behind \in Nat
      BY <1>1, <1>2, <2>1, <2>7 DEF Returns, TypeOK
    <3>2. ~(Len(buffer) < behind)
      BY <1>4, <3>1
    <3>3. QED
      BY <2>5, <3>1, <3>2
  <2>8. QED
    BY <2>6, <2>7
<1>9. ArrivalInv'
  <2>1. Labels' = Labels
    BY <1>1 DEF Labels
  <2>2. QED
    BY <1>1, <1>8, <2>1 DEF ArrivalInv, NameArrives
<1>10. CircleInv'
  <2>1. ASSUME jumps # <<>> PROVE jumps[Len(jumps)] <= position + 1
    <3>1. Len(jumps) \in DOMAIN jumps
      BY <1>2, <2>1 DEF TypeOK
    <3>2. PICK j \in Nat : j = jumps[Len(jumps)]
      BY <1>2, <3>1, Numbers DEF TypeOK
    <3>3. j <= position
      BY <1>2, <2>1, <3>2 DEF CircleInv
    <3>4. QED
      BY <1>4, <3>2, <3>3
  <2>2. QED
    BY <1>1, <1>2, <2>1 DEF CircleInv, RecursionOnlyInCircles
<1>11. QED
  BY <1>3, <1>7, <1>9, <1>10 DEF IInv

\* The label that is read is the part that is written.
LEMMA LabelIsPart ==
  ASSUME TypeOK, NEW part \in Seq(Characters), PartAt(buffer, position, part),
         Has(position + Len(part))
  PROVE  LabelAt(Len(part)) = part
<1>1. PICK a \in Seq(Bytes), at \in Nat, l \in Nat : a = buffer /\ at = position /\ l = Len(part)
  <2>1. buffer \in Seq(Bytes) /\ position \in Nat /\ Len(part) \in Nat
    BY DEF TypeOK
  <2>2. QED
    BY <2>1
<1>2. at + l < Len(a)
  BY <1>1 DEF Has
<1>3. \A i \in (at + 2)..(at + 1 + l) : a[i] \in Bytes
  <2>1. \A i \in (at + 2)..(at + 1 + l) : i \in 1..Len(a)
    BY <1>2
  <2>2. QED
    BY <2>1, ElementOfSeq
<1> DEFINE s == SubSeq(a, at + 2, at + 1 + l)
<1>4. /\ s \in Seq(Bytes)
      /\ Len(s) = IF at + 2 <= at + 1 + l THEN at + 1 + l - (at + 2) + 1 ELSE 0
      /\ \A i \in 1..(at + 1 + l - (at + 2) + 1) : s[i] = a[at + 2 + i - 1]
  BY <1>3, SubSeqProperties
<1>5. s = LabelAt(Len(part))
  BY <1>1 DEF LabelAt
<1> HIDE DEF s
<1>6. at + 1 + l - (at + 2) + 1 = l /\ \A i \in 1..l : at + 2 + i - 1 = at + i + 1
  OBVIOUS
<1>7. Len(s) = l
  BY <1>4, <1>6
<1>8. ASSUME NEW i \in 1..l PROVE s[i] = part[i]
  <2>1. s[i] = a[at + i + 1]
    BY <1>4, <1>6
  <2>2. at + i < Len(a)
    BY <1>2
  <2>3. \A j \in 1..l : at + j < Len(a) => a[at + j + 1] = part[j]
    BY <1>1 DEF PartAt
  <2>4. QED
    BY <2>1, <2>2, <2>3
<1>9. part \in Seq(Bytes)
  <2>1. Characters \subseteq Bytes
    BY Numbers
  <2>2. QED
    BY <2>1, SeqMonotonic
<1>10. Len(part) = l
  BY <1>1
<1>11. s = part
  BY <1>4, <1>7, <1>8, <1>9, <1>10, SeqEqual
<1>12. QED
  BY <1>5, <1>11

\* Whatever the label, it is a text if decode() takes it.
LEMMA LabelTypes ==
  ASSUME TypeOK, NEW l \in Bytes, Has(position + l), Decodable(LabelAt(l))
  PROVE  LabelAt(l) \in Texts
<1>1. PICK a \in Seq(Bytes), at \in Nat : a = buffer /\ at = position
  BY DEF TypeOK
<1>2. l \in Nat /\ at + l < Len(a)
  BY <1>1, Numbers DEF Has
<1>3. \A i \in (at + 2)..(at + 1 + l) : a[i] \in Bytes
  <2>1. \A i \in (at + 2)..(at + 1 + l) : i \in 1..Len(a)
    BY <1>2
  <2>2. QED
    BY <2>1, ElementOfSeq
<1> DEFINE s == SubSeq(a, at + 2, at + 1 + l)
<1>4. s \in Seq(Bytes)
  BY <1>2, <1>3, SubSeqProperties
<1>5. s = LabelAt(l)
  BY <1>1 DEF LabelAt
<1> HIDE DEF s
<1>6. QED
  BY <1>4, <1>5 DEF Texts

\* Where the last pointer led to is not behind position, nor behind what is reached.
LEMMA Onwards ==
  ASSUME TypeOK, CircleInv, jumps # <<>>, NEW at \in Nat, position <= at
  PROVE  jumps[Len(jumps)] <= at
<1>1. Len(jumps) \in DOMAIN jumps
  BY DEF TypeOK
<1>2. PICK j \in Nat : j = jumps[Len(jumps)]
  BY <1>1, Numbers DEF TypeOK
<1>3. j <= position /\ position \in Nat
  BY <1>2 DEF CircleInv, TypeOK
<1>4. QED
  BY <1>2, <1>3

\* One more label.
LEMMA LabelStep ==
  ASSUME IInv, status = "decoding", Label
  PROVE  IInv'
<1>1. /\ Has(position) /\ Byte(position) # 0 /\ ~IsPointer(Byte(position))
      /\ fresh' = FALSE /\ status' = status
      /\ UNCHANGED messageVars /\ UNCHANGED <<name, buffer, offsets, behind, jumps, end>>
  BY DEF Label, messageVars
<1>2. TypeOK /\ QueryInv /\ CircleInv
  BY DEF IInv
<1>3. PICK l \in Bytes : l = Byte(position)
  BY <1>1, <1>2, ByteTypes DEF TypeOK
<1>4. /\ Has(position + l) /\ Decodable(LabelAt(l))
      /\ toReturn' = Append(toReturn, LabelAt(l)) /\ position' = position + 1 + l
  BY <1>3 DEF Label
<1>5. LabelAt(l) \in Texts
  BY <1>2, <1>4, LabelTypes
<1>6. l \in Nat /\ position \in Nat /\ position' \in Nat /\ position <= position'
  BY <1>2, <1>3, <1>4, Numbers DEF TypeOK
<1>7. QueryInv'
  BY <1>1, <1>2, SameQuery
<1>8. TypeOK'
  <2>1. toReturn' \in Seq(Texts)
    BY <1>2, <1>4, <1>5 DEF TypeOK
  <2>2. fresh' \in BOOLEAN
    BY <1>1
  <2>3. QED
    BY <1>1, <1>2, <1>6, <2>1, <2>2 DEF TypeOK
<1>9. ASSUME name # Unknown, Labels
      PROVE  \E k \in 0..Len(name) : Written(k)' /\ Reading(k)'
  <2>1. PICK k \in 0..Len(name), last \in Nat :
          /\ Written(k) /\ Reads(k, last) /\ Returns(last)
          /\ PartNext(k, last) \/ EndNext(last) \/ PointerNext(k, last)
    BY <1>9, NextRead
  <2>2. PartNext(k, last)
    BY <1>1, <1>2, <1>9, <2>1, ByteRead
  <2>3. PICK part \in Seq(Characters) : part = name[NextPart] /\ Len(part) = l
    BY <1>1, <1>2, <1>3, <1>9, <2>2, ByteRead
  <2>4. LabelAt(l) = part
    BY <1>2, <1>4, <2>2, <2>3, LabelIsPart DEF PartNext
  <2>5. /\ Len(toReturn') = NextPart /\ toReturn'[NextPart] = name[NextPart]
        /\ \A i \in 1..Len(toReturn) : toReturn'[i] = toReturn[i]
        /\ Len(toReturn) \in Nat
    BY <1>2, <1>4, <2>3, <2>4 DEF TypeOK, NextPart
  <2>6. NextPart' = NextPart + 1
    BY <2>5 DEF NextPart
  <2>7. Reads(k, last)'
    <3>1. Part(position', NextPart + 1, k, last)
      BY <1>4, <2>2, <2>3 DEF PartNext
    <3>2. Part(position, NextPart, k, last)'
      BY <1>1, <2>6, <3>1 DEF Part, Again, Second, First
    <3>3. QED
      BY <3>2 DEF Reads
  <2>8. Returns(last)'
    BY <1>1, <2>1 DEF Returns
  <2>9. Written(k)'
    BY <1>1, <2>1 DEF Written, Again, Second, First
  <2>10. Len(toReturn') <= Len(name') /\ \A i \in 1..Len(toReturn') : toReturn'[i] = name'[i]
    <3>1. PICK m \in 0..Len(name) : Reading(m)
      BY <1>9 DEF IInv, ArrivalInv
    <3>2. \A i \in 1..Len(toReturn) : toReturn[i] = name[i]
      BY <3>1 DEF Reading
    <3>3. \A i \in 1..NextPart : i = NextPart \/ i \in 1..Len(toReturn)
      BY <2>5 DEF NextPart
    <3>4. NextPart <= Len(name)
      BY <2>2 DEF PartNext
    <3>5. QED
      BY <1>1, <2>5, <3>2, <3>3, <3>4
  <2>11. Reading(k)'
    BY <1>1, <2>1, <2>7, <2>8, <2>10 DEF Reading
  <2>12. QED
    BY <2>9, <2>11
<1>10. ArrivalInv'
  <2>1. Labels' = Labels
    BY <1>1 DEF Labels
  <2>2. QED
    BY <1>1, <1>9, <2>1 DEF ArrivalInv, NameArrives
<1>11. CircleInv'
  <2>1. jumps # <<>> => jumps[Len(jumps)] <= position'
    BY <1>2, <1>6, Onwards
  <2>2. QED
    BY <1>1, <1>2, <2>1 DEF CircleInv, RecursionOnlyInCircles
<1>12. QED
  BY <1>7, <1>8, <1>10, <1>11 DEF IInv

\* The label is cut, or is no text.
LEMMA LabelFailsStep ==
  ASSUME IInv, status = "decoding", LabelFails
  PROVE  IInv'
<1>1. Has(position) /\ Byte(position) # 0 /\ ~IsPointer(Byte(position))
  BY DEF LabelFails
<1>2. TypeOK /\ position \in Nat
  BY DEF IInv, TypeOK
<1>3. PICK l \in Bytes : l = Byte(position)
  BY <1>1, <1>2, ByteTypes
<1>4. \/ Has(position + l) /\ ~Decodable(LabelAt(l)) /\ Raise("UnicodeDecodeError")
      \/ ~Has(position + l) /\ Raise("struct.error")
  BY <1>3 DEF LabelFails
<1>5. ASSUME name # Unknown, Labels
      PROVE  ~Has(position + l) /\ Len(buffer) < behind
  <2>1. PICK k \in 0..Len(name), last \in Nat :
          /\ Returns(last)
          /\ PartNext(k, last) \/ EndNext(last) \/ PointerNext(k, last)
    BY <1>5, NextRead
  <2>2. PartNext(k, last)
    BY <1>1, <1>2, <1>5, <2>1, ByteRead
  <2>3. PICK part \in Seq(Characters) : part = name[NextPart] /\ Len(part) = l
    BY <1>1, <1>2, <1>3, <1>5, <2>2, ByteRead
  <2>4. ASSUME Has(position + l) PROVE Decodable(LabelAt(l))
    <3>1. LabelAt(l) = part
      BY <1>2, <2>2, <2>3, <2>4, LabelIsPart DEF PartNext
    <3>2. part \in Texts
      BY AsciiIsText
    <3>3. QED
      BY <3>1, <3>2 DEF Texts
  <2>5. ~Has(position + l)
    BY <1>4, <2>4
  <2>6. position + l \in Nat /\ position + l < last
    <3>1. position + 1 + l < last
      BY <2>2, <2>3 DEF PartNext
    <3>2. l \in Nat
      BY Numbers
    <3>3. QED
      BY <1>2, <3>1, <3>2
  <2>7. QED
    BY <1>2, <2>1, <2>5, <2>6, CutHere
<1>6. PICK e \in {"struct.error", "UnicodeDecodeError"} :
        Raise(e) /\ (e = "UnicodeDecodeError" => Has(position + l))
  BY <1>4
<1>7. QED
  BY <1>5, <1>6, RaiseStep

\* Where a pointer of the answer leads to.
LEMMA PointerRead ==
  ASSUME TypeOK, Has(position), Has(position + 1), NEW k, NEW last,
         PointerNext(k, last)
  PROVE  LET offset == Offset(Byte(position), Byte(position + 1)) IN
         \E l \in Nat :
           /\ l <= last
           /\ \/ offset = offsets[NextPart] /\ l = offsets[Len(name) + 1] + 1
              \/ offset = Again(NextPart) /\ NextPart = 1 /\ l = Second(k) /\ jumps = <<>>
<1>1. PICK o \in Offsets, l \in Nat :
        /\ PointerAt(buffer, position, o) /\ l <= last
        /\ \/ o = offsets[NextPart] /\ l = offsets[Len(name) + 1] + 1
           \/ o = Again(NextPart) /\ NextPart = 1 /\ l = Second(k) /\ jumps = <<>>
  BY DEF PointerNext
<1>2. position \in Nat
  BY DEF TypeOK
<1>3. Byte(position) = PointerTo(o)[1] /\ Byte(position + 1) = PointerTo(o)[2]
  <2>1. Byte(position) = buffer[position + 1] /\ Byte(position + 1) = buffer[position + 2]
    BY <1>2 DEF Byte
  <2>2. position < Len(buffer) /\ position + 1 < Len(buffer)
    BY DEF Has
  <2>3. QED
    BY <1>1, <2>1, <2>2 DEF PointerAt
<1>4. Offset(Byte(position), Byte(position + 1)) = o
  BY <1>3, PointerTypes
<1>5. QED
  BY <1>1, <1>4

\* The name goes on elsewhere.
LEMMA PointerStep ==
  ASSUME IInv, status = "decoding", Pointer
  PROVE  IInv'
<1>1. /\ Has(position) /\ IsPointer(Byte(position)) /\ Has(position + 1)
      /\ position' = Offset(Byte(position), Byte(position + 1))
      /\ jumps' = Append(jumps, position')
      /\ end' = (IF jumps = <<>> THEN position + 2 ELSE end)
      /\ fresh' = TRUE /\ status' = status
      /\ UNCHANGED messageVars /\ UNCHANGED <<name, buffer, offsets, behind, toReturn>>
  BY DEF Pointer, messageVars
<1>2. TypeOK /\ QueryInv /\ CircleInv
  BY DEF IInv
<1>3. position \in Nat /\ Len(buffer) \in Nat /\ Len(jumps) \in Nat /\ position + 1 < Len(buffer)
  BY <1>1, <1>2 DEF TypeOK, Has
<1>4. position' \in Offsets /\ position' \in Nat
  BY <1>1, <1>2, <1>3, ByteTypes, OffsetTypes, Numbers
<1>5. /\ jumps' \in Seq(Offsets) /\ Len(jumps') = Len(jumps) + 1 /\ jumps' # <<>>
      /\ jumps'[Len(jumps')] = position'
      /\ \A i \in 1..Len(jumps) : jumps'[i] = jumps[i]
  BY <1>1, <1>2, <1>4 DEF TypeOK
<1>6. QueryInv'
  BY <1>1, <1>2, SameQuery
<1>7. end' \in Nat
  BY <1>1, <1>2, <1>3 DEF TypeOK
<1>8. TypeOK'
  BY <1>1, <1>2, <1>4, <1>5, <1>7 DEF TypeOK
<1>9. ASSUME name # Unknown, Labels
      PROVE  \E k \in 0..Len(name) : Written(k)' /\ Reading(k)'
  <2>1. PICK k \in 0..Len(name), last \in Nat :
          /\ Written(k) /\ Reads(k, last) /\ Returns(last)
          /\ PartNext(k, last) \/ EndNext(last) \/ PointerNext(k, last)
    BY <1>9, NextRead
  <2>2. PointerNext(k, last)
    <3>1. ~PartNext(k, last)
      BY <1>1, <1>2, <1>9, ByteRead
    <3>2. Byte(position) # 0
      BY <1>1 DEF IsPointer
    <3>3. QED
      BY <1>1, <1>2, <1>9, <2>1, <3>1, <3>2, ByteRead
  <2>3. last = position + 2 /\ NextPart <= Len(name)
    BY <2>2 DEF PointerNext
  <2>4. PICK l \in Nat :
          /\ l <= last
          /\ \/ position' = offsets[NextPart] /\ l = offsets[Len(name) + 1] + 1
             \/ position' = Again(NextPart) /\ NextPart = 1 /\ l = Second(k) /\ jumps = <<>>
    BY <1>1, <1>2, <2>2, PointerRead
  <2>5. NextPart' = NextPart
    BY <1>1 DEF NextPart
  <2>6. Reads(k, l)'
    <3>1. \/ position' = offsets[NextPart] /\ l = offsets[Len(name) + 1] + 1
          \/ /\ position' = Again(NextPart) /\ NextPart <= k + 1 /\ l = Second(k)
             /\ Len(jumps') <= 1
      BY <1>5, <2>4
    <3>2. Part(position, NextPart, k, l)'
      BY <1>1, <2>5, <3>1 DEF Part, Again, Second, First
    <3>3. QED
      BY <3>2 DEF Reads
  <2>7. Returns(l)'
    <3>1. CASE jumps = <<>>
      <4>1. behind = last /\ end' = position + 2
        BY <1>1, <2>1, <3>1 DEF Returns
      <4>2. l <= behind /\ end' = behind /\ behind <= Len(buffer)
        BY <1>3, <2>3, <2>4, <4>1
      <4>3. QED
        BY <1>1, <1>5, <4>2 DEF Returns
    <3>2. CASE jumps # <<>>
      <4>1. last <= behind /\ end' = behind /\ behind <= Len(buffer) /\ behind \in Nat
        BY <1>1, <1>2, <2>1, <3>2 DEF Returns, TypeOK
      <4>2. l <= behind
        BY <2>4, <4>1
      <4>3. QED
        BY <1>1, <1>5, <4>1, <4>2 DEF Returns
    <3>3. QED
      BY <3>1, <3>2
  <2>8. Written(k)'
    BY <1>1, <2>1 DEF Written, Again, Second, First
  <2>9. Reading(k)'
    <3>1. PICK m \in 0..Len(name) : Reading(m)
      BY <1>9 DEF IInv, ArrivalInv
    <3>2. Len(toReturn) <= Len(name) /\ \A i \in 1..Len(toReturn) : toReturn[i] = name[i]
      BY <3>1 DEF Reading
    <3>3. Len(toReturn) < Len(name)
      BY <1>2, <1>9, <2>3, NameTypes DEF NextPart, TypeOK
    <3>4. QED
      BY <1>1, <2>6, <2>7, <3>2, <3>3 DEF Reading
  <2>10. QED
    BY <2>8, <2>9
<1>10. ArrivalInv'
  <2>1. Labels' = Labels
    BY <1>1 DEF Labels
  <2>2. QED
    BY <1>1, <1>9, <2>1 DEF ArrivalInv, NameArrives
<1>11. CircleInv'
  <2>1. ASSUME NEW i \in 1..Len(jumps'), i < Len(jumps')
        PROVE  jumps'[i] + 1 < Len(buffer)
    <3>1. i \in 1..Len(jumps) /\ jumps'[i] = jumps[i]
      BY <1>3, <1>5, <2>1
    <3>2. CASE i < Len(jumps)
      BY <1>2, <3>1, <3>2 DEF CircleInv
    <3>3. CASE i = Len(jumps)
      <4>1. PICK j \in Nat : j = jumps[i]
        BY <1>2, <3>1, Numbers DEF TypeOK
      <4>2. jumps # <<>>
        BY <1>3, <3>1
      <4>3. j <= position
        BY <1>2, <3>3, <4>1, <4>2 DEF CircleInv
      <4>4. j + 1 < Len(buffer)
        BY <1>3, <4>3
      <4>5. QED
        BY <3>1, <4>1, <4>4
    <3>4. QED
      BY <1>3, <3>1, <3>2, <3>3
  <2>2. jumps'[Len(jumps')] <= position'
    BY <1>4, <1>5
  <2>3. QED
    BY <1>1, <1>2, <2>1, <2>2 DEF CircleInv, RecursionOnlyInCircles
<1>12. QED
  BY <1>6, <1>8, <1>10, <1>11 DEF IInv

\* More pointers than there are places in the message: two of them lead to the same one.
LEMMA Circle ==
  ASSUME TypeOK, CircleInv, Has(position), Has(position + 1), TooDeep, Len(buffer) < MaxDepth
  PROVE  \E i, j \in DOMAIN jumps : i # j /\ jumps[i] = jumps[j]
<1>1. PICK n \in Nat, l \in Nat : n = Len(jumps) /\ l = Len(buffer)
  BY DEF TypeOK
<1>2. position \in Nat /\ position + 1 < l /\ MaxDepth \in Nat /\ n + 1 >= MaxDepth /\ l < MaxDepth
  BY <1>1, DnsAssumption DEF TypeOK, Has, TooDeep
<1>3. DOMAIN jumps = 1..n /\ n >= l /\ l >= 2
  BY <1>1, <1>2 DEF TypeOK
<1>4. ASSUME NEW i \in 1..n PROVE jumps[i] \in 0..(l - 2)
  <2>1. PICK j \in Nat : j = jumps[i]
    <3>1. i \in DOMAIN jumps /\ jumps \in Seq(Offsets)
      BY <1>3 DEF TypeOK
    <3>2. jumps[i] \in Offsets
      BY <3>1
    <3>3. QED
      BY <3>2, Numbers
  <2>2. CASE i < n
    <3>1. j + 1 < l
      BY <1>1, <2>1, <2>2 DEF CircleInv
    <3>2. QED
      BY <1>3, <2>1, <3>1
  <2>3. CASE i = n
    <3>1. jumps # <<>>
      BY <1>1, <1>2, <1>3
    <3>2. j <= position
      BY <1>1, <2>1, <2>3, <3>1 DEF CircleInv
    <3>3. j \in 0..(l - 2)
      BY <1>2, <1>3, <3>2
    <3>4. QED
      BY <2>1, <3>3
  <2>4. QED
    BY <2>2, <2>3
<1>5. /\ IsFiniteSet(1..n) /\ Cardinality(1..n) = n
      /\ IsFiniteSet(0..(l - 2)) /\ Cardinality(0..(l - 2)) = l - 1
  BY <1>3, FS_Interval
<1>6. PICK f \in [1..n -> 0..(l - 2)] : \A i \in 1..n : f[i] = jumps[i]
  <2>1. [i \in 1..n |-> jumps[i]] \in [1..n -> 0..(l - 2)]
    BY <1>4
  <2>2. QED
    BY <2>1
<1>7. PICK i \in 1..n, j \in 1..n : i # j /\ f[i] = f[j]
  <2>1. Cardinality(0..(l - 2)) < Cardinality(1..n)
    BY <1>3, <1>5
  <2>2. QED
    BY Zenon, <1>5, <2>1, FS_PigeonHole
<1>8. QED
  BY <1>3, <1>6, <1>7

\* A pointer is cut, or there were too many.
LEMMA PointerFailsStep ==
  ASSUME IInv, status = "decoding", PointerFails
  PROVE  IInv'
<1>1. Has(position) /\ IsPointer(Byte(position)) /\ Byte(position) # 0
  BY DEF PointerFails, IsPointer
<1>2. TypeOK /\ CircleInv /\ position \in Nat
  BY DEF IInv, TypeOK
<1>3. \/ ~Has(position + 1) /\ Raise("struct.error")
      \/ Has(position + 1) /\ TooDeep /\ Raise("RecursionError")
  BY DEF PointerFails
<1>4. ASSUME name # Unknown, Labels
      PROVE  ~Has(position + 1) /\ Len(buffer) < behind
  <2>1. PICK k \in 0..Len(name), last \in Nat :
          /\ Returns(last)
          /\ PartNext(k, last) \/ EndNext(last) \/ PointerNext(k, last)
    BY <1>4, NextRead
  <2>2. PointerNext(k, last)
    BY <1>1, <1>2, <1>4, <2>1, ByteRead
  <2>3. last = position + 2 /\ Len(jumps) <= 1
    BY <2>2 DEF PointerNext
  <2>4. ~TooDeep
    BY <1>2, <2>3, DnsAssumption DEF TooDeep, TypeOK
  <2>5. ~Has(position + 1)
    BY <1>3, <2>4
  <2>6. position + 1 \in Nat /\ position + 1 < last
    BY <1>2, <2>3
  <2>7. QED
    BY <1>2, <2>1, <2>5, <2>6, CutHere
<1>5. CASE ~Has(position + 1) /\ Raise("struct.error")
  BY <1>4, <1>5, RaiseStep
<1>6. CASE Has(position + 1) /\ TooDeep /\ Raise("RecursionError")
  BY <1>1, <1>2, <1>4, <1>6, Circle, RaiseStep
<1>7. QED
  BY <1>3, <1>5, <1>6

-----------------------------------------------------------------------------
(* The theorems. *)

LEMMA HeaderTypes ==
  ASSUME NEW id \in Halves
  PROVE  QueryHeader(id) \in Seq(Bytes) /\ Len(QueryHeader(id)) = QueryNameStart
<1>1. PICK t \in Seq(Bytes) : t = TwoBytes(id) /\ Len(t) = 2
  BY TwoBytesTypes
<1>2. PICK z \in Seq(Bytes) : z = <<0, 0, 0, 1, 0, 0, 0, 0, 0, 0>> /\ Len(z) = 10
  <2>1. 0 \in Bytes /\ 1 \in Bytes
    BY Numbers
  <2>2. /\ <<0, 0, 0, 1, 0, 0, 0, 0, 0, 0>> \in Seq(Bytes)
        /\ Len(<<0, 0, 0, 1, 0, 0, 0, 0, 0, 0>>) = 10
    BY <2>1
  <2>3. QED
    BY <2>2
<1>3. t \o z \in Seq(Bytes) /\ Len(t \o z) = Len(t) + Len(z)
  BY Appended
<1>4. QueryHeader(id) = t \o z
  BY <1>1, <1>2 DEF QueryHeader
<1>5. Len(t) + Len(z) = 12
  BY <1>1, <1>2
<1>6. QED
  BY <1>3, <1>4, <1>5 DEF QueryNameStart

LEMMA InitIInv ==
  ASSUME Init
  PROVE  IInv
<1>1. /\ offsets = <<>> /\ behind = 0 /\ toReturn = <<>> /\ fresh = TRUE /\ jumps = <<>>
      /\ end = 0
  BY DEF Init
<1>2. /\ offsets \in Seq(Nat) /\ toReturn \in Seq(Texts) /\ jumps \in Seq(Offsets)
      /\ Len(offsets) = 0 /\ Len(jumps) = 0 /\ DOMAIN offsets = {}
  BY <1>1
<1>3. /\ buffer \in Seq(Bytes) /\ name \in Hostnames \cup {Unknown} /\ position \in Nat
      /\ \/ name # Unknown /\ status = "encoding" /\ Len(buffer) = QueryNameStart
         \/ name = Unknown /\ status = "decoding"
  <2>1. CASE /\ name \in Hostnames /\ status = "encoding" /\ position = 0
             /\ \E id \in QueryIds : buffer = QueryHeader(id)
    <3>1. PICK id \in Halves : buffer = QueryHeader(id)
      BY <2>1, DnsAssumption
    <3>2. name # Unknown
      BY <2>1, DnsAssumption DEF Unknown
    <3>3. QED
      BY <2>1, <3>1, <3>2, HeaderTypes
  <2>2. CASE name = Unknown /\ status = "decoding" /\ position \in 0..3 /\ buffer \in Buffers
    BY <2>2, DnsAssumption
  <2>3. QED
    BY <2>1, <2>2 DEF Init
<1>4. TypeOK
  BY <1>1, <1>2, <1>3 DEF TypeOK
<1>5. QueryInv
  <2>1. CASE name = Unknown
    BY <1>3, <2>1 DEF QueryInv
  <2>2. CASE name # Unknown
    <3>1. Len(name) \in Nat
      BY <1>4, <2>2, NameTypes
    <3>2. Len(offsets) <= Len(name) /\ Len(offsets) <= Len(name) + 1
      BY <1>2, <3>1
    <3>3. QED
      BY <1>1, <1>2, <1>3, <2>2, <3>2 DEF QueryInv
  <2>3. QED
    BY <2>1, <2>2
<1>6. ArrivalInv
  BY <1>1, <1>3 DEF ArrivalInv, NameArrives
<1>7. CircleInv
  BY <1>1, <1>2, <1>3 DEF CircleInv, RecursionOnlyInCircles
<1>8. QED
  BY <1>4, <1>5, <1>6, <1>7 DEF IInv

LEMMA NextIInv ==
  ASSUME IInv, [Next]_vars
  PROVE  IInv'
<1>1. CASE EncodePart
  BY <1>1, EncodePartStep
<1>2. CASE EncodingFails
  BY <1>2, EncodingFailsStep
<1>3. CASE EndOfEncoding
  BY <1>3, EndOfEncodingStep
<1>4. CASE Answer
  BY <1>4, AnswerStep
<1>5. CASE Turn
  BY <1>5, NoLengthStep, EndOfNameStep, PointerStep, PointerFailsStep, LabelStep, LabelFailsStep
     DEF Turn
<1>6. CASE UNCHANGED vars
  <2>1. UNCHANGED <<name, buffer, offsets, behind, position, toReturn, fresh, jumps, end, status>>
    BY <1>6 DEF vars, messageVars, decodingVars
  <2>2. TypeOK'
    BY <2>1 DEF IInv, TypeOK
  <2>3. QueryInv'
    BY <2>1 DEF IInv, QueryInv, Behind
  <2>4. ArrivalInv'
    BY <2>1 DEF IInv, ArrivalInv, NameArrives, Labels, Written, Reading, Reads, Part, Returns,
                NextPart, Again, Second, First
  <2>5. CircleInv'
    BY <2>1 DEF IInv, CircleInv, RecursionOnlyInCircles
  <2>6. QED
    BY <2>2, <2>3, <2>4, <2>5 DEF IInv
<1>7. QED
  BY <1>1, <1>2, <1>3, <1>4, <1>5, <1>6 DEF Next

\* Query, answer and calls are always as described above: the parts of the name lie where
\* the loop of get_dns_name_encoding wrote them, and decode_dns_name has read a beginning
\* of that name.
THEOREM DnsInvariance == Spec => []IInv
<1>1. Init => IInv
  BY InitIInv
<1>2. IInv /\ [Next]_vars => IInv'
  BY NextIInv
<1>3. QED
  BY <1>1, <1>2, PTL DEF Spec

\* What is encoded are bytes, pointers reach no further than 14 bits, and each label that
\* is decoded is well-formed UTF-8, whatever the message decode_dns_name is given.
THEOREM DnsTypeCorrect == Spec => []TypeOK
<1>1. IInv => TypeOK
  BY DEF IInv
<1>2. QED
  BY <1>1, DnsInvariance, PTL

\* decode_dns_name(construct_query(name)) is name, however the server repeats the name:
\* in full, with a pointer behind any number of its parts, or as a pointer only; and a
\* message that is cut inside the name raises struct.error.
THEOREM NamesArrive == Spec => []NameArrives
<1>1. IInv => NameArrives
  BY DEF IInv, ArrivalInv, NameArrives
<1>2. QED
  BY <1>1, DnsInvariance, PTL

\* decode_dns_name's recursion ends before Python's limit in every message shorter than
\* that, unless the pointers in it form a circle.
THEOREM CirclesOnly == Spec => []RecursionOnlyInCircles
<1>1. IInv => RecursionOnlyInCircles
  BY DEF IInv, CircleInv
<1>2. QED
  BY <1>1, DnsInvariance, PTL
=============================================================================
