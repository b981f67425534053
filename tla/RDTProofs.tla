----------------------------- MODULE RDTProofs -----------------------------
(***************************************************************************)
(* Theorems about RDT for every file, every capacity of the network and    *)
(* every pattern of loss, checked by the TLA+ proof system.                *)
(***************************************************************************)
EXTENDS RDT, SequenceTheorems, TLAPS

-----------------------------------------------------------------------------
(* What the operators on channels return. *)

\* Sending leaves what is under way in place and puts at most the new segment
\* behind it, within the capacity of the direction.
LEMMA SendFacts ==
  ASSUME NEW S, NEW channel \in Seq(S), NEW segment \in S, Len(channel) <= Cap
  PROVE  /\ Send(channel, segment) \in Seq(S)
         /\ Len(Send(channel, segment)) <= Cap
         /\ \A i \in DOMAIN Send(channel, segment) :
              \/ i \in DOMAIN channel /\ Send(channel, segment)[i] = channel[i]
              \/ i = Len(channel) + 1 /\ Send(channel, segment)[i] = segment
  BY CapAssumption DEF Send

\* Taking a segment out leaves the others in their order.
LEMMA WithoutFacts ==
  ASSUME NEW S, NEW channel \in Seq(S), NEW i \in DOMAIN channel
  PROVE  /\ Without(channel, i) \in Seq(S)
         /\ Len(Without(channel, i)) = Len(channel) - 1
         /\ \A j \in DOMAIN Without(channel, i) :
              /\ j \in DOMAIN channel /\ j + 1 \in DOMAIN channel
              /\ Without(channel, i)[j] = IF j < i THEN channel[j] ELSE channel[j + 1]
<1>1. /\ Len(channel) \in Nat /\ DOMAIN channel = 1..Len(channel)
      /\ i \in 1..Len(channel)
  BY LenProperties
<1> DEFINE front == SubSeq(channel, 1, i - 1)
           back == SubSeq(channel, i + 1, Len(channel))
<1>2. front \in Seq(S) /\ Len(front) = i - 1
      /\ \A j \in 1..(i - 1) : front[j] = channel[j]
  BY <1>1
<1>3. back \in Seq(S) /\ Len(back) = Len(channel) - i
      /\ \A j \in 1..(Len(channel) - i) : back[j] = channel[i + j]
  BY <1>1
<1>4. Without(channel, i) = front \o back
  BY DEF Without, RemoveAt
<1> HIDE DEF front, back
<1>5. /\ Without(channel, i) \in Seq(S)
      /\ Len(Without(channel, i)) = Len(front) + Len(back)
      /\ \A j \in 1..(Len(front) + Len(back)) :
           Without(channel, i)[j] =
             IF j <= Len(front) THEN front[j] ELSE back[j - Len(front)]
  <2>1. front \in Seq(S) /\ back \in Seq(S)
    BY <1>2, <1>3
  <2>2. /\ front \o back \in Seq(S)
        /\ Len(front \o back) = Len(front) + Len(back)
        /\ \A j \in 1..(Len(front) + Len(back)) :
             (front \o back)[j] = IF j <= Len(front) THEN front[j] ELSE back[j - Len(front)]
    BY <2>1, ConcatProperties, Zenon
  <2> QED
    BY <1>4, <2>2, Zenon
<1>6. /\ Len(Without(channel, i)) = Len(channel) - 1
      /\ DOMAIN Without(channel, i) = 1..(Len(channel) - 1)
  BY <1>1, <1>2, <1>3, <1>5, LenProperties
<1>7. ASSUME NEW j \in DOMAIN Without(channel, i)
      PROVE  /\ j \in DOMAIN channel /\ j + 1 \in DOMAIN channel
             /\ Without(channel, i)[j] = IF j < i THEN channel[j] ELSE channel[j + 1]
  <2>1. j \in 1..(Len(channel) - 1)
    BY <1>6
  <2>2. j \in DOMAIN channel /\ j + 1 \in DOMAIN channel
    BY <1>1, <2>1
  <2>3. CASE j < i
    BY <1>1, <1>2, <1>3, <1>5, <2>1, <2>3
  <2>4. CASE j >= i
    <3>1. j - (i - 1) \in 1..(Len(channel) - i) /\ i + (j - (i - 1)) = j + 1
      BY <1>1, <2>1, <2>4
    <3>2. back[j - (i - 1)] = channel[j + 1]
      BY <1>3, <3>1
    <3> QED
      BY <1>1, <1>2, <1>3, <1>5, <2>1, <2>2, <2>4, <3>2
  <2> QED
    BY <1>1, <2>1, <2>2, <2>3, <2>4
<1> QED
  BY <1>5, <1>6, <1>7

-----------------------------------------------------------------------------
(* Types. *)

\* The segments that the two programs build are segments.
LEMMA SegmentTypes ==
  /\ Conn \in RDTSegment /\ Close \in RDTSegment
  /\ \A n \in 0..4 : Ack(n) \in RDTSegment
  /\ \A b \in 0..1, c \in 1..NumChunks : Data(b, c) \in RDTSegment
  BY FileAssumption DEF Conn, Close, Ack, Data, Segment, RDTSegment

\* A segment that arrives was on its way, and the rest stays within bounds.
LEMMA DeliveryTypes ==
  ASSUME NEW channel \in Seq(RDTSegment), Len(channel) <= Cap,
         NEW i \in DOMAIN channel
  PROVE  /\ channel[i] \in RDTSegment
         /\ Without(channel, i) \in Seq(RDTSegment)
         /\ Len(Without(channel, i)) <= Cap
<1>1. channel[i] \in RDTSegment
  BY LenProperties, ElementOfSeq
<1> QED
  BY <1>1, WithoutFacts, LenProperties, CapAssumption

\* TypeOK is not inductive: a chunk number 0 on a DATA segment is ruled out by
\* where the sender is.
TypeInv ==
  /\ TypeOK
  /\ sCall = "send_data" => chunk > 0

LEMMA TypeInvInit == Init => TypeInv
  BY FileAssumption, CapAssumption
  DEF Init, TypeInv, TypeOK, connection_status

\* Every step of the sender keeps the types.
LEMMA SenderKeepsTypes == TypeInv /\ SenderNext => TypeInv'
<1> SUFFICES ASSUME TypeInv, SenderNext PROVE TypeInv'
  OBVIOUS
<1> USE FileAssumption, CapAssumption DEF TypeInv, TypeOK, connection_status
<1>1. ASSUME NEW m \in RDTSegment
      PROVE  Send(s2r, m) \in Seq(RDTSegment) /\ Len(Send(s2r, m)) <= Cap
  BY SendFacts
<1>2. ASSUME NEW i \in Deliverable(r2s)
      PROVE  Without(r2s, i) \in Seq(RDTSegment) /\ Len(Without(r2s, i)) <= Cap
  BY DeliveryTypes DEF Deliverable
<1>3. sCall = "send_data" \/ sCall = "close_connection" => Outstanding \in RDTSegment
  BY SegmentTypes DEF Outstanding
<1>4. CASE Connect
  BY <1>1, <1>4, SegmentTypes DEF Connect, receiver
<1>5. CASE ConnectReceive
  <2>1. Send(s2r, Ack(3)) \in Seq(RDTSegment) /\ Len(Send(s2r, Ack(3))) <= Cap
    BY <1>1, SegmentTypes
  <2>2. Send(s2r, Conn) \in Seq(RDTSegment) /\ Len(Send(s2r, Conn)) <= Cap
    BY <1>1, SegmentTypes
  <2> QED
    BY <1>2, <1>5, <2>1, <2>2 DEF ConnectReceive, receiver
<1>6. CASE ConnectTimeout
  BY <1>1, <1>6, SegmentTypes DEF ConnectTimeout, sender, receiver
<1>7. CASE SendData
  <2>1. chunk + 1 \in 1..NumChunks
    BY <1>7 DEF SendData, AtEof
  <2>2. Data(sequence_number, chunk + 1) \in RDTSegment
    BY <2>1, SegmentTypes
  <2>3. s2r' \in Seq(RDTSegment) /\ Len(s2r') <= Cap
    BY <1>1, <1>7, <2>2 DEF SendData
  <2> QED
    BY <1>7, <2>1, <2>3 DEF SendData, receiver
<1>8. CASE SenderClose
  BY <1>1, <1>8, SegmentTypes DEF SenderClose, receiver
<1>9. CASE SendUntilAckedReceive
  BY <1>1, <1>2, <1>3, <1>9 DEF SendUntilAckedReceive, receiver
<1>10. CASE SendUntilAckedTimeout
  BY <1>1, <1>3, <1>10 DEF SendUntilAckedTimeout, sender, receiver
<1> QED
  BY <1>4, <1>5, <1>6, <1>7, <1>8, <1>9, <1>10 DEF SenderNext

\* Every step of the receiver keeps the types.
LEMMA ReceiverKeepsTypes == TypeInv /\ ReceiverNext => TypeInv'
<1> SUFFICES ASSUME TypeInv, ReceiverNext PROVE TypeInv'
  OBVIOUS
<1> USE FileAssumption, CapAssumption DEF TypeInv, TypeOK, connection_status
<1>1. ASSUME NEW m \in RDTSegment
      PROVE  Send(r2s, m) \in Seq(RDTSegment) /\ Len(Send(r2s, m)) <= Cap
  BY SendFacts
<1>2. ASSUME NEW i \in Deliverable(s2r)
      PROVE  /\ s2r[i] \in RDTSegment
             /\ Without(s2r, i) \in Seq(RDTSegment) /\ Len(Without(s2r, i)) <= Cap
  BY DeliveryTypes DEF Deliverable
<1>3. ASSUME NEW n \in 0..4
      PROVE  Send(r2s, Ack(n)) \in Seq(RDTSegment) /\ Len(Send(r2s, Ack(n))) <= Cap
  BY <1>1, SegmentTypes
<1>4. ExpectedSeq \in 0..4 /\ 1 - ExpectedSeq \in 0..4
  BY DEF ExpectedSeq
<1>5. CASE AcceptConn
  BY <1>2, <1>3, <1>5 DEF AcceptConn, sender
<1>6. CASE AcceptAck3
  <2>1. PICK i \in Deliverable(s2r) :
          /\ s2r' = Without(s2r, i)
          /\ r2s' \in {r2s, Send(r2s, Ack(2))}
          /\ rState' \in {rState, "WAIT_DATA0"} /\ rCall' \in {rCall, "receive_data"}
          /\ UNCHANGED <<sender, delivered>>
    BY <1>6 DEF AcceptAck3
  <2>2. s2r' \in Seq(RDTSegment) /\ Len(s2r') <= Cap
    BY <1>2, <2>1
  <2>3. r2s' \in Seq(RDTSegment) /\ Len(r2s') <= Cap
    BY <1>3, <2>1
  <2>4. QED
    BY <2>1, <2>2, <2>3 DEF sender
<1>7. CASE AcceptTimeout
  BY <1>3, <1>7 DEF AcceptTimeout, sender, receiver
<1>8. CASE ReceiveData
  <2>1. PICK i \in Deliverable(s2r) :
          /\ s2r' = Without(s2r, i)
          /\ \/ ReceiveExpected(s2r[i])
             \/ ReceiveDuplicate(s2r[i])
             \/ ReceiveClose(s2r[i])
             \/ ReceiveIgnored(s2r[i])
    BY <1>8 DEF ReceiveData
  <2>2. UNCHANGED sender /\ rCall = "receive_data"
    BY <1>8 DEF ReceiveData
  <2>3. CASE ReceiveExpected(s2r[i])
    <3>1. s2r[i].payload \in 1..NumChunks
      BY <1>2, <2>3 DEF ReceiveExpected, RDTSegment
    <3>2. delivered' \in Seq(1..NumChunks)
      BY <2>3, <3>1, AppendProperties DEF ReceiveExpected
    <3>3. rState' \in connection_status /\ rCall' \in {"receive_data", "app"}
      BY <2>2, <2>3 DEF ReceiveExpected
    <3>4. r2s' \in Seq(RDTSegment) /\ Len(r2s') <= Cap
      BY <1>3, <1>4, <2>3 DEF ReceiveExpected
    <3> QED
      BY <1>2, <2>1, <2>2, <3>2, <3>3, <3>4 DEF sender
  <2>4. CASE ReceiveDuplicate(s2r[i])
    <3>1. r2s' \in Seq(RDTSegment) /\ Len(r2s') <= Cap
      BY <1>3, <1>4, <2>4 DEF ReceiveDuplicate
    <3> QED
      BY <1>2, <2>1, <2>2, <2>4, <3>1 DEF ReceiveDuplicate, sender, receiver
  <2>5. CASE ReceiveClose(s2r[i])
    BY <1>2, <1>3, <2>1, <2>2, <2>5 DEF ReceiveClose, sender
  <2>6. CASE ReceiveIgnored(s2r[i])
    BY <1>2, <2>1, <2>2, <2>6 DEF ReceiveIgnored, sender, receiver
  <2> QED
    BY <2>1, <2>3, <2>4, <2>5, <2>6
<1>9. CASE ReceiverClose
  BY <1>9 DEF ReceiverClose, sender
<1>10. CASE LingerReceive
  BY <1>2, <1>3, <1>10 DEF LingerReceive, sender, receiver
<1>11. CASE LingerTimeout
  BY <1>11 DEF LingerTimeout, sender
<1> QED
  BY <1>5, <1>6, <1>7, <1>8, <1>9, <1>10, <1>11 DEF ReceiverNext

\* Losing a segment, or a stuttering step, keeps the types.
LEMMA NetworkKeepsTypes ==
  TypeInv /\ (LoseToReceiver \/ LoseToSender \/ UNCHANGED vars) => TypeInv'
  BY DeliveryTypes
  DEF TypeInv, TypeOK, LoseToReceiver, LoseToSender, Droppable, vars, sender,
      receiver, connection_status

\* Every reachable state of the two programs and the network is well typed,
\* and no direction ever exceeds its capacity: for every file, every capacity,
\* with or without loss and reordering.
THEOREM TypeCorrect == Spec => []TypeOK
<1>1. Init => TypeInv
  BY TypeInvInit
<1>2. TypeInv /\ [Next]_vars => TypeInv'
  BY SenderKeepsTypes, ReceiverKeepsTypes, NetworkKeepsTypes DEF Next, Terminated
<1>3. TypeInv => TypeOK
  BY DEF TypeInv
<1> QED
  BY <1>1, <1>2, <1>3, PTL DEF Spec

-----------------------------------------------------------------------------
(* The segments under way: what one send or one arrival does to them. *)

LEMMA ChannelLengths ==
  TypeOK => /\ Len(delivered) \in Nat /\ DOMAIN delivered = 1..Len(delivered)
            /\ Len(s2r) \in Nat /\ DOMAIN s2r = 1..Len(s2r)
            /\ Len(r2s) \in Nat /\ DOMAIN r2s = 1..Len(r2s)
  BY LenProperties DEF TypeOK

\* Whatever is left on its way to the receiver was there before.
LEMMA LeftOver ==
  ASSUME TypeOK, NEW i \in DOMAIN s2r, NEW j \in DOMAIN Without(s2r, i)
  PROVE  \E a \in DOMAIN s2r : Without(s2r, i)[j] = s2r[a]
<1>1. s2r \in Seq(RDTSegment)
  BY DEF TypeOK
<1>2. /\ j \in DOMAIN s2r /\ j + 1 \in DOMAIN s2r
      /\ Without(s2r, i)[j] = IF j < i THEN s2r[j] ELSE s2r[j + 1]
  BY <1>1, WithoutFacts
<1> QED
  BY <1>2

\* Taking out a segment that was on its way to the receiver.
LEMMA ToReceiverShrinks ==
  ASSUME TypeOK, ToReceiverInv, NEW i \in DOMAIN s2r, s2r' = Without(s2r, i),
         NoCloseTaken' <=> NoCloseTaken, NextBit' = NextBit,
         UNCHANGED <<delivered, sender>>
  PROVE  ToReceiverInv'
<1>1. ASSUME NEW j \in DOMAIN s2r'
      PROVE  /\ j \in DOMAIN s2r /\ j + 1 \in DOMAIN s2r
             /\ s2r'[j] = IF j < i THEN s2r[j] ELSE s2r[j + 1]
  <2>1. s2r \in Seq(RDTSegment)
    BY DEF TypeOK
  <2> QED
    BY <2>1, WithoutFacts
<1>2. /\ Len(s2r) \in Nat /\ DOMAIN s2r = 1..Len(s2r) /\ i \in 1..Len(s2r)
  BY ChannelLengths
<1>3. ASSUME NEW j \in DOMAIN s2r', NEW k \in DOMAIN s2r', j < k
      PROVE  \E a, b \in DOMAIN s2r : a < b /\ s2r'[j] = s2r[a] /\ s2r'[k] = s2r[b]
  <2>1. /\ j \in 1..Len(s2r) /\ k \in 1..Len(s2r)
        /\ j + 1 \in 1..Len(s2r) /\ k + 1 \in 1..Len(s2r)
    BY <1>1, <1>2
  <2>2. CASE k < i
    BY <1>1, <1>2, <1>3, <2>1, <2>2
  <2>3. CASE j < i /\ ~(k < i)
    BY <1>1, <1>2, <1>3, <2>1, <2>3
  <2>4. CASE ~(j < i)
    BY <1>1, <1>2, <1>3, <2>1, <2>4
  <2> QED
    BY <1>2, <1>3, <2>1, <2>2, <2>3, <2>4
<1>4. ASSUME NEW j \in DOMAIN s2r'
      PROVE  \E a \in DOMAIN s2r : s2r'[j] = s2r[a]
  BY <1>1
<1>5. UNCHANGED <<chunk, sCall>>
  BY DEF sender
<1>6. ASSUME NEW j \in DOMAIN s2r'
      PROVE  /\ s2r'[j].type = "DATA" =>
                  /\ s2r'[j].payload \in Len(delivered)..chunk
                  /\ NoCloseTaken =>
                       (s2r'[j].seq = NextBit <=> s2r'[j].payload = Len(delivered) + 1)
             /\ s2r'[j].type = "CLOSE" => sCall \in {"close_connection", "done"}
  BY <1>4 DEF ToReceiverInv
<1>7. ASSUME NEW j \in DOMAIN s2r', NEW k \in DOMAIN s2r', j < k,
             s2r'[j].type = "DATA", s2r'[k].type = "DATA"
      PROVE  s2r'[j].payload <= s2r'[k].payload
  BY <1>3, <1>7 DEF ToReceiverInv
<1> QED
  BY <1>5, <1>6, <1>7 DEF ToReceiverInv

\* Sending: DATA must be the chunk the sender is at.
LEMMA ToReceiverGrows ==
  ASSUME TypeOK, ToReceiverInv, NEW m \in RDTSegment, s2r' = Send(s2r, m),
         UNCHANGED <<rState, delivered>>, chunk' \in Nat, chunk <= chunk',
         sCall \in {"close_connection", "done"}
           => sCall' \in {"close_connection", "done"},
         m.type = "DATA" =>
           /\ m.payload = chunk' /\ Len(delivered) <= chunk'
           /\ NoCloseTaken => (m.seq = NextBit <=> m.payload = Len(delivered) + 1),
         m.type = "CLOSE" => sCall' \in {"close_connection", "done"}
  PROVE  ToReceiverInv'
<1>1. ASSUME NEW j \in DOMAIN s2r'
      PROVE  \/ j \in DOMAIN s2r /\ s2r'[j] = s2r[j]
             \/ j = Len(s2r) + 1 /\ s2r'[j] = m
  <2>1. s2r \in Seq(RDTSegment) /\ Len(s2r) <= Cap
    BY DEF TypeOK
  <2> QED
    BY <2>1, SendFacts
<1>2. /\ Len(s2r) \in Nat /\ DOMAIN s2r = 1..Len(s2r) /\ Len(delivered) \in Nat
      /\ chunk \in Nat
  BY ChannelLengths, FileAssumption DEF TypeOK
<1>3. ASSUME NEW j \in DOMAIN s2r'
      PROVE  /\ s2r'[j].type = "DATA" =>
                  /\ s2r'[j].payload \in Len(delivered)..chunk'
                  /\ NoCloseTaken =>
                       (s2r'[j].seq = NextBit <=> s2r'[j].payload = Len(delivered) + 1)
             /\ s2r'[j].type = "CLOSE" => sCall' \in {"close_connection", "done"}
  BY <1>1, <1>2 DEF ToReceiverInv
<1>4. ASSUME NEW j \in DOMAIN s2r', NEW k \in DOMAIN s2r', j < k,
             s2r'[j].type = "DATA", s2r'[k].type = "DATA"
      PROVE  s2r'[j].payload <= s2r'[k].payload
  <2>1. j \in DOMAIN s2r /\ s2r'[j] = s2r[j]
    BY <1>1, <1>2, <1>4
  <2>2. CASE k \in DOMAIN s2r /\ s2r'[k] = s2r[k]
    BY <1>4, <2>1, <2>2 DEF ToReceiverInv
  <2>3. CASE s2r'[k] = m
    BY <1>2, <1>4, <2>1, <2>3 DEF ToReceiverInv
  <2> QED
    BY <1>1, <2>2, <2>3
<1>5. (NoCloseTaken' <=> NoCloseTaken) /\ NextBit' = NextBit
  BY DEF NoCloseTaken, NextBit
<1> QED
  BY <1>3, <1>4, <1>5 DEF ToReceiverInv

\* Taking out a segment that was on its way to the sender.
LEMMA ToSenderShrinks ==
  ASSUME TypeOK, ToSenderInv, NEW i \in DOMAIN r2s, r2s' = Without(r2s, i),
         UNCHANGED <<rState, delivered>>, Acked' = Acked
  PROVE  ToSenderInv'
<1>1. ASSUME NEW j \in DOMAIN r2s'
      PROVE  /\ j \in DOMAIN r2s /\ j + 1 \in DOMAIN r2s
             /\ r2s'[j] = IF j < i THEN r2s[j] ELSE r2s[j + 1]
  <2>1. r2s \in Seq(RDTSegment)
    BY DEF TypeOK
  <2> QED
    BY <2>1, WithoutFacts
<1>2. /\ Len(r2s) \in Nat /\ DOMAIN r2s = 1..Len(r2s) /\ i \in 1..Len(r2s)
  BY ChannelLengths
<1>3. ASSUME NEW j \in DOMAIN r2s', NEW k \in DOMAIN r2s', j < k
      PROVE  \E a, b \in DOMAIN r2s : a < b /\ r2s'[j] = r2s[a] /\ r2s'[k] = r2s[b]
  <2>1. /\ j \in 1..Len(r2s) /\ k \in 1..Len(r2s)
        /\ j + 1 \in 1..Len(r2s) /\ k + 1 \in 1..Len(r2s)
    BY <1>1, <1>2
  <2>2. CASE k < i
    BY <1>1, <1>2, <1>3, <2>1, <2>2
  <2>3. CASE j < i /\ ~(k < i)
    BY <1>1, <1>2, <1>3, <2>1, <2>3
  <2>4. CASE ~(j < i)
    BY <1>1, <1>2, <1>3, <2>1, <2>4
  <2> QED
    BY <1>2, <1>3, <2>1, <2>2, <2>3, <2>4
<1>4. ASSUME NEW j \in DOMAIN r2s'
      PROVE  \E a \in DOMAIN r2s : r2s'[j] = r2s[a]
  BY <1>1
<1>5. (NoCloseTaken' <=> NoCloseTaken) /\ LastBit' = LastBit
  BY DEF NoCloseTaken, NextBit, LastBit
<1>6. ASSUME NEW j \in DOMAIN r2s'
      PROVE  /\ IsAck(r2s'[j], 4) => ~NoCloseTaken
             /\ NoCloseTaken /\ IsDataAck(r2s'[j]) =>
                  /\ Len(delivered) > 0
                  /\ Len(delivered) = Acked => r2s'[j].ack = LastBit
  BY <1>4 DEF ToSenderInv
<1>7. ASSUME NEW j \in DOMAIN r2s', NEW k \in DOMAIN r2s', j < k, NoCloseTaken,
             IsDataAck(r2s'[j]), IsDataAck(r2s'[k]), r2s'[j].ack = LastBit
      PROVE  r2s'[k].ack = LastBit
  BY <1>3, <1>7 DEF ToSenderInv
<1> QED
  BY <1>5, <1>6, <1>7 DEF ToSenderInv, IsAck, IsDataAck

\* An ACK that the receiver repeats: of the last chunk out, of the CLOSE it
\* took, or of the handshake.
LEMMA ToSenderGrows ==
  ASSUME TypeOK, ToSenderInv, NEW n \in 0..4, r2s' = Send(r2s, Ack(n)),
         NoCloseTaken' <=> NoCloseTaken, LastBit' = LastBit,
         UNCHANGED delivered, Acked' = Acked,
         n = 4 => ~NoCloseTaken,
         n \in 0..1 => n = LastBit /\ Len(delivered) > 0
  PROVE  ToSenderInv'
<1>1. ASSUME NEW j \in DOMAIN r2s'
      PROVE  \/ j \in DOMAIN r2s /\ r2s'[j] = r2s[j]
             \/ j = Len(r2s) + 1 /\ r2s'[j] = Ack(n)
  <2>1. r2s \in Seq(RDTSegment) /\ Len(r2s) <= Cap
    BY DEF TypeOK
  <2>2. Ack(n) \in RDTSegment
    BY SegmentTypes
  <2> QED
    BY <2>1, <2>2, SendFacts
<1>2. /\ Len(r2s) \in Nat /\ DOMAIN r2s = 1..Len(r2s)
  BY ChannelLengths
<1>3. Ack(n).type = "ACK" /\ Ack(n).ack = n
  BY DEF Ack, Segment
<1>4. ASSUME NEW j \in DOMAIN r2s'
      PROVE  /\ IsAck(r2s'[j], 4) => ~NoCloseTaken
             /\ NoCloseTaken /\ IsDataAck(r2s'[j]) =>
                  /\ Len(delivered) > 0
                  /\ Len(delivered) = Acked => r2s'[j].ack = LastBit
  BY <1>1, <1>3 DEF ToSenderInv, IsAck, IsDataAck
<1>5. ASSUME NEW j \in DOMAIN r2s', NEW k \in DOMAIN r2s', j < k, NoCloseTaken,
             IsDataAck(r2s'[j]), IsDataAck(r2s'[k]), r2s'[j].ack = LastBit
      PROVE  r2s'[k].ack = LastBit
  <2>1. j \in DOMAIN r2s /\ r2s'[j] = r2s[j]
    BY <1>1, <1>2, <1>5
  <2>2. CASE k \in DOMAIN r2s /\ r2s'[k] = r2s[k]
    BY <1>5, <2>1, <2>2 DEF ToSenderInv
  <2>3. CASE r2s'[k] = Ack(n)
    BY <1>3, <1>5, <2>3 DEF IsDataAck
  <2> QED
    BY <1>1, <2>2, <2>3
<1> QED
  BY <1>4, <1>5 DEF ToSenderInv, IsAck, IsDataAck

-----------------------------------------------------------------------------
(* The inductive invariant, for a network that keeps the order. *)

LEMMA IInvInit == Init => IInv
<1> SUFFICES ASSUME Init PROVE IInv
  OBVIOUS
<1>1. TypeOK
  BY TypeInvInit DEF TypeInv
<1>2. ControlInv /\ ProgressInv
  BY FileAssumption
  DEF Init, ControlInv, ProgressInv, NoCloseTaken, NextBit, Acked
<1> QED
  BY <1>1, <1>2 DEF Init, IInv, ToReceiverInv, ToSenderInv

\* The receiver is at most one chunk behind the sender, and level with it
\* outside send_data.
LEMMA Alternation ==
  ASSUME TypeOK, ControlInv, ProgressInv
  PROVE  /\ Acked \in Nat /\ Acked <= Len(delivered) /\ Len(delivered) <= chunk
         /\ chunk \in Nat /\ chunk <= Acked + 1
         /\ sCall # "send_data" => Len(delivered) = chunk /\ Acked = chunk
         /\ sCall \notin {"close_connection", "done"} => NoCloseTaken
         /\ Len(delivered) \in Nat
<1>1. chunk \in Nat /\ Len(delivered) \in Nat
  BY ChannelLengths, FileAssumption DEF TypeOK
<1>2. sCall = "send_data" => chunk > 0
  BY DEF ControlInv
<1> QED
  BY <1>1, <1>2 DEF Acked, ProgressInv, ControlInv

\* connect_to_remote: no data is under way, and none is sent.
LEMMA HandshakeKeepsIInv ==
  ASSUME IInv, Connect \/ ConnectReceive \/ ConnectTimeout
  PROVE  IInv'
<1> USE DEF IInv
<1>1. TypeOK'
  BY SenderKeepsTypes DEF SenderNext, TypeInv, ControlInv
<1>2. chunk = 0 /\ UNCHANGED <<sequence_number, chunk, receiver>>
      /\ sCall \in {"app", "connect_to_remote"} /\ sCall' \in {"app", "connect_to_remote"}
      /\ (sState' = "INIT" => sState = "INIT" /\ sCall' = sCall)
  BY DEF Connect, ConnectReceive, ConnectTimeout, ControlInv, sender
<1>3. Acked' = Acked
  BY <1>2 DEF Acked
<1>4. (NoCloseTaken' <=> NoCloseTaken) /\ NextBit' = NextBit
  BY <1>2 DEF NoCloseTaken, NextBit, receiver
<1>5. ControlInv' /\ ProgressInv'
  BY <1>2, <1>3, <1>4, FileAssumption DEF ControlInv, ProgressInv, receiver
<1>6. ToReceiverInv'
  <2>1. PICK m \in {Conn, Ack(3)} : s2r' = Send(s2r, m)
    BY DEF Connect, ConnectReceive, ConnectTimeout
  <2>2. m \in RDTSegment /\ m.type # "DATA" /\ m.type # "CLOSE"
    BY SegmentTypes DEF Conn, Ack, Segment
  <2> QED
    BY <1>2, <2>1, <2>2, ToReceiverGrows, FileAssumption DEF receiver, TypeOK
<1>7. ToSenderInv'
  <2>1. CASE r2s' = r2s
    BY <1>2, <1>3, <1>4, <2>1 DEF ToSenderInv, receiver, LastBit
  <2>2. CASE r2s' # r2s
    <3>1. PICK i \in DOMAIN r2s : r2s' = Without(r2s, i)
      BY <2>2 DEF Connect, ConnectReceive, ConnectTimeout, Deliverable
    <3> QED
      BY <1>2, <1>3, <3>1, ToSenderShrinks DEF receiver
  <2> QED
    BY <2>1, <2>2
<1>8. \A i \in DOMAIN delivered' : delivered'[i] = i
  BY <1>2 DEF receiver
<1> QED
  BY <1>1, <1>5, <1>6, <1>7, <1>8

\* send_data's first transmission: both sides agree on the bit of the new chunk.
LEMMA SendDataKeepsIInv ==
  ASSUME IInv, SendData
  PROVE  IInv'
<1> USE DEF IInv
<1>1. TypeOK'
  BY SenderKeepsTypes DEF SenderNext, TypeInv, ControlInv
<1>2. /\ sCall = "app" /\ sState = "WAIT_SEND" /\ chunk # NumChunks
      /\ chunk' = chunk + 1 /\ sCall' = "send_data" /\ sState' # "INIT"
      /\ s2r' = Send(s2r, Data(sequence_number, chunk + 1))
      /\ UNCHANGED <<sequence_number, rState, rCall, delivered, r2s>>
  BY DEF SendData, AtEof, receiver
<1>3. /\ Len(delivered) = chunk /\ Acked = chunk /\ Acked' = chunk
      /\ chunk \in Nat /\ NoCloseTaken
  BY <1>2, Alternation DEF Acked
<1>4. sequence_number = NextBit
  BY <1>3 DEF ProgressInv
<1>5. (NoCloseTaken' <=> NoCloseTaken) /\ NextBit' = NextBit /\ LastBit' = LastBit
  BY <1>2 DEF NoCloseTaken, NextBit, LastBit
<1>6. ControlInv'
  BY <1>2, <1>3, <1>5 DEF ControlInv
<1>7. ProgressInv'
  BY <1>2, <1>3, <1>4, <1>5 DEF ProgressInv
<1>8. ToReceiverInv'
  <2> DEFINE m == Data(sequence_number, chunk + 1)
  <2>1. chunk + 1 \in 1..NumChunks /\ sequence_number \in 0..1
    BY <1>2, <1>3, FileAssumption DEF TypeOK
  <2>2. m \in RDTSegment
    BY <2>1, SegmentTypes
  <2>3. m.type = "DATA" /\ m.seq = sequence_number /\ m.payload = chunk + 1
    BY DEF Data, Segment
  <2> HIDE DEF m
  <2>4. s2r' = Send(s2r, m)
    BY <1>2 DEF m
  <2> QED
    BY <1>2, <1>3, <1>4, <2>1, <2>2, <2>3, <2>4, ToReceiverGrows
<1>9. ToSenderInv'
  BY <1>2, <1>3, <1>5 DEF ToSenderInv
<1> QED
  BY <1>1, <1>2, <1>6, <1>7, <1>8, <1>9

\* close_connection's first transmission.
LEMMA SenderCloseKeepsIInv ==
  ASSUME IInv, SenderClose
  PROVE  IInv'
<1> USE DEF IInv
<1>1. TypeOK'
  BY SenderKeepsTypes DEF SenderNext, TypeInv, ControlInv
<1>2. /\ sCall = "app" /\ sState = "WAIT_SEND" /\ chunk = NumChunks
      /\ sCall' = "close_connection"
      /\ s2r' = Send(s2r, Close)
      /\ UNCHANGED <<sState, chunk, sequence_number, rState, rCall, delivered, r2s>>
  BY DEF SenderClose, AtEof, receiver
<1>3. Acked' = Acked /\ NoCloseTaken /\ chunk \in Nat
  BY <1>2, Alternation DEF Acked
<1>4. (NoCloseTaken' <=> NoCloseTaken) /\ NextBit' = NextBit /\ LastBit' = LastBit
  BY <1>2 DEF NoCloseTaken, NextBit, LastBit
<1>5. ControlInv' /\ ProgressInv'
  BY <1>2, <1>3, <1>4 DEF ControlInv, ProgressInv
<1>6. ToReceiverInv'
  <2>1. Close \in RDTSegment /\ Close.type = "CLOSE"
    BY SegmentTypes DEF Close, Segment
  <2> QED
    BY <1>2, <1>3, <2>1, ToReceiverGrows
<1>7. ToSenderInv'
  BY <1>2, <1>3, <1>4 DEF ToSenderInv
<1> QED
  BY <1>1, <1>2, <1>5, <1>6, <1>7

\* What send_until_acked sends again is the chunk the sender is at, with the
\* bit that both sides agree on, or the CLOSE.
LEMMA ResendKeepsToReceiverInv ==
  ASSUME IInv, sCall \in {"send_data", "close_connection"},
         s2r' = Send(s2r, Outstanding), UNCHANGED <<sender, receiver>>
  PROVE  ToReceiverInv'
<1> USE DEF IInv
<1>1. /\ chunk \in Nat /\ Len(delivered) \in Nat /\ Len(delivered) <= chunk
      /\ chunk <= Acked + 1 /\ Acked <= Len(delivered) /\ Acked \in Nat
  BY Alternation
<1>2. CASE sCall = "send_data"
  <2>1. Outstanding = Data(sequence_number, chunk)
    BY <1>2 DEF Outstanding
  <2>2. chunk \in 1..NumChunks /\ sequence_number \in 0..1
    BY <1>1, <1>2, FileAssumption DEF TypeOK, ControlInv
  <2>3. Outstanding \in RDTSegment
    BY <2>1, <2>2, SegmentTypes
  <2>4. /\ Outstanding.type = "DATA" /\ Outstanding.seq = sequence_number
        /\ Outstanding.payload = chunk
    BY <2>1 DEF Data, Segment
  <2>5. NoCloseTaken => (sequence_number = NextBit <=> chunk = Len(delivered) + 1)
    BY <1>1, <1>2 DEF ProgressInv, Acked
  <2> QED
    BY <1>1, <1>2, <2>3, <2>4, <2>5, ToReceiverGrows DEF sender, receiver
<1>3. CASE sCall = "close_connection"
  <2>1. Outstanding \in RDTSegment /\ Outstanding.type = "CLOSE"
    BY <1>3, SegmentTypes DEF Outstanding, Close, Segment
  <2> QED
    BY <1>1, <1>3, <2>1, ToReceiverGrows DEF sender, receiver
<1> QED
  BY <1>2, <1>3

LEMMA ResendKeepsIInv ==
  ASSUME IInv, SendUntilAckedTimeout
  PROVE  IInv'
<1> USE DEF IInv
<1>1. TypeOK'
  BY SenderKeepsTypes DEF SenderNext, TypeInv, ControlInv
<1>2. /\ UNCHANGED <<sState, sCall, sequence_number, chunk>>
      /\ UNCHANGED <<rState, rCall, delivered, r2s>>
  BY DEF SendUntilAckedTimeout, sender, receiver
<1>3. ToReceiverInv'
  BY ResendKeepsToReceiverInv DEF SendUntilAckedTimeout
<1>4. ControlInv' /\ ProgressInv' /\ ToSenderInv'
  BY <1>2 DEF ControlInv, ProgressInv, ToSenderInv, NoCloseTaken, NextBit,
              LastBit, Acked
<1> QED
  BY <1>1, <1>2, <1>3, <1>4

\* The heart of the argument.  In a network that keeps the order, the ACK that
\* ends send_data can only be for the chunk that send_data sent, and it leaves
\* only ACKs with the same bit behind it.
LEMMA AckKeepsIInv ==
  ASSUME ~Reordering, IInv, SendUntilAckedReceive
  PROVE  IInv'
<1> USE DEF IInv
<1>1. TypeOK'
  BY SenderKeepsTypes DEF SenderNext, TypeInv, ControlInv
<1>2. /\ sCall \in {"send_data", "close_connection"}
      /\ UNCHANGED <<chunk, rState, rCall, delivered>>
  BY DEF SendUntilAckedReceive, receiver
<1>3. /\ 1 \in DOMAIN r2s /\ r2s' = Without(r2s, 1)
      /\ \/ /\ IsAck(r2s[1], ExpectAck)
            /\ s2r' = s2r
            /\ IF sCall = "send_data"
               THEN /\ sequence_number' = 1 - sequence_number
                    /\ sState' = "WAIT_SEND" /\ sCall' = "app"
               ELSE /\ sState' = "CLOSED" /\ sCall' = "done"
                    /\ UNCHANGED sequence_number
         \/ /\ s2r' = Send(s2r, Outstanding)
            /\ UNCHANGED <<sState, sCall, sequence_number>>
  BY DEF SendUntilAckedReceive, Deliverable
<1>4. (NoCloseTaken' <=> NoCloseTaken) /\ NextBit' = NextBit /\ LastBit' = LastBit
  BY <1>2 DEF NoCloseTaken, NextBit, LastBit
<1>5. /\ chunk \in Nat /\ Len(delivered) \in Nat /\ Len(delivered) <= chunk
      /\ chunk <= Acked + 1 /\ Acked <= Len(delivered) /\ Acked \in Nat
      /\ sCall # "close_connection" => NoCloseTaken
  BY <1>2, Alternation
<1>6. CASE UNCHANGED <<sState, sCall, sequence_number>> /\ s2r' = Send(s2r, Outstanding)
  <2>1. Acked' = Acked
    BY <1>2, <1>6 DEF Acked
  <2>2. ToReceiverInv'
    BY <1>2, <1>6, ResendKeepsToReceiverInv DEF sender, receiver
  <2>3. ToSenderInv'
    BY <1>2, <1>3, <2>1, ToSenderShrinks
  <2>4. ControlInv' /\ ProgressInv'
    BY <1>2, <1>4, <1>6, <2>1 DEF ControlInv, ProgressInv
  <2> QED
    BY <1>1, <1>2, <2>2, <2>3, <2>4
<1>7. CASE sCall = "send_data" /\ IsAck(r2s[1], sequence_number)
           /\ sequence_number' = 1 - sequence_number
           /\ sState' = "WAIT_SEND" /\ sCall' = "app" /\ s2r' = s2r
  <2>1. /\ NoCloseTaken /\ sequence_number \in 0..1 /\ NextBit \in 0..1
        /\ LastBit = 1 - NextBit
    BY <1>5, <1>7 DEF TypeOK, NextBit, LastBit
  <2>2. IsDataAck(r2s[1]) /\ r2s[1].ack = sequence_number
    BY <1>7, <2>1 DEF IsAck, IsDataAck
  \* The chunk is out: otherwise every ACK has the other bit.
  <2>3. Len(delivered) = chunk /\ sequence_number = LastBit
    <3>1. Len(delivered) # Acked
      <4>1. SUFFICES ASSUME Len(delivered) = Acked PROVE FALSE
        OBVIOUS
      <4>2. r2s[1].ack = LastBit
        BY <1>3, <2>1, <2>2, <4>1 DEF ToSenderInv
      <4>3. sequence_number = NextBit
        BY <2>1, <4>1 DEF ProgressInv
      <4>4. LastBit # NextBit
        BY DEF LastBit, NextBit
      <4> QED
        BY <2>2, <4>2, <4>3, <4>4
    <3>2. sequence_number # NextBit
      BY <2>1, <3>1 DEF ProgressInv
    <3> QED
      BY <1>5, <2>1, <3>1, <3>2
  <2>4. Acked' = chunk /\ sequence_number' = NextBit
    BY <1>2, <1>7, <2>1, <2>3 DEF Acked
  <2>5. ControlInv' /\ ProgressInv'
    BY <1>2, <1>4, <1>5, <1>7, <2>1, <2>3, <2>4 DEF ControlInv, ProgressInv
  <2>6. ToReceiverInv'
    BY <1>2, <1>4, <1>7 DEF ToReceiverInv
  <2>7. ToSenderInv'
    <3>1. ASSUME NEW j \in DOMAIN r2s'
          PROVE  j + 1 \in DOMAIN r2s /\ 1 < j + 1 /\ r2s'[j] = r2s[j + 1]
      <4>1. r2s \in Seq(RDTSegment) /\ 1 \in DOMAIN r2s
        BY <1>3 DEF TypeOK
      <4>2. /\ j \in DOMAIN r2s /\ j + 1 \in DOMAIN r2s
            /\ r2s'[j] = IF j < 1 THEN r2s[j] ELSE r2s[j + 1]
        BY <1>3, <4>1, WithoutFacts
      <4>3. j \in 1..Len(r2s) /\ Len(r2s) \in Nat
        BY <4>2, ChannelLengths
      <4> QED
        BY <4>2, <4>3
    <3>2. ASSUME NEW j \in DOMAIN r2s', IsDataAck(r2s'[j])
          PROVE  r2s'[j].ack = LastBit /\ Len(delivered) > 0
      BY <1>3, <2>1, <2>2, <2>3, <3>1, <3>2 DEF ToSenderInv
    <3>3. ASSUME NEW j \in DOMAIN r2s', IsAck(r2s'[j], 4)
          PROVE  ~NoCloseTaken
      BY <3>1, <3>3 DEF ToSenderInv
    <3> QED
      BY <1>2, <1>4, <3>2, <3>3 DEF ToSenderInv
  <2> QED
    BY <1>1, <1>2, <2>5, <2>6, <2>7
<1>8. CASE sCall = "close_connection" /\ IsAck(r2s[1], 4)
           /\ sState' = "CLOSED" /\ sCall' = "done" /\ s2r' = s2r
           /\ UNCHANGED sequence_number
  <2>1. ~NoCloseTaken
    BY <1>3, <1>8 DEF ToSenderInv
  <2>2. Acked' = Acked
    BY <1>2, <1>8 DEF Acked
  <2>3. ControlInv' /\ ProgressInv'
    BY <1>2, <1>4, <1>8, <2>1, <2>2 DEF ControlInv, ProgressInv
  <2>4. ToReceiverInv'
    BY <1>2, <1>4, <1>8 DEF ToReceiverInv
  <2>5. ToSenderInv'
    BY <1>2, <1>3, <2>2, ToSenderShrinks
  <2> QED
    BY <1>1, <1>2, <2>3, <2>4, <2>5
<1> QED
  BY <1>2, <1>3, <1>6, <1>7, <1>8 DEF ExpectAck

\* accept_connection: nothing is out, and its ACKs are 2.
LEMMA AcceptKeepsIInv ==
  ASSUME IInv, AcceptConn \/ AcceptAck3 \/ AcceptTimeout
  PROVE  IInv'
<1> USE DEF IInv
<1>1. TypeOK'
  BY ReceiverKeepsTypes DEF ReceiverNext, TypeInv, ControlInv
<1>2. /\ rCall \in {"accept_conn", "accept_ack3"} /\ delivered = <<>>
      /\ rState = "INIT"
      /\ UNCHANGED <<delivered, sender>>
      /\ \/ rState' = "INIT" /\ rCall' \in {"accept_conn", "accept_ack3"}
         \/ rState' = "WAIT_DATA0" /\ rCall' = "receive_data"
  BY DEF AcceptConn, AcceptAck3, AcceptTimeout, ControlInv, receiver
<1>3. /\ (NoCloseTaken' <=> NoCloseTaken) /\ NextBit' = NextBit
      /\ LastBit' = LastBit /\ Acked' = Acked
  BY <1>2 DEF NoCloseTaken, NextBit, LastBit, Acked, sender
<1>4. ControlInv' /\ ProgressInv'
  BY <1>2, <1>3 DEF ControlInv, ProgressInv, sender
<1>5. ToReceiverInv'
  <2>1. CASE s2r' = s2r
    BY <1>2, <1>3, <2>1 DEF ToReceiverInv, sender
  <2>2. CASE s2r' # s2r
    <3>1. PICK i \in DOMAIN s2r : s2r' = Without(s2r, i)
      BY <2>2 DEF AcceptConn, AcceptAck3, AcceptTimeout, Deliverable
    <3> QED
      BY <1>2, <1>3, <3>1, ToReceiverShrinks
  <2> QED
    BY <2>1, <2>2
<1>6. ToSenderInv'
  <2>1. CASE r2s' = r2s
    BY <1>2, <1>3, <2>1 DEF ToSenderInv
  <2>2. CASE r2s' = Send(r2s, Ack(2))
    BY <1>2, <1>3, <2>2, ToSenderGrows
  <2> QED
    BY <2>1, <2>2 DEF AcceptConn, AcceptAck3, AcceptTimeout
<1> QED
  BY <1>1, <1>2, <1>4, <1>5, <1>6

\* receive_data takes a segment with the expected bit only if it is the chunk
\* that the sender is at, and only while the sender waits for its ACK.
LEMMA ExpectedIsNext ==
  ASSUME ~Reordering, IInv, rCall = "receive_data", NEW i \in Deliverable(s2r),
         ReceiveExpected(s2r[i])
  PROVE  /\ i = 1 /\ 1 \in DOMAIN s2r
         /\ s2r[1].payload = Len(delivered) + 1 /\ chunk = Len(delivered) + 1
         /\ sCall = "send_data" /\ Len(delivered) = Acked
         /\ NoCloseTaken /\ ExpectedSeq = NextBit
<1> USE DEF IInv
<1>1. i = 1 /\ 1 \in DOMAIN s2r
  BY DEF Deliverable
<1>2. NoCloseTaken /\ ExpectedSeq = NextBit
  BY DEF ControlInv, NoCloseTaken, ExpectedSeq, NextBit
<1>3. s2r[1].type = "DATA" /\ s2r[1].seq = NextBit
  BY <1>1, <1>2 DEF ReceiveExpected
<1>4. s2r[1].payload = Len(delivered) + 1 /\ s2r[1].payload \in Len(delivered)..chunk
  BY <1>1, <1>2, <1>3 DEF ToReceiverInv
<1>5. /\ chunk \in Nat /\ Len(delivered) \in Nat /\ Acked \in Nat
      /\ chunk <= Acked + 1 /\ Acked <= Len(delivered)
      /\ sCall # "send_data" => Len(delivered) = chunk
  BY Alternation
<1> QED
  BY <1>1, <1>2, <1>4, <1>5

LEMMA ReceiveExpectedKeepsIInv ==
  ASSUME ~Reordering, IInv, ReceiveData, NEW i \in Deliverable(s2r),
         s2r' = Without(s2r, i), ReceiveExpected(s2r[i])
  PROVE  IInv'
<1> USE DEF IInv
<1>1. TypeOK'
  BY ReceiverKeepsTypes DEF ReceiverNext, TypeInv, ControlInv
<1>2. rCall = "receive_data" /\ UNCHANGED <<sState, sCall, sequence_number, chunk>>
  BY DEF ReceiveData, sender
<1>3. /\ i = 1 /\ 1 \in DOMAIN s2r
      /\ s2r[1].payload = Len(delivered) + 1 /\ chunk = Len(delivered) + 1
      /\ sCall = "send_data" /\ Len(delivered) = Acked
      /\ NoCloseTaken /\ ExpectedSeq = NextBit
  BY <1>2, ExpectedIsNext
<1>4. /\ s2r[1].type = "DATA" /\ s2r[1].seq = NextBit
      /\ r2s' = Send(r2s, Ack(NextBit))
      /\ delivered' = Append(delivered, chunk)
      /\ rState' = IF rState = "WAIT_DATA0" THEN "WAIT_DATA1" ELSE "WAIT_DATA0"
      /\ rCall' \in {"receive_data", "app"}
      /\ rCall' = "app" => chunk = NumChunks /\ LastChunkEmpty
  BY <1>2, <1>3 DEF ReceiveExpected, IsEmptyChunk
<1>5. /\ rState \in {"WAIT_DATA0", "WAIT_DATA1"} /\ NoCloseTaken' /\ NextBit \in 0..1
      /\ NextBit' = 1 - NextBit /\ LastBit' = NextBit
  BY <1>2, <1>4 DEF ControlInv, NoCloseTaken, NextBit, LastBit
<1>6. /\ Len(delivered) \in Nat /\ chunk \in Nat
      /\ Len(delivered') = chunk
      /\ \A k \in DOMAIN delivered' : delivered'[k] = k
  <2>1. /\ delivered \in Seq(1..NumChunks) /\ chunk \in 1..NumChunks
        /\ Len(delivered) \in Nat /\ DOMAIN delivered = 1..Len(delivered)
    BY <1>3, ChannelLengths, FileAssumption DEF TypeOK
  <2> QED
    BY <1>3, <1>4, <2>1, AppendProperties
<1>7. Acked' = Acked
  BY <1>2 DEF Acked
<1>8. ControlInv' /\ ProgressInv'
  <2>1. ControlInv'
    BY <1>2, <1>3, <1>4, <1>5, <1>6 DEF ControlInv
  <2>2. sequence_number = NextBit /\ sequence_number \in 0..1
    BY <1>3 DEF ProgressInv, TypeOK
  <2>3. ProgressInv'
    BY <1>2, <1>3, <1>5, <1>6, <1>7, <2>2 DEF ProgressInv
  <2> QED
    BY <2>1, <2>3
<1>9. ToReceiverInv'
  <2>1. ASSUME NEW j \in DOMAIN s2r'
        PROVE  j + 1 \in DOMAIN s2r /\ 1 < j + 1 /\ j \in Nat /\ s2r'[j] = s2r[j + 1]
    <3>1. s2r \in Seq(RDTSegment)
      BY DEF TypeOK
    <3>2. /\ j \in DOMAIN s2r /\ j + 1 \in DOMAIN s2r
          /\ s2r'[j] = IF j < 1 THEN s2r[j] ELSE s2r[j + 1]
      BY <1>3, <3>1, WithoutFacts
    <3>3. j \in 1..Len(s2r) /\ Len(s2r) \in Nat
      BY <3>2, ChannelLengths
    <3> QED
      BY <3>2, <3>3
  \* All the DATA that is left is for the chunk just taken.
  <2>2. ASSUME NEW j \in DOMAIN s2r', s2r'[j].type = "DATA"
        PROVE  s2r'[j].payload = chunk /\ s2r'[j].seq = NextBit
    <3>1. s2r[1].payload <= s2r[j + 1].payload /\ s2r[j + 1].payload \in Len(delivered)..chunk
      BY <1>3, <1>4, <2>1, <2>2 DEF ToReceiverInv
    <3>2. s2r[j + 1].payload = Len(delivered) + 1
      BY <1>3, <1>6, <3>1
    <3> QED
      BY <1>3, <2>1, <2>2, <3>2 DEF ToReceiverInv
  <2>3. ASSUME NEW j \in DOMAIN s2r', s2r'[j].type = "CLOSE"
        PROVE  sCall \in {"close_connection", "done"}
    BY <2>1, <2>3 DEF ToReceiverInv
  <2> QED
    BY <1>2, <1>5, <1>6, <2>2, <2>3 DEF ToReceiverInv
<1>10. ToSenderInv'
  <2>1. ASSUME NEW j \in DOMAIN r2s'
        PROVE  \/ j \in DOMAIN r2s /\ r2s'[j] = r2s[j]
               \/ j = Len(r2s) + 1 /\ r2s'[j] = Ack(NextBit)
    <3>1. r2s \in Seq(RDTSegment) /\ Len(r2s) <= Cap
      BY DEF TypeOK
    <3>2. Ack(NextBit) \in RDTSegment
      BY <1>5, SegmentTypes
    <3>3. DOMAIN r2s = 1..Len(r2s) /\ Len(r2s) \in Nat
      BY <3>1
    <3>4. CASE r2s' = r2s
      BY <2>1, <3>4
    <3>5. CASE r2s' = Append(r2s, Ack(NextBit))
      BY <2>1, <3>1, <3>3, <3>5
    <3> QED
      BY <1>4, <3>1, <3>2, <3>4, <3>5, SendFacts
  <2>2. Len(r2s) \in Nat /\ DOMAIN r2s = 1..Len(r2s)
    BY ChannelLengths
  <2>3. Ack(NextBit).type = "ACK" /\ Ack(NextBit).ack = NextBit
    BY DEF Ack, Segment
  \* Every data ACK that was there has the other bit.
  <2>4. ASSUME NEW j \in DOMAIN r2s, IsDataAck(r2s[j])
        PROVE  r2s[j].ack # NextBit
    BY <1>3, <2>4 DEF ToSenderInv, LastBit, NextBit
  <2>5. ASSUME NEW j \in DOMAIN r2s', IsAck(r2s'[j], 4)
        PROVE  FALSE
    BY <1>3, <1>5, <2>1, <2>3, <2>5 DEF ToSenderInv, IsAck
  <2>6. ASSUME NEW j \in DOMAIN r2s', NEW k \in DOMAIN r2s', j < k,
               IsDataAck(r2s'[j]), IsDataAck(r2s'[k]), r2s'[j].ack = NextBit
        PROVE  FALSE
    <3>1. j \in DOMAIN r2s /\ r2s'[j] = r2s[j]
      BY <2>1, <2>2, <2>6
    <3> QED
      BY <2>4, <2>6, <3>1
  <2>7. Len(delivered') # Acked' /\ Len(delivered') > 0
    BY <1>3, <1>6, <1>7
  <2> QED
    BY <1>5, <2>5, <2>6, <2>7 DEF ToSenderInv
<1> QED
  BY <1>1, <1>6, <1>8, <1>9, <1>10

\* receive_data on anything else: a duplicate is acknowledged again, a CLOSE is
\* taken once the whole file is out, the rest is ignored.
LEMMA ReceiveOtherKeepsIInv ==
  ASSUME IInv, ReceiveData, NEW i \in Deliverable(s2r), s2r' = Without(s2r, i),
         ReceiveDuplicate(s2r[i]) \/ ReceiveClose(s2r[i]) \/ ReceiveIgnored(s2r[i])
  PROVE  IInv'
<1> USE DEF IInv
<1>1. TypeOK'
  BY ReceiverKeepsTypes DEF ReceiverNext, TypeInv, ControlInv
<1>2. /\ rCall = "receive_data" /\ rState \in {"WAIT_DATA0", "WAIT_DATA1"}
      /\ NoCloseTaken /\ ExpectedSeq = NextBit /\ NextBit \in 0..1
      /\ i \in DOMAIN s2r
      /\ UNCHANGED sender /\ Acked' = Acked
  BY DEF ReceiveData, ControlInv, NoCloseTaken, ExpectedSeq, NextBit, Deliverable,
         Acked, sender
<1>3. /\ chunk \in Nat /\ Len(delivered) \in Nat
      /\ sCall # "send_data" => Len(delivered) = chunk
      /\ Len(delivered) <= chunk /\ chunk <= Len(delivered) + 1
  <2>1. /\ chunk <= Acked + 1 /\ Acked <= Len(delivered) /\ Acked \in Nat
        /\ chunk \in Nat /\ Len(delivered) \in Nat /\ Len(delivered) <= chunk
        /\ sCall # "send_data" => Len(delivered) = chunk
    BY Alternation
  <2> QED
    BY <2>1
<1>4. CASE ReceiveDuplicate(s2r[i])
  <2>1. /\ s2r[i].type = "DATA" /\ s2r[i].seq # NextBit
        /\ r2s' = Send(r2s, Ack(LastBit))
        /\ UNCHANGED <<rState, rCall, delivered>>
    BY <1>2, <1>4 DEF ReceiveDuplicate, receiver, LastBit
  <2>2. Len(delivered) > 0
    <3>1. /\ s2r[i].payload \in Len(delivered)..chunk
          /\ s2r[i].payload # Len(delivered) + 1
      BY <1>2, <2>1 DEF ToReceiverInv
    <3>2. s2r[i].payload = Len(delivered)
      BY <1>3, <3>1
    <3>3. s2r[i] \in RDTSegment
      BY <1>2, ElementOfSeq, LenProperties DEF TypeOK
    <3>4. s2r[i].payload \in 1..NumChunks
      BY <2>1, <3>3 DEF RDTSegment
    <3> QED
      BY <3>2, <3>4, FileAssumption
  <2>3. (NoCloseTaken' <=> NoCloseTaken) /\ NextBit' = NextBit /\ LastBit' = LastBit
    BY <2>1 DEF NoCloseTaken, NextBit, LastBit
  <2>4. ControlInv' /\ ProgressInv'
    BY <1>2, <2>1, <2>3 DEF ControlInv, ProgressInv, sender
  <2>5. ToReceiverInv'
    BY <1>2, <2>1, <2>3, ToReceiverShrinks
  <2>6. ToSenderInv'
    <3>1. LastBit \in 0..1
      BY <1>2 DEF LastBit
    <3> QED
      BY <1>2, <2>1, <2>2, <2>3, <3>1, ToSenderGrows
  <2> QED
    BY <1>1, <2>1, <2>4, <2>5, <2>6
<1>5. CASE ReceiveClose(s2r[i])
  <2>1. /\ s2r[i].type = "CLOSE" /\ rState' = "CLOSING" /\ rCall' = "app"
        /\ UNCHANGED delivered
    BY <1>5 DEF ReceiveClose
  <2>2. sCall \in {"close_connection", "done"}
    BY <1>2, <2>1 DEF ToReceiverInv
  <2>3. Len(delivered) = NumChunks /\ ~NoCloseTaken'
    BY <1>3, <2>1, <2>2 DEF ControlInv, NoCloseTaken
  <2>4. ControlInv' /\ ProgressInv'
    BY <1>2, <1>3, <2>1, <2>2, <2>3 DEF ControlInv, ProgressInv, sender
  <2>5. ToReceiverInv'
    <3>1. ASSUME NEW j \in DOMAIN s2r'
          PROVE  \E a \in DOMAIN s2r : s2r'[j] = s2r[a]
      BY <1>2, LeftOver
    <3>2. ASSUME NEW j \in DOMAIN s2r', s2r'[j].type = "DATA"
          PROVE  s2r'[j].payload = chunk
      <4>1. PICK a \in DOMAIN s2r : s2r'[j] = s2r[a]
        BY <3>1
      <4>2. s2r[a].payload \in Len(delivered)..chunk
        BY <3>2, <4>1 DEF ToReceiverInv
      <4> QED
        BY <1>3, <2>2, <4>1, <4>2
    <3> QED
      BY <1>2, <1>3, <2>1, <2>2, <2>3, <3>2 DEF ToReceiverInv, sender
  <2>6. ToSenderInv'
    BY <2>3 DEF ToSenderInv
  <2> QED
    BY <1>1, <2>1, <2>4, <2>5, <2>6
<1>6. CASE ReceiveIgnored(s2r[i])
  <2>1. UNCHANGED <<rState, rCall, delivered, r2s>>
    BY <1>6 DEF ReceiveIgnored, receiver
  <2>2. (NoCloseTaken' <=> NoCloseTaken) /\ NextBit' = NextBit /\ LastBit' = LastBit
    BY <2>1 DEF NoCloseTaken, NextBit, LastBit
  <2>3. ControlInv' /\ ProgressInv' /\ ToSenderInv'
    BY <1>2, <2>1, <2>2 DEF ControlInv, ProgressInv, ToSenderInv, sender
  <2>4. ToReceiverInv'
    BY <1>2, <2>1, <2>2, ToReceiverShrinks
  <2> QED
    BY <1>1, <2>1, <2>3, <2>4
<1> QED
  BY <1>4, <1>5, <1>6

\* close_connection of the receiver, with or without the linger.
LEMMA ReceiverCloseKeepsIInv ==
  ASSUME IInv, ReceiverClose \/ LingerReceive \/ LingerTimeout
  PROVE  IInv'
<1> USE DEF IInv
<1>1. TypeOK'
  BY ReceiverKeepsTypes DEF ReceiverNext, TypeInv, ControlInv
<1>2. /\ UNCHANGED <<delivered, sender>> /\ Acked' = Acked
      /\ rCall \in {"app", "close_connection"}
      /\ rState # "INIT" /\ Len(delivered) = NumChunks
      /\ rCall = "close_connection" => rState = "CLOSING"
  BY DEF ReceiverClose, LingerReceive, LingerTimeout, receiver, sender, Acked,
         ControlInv
<1>3. \/ /\ rState' = rState
         /\ \/ rCall = "app" /\ rState = "CLOSING" /\ rCall' = "close_connection"
            \/ rCall = "app" /\ rState # "CLOSING" /\ rCall' = "done"
            \/ rCall' = rCall
      \/ rState = "CLOSING" /\ rState' = "CLOSED" /\ rCall' = "done"
  BY <1>2 DEF ReceiverClose, LingerReceive, LingerTimeout, receiver
<1>4. /\ (NoCloseTaken' <=> NoCloseTaken) /\ NextBit' = NextBit
      /\ LastBit' = LastBit
  BY <1>3 DEF NoCloseTaken, NextBit, LastBit
<1>5. ControlInv' /\ ProgressInv'
  <2>1. ControlInv'
    <3>1. CASE rState' = rState /\ rCall' = rCall
      BY <1>2, <1>4, <3>1 DEF ControlInv, sender
    <3>2. CASE rState' = rState /\ rCall = "app" /\ rState = "CLOSING"
               /\ rCall' = "close_connection"
      BY <1>2, <1>4, <3>2 DEF ControlInv, sender
    <3>3. CASE rState' = rState /\ rCall = "app" /\ rState # "CLOSING"
               /\ rCall' = "done"
      BY <1>2, <1>4, <3>3 DEF ControlInv, sender
    <3>4. CASE rState = "CLOSING" /\ rState' = "CLOSED" /\ rCall' = "done"
      <4>1. ~NoCloseTaken
        BY <3>4 DEF NoCloseTaken
      <4> QED
        BY <1>2, <1>4, <3>4, <4>1 DEF ControlInv, sender
    <3> QED
      BY <1>3, <3>1, <3>2, <3>3, <3>4
  <2>2. ProgressInv'
    BY <1>2, <1>4 DEF ProgressInv, sender
  <2> QED
    BY <2>1, <2>2
<1>6. ToReceiverInv'
  <2>1. CASE s2r' = s2r
    BY <1>2, <1>4, <2>1 DEF ToReceiverInv, sender
  <2>2. CASE s2r' # s2r
    <3>1. PICK i \in DOMAIN s2r : s2r' = Without(s2r, i)
      BY <2>2 DEF ReceiverClose, LingerReceive, LingerTimeout, Deliverable
    <3> QED
      BY <1>2, <1>4, <3>1, ToReceiverShrinks
  <2> QED
    BY <2>1, <2>2
<1>7. ToSenderInv'
  <2>1. CASE r2s' = r2s
    BY <1>2, <1>4, <2>1 DEF ToSenderInv
  <2>2. CASE r2s' # r2s
    <3>1. r2s' = Send(r2s, Ack(4)) /\ ~NoCloseTaken
      BY <1>2, <2>2 DEF ReceiverClose, LingerReceive, LingerTimeout, NoCloseTaken
    <3> QED
      BY <1>2, <1>4, <3>1, ToSenderGrows
  <2> QED
    BY <2>1, <2>2
<1> QED
  BY <1>1, <1>2, <1>5, <1>6, <1>7

\* Loss takes a segment out of a channel and changes nothing else.
LEMMA NetworkKeepsIInv ==
  ASSUME IInv, LoseToReceiver \/ LoseToSender \/ UNCHANGED vars
  PROVE  IInv'
<1> USE DEF IInv
<1>1. TypeOK'
  BY NetworkKeepsTypes DEF TypeInv, ControlInv
<1>2. UNCHANGED <<sender, rState, rCall, delivered>>
  BY DEF LoseToReceiver, LoseToSender, vars, receiver
<1>3. /\ (NoCloseTaken' <=> NoCloseTaken) /\ NextBit' = NextBit
      /\ LastBit' = LastBit /\ Acked' = Acked
  BY <1>2 DEF NoCloseTaken, NextBit, LastBit, Acked, sender
<1>4. ControlInv' /\ ProgressInv'
  BY <1>2, <1>3 DEF ControlInv, ProgressInv, sender
<1>5. ToReceiverInv'
  <2>1. CASE s2r' = s2r
    BY <1>2, <1>3, <2>1 DEF ToReceiverInv, sender
  <2>2. CASE s2r' # s2r
    <3>1. PICK i \in DOMAIN s2r : s2r' = Without(s2r, i)
      BY <2>2 DEF LoseToReceiver, LoseToSender, Droppable, vars
    <3> QED
      BY <1>2, <1>3, <3>1, ToReceiverShrinks
  <2> QED
    BY <2>1, <2>2
<1>6. ToSenderInv'
  <2>1. CASE r2s' = r2s
    BY <1>2, <1>3, <2>1 DEF ToSenderInv
  <2>2. CASE r2s' # r2s
    <3>1. PICK i \in DOMAIN r2s : r2s' = Without(r2s, i)
      BY <2>2 DEF LoseToReceiver, LoseToSender, Droppable, vars
    <3> QED
      BY <1>2, <1>3, <3>1, ToSenderShrinks
  <2> QED
    BY <2>1, <2>2
<1> QED
  BY <1>1, <1>2, <1>4, <1>5, <1>6

LEMMA StepKeepsIInv ==
  ASSUME ~Reordering, IInv, [Next]_vars
  PROVE  IInv'
<1>1. CASE SenderNext
  BY <1>1, HandshakeKeepsIInv, SendDataKeepsIInv, SenderCloseKeepsIInv,
     AckKeepsIInv, ResendKeepsIInv DEF SenderNext
<1>2. CASE ReceiverNext
  <2>1. CASE ReceiveData
    <3>1. PICK i \in Deliverable(s2r) :
            /\ s2r' = Without(s2r, i)
            /\ \/ ReceiveExpected(s2r[i])
               \/ ReceiveDuplicate(s2r[i])
               \/ ReceiveClose(s2r[i])
               \/ ReceiveIgnored(s2r[i])
      BY <2>1 DEF ReceiveData
    <3> QED
      BY <2>1, <3>1, ReceiveExpectedKeepsIInv, ReceiveOtherKeepsIInv
  <2> QED
    BY <1>2, <2>1, AcceptKeepsIInv, ReceiverCloseKeepsIInv DEF ReceiverNext
<1>3. CASE LoseToReceiver \/ LoseToSender \/ Terminated \/ UNCHANGED vars
  BY <1>3, NetworkKeepsIInv DEF Terminated
<1> QED
  BY <1>1, <1>2, <1>3 DEF Next

\* In a network that keeps the order, the inductive invariant holds.
THEOREM Invariance ==
  ASSUME ~Reordering
  PROVE  Spec => []IInv
<1>1. Init => IInv
  BY IInvInit
<1>2. IInv /\ [Next]_vars => IInv'
  BY StepKeepsIInv
<1> QED
  BY <1>1, <1>2, PTL DEF Spec

-----------------------------------------------------------------------------
(* What follows from it. *)

\* receive_data never returns a chunk twice, out of order, or one that was not
\* sent, for every file, every loss pattern and every order of timeouts.
THEOREM InOrderDelivery ==
  ASSUME ~Reordering
  PROVE  Spec => []OutputIsPrefix
<1>1. IInv => OutputIsPrefix
  BY Alternation DEF IInv, OutputIsPrefix
<1> QED
  BY <1>1, Invariance, PTL

\* When send_data returns, its chunk is out on the other side.
THEOREM ReliableSend ==
  ASSUME ~Reordering
  PROVE  Spec => []SendReturnsAfterDelivery
<1>1. IInv => SendReturnsAfterDelivery
  BY DEF IInv, ProgressInv, Acked, SendReturnsAfterDelivery
<1> QED
  BY <1>1, Invariance, PTL

\* Neither program ends before the whole file is out.
THEOREM CompleteFile ==
  ASSUME ~Reordering
  PROVE  Spec => []CompleteAtTheEnd
<1>1. IInv => CompleteAtTheEnd
  <2> SUFFICES ASSUME IInv PROVE CompleteAtTheEnd
    OBVIOUS
  <2>1. sCall # "send_data" => Len(delivered) = chunk
    BY Alternation DEF IInv
  <2> QED
    BY <2>1 DEF IInv, ControlInv, NoCloseTaken, CompleteAtTheEnd
<1> QED
  BY <1>1, Invariance, PTL

\* The sender's close_connection returns only after the receiver took a CLOSE.
THEOREM CloseHandshake ==
  ASSUME ~Reordering
  PROVE  Spec => []CloseIsAnswered
<1>1. IInv => CloseIsAnswered
  BY DEF IInv, ControlInv, CloseIsAnswered
<1> QED
  BY <1>1, Invariance, PTL

\* receive_data returns a chunk only while the sender is still in the send_data
\* call for that chunk, for every file, loss pattern and order of timeouts.
THEOREM FreshAcceptance ==
  ASSUME ~Reordering
  PROVE  Spec => AcceptsTheOutstandingChunk
<1>1. ASSUME IInv, [Next]_vars, delivered' # delivered
      PROVE  sCall = "send_data" /\ delivered' = Append(delivered, chunk)
  <2>1. ReceiveData
    BY <1>1
    DEF Next, SenderNext, ReceiverNext, Terminated, Connect, ConnectReceive,
        ConnectTimeout, SendData, SenderClose, SendUntilAckedReceive,
        SendUntilAckedTimeout, AcceptConn, AcceptAck3, AcceptTimeout, ReceiverClose,
        LingerReceive, LingerTimeout, LoseToReceiver, LoseToSender, receiver, vars
  <2>2. PICK i \in Deliverable(s2r) : ReceiveExpected(s2r[i])
    BY <1>1, <2>1 DEF ReceiveData, ReceiveDuplicate, ReceiveClose, ReceiveIgnored, receiver
  <2> QED
    BY <1>1, <2>1, <2>2, ExpectedIsNext DEF ReceiveData, ReceiveExpected
<1>2. IInv /\ [Next]_vars =>
        [delivered' # delivered =>
           sCall = "send_data" /\ delivered' = Append(delivered, chunk)]_vars
  BY <1>1
<1> QED
  BY <1>2, Invariance, PTL DEF AcceptsTheOutstandingChunk, Spec

-----------------------------------------------------------------------------
(* The two programs implement FileTransfer. *)

LEMMA InitImplements == Init => Transfer!AbstractInit
  BY DEF Init, Transfer!AbstractInit, Acked, TransferPhase

\* A step that changes none of these is a stuttering step of FileTransfer.
LEMMA Stutters ==
  ASSUME UNCHANGED <<delivered, rState>>, Acked' = Acked,
         (rCall' = "done") <=> (rCall = "done"), (sCall' = "done") <=> (sCall = "done")
  PROVE  UNCHANGED Transfer!abstractVars
  BY DEF Transfer!abstractVars, TransferPhase

LEMMA SenderImplements ==
  ASSUME ~Reordering, IInv, IInv', SenderNext
  PROVE  [Transfer!AbstractNext]_(Transfer!abstractVars)
<1> USE DEF Transfer!AbstractNext
<1>1. UNCHANGED <<rState, rCall, delivered>>
  BY DEF SenderNext, Connect, ConnectReceive, ConnectTimeout, SendData, SenderClose,
         SendUntilAckedReceive, SendUntilAckedTimeout, receiver
<1>2. UNCHANGED TransferPhase
  BY <1>1 DEF TransferPhase
<1>3. CASE Connect \/ ConnectReceive \/ ConnectTimeout
  <2>1. UNCHANGED chunk /\ sCall \in {"app", "connect_to_remote"}
        /\ sCall' \in {"app", "connect_to_remote"}
    BY <1>3 DEF Connect, ConnectReceive, ConnectTimeout, sender
  <2> QED
    BY <1>1, <2>1, Stutters DEF Acked
<1>4. CASE SendData
  <2>1. chunk' = chunk + 1 /\ sCall = "app" /\ sCall' = "send_data" /\ chunk \in Nat
    BY <1>4, Alternation DEF SendData, IInv
  <2> QED
    BY <1>1, <2>1, Stutters DEF Acked
<1>5. CASE SenderClose
  <2>1. UNCHANGED chunk /\ sCall = "app" /\ sCall' = "close_connection"
    BY <1>5 DEF SenderClose
  <2> QED
    BY <1>1, <2>1, Stutters DEF Acked
<1>6. CASE SendUntilAckedTimeout
  <2>1. UNCHANGED <<chunk, sCall>>
    BY <1>6 DEF SendUntilAckedTimeout, sender
  <2> QED
    BY <1>1, <2>1, Stutters DEF Acked
<1>7. CASE SendUntilAckedReceive
  <2>1. UNCHANGED chunk /\ sCall \in {"send_data", "close_connection"}
        /\ \/ sCall' = sCall
           \/ sCall = "send_data" /\ sCall' = "app"
           \/ sCall = "close_connection" /\ sCall' = "done"
    BY <1>7 DEF SendUntilAckedReceive
  <2>2. CASE sCall' = sCall
    BY <1>1, <2>1, <2>2, Stutters DEF Acked
  <2>3. CASE sCall = "send_data" /\ sCall' = "app"
    <3>1. chunk \in Nat /\ Acked = chunk - 1 /\ Acked' = chunk
      BY <2>1, <2>3, Alternation DEF Acked, IInv
    <3>2. Len(delivered)' = Acked' /\ Len(delivered)' = Len(delivered)
      BY <1>1, <2>3 DEF IInv, ProgressInv, Acked
    <3>3. Acked < Len(delivered) /\ Acked' = Acked + 1
      BY <3>1, <3>2
    <3>4. Transfer!Acknowledge
      BY <1>1, <1>2, <2>3, <3>3 DEF Transfer!Acknowledge
    <3> QED
      BY <3>4
  <2>4. CASE sCall = "close_connection" /\ sCall' = "done"
    <3>1. ~NoCloseTaken /\ rState \in {"CLOSING", "CLOSED"}
      BY <1>1, <2>4 DEF IInv, ControlInv, NoCloseTaken
    <3>2. TransferPhase \in {"closing", "closed"}
      BY <3>1 DEF TransferPhase
    <3>3. Acked' = Acked
      BY <2>1, <2>4 DEF Acked
    <3>4. Transfer!Finish
      BY <1>1, <1>2, <2>4, <3>2, <3>3 DEF Transfer!Finish
    <3> QED
      BY <3>4
  <2> QED
    BY <2>1, <2>2, <2>3, <2>4
<1> QED
  BY <1>3, <1>4, <1>5, <1>6, <1>7 DEF SenderNext

LEMMA ReceiverImplements ==
  ASSUME ~Reordering, IInv, IInv', ReceiverNext
  PROVE  [Transfer!AbstractNext]_(Transfer!abstractVars)
<1> USE DEF Transfer!AbstractNext
<1>1. UNCHANGED <<sCall, chunk>> /\ Acked' = Acked
  BY DEF ReceiverNext, AcceptConn, AcceptAck3, AcceptTimeout, ReceiveData,
         ReceiverClose, LingerReceive, LingerTimeout, sender, Acked
<1>2. CASE AcceptConn \/ AcceptAck3 \/ AcceptTimeout
  <2>1. /\ UNCHANGED delivered
        /\ rState = "INIT" /\ rState' \in {"INIT", "WAIT_DATA0"}
        /\ rCall # "done" /\ rCall' # "done"
    BY <1>2 DEF AcceptConn, AcceptAck3, AcceptTimeout, receiver, IInv, ControlInv
  <2>2. UNCHANGED TransferPhase
    BY <2>1 DEF TransferPhase
  <2> QED
    BY <1>1, <2>1, <2>2 DEF Transfer!abstractVars
<1>3. CASE ReceiveData
  <2>1. PICK i \in Deliverable(s2r) :
          \/ ReceiveExpected(s2r[i])
          \/ ReceiveDuplicate(s2r[i]) \/ ReceiveIgnored(s2r[i])
          \/ ReceiveClose(s2r[i])
    BY <1>3 DEF ReceiveData
  <2>2. rCall = "receive_data" /\ rState \in {"WAIT_DATA0", "WAIT_DATA1"}
    BY <1>3 DEF ReceiveData, IInv, ControlInv
  <2>3. TransferPhase = "open"
    BY <2>2 DEF TransferPhase
  <2>4. CASE ReceiveExpected(s2r[i])
    <3>1. chunk = Len(delivered) + 1 /\ Len(delivered) = Acked /\ chunk <= NumChunks
          /\ s2r[i].payload = chunk /\ Acked \in Nat
      BY <2>2, <2>4, ExpectedIsNext, Alternation, FileAssumption DEF IInv, TypeOK
    <3>2. /\ delivered' = Append(delivered, Acked + 1)
          /\ rState' \in {"WAIT_DATA0", "WAIT_DATA1"} /\ rCall' \in {"receive_data", "app"}
      BY <2>2, <2>4, <3>1 DEF ReceiveExpected
    <3>3. TransferPhase' = "open"
      BY <3>2 DEF TransferPhase
    <3>4. Transfer!Deliver
      <4>1. Acked < NumChunks
        BY <3>1, FileAssumption
      <4> QED
        BY <1>1, <2>3, <3>1, <3>2, <3>3, <4>1 DEF Transfer!Deliver
    <3> QED
      BY <3>4
  <2>5. CASE ReceiveDuplicate(s2r[i]) \/ ReceiveIgnored(s2r[i])
    BY <1>1, <2>5, Stutters DEF ReceiveDuplicate, ReceiveIgnored, receiver
  <2>6. CASE ReceiveClose(s2r[i])
    <3>1. rState' = "CLOSING" /\ rCall' = "app" /\ UNCHANGED delivered
      BY <2>6 DEF ReceiveClose
    <3>2. sCall \in {"close_connection", "done"} /\ chunk = NumChunks
      BY <1>1, <3>1 DEF IInv, ControlInv, NoCloseTaken
    <3>3. Acked = NumChunks /\ TransferPhase' = "closing"
      BY <3>1, <3>2 DEF Acked, TransferPhase
    <3>4. Transfer!TakeClose
      BY <1>1, <2>3, <3>1, <3>3 DEF Transfer!TakeClose
    <3> QED
      BY <3>4
  <2> QED
    BY <2>1, <2>4, <2>5, <2>6
<1>4. CASE ReceiverClose
  <2>1. UNCHANGED <<delivered, rState>> /\ rCall = "app"
        /\ rCall' = IF rState = "CLOSING" THEN "close_connection" ELSE "done"
    BY <1>4 DEF ReceiverClose
  <2>2. CASE rState = "CLOSING"
    BY <1>1, <2>1, <2>2, Stutters
  <2>3. CASE rState # "CLOSING"
    <3>1. rState \notin {"CLOSING", "CLOSED"} /\ Len(delivered) = NumChunks
          /\ LastChunkEmpty
      BY <2>1, <2>3 DEF IInv, ControlInv, NoCloseTaken
    <3>2. TransferPhase = "open" /\ TransferPhase' = "cut"
      BY <2>1, <2>3, <3>1 DEF TransferPhase
    <3>3. Transfer!CutShort
      BY <1>1, <2>1, <3>1, <3>2 DEF Transfer!CutShort
    <3> QED
      BY <3>3
  <2> QED
    BY <2>2, <2>3
<1>5. CASE LingerReceive
  BY <1>1, <1>5, Stutters DEF LingerReceive, receiver
<1>6. CASE LingerTimeout
  <2>1. rState = "CLOSING" /\ rState' = "CLOSED" /\ UNCHANGED delivered
    BY <1>6 DEF LingerTimeout, IInv, ControlInv
  <2>2. TransferPhase = "closing" /\ TransferPhase' = "closed"
    BY <2>1 DEF TransferPhase
  <2>3. Transfer!StopLingering
    BY <1>1, <2>1, <2>2 DEF Transfer!StopLingering
  <2> QED
    BY <2>3
<1> QED
  BY <1>2, <1>3, <1>4, <1>5, <1>6 DEF ReceiverNext

\* The two programs over a lossy network that keeps the order do what
\* FileTransfer says: retransmissions, duplicates and timeouts are invisible.
THEOREM Refinement ==
  ASSUME ~Reordering
  PROVE  Spec => ImplementsFileTransfer
<1>1. Init => Transfer!AbstractInit
  BY InitImplements
<1>2. IInv /\ IInv' /\ [Next]_vars => [Transfer!AbstractNext]_(Transfer!abstractVars)
  <2> SUFFICES ASSUME IInv, IInv', [Next]_vars
               PROVE  [Transfer!AbstractNext]_(Transfer!abstractVars)
    OBVIOUS
  <2>1. CASE LoseToReceiver \/ LoseToSender \/ Terminated \/ UNCHANGED vars
    <3>1. UNCHANGED <<delivered, rState, rCall, sCall, chunk>>
      BY <2>1 DEF LoseToReceiver, LoseToSender, Terminated, vars, sender, receiver
    <3> QED
      BY <3>1, Stutters DEF Acked
  <2> QED
    BY <2>1, SenderImplements, ReceiverImplements DEF Next
<1> QED
  BY <1>1, <1>2, Invariance, PTL DEF Spec, ImplementsFileTransfer, Transfer!AbstractSpec
=============================================================================
