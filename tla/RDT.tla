-------------------------------- MODULE RDT --------------------------------
(***************************************************************************)
(* The reliable data transport of project 4: sender.cpp and receiver.cpp,  *)
(* each with its ReliableSocket, over the two directions of an unreliable  *)
(* network.                                                                *)
(*                                                                         *)
(* Each program is one thread that blocks in UnreliableSocket::receive and *)
(* nowhere else, so an action is what a program does between two such      *)
(* calls: the segment (or the timeout) that ends the call, and everything  *)
(* up to the next one.  sCall and rCall say in which operation a program   *)
(* is; sState, rState and sequence_number are the fields of its socket.    *)
(*                                                                         *)
(* The file is a sequence of NumChunks chunks.  sender.cpp reads chunks of *)
(* MAX_DATA_SIZE bytes until a read comes up short, so the last chunk is   *)
(* short, and it is empty when the file's length is a multiple of          *)
(* MAX_DATA_SIZE.  A chunk is represented by its number.                   *)
(*                                                                         *)
(* A socket timeout may end a call at any moment the timer is armed: the   *)
(* model has no clock.  The estimate behind the timer is in RttEstimator.  *)
(***************************************************************************)
EXTENDS UnreliableChannel

CONSTANTS
  NumChunks,      \* the number of chunks sender.cpp reads from the file
  LastChunkEmpty  \* TRUE: the length of the file is a multiple of MAX_DATA_SIZE

ASSUME FileAssumption ==
  NumChunks \in Nat \ {0} /\ LastChunkEmpty \in BOOLEAN

VARIABLES
  sState,           \* the sender's ReliableSocket::state
  sCall,            \* the operation the sender's program is in
  sequence_number,  \* the sender's ReliableSocket::sequence_number
  chunk,            \* how many chunks the sender's program has read
  rState,           \* the receiver's ReliableSocket::state
  rCall,            \* the operation the receiver's program is in
  delivered,        \* the payloads receive_data returned, in order
  s2r,              \* segments on their way to the receiver
  r2s               \* segments on their way to the sender

sender == <<sState, sCall, sequence_number, chunk>>
receiver == <<rState, rCall, delivered>>
vars == <<sender, receiver, s2r, r2s>>

connection_status ==
  {"INIT", "WAIT_HS2", "WAIT_HS3", "WAIT_SEND", "WAIT_DATA0", "WAIT_DATA1",
   "WAIT_ACK0", "WAIT_ACK1", "CLOSING", "CLOSED"}

-----------------------------------------------------------------------------
(* Segments.  A payload is a chunk number, 0 where there is none. *)

RDTSegment ==
  [type : {"DATA"}, seq : 0..1, ack : {0}, payload : 1..NumChunks]
    \cup [type : {"CONN", "ACK", "CLOSE"}, seq : {0, 4}, ack : 0..4, payload : {0}]

Segment(type, seq, ack, payload) ==
  [type |-> type, seq |-> seq, ack |-> ack, payload |-> payload]

Conn == Segment("CONN", 0, 0, 0)
Data(seq, c) == Segment("DATA", seq, 0, c)
Close == Segment("CLOSE", 4, 0, 0)
Ack(n) == Segment("ACK", 0, n, 0)

\* Mutant: the number of an ACK is not looked at.
IsAckOfAnyNumber(segment, n) == segment.type = "ACK"

IsAck(segment, n) == segment.type = "ACK" /\ segment.ack = n

\* get_payload_size() = 0
IsEmptyChunk(c) == LastChunkEmpty /\ c = NumChunks

-----------------------------------------------------------------------------
(* The sender's program and its socket. *)

\* Mutants: the loop reads once more, or stops before the short last chunk.
AtEofTooLate == chunk > NumChunks
AtEofTooEarly == chunk \in {NumChunks - 1, NumChunks}

\* The while loop of sender.cpp ends when a read set the end-of-file bit.
AtEof == chunk = NumChunks

\* connect_to_remote up to its first receive.
Connect ==
  /\ sCall = "app" /\ sState = "INIT"
  /\ sState' = "WAIT_HS2"
  /\ sCall' = "connect_to_remote"
  /\ s2r' = Send(s2r, Conn)
  /\ UNCHANGED <<sequence_number, chunk, receiver, r2s>>

\* One turn of connect_to_remote's loop: ACK 2 ends it with ACK 3, which is
\* sent once and never again; any other segment sends CONN again.
ConnectReceive ==
  /\ sCall = "connect_to_remote"
  /\ \E i \in Deliverable(r2s) :
       /\ r2s' = Without(r2s, i)
       /\ IF IsAck(r2s[i], 2)
          THEN /\ s2r' = Send(s2r, Ack(3))
               /\ sState' = "WAIT_SEND"
               /\ sCall' = "app"
          ELSE /\ s2r' = Send(s2r, Conn)
               /\ UNCHANGED <<sState, sCall>>
  /\ UNCHANGED <<sequence_number, chunk, receiver>>

ConnectTimeout ==
  /\ sCall = "connect_to_remote"
  /\ s2r' = Send(s2r, Conn)
  /\ UNCHANGED <<sender, receiver, r2s>>

\* sender.cpp reads the next chunk and send_data sends it for the first time.
SendData ==
  /\ sCall = "app" /\ sState = "WAIT_SEND"
  /\ ~AtEof
  /\ chunk' = chunk + 1
  /\ sState' = IF sequence_number = 0 THEN "WAIT_ACK0" ELSE "WAIT_ACK1"
  /\ sCall' = "send_data"
  /\ s2r' = Send(s2r, Data(sequence_number, chunk + 1))
  /\ UNCHANGED <<sequence_number, receiver, r2s>>

\* The sender's branch of close_connection; the state stays WAIT_SEND until
\* the CLOSE is acknowledged.
SenderClose ==
  /\ sCall = "app" /\ sState = "WAIT_SEND"
  /\ AtEof
  /\ sCall' = "close_connection"
  /\ s2r' = Send(s2r, Close)
  /\ UNCHANGED <<sState, sequence_number, chunk, receiver, r2s>>

\* The segment send_until_acked was called with, and the ACK it waits for.
Outstanding ==
  IF sCall = "send_data" THEN Data(sequence_number, chunk) ELSE Close

ExpectAck == IF sCall = "send_data" THEN sequence_number ELSE 4

\* One turn of send_until_acked's loop: the expected ACK ends it and the
\* operation that called it; any other segment sends the outstanding one again.
SendUntilAckedReceive ==
  /\ sCall \in {"send_data", "close_connection"}
  /\ \E i \in Deliverable(r2s) :
       /\ r2s' = Without(r2s, i)
       /\ IF IsAck(r2s[i], ExpectAck)
          THEN /\ IF sCall = "send_data"
                  THEN /\ sequence_number' = 1 - sequence_number
                       /\ sState' = "WAIT_SEND"
                       /\ sCall' = "app"
                  ELSE /\ sState' = "CLOSED"
                       /\ sCall' = "done"
                       /\ UNCHANGED sequence_number
               /\ UNCHANGED s2r
          ELSE /\ s2r' = Send(s2r, Outstanding)
               /\ UNCHANGED <<sState, sCall, sequence_number>>
  /\ UNCHANGED <<chunk, receiver>>

SendUntilAckedTimeout ==
  /\ sCall \in {"send_data", "close_connection"}
  /\ s2r' = Send(s2r, Outstanding)
  /\ UNCHANGED <<sender, receiver, r2s>>

-----------------------------------------------------------------------------
(* The receiver's program and its socket. *)

\* accept_connection's first loop, which waits without a timeout.
AcceptConn ==
  /\ rCall = "accept_conn"
  /\ \E i \in Deliverable(s2r) :
       /\ s2r' = Without(s2r, i)
       /\ IF s2r[i].type = "CONN"
          THEN /\ rCall' = "accept_ack3"
               /\ r2s' = Send(r2s, Ack(2))
          ELSE UNCHANGED <<rCall, r2s>>
  /\ UNCHANGED <<sender, rState, delivered>>

\* accept_connection's second loop.  ACK 3 ends it and receiver.cpp calls
\* receive_data; a CONN is answered again; DATA and CLOSE are ignored.
AcceptAck3 ==
  /\ rCall = "accept_ack3"
  /\ \E i \in Deliverable(s2r) :
       /\ s2r' = Without(s2r, i)
       /\ \/ /\ IsAck(s2r[i], 3)
             /\ rState' = "WAIT_DATA0"
             /\ rCall' = "receive_data"
             /\ UNCHANGED r2s
          \/ /\ s2r[i].type = "CONN"
             /\ r2s' = Send(r2s, Ack(2))
             /\ UNCHANGED <<rState, rCall>>
          \/ /\ s2r[i].type # "CONN" /\ ~IsAck(s2r[i], 3)
             /\ UNCHANGED <<rState, rCall, r2s>>
  /\ UNCHANGED <<sender, delivered>>

AcceptTimeout ==
  /\ rCall = "accept_ack3"
  /\ r2s' = Send(r2s, Ack(2))
  /\ UNCHANGED <<sender, receiver, s2r>>

ExpectedSeq == IF rState = "WAIT_DATA0" THEN 0 ELSE 1

\* Mutants: the state does not flip after a chunk; the sequence number is not
\* compared.
ReceiveExpectedNoFlip(segment) ==
  /\ segment.type = "DATA" /\ segment.seq = ExpectedSeq
  /\ r2s' = Send(r2s, Ack(ExpectedSeq))
  /\ delivered' = Append(delivered, segment.payload)
  /\ rCall' = IF IsEmptyChunk(segment.payload) THEN "app" ELSE rCall
  /\ UNCHANGED rState

ReceiveAnyData(segment) ==
  /\ segment.type = "DATA"
  /\ r2s' = Send(r2s, Ack(segment.seq))
  /\ rState' = IF segment.seq = 0 THEN "WAIT_DATA1" ELSE "WAIT_DATA0"
  /\ delivered' = Append(delivered, segment.payload)
  /\ rCall' = IF IsEmptyChunk(segment.payload) THEN "app" ELSE rCall

\* receive_data on DATA with the expected sequence number.  receiver.cpp writes
\* the payload and calls receive_data again, unless the payload is empty: it
\* takes a return value of 0 for the end of the transfer.
ReceiveExpected(segment) ==
  /\ segment.type = "DATA" /\ segment.seq = ExpectedSeq
  /\ r2s' = Send(r2s, Ack(ExpectedSeq))
  /\ rState' = IF rState = "WAIT_DATA0" THEN "WAIT_DATA1" ELSE "WAIT_DATA0"
  /\ delivered' = Append(delivered, segment.payload)
  /\ rCall' = IF IsEmptyChunk(segment.payload) THEN "app" ELSE rCall

\* Mutants: a duplicate is answered with the expected number, or not at all.
ReceiveDuplicateWrongAck(segment) ==
  /\ segment.type = "DATA" /\ segment.seq # ExpectedSeq
  /\ r2s' = Send(r2s, Ack(ExpectedSeq))
  /\ UNCHANGED receiver

ReceiveDuplicateSilently(segment) ==
  /\ segment.type = "DATA" /\ segment.seq # ExpectedSeq
  /\ UNCHANGED <<receiver, r2s>>

\* receive_data on DATA with the other sequence number: the last ACK again.
ReceiveDuplicate(segment) ==
  /\ segment.type = "DATA" /\ segment.seq # ExpectedSeq
  /\ r2s' = Send(r2s, Ack(1 - ExpectedSeq))
  /\ UNCHANGED receiver

\* Mutant: the state does not become CLOSING.
ReceiveCloseNoState(segment) ==
  /\ segment.type = "CLOSE"
  /\ r2s' = Send(r2s, Ack(4))
  /\ rCall' = "app"
  /\ UNCHANGED <<rState, delivered>>

\* receive_data on CLOSE returns 0, which ends receiver.cpp's loop.
ReceiveClose(segment) ==
  /\ segment.type = "CLOSE"
  /\ r2s' = Send(r2s, Ack(4))
  /\ rState' = "CLOSING"
  /\ rCall' = "app"
  /\ UNCHANGED delivered

\* receive_data on any other segment (a late CONN or ACK 3) waits on.
ReceiveIgnored(segment) ==
  /\ segment.type \notin {"DATA", "CLOSE"}
  /\ UNCHANGED <<receiver, r2s>>

\* One turn of receive_data's loop, which waits without a timeout.
ReceiveData ==
  /\ rCall = "receive_data"
  /\ \E i \in Deliverable(s2r) :
       /\ s2r' = Without(s2r, i)
       /\ \/ ReceiveExpected(s2r[i])
          \/ ReceiveDuplicate(s2r[i])
          \/ ReceiveClose(s2r[i])
          \/ ReceiveIgnored(s2r[i])
  /\ UNCHANGED sender

\* close_connection called by receiver.cpp: after a CLOSE it lingers for two
\* seconds, in any other state it only closes the socket.
ReceiverClose ==
  /\ rCall = "app"
  /\ rCall' = IF rState = "CLOSING" THEN "close_connection" ELSE "done"
  /\ UNCHANGED <<sender, rState, delivered, s2r, r2s>>

\* The linger loop answers a repeated CLOSE and ignores everything else.
LingerReceive ==
  /\ rCall = "close_connection"
  /\ \E i \in Deliverable(s2r) :
       /\ s2r' = Without(s2r, i)
       /\ r2s' = IF s2r[i].type = "CLOSE" THEN Send(r2s, Ack(4)) ELSE r2s
  /\ UNCHANGED <<sender, receiver>>

LingerTimeout ==
  /\ rCall = "close_connection"
  /\ rState' = "CLOSED"
  /\ rCall' = "done"
  /\ UNCHANGED <<sender, delivered, s2r, r2s>>

-----------------------------------------------------------------------------
(* The network, and the whole system. *)

LoseToReceiver ==
  /\ \E i \in Droppable(s2r) : s2r' = Without(s2r, i)
  /\ UNCHANGED <<sender, receiver, r2s>>

LoseToSender ==
  /\ \E i \in Droppable(r2s) : r2s' = Without(r2s, i)
  /\ UNCHANGED <<sender, receiver, s2r>>

\* Both programs have returned from main.
Terminated ==
  /\ sCall = "done" /\ rCall = "done"
  /\ UNCHANGED vars

Init ==
  /\ sState = "INIT" /\ sCall = "app"
  /\ sequence_number = 0 /\ chunk = 0
  /\ rState = "INIT" /\ rCall = "accept_conn"
  /\ delivered = <<>>
  /\ s2r = <<>> /\ r2s = <<>>

SenderNext ==
  \/ Connect \/ ConnectReceive \/ ConnectTimeout
  \/ SendData \/ SenderClose
  \/ SendUntilAckedReceive \/ SendUntilAckedTimeout

ReceiverNext ==
  \/ AcceptConn \/ AcceptAck3 \/ AcceptTimeout
  \/ ReceiveData
  \/ ReceiverClose \/ LingerReceive \/ LingerTimeout

Next ==
  \/ SenderNext
  \/ ReceiverNext
  \/ LoseToReceiver \/ LoseToSender
  \/ Terminated

Spec == Init /\ [][Next]_vars

-----------------------------------------------------------------------------
(***************************************************************************)
(* Fairness.  A program that is not blocked goes on.  The network drops    *)
(* some of the segments but not all of them, so a program that is sent     *)
(* segments again and again receives one in the end (strong fairness).     *)
(* SO_RCVTIMEO ends a receive for sure only when nothing arrives, so a     *)
(* timeout is promised only while the channel is empty.                    *)
(***************************************************************************)
SenderReceives == ConnectReceive \/ SendUntilAckedReceive
SenderTimesOut == r2s = <<>> /\ (ConnectTimeout \/ SendUntilAckedTimeout)
SenderRuns == Connect \/ SendData \/ SenderClose

ReceiverReceives == AcceptConn \/ AcceptAck3 \/ ReceiveData \/ LingerReceive
ReceiverTimesOut == s2r = <<>> /\ (AcceptTimeout \/ LingerTimeout)

Fairness ==
  /\ WF_vars(SenderRuns)
  /\ WF_vars(SenderTimesOut)
  /\ SF_vars(SenderReceives)
  /\ WF_vars(ReceiverClose)
  /\ WF_vars(ReceiverTimesOut)
  /\ SF_vars(ReceiverReceives)

FairSpec == Spec /\ Fairness

-----------------------------------------------------------------------------
(* Properties. *)

\* Every field has a value the code can give it, and no direction holds more
\* than its capacity.
TypeOK ==
  /\ sState \in connection_status /\ rState \in connection_status
  /\ sCall \in {"app", "connect_to_remote", "send_data", "close_connection",
                "done"}
  /\ rCall \in {"accept_conn", "accept_ack3",
                "receive_data", "app", "close_connection", "done"}
  /\ sequence_number \in 0..1
  /\ chunk \in 0..NumChunks
  /\ delivered \in Seq(1..NumChunks)
  /\ s2r \in Seq(RDTSegment) /\ Len(s2r) <= Cap
  /\ r2s \in Seq(RDTSegment) /\ Len(r2s) <= Cap

\* What receive_data returned is a prefix of what send_data was given: nothing
\* lost, doubled or out of order, whatever was retransmitted.
OutputIsPrefix ==
  /\ Len(delivered) <= chunk
  /\ \A i \in DOMAIN delivered : delivered[i] = i

\* When send_data returns, its chunk is out at the other side: the ACK that
\* ended it was never an old one for an earlier chunk with the same bit.
SendReturnsAfterDelivery ==
  Len(delivered) \in IF sCall = "send_data" THEN {chunk - 1, chunk} ELSE {chunk}

\* Neither program ends, and the receiver takes no CLOSE, before the whole
\* file is out.
CompleteAtTheEnd ==
  \/ sCall = "done" \/ rState \in {"CLOSING", "CLOSED"}
  \/ rCall \in {"app", "close_connection", "done"}
  => Len(delivered) = NumChunks

\* The sender finishes only after the receiver took its CLOSE: ACK 4 is never
\* anything else's answer.
CloseIsAnswered == sCall = "done" => rState \in {"CLOSING", "CLOSED"}

\* receive_data returns a chunk only while the sender is still inside the
\* send_data call for that chunk; a late duplicate is never taken for a new one.
AcceptsTheOutstandingChunk ==
  [][delivered' # delivered =>
       sCall = "send_data" /\ delivered' = Append(delivered, chunk)]_vars

\* Once the receiver has left accept_connection, it ends, and it ends with the
\* whole file written.
EstablishedCompletes ==
  rState = "WAIT_DATA0" ~> rCall = "done" /\ Len(delivered) = NumChunks

\* Once connect_to_remote has returned, the other side's accept_connection
\* returns too.
HandshakeCompletes == sState = "WAIT_SEND" ~> rState # "INIT"

\* Once the receiver has ended, the sender's program ends too.
SenderFollows == rCall = "done" ~> sCall = "done"

\* The chunks whose send_data has returned.
Acked == IF sCall = "send_data" THEN chunk - 1 ELSE chunk

\* What the two ends make of the receiver's state, in FileTransfer's words.
TransferPhase ==
  CASE rState = "CLOSING" -> "closing"
    [] rState = "CLOSED" -> "closed"
    [] rState \notin {"CLOSING", "CLOSED"} /\ rCall = "done" -> "cut"
    [] rState \notin {"CLOSING", "CLOSED"} /\ rCall # "done" -> "open"

\* The abstract transfer that this system implements.
Transfer == INSTANCE FileTransfer WITH
  out <- delivered,
  acked <- Acked,
  phase <- TransferPhase,
  finished <- sCall = "done"

\* Every step of the two programs and the network is a step of FileTransfer or
\* changes nothing there.
ImplementsFileTransfer == Transfer!AbstractSpec

-----------------------------------------------------------------------------
(***************************************************************************)
(* The inductive invariant behind the safety properties, for a network     *)
(* that keeps the order.  It relates the bit on every segment under way to *)
(* the number of chunks already out.                                       *)
(***************************************************************************)

\* The receiver has not taken a CLOSE.
NoCloseTaken == rState \in {"INIT", "WAIT_DATA0", "WAIT_DATA1"}

\* The bit of the chunk that is to come out next, and of the last one out.
NextBit == IF rState = "WAIT_DATA1" THEN 1 ELSE 0
LastBit == 1 - NextBit

IsDataAck(segment) == segment.type = "ACK" /\ segment.ack \in 0..1

\* Where each program can be, and how far the transfer is when it is there.
ControlInv ==
  /\ sState = "INIT" \/ sCall = "connect_to_remote" => chunk = 0
  /\ sCall = "send_data" => chunk > 0
  /\ sCall \in {"close_connection", "done"} => chunk = NumChunks
  /\ sCall = "done" => ~NoCloseTaken
  /\ rCall \in {"accept_conn", "accept_ack3"}
       <=> rState = "INIT"
  /\ rState = "INIT" => delivered = <<>>
  /\ rCall = "receive_data" => rState \in {"WAIT_DATA0", "WAIT_DATA1"}
  /\ rCall = "close_connection" => rState = "CLOSING"
  /\ rState = "CLOSED" => rCall = "done"
  /\ rCall = "done" => rState # "CLOSING"
  /\ rCall \in {"app", "done"} /\ NoCloseTaken => LastChunkEmpty
  /\ ~NoCloseTaken =>
       rState \in {"CLOSING", "CLOSED"} /\ sCall \in {"close_connection", "done"}
  /\ rCall \in {"app", "close_connection", "done"} => Len(delivered) = NumChunks

\* The two programs are at most one chunk apart, and the sender's bit tells
\* whether the outstanding chunk is out.
ProgressInv ==
  /\ Len(delivered) \in {Acked, chunk}
  /\ NoCloseTaken => (sequence_number = NextBit <=> Len(delivered) = Acked)

\* DATA on its way is for the last chunk out or for the next, in that order,
\* and its bit tells which; CLOSE is there only after the last chunk.
ToReceiverInv ==
  /\ \A i \in DOMAIN s2r :
       /\ s2r[i].type = "DATA" =>
            /\ s2r[i].payload \in Len(delivered)..chunk
            /\ NoCloseTaken =>
                 (s2r[i].seq = NextBit <=> s2r[i].payload = Len(delivered) + 1)
       /\ s2r[i].type = "CLOSE" => sCall \in {"close_connection", "done"}
  /\ \A i, j \in DOMAIN s2r :
       i < j /\ s2r[i].type = "DATA" /\ s2r[j].type = "DATA"
         => s2r[i].payload <= s2r[j].payload

\* An ACK with the last bit is behind all those with the other one, and only
\* that bit is left once the sender has seen it; ACK 4 answers a CLOSE.
ToSenderInv ==
  /\ \A i \in DOMAIN r2s : IsAck(r2s[i], 4) => ~NoCloseTaken
  /\ NoCloseTaken =>
       /\ \A i \in DOMAIN r2s : IsDataAck(r2s[i]) =>
            /\ Len(delivered) > 0
            /\ Len(delivered) = Acked => r2s[i].ack = LastBit
       /\ \A i, j \in DOMAIN r2s :
            i < j /\ IsDataAck(r2s[i]) /\ IsDataAck(r2s[j]) /\ r2s[i].ack = LastBit
              => r2s[j].ack = LastBit

\* The alternating-bit argument in one formula: what the bits under way say.
\* It fails as soon as the network reorders.
IInv ==
  /\ TypeOK
  /\ \A i \in DOMAIN delivered : delivered[i] = i
  /\ ControlInv
  /\ ProgressInv
  /\ ToReceiverInv
  /\ ToSenderInv
=============================================================================
