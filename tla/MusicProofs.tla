---------------------------- MODULE MusicProofs ----------------------------
(***************************************************************************)
(* Proofs about MusicServer, for any clients and requests, and any sizes   *)
(* of texts, songs, chunks and socket buffers.                             *)
(*                                                                         *)
(* The properties become inductive with three more facts: the loop, while  *)
(* it sends, has a sender and at most one to follow (LoopInv); whatever    *)
(* may end the server has its cause with the client it comes from          *)
(* (CauseInv); and the sender of a connection's only answer goes on where  *)
(* the bytes sent so far end (OrderInv).                                   *)
(*                                                                         *)
(* Where a connection is used again, old senders stay and epoll may call   *)
(* them; TurnInv, at the end, says that they have nothing left to send     *)
(* when the next request is received, and follows the answer that has its  *)
(* turn from the request to the last byte.                                 *)
(***************************************************************************)
EXTENDS MusicServer, FiniteSetTheorems, SequenceTheorems, TLAPS

LoopInv ==
  /\ at = "send_with_sender" => current # NoSender
  /\ Len(following) <= 1 /\ \A i \in DOMAIN following : following[i] # NoSender
  /\ \A c \in Clients : Room - room[c] <= Len(out[c])

\* c hung up, or sent something else than whole requests for texts.
Cause(c) ==
  \/ c \in hungUp \cup parted
  \/ \E i \in DOMAIN asked[c] : asked[c][i] \notin TextCommand

\* Requests, senders and a shut connection show what was asked for.
ClientCause(c) ==
  /\ \A i \in DOMAIN inbox[c] : inbox[c][i] \notin TextCommand => Cause(c)
  /\ shut[c] => Cause(c)
  /\ sender[c].kind = "song" => Cause(c)

\* So do the senders that the loop works with; it resumes sending only for a client
\* with a sender or a cause.
LoopCause ==
  /\ at = "send_with_sender" =>
       /\ current.kind = "song" => Cause(fd)
       /\ \A i \in DOMAIN following : following[i].kind = "song" => Cause(fd)
       /\ outEvent => sender[fd] # NoSender
  /\ at = "resume_sending" => sender[fd] # NoSender \/ Cause(fd)
  /\ at = "down" => \E c \in Clients : Cause(c) \/ c \in accepted \ clients

CauseInv == LoopCause /\ \A c \in Clients : ClientCause(c)

Serving(c) == at = "send_with_sender" /\ fd = c

\* The kind and length of an answer's body fit the only request of c.
Fits(c, kind, len) ==
  \A command \in SureText : OnlyAsked(c, command) => kind = "text" /\ len = TextLen(command)

\* s is the sender of a body, and its position is where the bytes sent so far end.
GoesOn(c, s) ==
  /\ s.kind \in {"text", "song"} /\ Fits(c, s.kind, s.len)
  /\ \A i \in DOMAIN out[c] : out[c][i] <= s.pos
  /\ \A command \in SureText :
       OnlyAsked(c, command) => s.done = s.pos /\ Len(out[c]) = s.pos + 1

\* The header of the answer to c is sent, and the body will follow.
Announced(c) ==
  /\ current.kind = "header" /\ current.len = 1 /\ current.pos = current.done
  /\ out[c] = IF current.done = 0 THEN <<>> ELSE <<0>>
  /\ \E kind \in {"text", "song"}, len \in {ListLen, InfoLen, SongLen} :
       following = <<NewSender(kind, len)>> /\ Fits(c, kind, len)

Unanswered(c) ==
  inbox[c] = asked[c] /\ out[c] = <<>> /\ sender[c] = NoSender /\ ~Serving(c)

Answered(c) ==
  /\ asked[c] # <<>> /\ inbox[c] \in {<<>>, <<Rest>>}
  /\ Serving(c) =>
       /\ sender[c] = NoSender
       /\ Announced(c) \/ (following = <<>> /\ GoesOn(c, current))
  /\ ~Serving(c) => sender[c] = NoSender \/ GoesOn(c, sender[c])

Increasing(s) == \A i, j \in DOMAIN s : i < j => s[i] < s[j]

\* What was sent to c is right if c asked once.
InOrder(c) ==
  /\ Increasing(out[c])
  /\ \A command \in SureText : OnlyAsked(c, command) => IsPrefixOf(out[c], TextAnswer(command))

AnswerInv(c) ==
  Len(asked[c]) <= 1 => (Unanswered(c) \/ Answered(c)) /\ InOrder(c)

OrderInv == \A c \in Clients : AnswerInv(c)

IInv == TypeOK /\ LoopInv /\ SenderMatchesState /\ CauseInv /\ OrderInv

-----------------------------------------------------------------------------
(* The senders. *)

\* The fields of a sender; a null pointer has nothing to send.
LEMMA SenderFields ==
  ASSUME NEW s \in Sender
  PROVE  /\ s.len \in Nat /\ s.done \in Nat /\ s.pos \in Nat /\ s.done <= s.len
         /\ s.kind \in Kinds \cup {"none"}
         /\ s = NoSender => s.kind = "none" /\ s.len = 0 /\ s.done = 0
         /\ s # NoSender => s.kind \in Kinds
  BY MusicAssumption DEF Sender, NoSender, Kinds

\* What is a sender, field by field.
LEMMA SenderMade ==
  ASSUME NEW kind \in Kinds, NEW len \in {1, ListLen, InfoLen, SongLen},
         NEW done \in Nat, NEW pos \in Nat, done <= len
  PROVE  /\ [kind |-> kind, len |-> len, done |-> done, pos |-> pos] \in Sender
         /\ [kind |-> kind, len |-> len, done |-> done, pos |-> pos] # NoSender
<1>1. kind # "none"
  BY DEF Kinds
<1>2. QED
  BY <1>1 DEF Sender, NoSender

LEMMA NewSenderMade ==
  ASSUME NEW kind \in Kinds, NEW len \in {1, ListLen, InfoLen, SongLen}
  PROVE  NewSender(kind, len) \in Sender \ {NoSender}
<1>1. 0 <= len /\ 0 \in Nat
  BY MusicAssumption
<1>2. QED
  BY <1>1, SenderMade DEF NewSender

\* A chunk is no larger than what is left, and an array is read in whole chunks.
LEMMA ChunkFacts ==
  ASSUME NEW s \in Sender
  PROVE  /\ InChunk(s) \in 0..(s.len - s.done)
         /\ Read(s) \in 0..InChunk(s)
         /\ s.kind # "song" => Read(s) = InChunk(s)
         /\ Finished(s) <=> s.done = s.len
         /\ s = NoSender => Finished(s)
         /\ Exits(s) => s.kind = "song"
         /\ Read(s) > 0 => s # NoSender /\ ~Finished(s)
<1>1. /\ s.len \in Nat /\ s.done \in Nat /\ s.pos \in Nat /\ s.done <= s.len
      /\ s = NoSender => s.len = 0 /\ s.done = 0
  BY SenderFields
<1>2. InChunk(s) \in 0..(s.len - s.done) /\ (InChunk(s) = 0 <=> s.done = s.len)
  BY <1>1, ChunkAssumption DEF InChunk, Smaller
<1>3. Read(s) \in 0..InChunk(s) /\ (s.kind # "song" => Read(s) = InChunk(s))
  BY <1>1, <1>2 DEF Read, Smaller
<1>4. QED
  BY <1>1, <1>2, <1>3 DEF Finished, Exits

\* The socket takes at least one byte if it has room, and no more than it has.
LEMMA AcceptedFacts ==
  ASSUME NEW s \in Sender, NEW r \in Nat, r > 0, Read(s) > 0
  PROVE  Accepted(s, r) \in 1..r /\ Accepted(s, r) \in 1..Read(s)
  BY ChunkFacts, SenderFields DEF Accepted, Smaller

\* After a send the sender is further on by what was sent; only a song's position
\* may be further than that.
LEMMA AfterSendFacts ==
  ASSUME NEW s \in Sender \ {NoSender}, NEW n \in 1..Read(s)
  PROVE  /\ AfterSend(s, n) \in Sender \ {NoSender}
         /\ AfterSend(s, n).kind = s.kind /\ AfterSend(s, n).len = s.len
         /\ AfterSend(s, n).done = s.done + n
         /\ AfterSend(s, n).pos >= s.pos + n
         /\ s.kind # "song" => AfterSend(s, n).pos = s.pos + n
<1>1. /\ s.len \in Nat /\ s.done \in Nat /\ s.pos \in Nat /\ s.done <= s.len
      /\ s.kind \in Kinds
      /\ InChunk(s) \in 0..(s.len - s.done) /\ Read(s) \in 0..InChunk(s)
      /\ s.kind # "song" => Read(s) = InChunk(s)
  BY SenderFields, ChunkFacts
<1>2. s \in [kind : Kinds, len : {1, ListLen, InfoLen, SongLen}, done : Nat, pos : Nat]
  BY DEF Sender
<1> DEFINE p == IF n < Read(s) THEN Seek(s, s.pos + n) ELSE s.pos + n
<1>3. p \in Nat /\ p >= s.pos + n /\ (s.kind # "song" => p = s.pos + n)
  BY <1>1 DEF Seek
<1> DEFINE t == [s EXCEPT !.done = s.done + n]
<1>4. AfterSend(s, n) = [kind |-> s.kind, len |-> s.len, done |-> s.done + n, pos |-> p]
  <2>1. t = [kind |-> s.kind, len |-> s.len, done |-> s.done + n, pos |-> s.pos]
    BY <1>2
  <2>2. t.pos = s.pos
    BY <2>1
  <2>3. AfterSend(s, n) = [t EXCEPT !.pos = p]
    BY <2>2 DEF AfterSend
  <2> HIDE DEF p, t
  <2>4. QED
    BY <2>1, <2>3
<1>5. s.done + n \in Nat /\ s.done + n <= s.len
  BY <1>1
<1> HIDE DEF p
<1>6. AfterSend(s, n) \in Sender \ {NoSender}
  BY <1>1, <1>2, <1>3, <1>4, <1>5, SenderMade
<1>7. QED
  BY <1>3, <1>4, <1>6

\* A refused send changes nothing but the position of a song, which moves forward.
LEMMA AfterBlockFacts ==
  ASSUME NEW s \in Sender \ {NoSender}
  PROVE  /\ AfterBlock(s) \in Sender \ {NoSender}
         /\ AfterBlock(s).kind = s.kind /\ AfterBlock(s).len = s.len
         /\ AfterBlock(s).pos >= s.pos
         /\ s.kind # "song" => AfterBlock(s) = s
<1>1. CASE s.kind # "song"
  BY <1>1, SenderFields DEF AfterBlock
<1>2. CASE s.kind = "song"
  <2>1. /\ s.len \in Nat /\ s.done \in Nat /\ s.pos \in Nat /\ s.done <= s.len
        /\ s.kind \in Kinds /\ Read(s) \in Nat
    BY SenderFields, ChunkFacts
  <2>2. s \in [kind : Kinds, len : {1, ListLen, InfoLen, SongLen}, done : Nat, pos : Nat]
    BY DEF Sender
  <2> DEFINE p == Seek(s, s.pos + 2 * Read(s))
  <2>3. p \in Nat /\ p >= s.pos
    BY <2>1 DEF Seek
  <2>4. AfterBlock(s) = [kind |-> s.kind, len |-> s.len, done |-> s.done, pos |-> p]
    BY <1>2, <2>2 DEF AfterBlock
  <2> HIDE DEF p
  <2>5. AfterBlock(s) \in Sender \ {NoSender}
    BY <2>1, <2>2, <2>3, <2>4, SenderMade
  <2>6. QED
    BY <1>2, <2>3, <2>4, <2>5
<1>3. QED
  BY <1>1, <1>2

\* The bytes of a chunk are numbers, and follow the position of the sender.
LEMMA BytesFacts ==
  ASSUME NEW s \in Sender, NEW n \in Nat
  PROVE  /\ Bytes(s, n) \in Seq(Nat) /\ Len(Bytes(s, n)) = n
         /\ \A i \in 1..n : Bytes(s, n)[i] = IF s.kind = "header" THEN 0 ELSE s.pos + i
<1>1. s.pos \in Nat
  BY SenderFields
<1>2. \A i \in 1..n : (IF s.kind = "header" THEN 0 ELSE s.pos + i) \in Nat
  BY <1>1
<1>3. QED
  BY <1>2 DEF Bytes

\* The answer with a text: its header, and its bytes in order.
LEMMA TextAnswerFacts ==
  ASSUME NEW command \in TextCommand
  PROVE  /\ TextLen(command) \in Nat /\ TextLen(command) \in {ListLen, InfoLen}
         /\ Len(TextAnswer(command)) = 1 + TextLen(command)
         /\ \A i \in 1..(1 + TextLen(command)) : TextAnswer(command)[i] = i - 1
<1>1. TextLen(command) \in Nat /\ TextLen(command) \in {ListLen, InfoLen}
  BY MusicAssumption DEF TextLen
<1> DEFINE body == [i \in 1..TextLen(command) |-> i]
<1>2. /\ body \in Seq(Nat) /\ Len(body) = TextLen(command)
      /\ \A i \in 1..TextLen(command) : body[i] = i
  BY <1>1
<1>3. <<0>> \in Seq(Nat) /\ Len(<<0>>) = 1 /\ <<0>>[1] = 0
  OBVIOUS
<1>4. TextAnswer(command) = <<0>> \o body
  BY DEF TextAnswer
<1> HIDE DEF body
<1>5. QED
  BY <1>1, <1>2, <1>3, <1>4

\* Nothing is in order, whatever was asked for.
LEMMA NothingInOrder ==
  /\ Increasing(<<>>)
  /\ \A command \in SureText : IsPrefixOf(<<>>, TextAnswer(command))
  BY TextAnswerFacts DEF Increasing, IsPrefixOf, SureText

-----------------------------------------------------------------------------
(* What a step that leaves a client alone leaves as it was. *)

\* Causes stay: clients do not take back what they did.
LEMMA CauseKept ==
  ASSUME NEW c \in Clients, Cause(c), TypeOK,
         hungUp \subseteq hungUp', parted \subseteq parted',
         asked'[c] = asked[c] \/ \E command \in Command : asked'[c] = Append(asked[c], command)
  PROVE  Cause(c)'
<1>1. asked[c] \in Seq(Command)
  BY DEF TypeOK
<1>2. CASE c \in hungUp \cup parted
  BY <1>2 DEF Cause
<1>3. CASE \E i \in DOMAIN asked[c] : asked[c][i] \notin TextCommand
  <2>1. PICK i \in DOMAIN asked[c] : asked[c][i] \notin TextCommand
    BY <1>3
  <2>2. i \in DOMAIN asked'[c] /\ asked'[c][i] = asked[c][i]
    BY <1>1, <2>1
  <2>3. QED
    BY <2>1, <2>2 DEF Cause
<1>4. QED
  BY <1>2, <1>3 DEF Cause

\* The answer to c is what it was if nothing of c changes and c is not being served,
\* or the loop stays where it is.
LEMMA AnswerKept ==
  ASSUME NEW c \in Clients, AnswerInv(c),
         asked'[c] = asked[c], inbox'[c] = inbox[c],
         out'[c] = out[c], sender'[c] = sender[c],
         \/ ~Serving(c) /\ ~Serving(c)'
         \/ UNCHANGED <<at, fd, current, following>>
  PROVE  AnswerInv(c)'
<1>1. InOrder(c)' <=> InOrder(c)
  BY DEF InOrder, OnlyAsked
<1>2. CASE ~Serving(c) /\ ~Serving(c)'
  <2>1. GoesOn(c, sender[c]) => GoesOn(c, sender[c])'
    BY DEF GoesOn, Fits, OnlyAsked
  <2>2. QED
    BY <1>1, <1>2, <2>1 DEF AnswerInv, Unanswered, Answered
<1>3. CASE UNCHANGED <<at, fd, current, following>>
  <2>1. Serving(c)' <=> Serving(c)
    BY <1>3 DEF Serving
  <2>2. /\ GoesOn(c, sender[c]) => GoesOn(c, sender[c])'
        /\ GoesOn(c, current) => GoesOn(c, current)'
    BY <1>3 DEF GoesOn, Fits, OnlyAsked
  <2>3. Announced(c) => Announced(c)'
    BY <1>3 DEF Announced, Fits, OnlyAsked
  <2>4. QED
    BY <1>1, <1>3, <2>1, <2>2, <2>3 DEF AnswerInv, Unanswered, Answered
<1>4. QED
  BY <1>2, <1>3

-----------------------------------------------------------------------------
(* Steps of the clients. *)

\* A request is written.
LEMMA AskStep ==
  ASSUME IInv, NEW c \in Clients, NEW command \in Command, Ask(c, command),
         UNCHANGED <<loopVars, connVars, wireVars, hungUp, parted>>
  PROVE  IInv'
<1> USE DEF Ask, loopVars, connVars, sendingVars, wireVars
<1>1. command # Rest
  BY DEF Command, TextCommand, Rest
<1>2. TypeOK'
  <2>1. inbox \in [Clients -> Seq(Command \cup {Rest})] /\ asked \in [Clients -> Seq(Command)]
    BY DEF IInv, TypeOK
  <2>2. inbox' \in [Clients -> Seq(Command \cup {Rest})]
    BY <2>1
  <2>3. asked' \in [Clients -> Seq(Command)]
    BY <2>1
  <2>4. turn' \in [Clients -> Nat \cup {NoTurn}]
    <3>1. Len(out[c]) \in Nat /\ turn \in [Clients -> Nat \cup {NoTurn}]
      BY DEF IInv, TypeOK
    <3>2. QED
      BY <3>1
  <2>5. QED
    BY <2>2, <2>3, <2>4 DEF IInv, TypeOK
<1>3. LoopInv' /\ SenderMatchesState'
  BY DEF IInv, LoopInv, SenderMatchesState
<1>4. /\ asked'[c] = Append(asked[c], command) /\ inbox'[c] = Append(inbox[c], command)
      /\ \A d \in Clients \ {c} : asked'[d] = asked[d] /\ inbox'[d] = inbox[d]
  BY DEF IInv, TypeOK
<1>5. ASSUME NEW d \in Clients, Cause(d) PROVE Cause(d)'
  BY <1>1, <1>4, <1>5, CauseKept DEF IInv
<1>6. LoopCause'
  <2>1. fd \in Clients
    BY DEF IInv, TypeOK
  <2>2. QED
    BY <1>5, <2>1 DEF IInv, CauseInv, LoopCause
<1>7. ASSUME NEW d \in Clients PROVE ClientCause(d)'
  <2>1. CASE d # c
    BY <1>4, <1>5, <2>1 DEF IInv, CauseInv, ClientCause
  <2>2. CASE d = c
    <3>1. /\ inbox[c] \in Seq(Command \cup {Rest}) /\ asked[c] \in Seq(Command)
      BY DEF IInv, TypeOK
    <3>2. command \notin TextCommand => Cause(c)'
      <4>1. Len(asked[c]) + 1 \in DOMAIN asked'[c] /\ asked'[c][Len(asked[c]) + 1] = command
        BY <1>1, <1>4, <3>1
      <4>2. QED
        BY <4>1 DEF Cause
    <3>3. ASSUME NEW i \in DOMAIN inbox'[c], inbox'[c][i] \notin TextCommand
          PROVE  Cause(c)'
      <4>1. CASE i \in DOMAIN inbox[c]
        BY <1>1, <1>4, <1>5, <3>1, <3>3, <4>1 DEF IInv, CauseInv, ClientCause
      <4>2. CASE i \notin DOMAIN inbox[c]
        BY <1>1, <1>4, <3>1, <3>2, <3>3, <4>2
      <4>3. QED
        BY <4>1, <4>2
    <3>4. (shut[c] => Cause(c)) /\ (sender[c].kind = "song" => Cause(c))
      BY DEF IInv, CauseInv, ClientCause
    <3>5. QED
      BY <1>5, <2>2, <3>3, <3>4 DEF ClientCause
  <2>3. QED
    BY <2>1, <2>2
<1>8. ASSUME NEW d \in Clients PROVE AnswerInv(d)'
  <2>1. CASE d # c
    BY <1>4, <2>1, AnswerKept DEF IInv, OrderInv
  <2>2. CASE d = c /\ asked[c] = <<>>
    <3>1. Unanswered(c)
      BY <2>2 DEF IInv, OrderInv, AnswerInv, Answered
    <3>2. Unanswered(c)'
      BY <1>4, <2>2, <3>1 DEF Unanswered, Serving
    <3>3. InOrder(c)'
      BY <3>2, NothingInOrder DEF Unanswered, InOrder
    <3>4. QED
      BY <2>2, <3>2, <3>3 DEF AnswerInv
  <2>3. CASE d = c /\ asked[c] # <<>>
    <3>1. Len(asked'[c]) > 1
      BY <1>1, <1>4, <2>3 DEF IInv, TypeOK
    <3>2. QED
      BY <2>3, <3>1 DEF AnswerInv, IInv, TypeOK
  <2>4. QED
    BY <2>1, <2>2, <2>3
<1>9. QED
  BY <1>2, <1>3, <1>6, <1>7, <1>8 DEF IInv, CauseInv, OrderInv

\* The client reads a byte.
LEMMA ReadStep ==
  ASSUME IInv, NEW c \in Clients, ReadByte(c)
  PROVE  IInv'
<1> USE DEF ReadByte, loopVars, connVars, sendingVars, clientVars
<1>1. TypeOK'
  <2>1. room[c] + 1 \in 0..Room
    BY MusicAssumption DEF IInv, TypeOK
  <2>2. room' \in [Clients -> 0..Room]
    BY <2>1 DEF IInv, TypeOK
  <2>3. QED
    BY <2>2 DEF IInv, TypeOK
<1>2. LoopInv'
  <2>1. \A d \in Clients : room'[d] \in Nat /\ room[d] \in Nat /\ room'[d] >= room[d]
    BY DEF IInv, TypeOK
  <2>2. \A d \in Clients : Len(out[d]) \in Nat
    BY DEF IInv, TypeOK
  <2>3. QED
    BY <2>1, <2>2, MusicAssumption DEF IInv, LoopInv
<1>3. SenderMatchesState' /\ CauseInv'
  BY DEF IInv, SenderMatchesState, CauseInv, LoopCause, ClientCause, Cause
<1>4. OrderInv'
  BY AnswerKept DEF IInv, OrderInv
<1>5. QED
  BY <1>1, <1>2, <1>3, <1>4 DEF IInv

\* Clients close their connections.
LEMMA HangUpStep ==
  ASSUME IInv, hungUp \subseteq hungUp', hungUp' \subseteq Clients,
         UNCHANGED <<loopVars, connVars, wireVars, inbox, asked, turn, parted>>
  PROVE  IInv'
<1> USE DEF loopVars, connVars, sendingVars, wireVars
<1>1. TypeOK'
  BY DEF IInv, TypeOK
<1>2. LoopInv' /\ SenderMatchesState'
  BY DEF IInv, LoopInv, SenderMatchesState
<1>3. \A c \in Clients : Cause(c) => Cause(c)'
  BY DEF Cause
<1>4. LoopCause'
  <2>1. fd \in Clients
    BY DEF IInv, TypeOK
  <2>2. QED
    BY <1>3, <2>1 DEF IInv, CauseInv, LoopCause
<1>5. \A c \in Clients : ClientCause(c)'
  BY <1>3 DEF IInv, CauseInv, ClientCause
<1>6. OrderInv'
  BY AnswerKept DEF IInv, OrderInv
<1>7. QED
  BY <1>1, <1>2, <1>4, <1>5, <1>6 DEF IInv, CauseInv

-----------------------------------------------------------------------------
(* Events that send nothing. *)

\* Where the loop does not go on sending, the answer to c stays right, whether c
\* keeps its sender or not.
LEMMA AnswerLeft ==
  ASSUME NEW c \in Clients, AnswerInv(c), at' # "send_with_sender",
         asked'[c] = asked[c], inbox'[c] = inbox[c], out'[c] = out[c],
         sender'[c] \in {sender[c], NoSender}
  PROVE  AnswerInv(c)'
<1>1. InOrder(c)' <=> InOrder(c)
  BY DEF InOrder, OnlyAsked
<1>2. GoesOn(c, sender[c]) /\ sender'[c] = sender[c] => GoesOn(c, sender[c])'
  BY DEF GoesOn, Fits, OnlyAsked
<1>3. ~Serving(c)'
  BY DEF Serving
<1>4. Unanswered(c) => Unanswered(c)'
  BY <1>3 DEF Unanswered
<1>5. Answered(c) => Answered(c)'
  BY <1>2, <1>3 DEF Answered
<1>6. QED
  BY <1>1, <1>4, <1>5 DEF AnswerInv

\* A new client.
LEMMA SetupStep ==
  ASSUME IInv, NEW c \in Clients, SetupNewClient(c)
  PROVE  IInv'
<1> USE DEF SetupNewClient, loopVars, wireVars, clientVars
<1>1. TypeOK'
  BY DEF IInv, TypeOK
<1>2. LoopInv' /\ SenderMatchesState' /\ CauseInv'
  BY DEF IInv, LoopInv, SenderMatchesState, CauseInv, LoopCause, ClientCause, Cause
<1>3. OrderInv'
  BY AnswerKept DEF IInv, OrderInv
<1>4. QED
  BY <1>1, <1>2, <1>3 DEF IInv

\* A client that could not be accepted.
LEMMA AcceptFailsStep ==
  ASSUME IInv, NEW c \in Clients, AcceptFails(c)
  PROVE  IInv'
<1> USE DEF AcceptFails, sendingVars, wireVars, clientVars
<1>1. TypeOK'
  BY DEF IInv, TypeOK
<1>2. LoopInv' /\ SenderMatchesState'
  BY DEF IInv, LoopInv, SenderMatchesState
<1>3. c \in accepted' \ clients'
  BY DEF IInv, TypeOK
<1>4. CauseInv'
  BY <1>3 DEF IInv, CauseInv, LoopCause, ClientCause, Cause
<1>5. OrderInv'
  BY AnswerKept DEF IInv, OrderInv, Serving
<1>6. QED
  BY <1>1, <1>2, <1>4, <1>5 DEF IInv

\* The sender of c is dropped or not, and with it the state and epoll's interest.
LEMMA DropFacts ==
  ASSUME IInv, NEW c \in Clients, DropSender(c)
  PROVE  /\ sender' \in [Clients -> Sender]
         /\ state' \in [Clients -> {"RECEIVING", "SENDING"}] /\ armed' \in [Clients -> BOOLEAN]
         /\ sender'[c] = NoSender
         /\ \A d \in Clients \ {c} : sender'[d] = sender[d]
         /\ SenderMatchesState'
<1>1. NoSender \in Sender
  BY DEF Sender
<1>2. /\ sender' \in [Clients -> Sender]
      /\ state' \in [Clients -> {"RECEIVING", "SENDING"}] /\ armed' \in [Clients -> BOOLEAN]
      /\ sender'[c] = NoSender /\ state'[c] = "RECEIVING" /\ armed'[c] = FALSE
      /\ \A d \in Clients \ {c} :
           sender'[d] = sender[d] /\ state'[d] = state[d] /\ armed'[d] = armed[d]
  BY <1>1 DEF IInv, TypeOK, DropSender
<1>3. SenderMatchesState'
  BY <1>2 DEF IInv, SenderMatchesState
<1>4. QED
  BY <1>2, <1>3

\* Nothing of a client's causes changes.
LEMMA SameCauses ==
  ASSUME NEW c \in Clients, UNCHANGED <<asked, turn, hungUp, parted>>
  PROVE  Cause(c)' <=> Cause(c)
  BY DEF Cause

\* An EPOLLRDHUP event.
LEMMA CloseStep ==
  ASSUME IInv, NEW c \in Clients, HandleClose(c)
  PROVE  IInv'
<1> USE DEF HandleClose, wireVars, clientVars
<1>1. /\ at' \in {"epoll_wait", "resume_sending"} /\ fd' = c
  BY DEF AfterInput
<1>2. TypeOK'
  BY <1>1, DropFacts DEF IInv, TypeOK
<1>3. LoopInv' /\ SenderMatchesState'
  BY <1>1, DropFacts DEF IInv, LoopInv
<1>4. Cause(c)
  BY DEF Cause
<1>5. LoopCause'
  BY <1>1, <1>4, SameCauses DEF LoopCause
<1>6. ASSUME NEW d \in Clients PROVE ClientCause(d)'
  <2>1. sender'[d] = sender[d] \/ sender'[d].kind = "none"
    BY DropFacts DEF NoSender
  <2>2. QED
    BY <2>1, SameCauses DEF IInv, CauseInv, ClientCause
<1>7. ASSUME NEW d \in Clients PROVE AnswerInv(d)'
  BY <1>1, DropFacts, AnswerLeft DEF IInv, OrderInv
<1>8. QED
  BY <1>2, <1>3, <1>5, <1>6, <1>7 DEF IInv, CauseInv, OrderInv

\* An EPOLLOUT event alone.
LEMMA DispatchStep ==
  ASSUME IInv, NEW c \in Clients, DispatchOutput(c)
  PROVE  IInv'
<1> USE DEF DispatchOutput, connVars, sendingVars, wireVars, clientVars
<1>1. at' = "resume_sending" /\ fd' = c
  OBVIOUS
<1>2. TypeOK' /\ LoopInv' /\ SenderMatchesState'
  BY <1>1 DEF IInv, TypeOK, LoopInv, SenderMatchesState
<1>3. sender[c] # NoSender
  BY DEF OutReady, IInv, SenderMatchesState
<1>4. LoopCause'
  BY <1>1, <1>3 DEF LoopCause
<1>5. ASSUME NEW d \in Clients PROVE ClientCause(d)'
  BY SameCauses DEF IInv, CauseInv, ClientCause
<1>6. ASSUME NEW d \in Clients PROVE AnswerInv(d)'
  BY <1>1, AnswerLeft DEF IInv, OrderInv
<1>7. QED
  BY <1>2, <1>4, <1>5, <1>6 DEF IInv, CauseInv, OrderInv

\* The process ends, for a reason that lies with some client.
LEMMA DownStep ==
  ASSUME IInv, at' = "down", \E c \in Clients : Cause(c)',
         UNCHANGED <<fd, outEvent, current, following, connVars, wireVars>>,
         UNCHANGED <<inbox, asked, turn, hungUp>>, parted \subseteq parted', parted' \subseteq Clients
  PROVE  IInv'
<1> USE DEF connVars, sendingVars, wireVars
<1>1. TypeOK' /\ LoopInv' /\ SenderMatchesState'
  BY DEF IInv, TypeOK, LoopInv, SenderMatchesState
<1>2. LoopCause'
  BY DEF LoopCause
<1>3. ASSUME NEW d \in Clients PROVE ClientCause(d)'
  <2>1. Cause(d) => Cause(d)'
    BY DEF Cause
  <2>2. QED
    BY <2>1 DEF IInv, CauseInv, ClientCause
<1>4. ASSUME NEW d \in Clients PROVE AnswerInv(d)'
  BY AnswerLeft DEF IInv, OrderInv
<1>5. QED
  BY <1>1, <1>2, <1>3, <1>4 DEF IInv, CauseInv, OrderInv

-----------------------------------------------------------------------------
(* Requests. *)

\* The first request in the socket, and what its kind says of the client.
LEMMA FirstRequest ==
  ASSUME IInv, NEW c \in Clients, InputReady(c)
  PROVE  /\ Head(inbox[c]) \in Command \cup {Rest}
         /\ Tail(inbox[c]) \in Seq(Command \cup {Rest})
         /\ Len(inbox[c]) \in Nat /\ Len(inbox[c]) > 0
         /\ Head(inbox[c]) \notin TextCommand => Cause(c)
         /\ \A i \in DOMAIN Tail(inbox[c]) : Tail(inbox[c])[i] \notin TextCommand => Cause(c)
<1>1. inbox[c] \in Seq(Command \cup {Rest}) /\ inbox[c] # <<>>
  BY DEF IInv, TypeOK, InputReady
<1>2. 1 \in DOMAIN inbox[c] /\ Head(inbox[c]) = inbox[c][1]
  BY <1>1
<1>3. \A i \in DOMAIN inbox[c] : inbox[c][i] \notin TextCommand => Cause(c)
  BY DEF IInv, CauseInv, ClientCause
<1>4. \A i \in DOMAIN Tail(inbox[c]) :
        i + 1 \in DOMAIN inbox[c] /\ Tail(inbox[c])[i] = inbox[c][i + 1]
  BY <1>1
<1>5. QED
  BY <1>1, <1>2, <1>3, <1>4

\* A sequence that is not empty and no longer than 1 has one element.
LEMMA SingletonSeq ==
  ASSUME NEW S, NEW s \in Seq(S), s # <<>>, Len(s) <= 1
  PROVE  s = <<Head(s)>> /\ Tail(s) = <<>>
<1>1. Len(s) \in Nat \ {0}
  BY EmptySeq
<1>2. Len(s) = 1
  BY <1>1
<1>3. Head(s) = s[1] /\ Tail(s) \in Seq(S) /\ Len(Tail(s)) = 0
  BY <1>2, HeadTailProperties
<1>4. Tail(s) = <<>>
  BY <1>3, EmptySeq
<1>5. s = <<Head(s)>>
  BY <1>2, <1>3
<1>6. QED
  BY <1>4, <1>5

\* A client that asked once, and whose request is there, was sent nothing yet.
LEMMA OnlyRequest ==
  ASSUME IInv, NEW c \in Clients, InputReady(c), Len(asked[c]) <= 1,
         Head(inbox[c]) # Rest
  PROVE  /\ Unanswered(c) /\ inbox[c] = <<Head(inbox[c])>> /\ asked[c] = <<Head(inbox[c])>>
         /\ Tail(inbox[c]) = <<>>
<1>1. inbox[c] # <<>>
  BY DEF InputReady
<1>2. CASE Answered(c)
  BY <1>1, <1>2 DEF Answered
<1>3. CASE Unanswered(c)
  <2>1. inbox[c] = asked[c] /\ asked[c] \in Seq(Command)
    BY <1>3 DEF Unanswered, IInv, TypeOK
  <2>2. QED
    BY <1>1, <1>3, <2>1, SingletonSeq
<1>4. QED
  BY <1>2, <1>3 DEF IInv, OrderInv, AnswerInv

\* STOP sends nothing; it may drop a sender.
LEMMA StopStep ==
  ASSUME IInv, NEW c \in Clients, HandleStop(c)
  PROVE  IInv'
<1> USE DEF HandleStop, HandleInput, sendingVars, wireVars
<1>1. /\ at' \in {"epoll_wait", "resume_sending"} /\ fd' = c
      /\ InputReady(c) /\ Head(inbox[c]) = "stop"
      /\ inbox'[c] = <<>> /\ \A d \in Clients \ {c} : inbox'[d] = inbox[d]
  BY DEF AfterInput, IInv, TypeOK
<1>2. /\ sender' \in [Clients -> Sender]
      /\ state' \in [Clients -> {"RECEIVING", "SENDING"}] /\ armed' \in [Clients -> BOOLEAN]
      /\ \A d \in Clients : sender'[d] \in {sender[d], NoSender}
      /\ SenderMatchesState'
  <2>1. CASE state[c] = "SENDING"
    BY <2>1, DropFacts
  <2>2. CASE state[c] # "SENDING"
    BY <2>2 DEF IInv, TypeOK, SenderMatchesState
  <2>3. QED
    BY <2>1, <2>2
<1>3. inbox' \in [Clients -> Seq(Command \cup {Rest})] /\ shut' \in [Clients -> BOOLEAN]
  <2>1. inbox \in [Clients -> Seq(Command \cup {Rest})] /\ shut \in [Clients -> BOOLEAN]
    BY DEF IInv, TypeOK
  <2>2. inbox' \in [Clients -> Seq(Command \cup {Rest})]
    BY <2>1
  <2>3. shut' \in [Clients -> BOOLEAN]
    BY <2>1
  <2>4. QED
    BY <2>2, <2>3
<1>4. TypeOK'
  <2>1. at' \in {"epoll_wait", "send_with_sender", "resume_sending", "down"} /\ fd' \in Clients
    BY <1>1
  <2>2. UNCHANGED <<outEvent, current, following, clients, accepted, hungUp, parted>>
        /\ UNCHANGED <<room, out, asked>>
    OBVIOUS
  <2>3. QED
    BY <1>2, <1>3, <2>1, <2>2 DEF IInv, TypeOK
<1>5. LoopInv'
  BY <1>1 DEF IInv, LoopInv
<1>6. Cause(c)
  BY <1>1, FirstRequest DEF TextCommand
<1>7. LoopCause'
  BY <1>1, <1>6, SameCauses DEF LoopCause
<1>8. ASSUME NEW d \in Clients PROVE ClientCause(d)'
  <2>1. sender'[d] = sender[d] \/ sender'[d].kind = "none"
    BY <1>2 DEF NoSender
  <2>2. CASE d = c
    BY <1>6, <2>2, SameCauses DEF ClientCause
  <2>3. CASE d # c
    <3>1. shut'[d] = shut[d] /\ inbox'[d] = inbox[d]
      BY <1>1, <2>3 DEF IInv, TypeOK
    <3>2. QED
      BY <2>1, <3>1, SameCauses DEF IInv, CauseInv, ClientCause
  <2>4. QED
    BY <2>2, <2>3
<1>9. ASSUME NEW d \in Clients PROVE AnswerInv(d)'
  <2>1. CASE d # c
    BY <1>1, <1>2, <2>1, AnswerLeft DEF IInv, OrderInv
  <2>2. CASE d = c /\ Len(asked[c]) <= 1
    <3>1. Unanswered(c) /\ asked[c] = <<"stop">>
      BY <1>1, <2>2, OnlyRequest DEF Rest
    <3>2. sender'[c] = NoSender /\ out'[c] = <<>> /\ asked'[c] # <<>> /\ ~Serving(c)'
      BY <1>1, <1>2, <3>1 DEF Unanswered, Serving
    <3>3. Answered(c)'
      BY <1>1, <3>2 DEF Answered
    <3>4. QED
      BY <2>2, <3>2, <3>3, NothingInOrder DEF AnswerInv, InOrder
  <2>3. CASE d = c /\ ~(Len(asked[c]) <= 1)
    BY <2>3 DEF AnswerInv
  <2>4. QED
    BY <2>1, <2>2, <2>3
<1>10. QED
  BY <1>2, <1>4, <1>5, <1>7, <1>8, <1>9 DEF IInv, CauseInv, OrderInv

\* An answer begins: its header is the loop's sender, its body follows.
LEMMA AnswerStep ==
  ASSUME IInv, NEW c \in Clients, InputReady(c),
         NEW kind \in {"text", "song"}, NEW len \in {ListLen, InfoLen, SongLen},
         Answer(c, kind, len), fd' = c,
         NEW q \in Seq(Command \cup {Rest}), inbox' = [inbox EXCEPT ![c] = q],
         UNCHANGED <<asked, turn, hungUp>>, parted \subseteq parted', parted' \subseteq Clients,
         kind = "song" => Cause(c)',
         \A i \in DOMAIN q : q[i] \notin TextCommand => Cause(c)',
         Len(asked[c]) <= 1 =>
           /\ Unanswered(c) /\ asked[c] # <<>> /\ q \in {<<>>, <<Rest>>}
           /\ Fits(c, kind, len)
  PROVE  IInv'
<1> USE DEF Answer, connVars, sendingVars, wireVars
<1>1. /\ at = "epoll_wait" /\ at' = "send_with_sender"
      /\ inbox'[c] = q /\ \A d \in Clients \ {c} : inbox'[d] = inbox[d]
  BY DEF InputReady, IInv, TypeOK
<1>2. /\ current' \in Sender \ {NoSender} /\ NewSender(kind, len) \in Sender \ {NoSender}
      /\ current'.kind = "header" /\ current'.len = 1
      /\ current'.done = 0 /\ current'.pos = 0
      /\ NewSender(kind, len).kind = kind
  BY NewSenderMade DEF NewSender, Kinds
<1>3. /\ following' \in Seq(Sender) /\ Len(following') = 1
      /\ \A i \in DOMAIN following' : following'[i] = NewSender(kind, len)
  BY <1>2
<1>4. TypeOK'
  <2>1. outEvent' \in BOOLEAN
    BY DEF OutReady, IInv, TypeOK
  <2>2. inbox' \in [Clients -> Seq(Command \cup {Rest})]
    BY DEF IInv, TypeOK
  <2>3. QED
    BY <1>1, <1>2, <1>3, <2>1, <2>2 DEF IInv, TypeOK
<1>5. LoopInv' /\ SenderMatchesState'
  BY <1>2, <1>3 DEF IInv, LoopInv, SenderMatchesState
<1>6. \A d \in Clients : Cause(d) => Cause(d)'
  BY DEF Cause
<1>7. LoopCause'
  <2>1. outEvent' => sender[c] # NoSender
    BY DEF OutReady, IInv, SenderMatchesState
  <2>2. QED
    BY <1>1, <1>2, <1>3, <2>1 DEF LoopCause
<1>8. ASSUME NEW d \in Clients PROVE ClientCause(d)'
  <2>1. CASE d = c
    BY <1>1, <1>6, <2>1 DEF IInv, CauseInv, ClientCause
  <2>2. CASE d # c
    BY <1>1, <1>6, <2>2 DEF IInv, CauseInv, ClientCause
  <2>3. QED
    BY <2>1, <2>2
<1>9. ASSUME NEW d \in Clients PROVE AnswerInv(d)'
  <2>1. CASE d # c
    <3>1. ~Serving(d) /\ ~Serving(d)'
      BY <1>1, <2>1 DEF Serving
    <3>2. QED
      BY <1>1, <2>1, <3>1, AnswerKept DEF IInv, OrderInv
  <2>2. CASE d = c /\ Len(asked[c]) <= 1
    <3>1. Fits(c, kind, len)'
      BY <2>2 DEF Fits, OnlyAsked
    <3>2. sender'[c] = NoSender /\ out'[c] = <<>> /\ asked'[c] # <<>>
      BY <2>2 DEF Unanswered
    <3>3. Announced(c)'
      BY <1>2, <3>1, <3>2 DEF Announced
    <3>4. Answered(c)'
      BY <1>1, <2>2, <3>2, <3>3 DEF Answered, Serving
    <3>5. QED
      BY <2>2, <3>2, <3>4, NothingInOrder DEF AnswerInv, InOrder
  <2>3. CASE d = c /\ ~(Len(asked[c]) <= 1)
    BY <2>3 DEF AnswerInv
  <2>4. QED
    BY <2>1, <2>2, <2>3
<1>10. QED
  BY <1>4, <1>5, <1>7, <1>8, <1>9 DEF IInv, CauseInv, OrderInv

LEMMA TextStep ==
  ASSUME IInv, NEW c \in Clients, HandleText(c)
  PROVE  IInv'
<1>1. PICK command \in TextCommand :
        HandleInput(c, command) /\ Answer(c, "text", TextLen(command))
  BY DEF HandleText
<1>2. InputReady(c) /\ Head(inbox[c]) = command /\ command # Rest
  BY <1>1 DEF HandleInput, Rest, TextCommand
<1>3. TextLen(command) \in {ListLen, InfoLen, SongLen}
  BY TextAnswerFacts
<1>4. /\ inbox' = [inbox EXCEPT ![c] = <<>>] /\ fd' = c
      /\ UNCHANGED <<asked, turn, hungUp, parted>> /\ parted' \subseteq Clients
  BY <1>1 DEF HandleInput, IInv, TypeOK
<1>5. Len(asked[c]) <= 1 =>
        Unanswered(c) /\ asked[c] # <<>> /\ Fits(c, "text", TextLen(command))
  <2>1. HAVE Len(asked[c]) <= 1
  <2>2. Unanswered(c) /\ asked[c] = <<command>>
    BY <1>2, <2>1, OnlyRequest
  <2>3. \A d \in SureText : <<command>> = <<d>> => d = command
    OBVIOUS
  <2>4. QED
    BY <2>2, <2>3 DEF Fits, OnlyAsked
<1>6. <<>> \in Seq(Command \cup {Rest}) /\ DOMAIN <<>> = {}
  OBVIOUS
<1>7. QED
  BY <1>1, <1>2, <1>3, <1>4, <1>5, <1>6, AnswerStep

LEMMA PlayStep ==
  ASSUME IInv, NEW c \in Clients, HandlePlay(c)
  PROVE  IInv'
<1>1. HandleInput(c, "play") /\ Answer(c, "song", SongLen)
  BY DEF HandlePlay
<1>2. InputReady(c) /\ Head(inbox[c]) = "play" /\ "play" # Rest /\ "play" \notin TextCommand
  BY <1>1 DEF HandleInput, Rest, TextCommand
<1>3. /\ inbox' = [inbox EXCEPT ![c] = <<>>] /\ fd' = c
      /\ UNCHANGED <<asked, turn, hungUp, parted>> /\ parted' \subseteq Clients
  BY <1>1 DEF HandleInput, IInv, TypeOK
<1>4. Cause(c)'
  BY <1>2, <1>3, FirstRequest, SameCauses
<1>5. Len(asked[c]) <= 1 => Unanswered(c) /\ asked[c] # <<>> /\ Fits(c, "song", SongLen)
  <2>1. HAVE Len(asked[c]) <= 1
  <2>2. Unanswered(c) /\ asked[c] = <<"play">>
    BY <1>2, <2>1, OnlyRequest
  <2>3. \A d \in SureText : <<"play">> # <<d>>
    BY DEF SureText, TextCommand
  <2>4. QED
    BY <2>2, <2>3 DEF Fits, OnlyAsked
<1>6. <<>> \in Seq(Command \cup {Rest}) /\ DOMAIN <<>> = {}
  OBVIOUS
<1>7. QED
  BY <1>1, <1>2, <1>3, <1>4, <1>5, <1>6, AnswerStep

\* The rest of a request that was looked at before.
LEMMA RestStep ==
  ASSUME IInv, NEW c \in Clients, HandleRest(c)
  PROVE  IInv'
<1>1. InputReady(c) /\ Head(inbox[c]) = Rest
  BY DEF HandleRest, HandleInput
<1>2. Rest \notin TextCommand
  BY DEF Rest, TextCommand
<1>3. Cause(c)
  BY <1>1, <1>2, FirstRequest
<1>4. CASE HandleInput(c, Rest) /\ Len(inbox[c]) > 1 /\ Answer(c, "text", ListLen)
  <2>1. /\ inbox' = [inbox EXCEPT ![c] = <<>>] /\ fd' = c
        /\ UNCHANGED <<asked, turn, hungUp, parted>> /\ parted' \subseteq Clients
    BY <1>4 DEF HandleInput, IInv, TypeOK
  <2>2. ~(Len(asked[c]) <= 1)
    <3>1. SUFFICES ASSUME Len(asked[c]) <= 1 PROVE FALSE
      OBVIOUS
    <3>2. Unanswered(c) \/ Answered(c)
      BY <3>1 DEF IInv, OrderInv, AnswerInv
    <3>3. CASE Unanswered(c)
      BY <1>4, <3>1, <3>3 DEF Unanswered, IInv, TypeOK
    <3>4. CASE Answered(c)
      <4>1. inbox[c] \in {<<>>, <<Rest>>}
        BY <3>4 DEF Answered
      <4>2. CASE inbox[c] = <<>>
        BY <1>4, <4>2
      <4>3. CASE inbox[c] = <<Rest>>
        BY <1>4, <4>3
      <4>4. QED
        BY <4>1, <4>2, <4>3
    <3>5. QED
      BY <3>2, <3>3, <3>4
  <2>3. <<>> \in Seq(Command \cup {Rest}) /\ DOMAIN <<>> = {}
    OBVIOUS
  <2>4. QED
    BY <1>1, <1>4, <2>1, <2>2, <2>3, AnswerStep
<1>5. CASE GoDown /\ UNCHANGED clientVars
  <2>1. UNCHANGED <<inbox, asked, turn, hungUp, parted>> /\ parted' \subseteq Clients
    BY <1>5 DEF clientVars, IInv, TypeOK
  <2>2. Cause(c)'
    BY <1>3, <2>1, SameCauses
  <2>3. QED
    BY <1>5, <2>1, <2>2, DownStep DEF GoDown
<1>6. QED
  BY <1>4, <1>5 DEF HandleRest

LEMMA PartStep ==
  ASSUME IInv, NEW c \in Clients, HandlePart(c)
  PROVE  IInv'
<1>1. Cause(c)'
  BY DEF HandlePart, Cause
<1>2. parted \subseteq parted' /\ parted' \subseteq Clients
  BY DEF HandlePart, IInv, TypeOK
<1>3. QED
  BY <1>1, <1>2, DownStep DEF HandlePart, GoDown

\* A header without its song number.
LEMMA HeaderStep ==
  ASSUME IInv, NEW c \in Clients, HandleHeader(c)
  PROVE  IInv'
<1> DEFINE q == <<Rest>> \o Tail(inbox[c])
<1>1. /\ InputReady(c) /\ Head(inbox[c]) \in {"play", "play_invalid", "info"}
      /\ fd' = c /\ inbox' = [inbox EXCEPT ![c] = q]
      /\ parted' = parted \cup {c} /\ UNCHANGED <<asked, turn, hungUp>>
  BY DEF HandleHeader, IInv, TypeOK
<1>2. PICK kind \in {"text", "song"}, len \in {ListLen, InfoLen, SongLen} :
        /\ Answer(c, kind, len)
        /\ kind = "song" => Head(inbox[c]) # "info"
        /\ kind = "text" => len = InfoLen
  BY DEF HandleHeader
<1>3. /\ parted \subseteq parted' /\ parted' \subseteq Clients /\ Cause(c)'
      /\ Head(inbox[c]) # Rest
  BY <1>1 DEF Cause, IInv, TypeOK, Rest
<1>4. q \in Seq(Command \cup {Rest})
  <2>1. Tail(inbox[c]) \in Seq(Command \cup {Rest})
    BY <1>1, FirstRequest
  <2>2. QED
    BY <2>1
<1>5. Len(asked[c]) <= 1 =>
        /\ Unanswered(c) /\ asked[c] # <<>> /\ q = <<Rest>>
        /\ Fits(c, kind, len)
  <2>1. HAVE Len(asked[c]) <= 1
  <2>2. /\ Unanswered(c) /\ asked[c] = <<Head(inbox[c])>>
        /\ Tail(inbox[c]) = <<>>
    BY <1>1, <1>3, <2>1, OnlyRequest
  <2>3. q = <<Rest>>
    <3>1. <<Rest>> \in Seq({Rest})
      OBVIOUS
    <3>2. QED
      BY <2>2, <3>1, ConcatEmptySeq
  <2>4. \A d \in SureText : asked[c] = <<d>> => d = "info"
    BY <1>1, <2>2 DEF SureText, TextCommand
  <2>5. TextLen("info") = InfoLen
    BY DEF TextLen
  <2>6. Fits(c, kind, len)
    <3>1. SUFFICES ASSUME NEW d \in SureText, asked[c] = <<d>>
                   PROVE  kind = "text" /\ len = TextLen(d)
      BY DEF Fits, OnlyAsked
    <3>2. Head(inbox[c]) = d /\ d = "info"
      BY <2>2, <2>4, <3>1
    <3>3. QED
      BY <1>2, <2>5, <3>2
  <2>7. QED
    BY <2>2, <2>3, <2>6
<1> HIDE DEF q
<1>6. QED
  BY <1>1, <1>2, <1>3, <1>4, <1>5, AnswerStep

\* Every event of a client keeps the inductive invariant.
LEMMA EventStep ==
  ASSUME IInv, NEW c \in Clients, Event(c)
  PROVE  IInv'
  BY SetupStep, CloseStep, TextStep, PlayStep, StopStep, RestStep, PartStep, HeaderStep,
     DispatchStep DEF Event

-----------------------------------------------------------------------------
(* Sending. *)

\* What the socket takes of a chunk is appended to what was sent, and takes room.
LEMMA TransmitFacts ==
  ASSUME IInv, NEW s \in Sender \ {NoSender}, Read(s) > 0, room[fd] > 0,
         NEW n, n = Accepted(s, room[fd]), Transmit(s, n)
  PROVE  /\ n \in 1..Read(s)
         /\ out' \in [Clients -> Seq(Nat)] /\ room' \in [Clients -> 0..Room]
         /\ out'[fd] = out[fd] \o Bytes(s, n)
         /\ \A c \in Clients \ {fd} : out'[c] = out[c]
         /\ \A c \in Clients : Room - room'[c] <= Len(out'[c])
<1> USE MusicAssumption DEF Transmit
<1>1. /\ fd \in Clients /\ room[fd] \in 0..Room
      /\ out \in [Clients -> Seq(Nat)] /\ room \in [Clients -> 0..Room]
      /\ \A c \in Clients : Room - room[c] <= Len(out[c])
  BY DEF IInv, TypeOK, LoopInv
<1>2. n \in 1..room[fd] /\ n \in 1..Read(s)
  BY <1>1, AcceptedFacts
<1>3. n \in Nat
  BY <1>2
<1>4. Bytes(s, n) \in Seq(Nat) /\ Len(Bytes(s, n)) = n
  BY <1>3, BytesFacts
<1>5. out[fd] \o Bytes(s, n) \in Seq(Nat) /\ Len(out[fd] \o Bytes(s, n)) = Len(out[fd]) + n
  BY <1>1, <1>4
<1>6. /\ out' \in [Clients -> Seq(Nat)] /\ out'[fd] = out[fd] \o Bytes(s, n)
      /\ \A c \in Clients \ {fd} : out'[c] = out[c]
  BY <1>1, <1>5
<1>7. /\ room' \in [Clients -> 0..Room] /\ room'[fd] = room[fd] - n
      /\ \A c \in Clients \ {fd} : room'[c] = room[c]
  <2>1. PICK r \in 0..Room : r = room[fd]
    BY <1>1
  <2>2. PICK k \in 1..r : k = n
    BY <1>2, <2>1
  <2>3. r - k \in 0..Room
    OBVIOUS
  <2>4. room[fd] - n \in 0..Room
    BY <2>1, <2>2, <2>3
  <2>5. QED
    BY <1>1, <2>4
<1>8. Room - room'[fd] <= Len(out'[fd])
  <2>1. Room - room[fd] <= Len(out[fd]) /\ Len(out[fd]) \in Nat
    BY <1>1
  <2>2. QED
    BY <1>1, <1>3, <1>5, <1>6, <1>7, <2>1
<1>9. \A c \in Clients : Room - room'[c] <= Len(out'[c])
  BY <1>1, <1>6, <1>7, <1>8
<1>10. QED
  BY <1>2, <1>6, <1>7, <1>9

\* u is the sequence o of length m, with n more elements.
IsAppended(u, o, m, b, n) ==
  /\ Len(u) = m + n /\ DOMAIN u = 1..(m + n)
  /\ \A i \in 1..m : u[i] = o[i]
  /\ \A i \in 1..n : u[m + i] = b[i]
  /\ \A i \in 1..(m + n) : i \in 1..m \/ \E j \in 1..n : i = m + j

\* The elements of two sequences, one behind the other.
LEMMA Elements ==
  ASSUME NEW o \in Seq(Nat), NEW b \in Seq(Nat)
  PROVE  o \o b \in Seq(Nat) /\ IsAppended(o \o b, o, Len(o), b, Len(b))
<1>1. PICK m \in Nat, n \in Nat : m = Len(o) /\ n = Len(b)
  OBVIOUS
<1>2. PICK u \in Seq(Nat) : u = o \o b
  BY ConcatProperties
<1>3. Len(u) = m + n /\ DOMAIN u = 1..(m + n)
  BY <1>1, <1>2, ConcatProperties
<1>4. \A i \in 1..(m + n) : u[i] = IF i <= m THEN o[i] ELSE b[i - m]
  BY <1>1, <1>2, ConcatProperties
<1>5. ASSUME NEW i \in 1..m PROVE u[i] = o[i]
  <2>1. i \in 1..(m + n) /\ i <= m
    OBVIOUS
  <2>2. QED
    BY <1>4, <2>1
<1>6. ASSUME NEW i \in 1..n PROVE u[m + i] = b[i]
  <2>1. m + i \in 1..(m + n) /\ ~(m + i <= m) /\ (m + i) - m = i
    OBVIOUS
  <2>2. QED
    BY <1>4, <2>1
<1>7. ASSUME NEW i \in 1..(m + n), i \notin 1..m PROVE \E j \in 1..n : i = m + j
  <2>1. i - m \in 1..n /\ i = m + (i - m)
    BY <1>7
  <2>2. QED
    BY <2>1
<1>8. IsAppended(u, o, m, b, n)
  BY <1>3, <1>5, <1>6, <1>7 DEF IsAppended
<1>9. QED
  BY <1>1, <1>2, <1>8

\* Numbers that follow the last one keep a sequence increasing.
LEMMA AppendIncreasing ==
  ASSUME NEW o \in Seq(Nat), NEW b \in Seq(Nat), NEW p \in Nat, NEW n \in Nat,
         Len(b) = n, \A i \in 1..n : b[i] = p + i,
         Increasing(o), \A i \in DOMAIN o : o[i] <= p
  PROVE  /\ Increasing(o \o b)
         /\ \A i \in DOMAIN (o \o b) : (o \o b)[i] <= p + n
<1>1. PICK m \in Nat : m = Len(o)
  OBVIOUS
<1>2. PICK u \in Seq(Nat) : u = o \o b
  BY Elements
<1>3. IsAppended(u, o, m, b, n)
  BY <1>1, <1>2, Elements
<1>4. \A i \in 1..m : u[i] \in Nat /\ u[i] <= p
  <2>1. ASSUME NEW i \in 1..m PROVE u[i] \in Nat /\ u[i] <= p
    <3>1. i \in DOMAIN o /\ o[i] \in Nat
      BY <1>1
    <3>2. u[i] = o[i]
      BY <1>3 DEF IsAppended
    <3>3. QED
      BY <3>1, <3>2
  <2>2. QED
    BY <2>1
<1>5. \A i \in 1..n : u[m + i] = p + i
  BY <1>3 DEF IsAppended
<1>6. ASSUME NEW i \in 1..(m + n) PROVE u[i] <= p + n
  <2>1. CASE i \in 1..m
    BY <1>4, <2>1
  <2>2. ASSUME NEW j \in 1..n, i = m + j PROVE u[i] <= p + n
    <3>1. u[i] = p + j /\ j \in Nat /\ j <= n
      BY <1>5, <2>2
    <3>2. QED
      BY <3>1
  <2>3. QED
    BY <1>3, <2>1, <2>2 DEF IsAppended
<1>7. ASSUME NEW i \in 1..(m + n), NEW j \in 1..(m + n), i < j
      PROVE  u[i] < u[j]
  <2>1. CASE i \in 1..m /\ j \in 1..m
    <3>1. u[i] = o[i] /\ u[j] = o[j] /\ i \in DOMAIN o /\ j \in DOMAIN o
      BY <1>1, <1>3, <2>1 DEF IsAppended
    <3>2. QED
      BY <1>7, <3>1 DEF Increasing
  <2>2. ASSUME NEW k \in 1..n, j = m + k PROVE u[i] < u[j]
    <3>1. u[j] = p + k
      BY <1>5, <2>2
    <3>2. CASE i \in 1..m
      BY <1>4, <3>1, <3>2
    <3>3. ASSUME NEW l \in 1..n, i = m + l PROVE u[i] < u[j]
      <4>1. u[i] = p + l /\ l < k
        BY <1>5, <1>7, <2>2, <3>3
      <4>2. QED
        BY <3>1, <4>1
    <3>4. QED
      BY <1>3, <3>2, <3>3 DEF IsAppended
  <2>3. CASE j \in 1..m
    <3>1. i \in 1..m
      BY <1>7, <2>3
    <3>2. QED
      BY <2>1, <2>3, <3>1
  <2>4. QED
    BY <1>3, <2>2, <2>3 DEF IsAppended
<1>8. QED
  BY <1>2, <1>3, <1>6, <1>7 DEF Increasing, IsAppended

\* b is the n bytes of a text behind the first p, o its header and those.
AreNext(b, n, o, p) ==
  Len(b) = n /\ Len(o) = p + 1 /\ \A i \in 1..n : b[i] = p + i

\* The next bytes of a text, behind those before them, are in order.
LEMMA AppendPrefix ==
  ASSUME NEW command \in SureText, NEW p \in Nat, NEW n \in Nat,
         p + n <= TextLen(command),
         NEW o \in Seq(Nat), IsPrefixOf(o, TextAnswer(command)),
         NEW b \in Seq(Nat), AreNext(b, n, o, p)
  PROVE  IsPrefixOf(o \o b, TextAnswer(command)) /\ Len(o \o b) = p + n + 1
<1>1. PICK l \in Nat : l = TextLen(command)
  BY TextAnswerFacts DEF SureText
<1>2. PICK m \in Nat : m = p + 1
  OBVIOUS
<1>3. PICK u \in Seq(Nat) : u = o \o b
  BY Elements
<1>4. PICK a : a = TextAnswer(command)
  OBVIOUS
<1>5. Len(a) = 1 + l /\ \A i \in 1..(1 + l) : a[i] = i - 1
  BY <1>1, <1>4, TextAnswerFacts DEF SureText
<1>6. IsAppended(u, o, m, b, n)
  <2>1. n = Len(b) /\ m = Len(o)
    BY <1>2 DEF AreNext
  <2>2. QED
    BY <1>3, <2>1, Elements
<1>7. m + n <= 1 + l
  BY <1>1, <1>2
<1>8. ASSUME NEW i \in 1..(m + n) PROVE u[i] = a[i]
  <2>1. CASE i \in 1..m
    <3>1. DOMAIN o = 1..m
      BY <1>2 DEF AreNext
    <3>2. QED
      BY <1>4, <1>6, <2>1, <3>1 DEF IsPrefixOf, IsAppended
  <2>2. ASSUME NEW j \in 1..n, i = m + j PROVE u[i] = a[i]
    <3>1. u[i] = p + j
      BY <1>6, <2>2 DEF IsAppended, AreNext
    <3>2. i \in 1..(1 + l) /\ i - 1 = p + j
      BY <1>2, <1>7, <2>2
    <3>3. QED
      BY <1>5, <3>1, <3>2
  <2>3. QED
    BY <1>6, <2>1, <2>2 DEF IsAppended
<1>9. Len(u) = p + n + 1
  BY <1>2, <1>6 DEF IsAppended
<1>10. QED
  BY <1>3, <1>4, <1>5, <1>6, <1>7, <1>8, <1>9 DEF IsPrefixOf, IsAppended

\* If the sender's position is where the bytes sent so far end, they stay in order
\* when it sends more, and the sender goes on from there.
LEMMA AppendInOrder ==
  ASSUME NEW c \in Clients, out[c] \in Seq(Nat), InOrder(c),
         NEW s \in Sender \ {NoSender}, NEW n \in 1..Read(s), GoesOn(c, s),
         out'[c] = out[c] \o Bytes(s, n), asked'[c] = asked[c]
  PROVE  /\ InOrder(c)'
         /\ \A i \in DOMAIN out'[c] : out'[c][i] <= AfterSend(s, n).pos
         /\ \A command \in SureText : OnlyAsked(c, command)' =>
              /\ AfterSend(s, n).done = AfterSend(s, n).pos
              /\ Len(out'[c]) = AfterSend(s, n).pos + 1
<1>1. PICK p \in Nat, k \in Nat : p = s.pos /\ k = n
  BY SenderFields, ChunkFacts
<1>2. PICK o \in Seq(Nat), b \in Seq(Nat) : o = out[c] /\ b = Bytes(s, k)
  BY <1>1, BytesFacts
<1>3. out'[c] = o \o b
  BY <1>1, <1>2
<1>4. s.kind # "header" /\ \A i \in DOMAIN o : o[i] <= p
  BY <1>1, <1>2 DEF GoesOn
<1>5. Len(b) = k /\ \A i \in 1..k : b[i] = p + i
  BY <1>1, <1>2, <1>4, BytesFacts
<1>6. PICK t \in Sender : t = AfterSend(s, n)
  BY AfterSendFacts
<1>7. /\ t.pos \in Nat /\ t.pos >= p + k /\ t.done = s.done + k
      /\ s.kind # "song" => t.pos = p + k
  BY <1>1, <1>6, AfterSendFacts, SenderFields
<1>8. \A command \in SureText : OnlyAsked(c, command)' <=> OnlyAsked(c, command)
  BY DEF OnlyAsked
<1>9. /\ Increasing(o \o b)
      /\ \A i \in DOMAIN (o \o b) : (o \o b)[i] <= p + k /\ (o \o b)[i] \in Nat
  <2>1. Increasing(o)
    BY <1>2 DEF InOrder
  <2>2. o \o b \in Seq(Nat)
    BY ConcatProperties
  <2>3. \A i \in 1..k : b[i] = p + i
    BY <1>5
  <2>4. /\ Increasing(o \o b)
        /\ \A i \in DOMAIN (o \o b) : (o \o b)[i] <= p + k
    BY <1>4, <1>5, <2>1, <2>3, AppendIncreasing
  <2>5. \A i \in DOMAIN (o \o b) : (o \o b)[i] \in Nat
    BY <2>2
  <2>6. QED
    BY <2>4, <2>5
<1>10. ASSUME NEW command \in SureText, OnlyAsked(c, command)
       PROVE  /\ t.done = t.pos /\ Len(o \o b) = t.pos + 1
              /\ IsPrefixOf(o \o b, TextAnswer(command))
  <2>1. s.kind = "text" /\ s.len = TextLen(command) /\ s.done = p /\ Len(o) = p + 1
    BY <1>1, <1>2, <1>10 DEF GoesOn, Fits
  <2>2. p + k <= TextLen(command)
    BY <1>1, <2>1, ChunkFacts, SenderFields
  <2>3. IsPrefixOf(o, TextAnswer(command))
    BY <1>2, <1>10 DEF InOrder
  <2>4. IsPrefixOf(o \o b, TextAnswer(command)) /\ Len(o \o b) = p + k + 1
    <3>1. \A i \in 1..k : b[i] = p + i
      BY <1>5
    <3>2. AreNext(b, k, o, p)
      BY <1>5, <2>1, <3>1 DEF AreNext
    <3>3. QED
      BY <2>2, <2>3, <3>2, AppendPrefix
  <2>5. QED
    BY <1>7, <2>1, <2>4
<1>11. InOrder(c)'
  BY <1>3, <1>8, <1>9, <1>10 DEF InOrder
<1>12. \A i \in DOMAIN out'[c] : out'[c][i] <= t.pos
  <2>1. ASSUME NEW i \in DOMAIN (o \o b) PROVE (o \o b)[i] <= t.pos
    BY <1>7, <1>9
  <2>2. QED
    BY <1>3, <2>1, Zenon
<1>13. ASSUME NEW command \in SureText, OnlyAsked(c, command)'
       PROVE  t.done = t.pos /\ Len(out'[c]) = t.pos + 1
  <2>1. OnlyAsked(c, command)
    BY <1>8, <1>13, Zenon
  <2>2. QED
    BY <1>3, <1>10, <2>1, Zenon
<1>14. QED
  BY <1>6, <1>11, <1>12, <1>13, Zenon

\* The next sender, if there is one, is the loop's; the loop goes on or is done.
LEMMA NextFacts ==
  ASSUME IInv, at = "send_with_sender", NextSender,
         UNCHANGED <<fd, asked, turn, hungUp, parted>>, outEvent => sender'[fd] # NoSender
  PROVE  /\ at' \in {"epoll_wait", "send_with_sender", "resume_sending"} /\ outEvent' \in BOOLEAN
         /\ current' \in Sender /\ following' \in Seq(Sender)
         /\ at' = "send_with_sender" => current' # NoSender
         /\ Len(following') <= 1 /\ \A i \in DOMAIN following' : following'[i] # NoSender
         /\ LoopCause'
<1>1. /\ following \in Seq(Sender) /\ Len(following) <= 1 /\ outEvent \in BOOLEAN
      /\ \A i \in DOMAIN following : following[i] # NoSender
      /\ \A i \in DOMAIN following : following[i].kind = "song" => Cause(fd)
      /\ fd \in Clients
  BY DEF IInv, TypeOK, LoopInv, CauseInv, LoopCause
<1>2. Cause(fd)' <=> Cause(fd)
  BY <1>1, SameCauses DEF Cause
<1>3. CASE following # <<>>
  <2>1. following = <<Head(following)>> /\ Tail(following) = <<>> /\ Head(following) = following[1]
    BY <1>1, <1>3, SingletonSeq
  <2>2. following' = <<>> /\ current' = following[1] /\ UNCHANGED <<at, outEvent>>
    BY <1>3, <2>1 DEF NextSender
  <2>3. following[1] \in Sender /\ 1 \in DOMAIN following
    BY <1>1, <1>3, <2>1
  <2>4. /\ following' \in Seq(Sender) /\ Len(following') <= 1 /\ DOMAIN following' = {}
    BY <2>2
  <2>5. LoopCause'
    BY <1>1, <1>2, <2>2, <2>3, <2>4 DEF LoopCause
  <2>6. QED
    BY <1>1, <2>2, <2>3, <2>4, <2>5
<1>4. CASE following = <<>>
  <2>1. /\ current' = NoSender /\ outEvent' = FALSE /\ following' = <<>>
        /\ at' = AfterInput(outEvent)
    BY <1>4 DEF NextSender
  <2>2. /\ at' \in {"epoll_wait", "resume_sending"}
        /\ at' = "resume_sending" => outEvent
    BY <2>1 DEF AfterInput
  <2>3. NoSender \in Sender
    BY DEF Sender
  <2>4. following' \in Seq(Sender) /\ Len(following') <= 1 /\ DOMAIN following' = {}
    BY <2>1
  <2>5. LoopCause'
    BY <2>2 DEF LoopCause
  <2>6. QED
    BY <2>1, <2>2, <2>3, <2>4, <2>5
<1>5. QED
  BY <1>3, <1>4

\* A header is sent first, into a socket that nothing was sent to: it has room.
LEMMA HeaderHasRoom ==
  ASSUME IInv, NEW c \in Clients, out[c] = <<>>
  PROVE  room[c] = Room /\ Room > 0
<1>1. Room - room[c] <= Len(out[c]) /\ Len(out[c]) = 0 /\ room[c] \in 0..Room
  BY DEF IInv, LoopInv, TypeOK
<1>2. QED
  BY <1>1, MusicAssumption

\* The sender that the loop works with has sent all: the body after the header, or
\* the loop is done.
LEMMA FinishStep ==
  ASSUME IInv, at = "send_with_sender", Finished(current), NextSender,
         UNCHANGED <<fd, connVars, wireVars, clientVars>>
  PROVE  IInv'
<1> USE DEF connVars, sendingVars, wireVars, clientVars
<1>1. fd \in Clients /\ current \in Sender \ {NoSender} /\ (outEvent => sender[fd] # NoSender)
  BY DEF IInv, TypeOK, LoopInv, CauseInv, LoopCause
<1>2. /\ at' \in {"epoll_wait", "send_with_sender", "resume_sending"} /\ outEvent' \in BOOLEAN
      /\ current' \in Sender /\ following' \in Seq(Sender)
      /\ at' = "send_with_sender" => current' # NoSender
      /\ Len(following') <= 1 /\ \A i \in DOMAIN following' : following'[i] # NoSender
      /\ LoopCause'
  BY <1>1, NextFacts
<1>3. TypeOK' /\ LoopInv' /\ SenderMatchesState'
  BY <1>2 DEF IInv, TypeOK, LoopInv, SenderMatchesState
<1>4. ASSUME NEW d \in Clients PROVE ClientCause(d)'
  BY SameCauses DEF IInv, CauseInv, ClientCause
<1>5. ASSUME NEW d \in Clients PROVE AnswerInv(d)'
  <2>1. CASE d # fd
    BY <2>1, AnswerKept DEF IInv, OrderInv, Serving
  <2>2. CASE d = fd /\ following = <<>>
    <3>1. at' # "send_with_sender"
      BY <2>2 DEF NextSender, AfterInput
    <3>2. QED
      BY <2>2, <3>1, AnswerLeft DEF IInv, OrderInv
  <2>3. CASE d = fd /\ following # <<>> /\ Len(asked[fd]) <= 1
    <3>1. /\ Serving(fd) /\ Answered(fd) /\ InOrder(fd)
      BY <2>3 DEF Serving, IInv, OrderInv, AnswerInv, Unanswered
    <3>2. Announced(fd) /\ sender[fd] = NoSender
      BY <2>3, <3>1 DEF Answered
    <3>3. PICK kind \in {"text", "song"}, len \in {ListLen, InfoLen, SongLen} :
            following = <<NewSender(kind, len)>> /\ Fits(fd, kind, len)
      BY <3>2 DEF Announced
    <3>4. out[fd] = <<0>>
      BY <1>1, <3>2, ChunkFacts DEF Announced
    <3>5. /\ current' = NewSender(kind, len) /\ following' = <<>>
          /\ UNCHANGED at
      BY <2>3, <3>3 DEF NextSender
    <3>6. GoesOn(fd, current)'
      <4>1. Fits(fd, kind, len)'
        BY <3>3 DEF Fits, OnlyAsked
      <4>2. /\ current'.kind = kind /\ current'.len = len /\ current'.pos = 0 /\ current'.done = 0
        BY <3>5 DEF NewSender
      <4>3. out'[fd] = <<0>> /\ Len(<<0>>) = 1 /\ \A i \in DOMAIN <<0>> : <<0>>[i] <= 0
        BY <3>4
      <4>4. QED
        BY <4>1, <4>2, <4>3 DEF GoesOn
    <3>7. Answered(fd)'
      BY <3>1, <3>2, <3>5, <3>6 DEF Answered, Serving
    <3>8. InOrder(fd)'
      BY <3>1 DEF InOrder, OnlyAsked
    <3>9. QED
      BY <2>3, <3>7, <3>8 DEF AnswerInv
  <2>4. CASE d = fd /\ ~(Len(asked[fd]) <= 1)
    BY <2>4 DEF AnswerInv
  <2>5. QED
    BY <2>1, <2>2, <2>3, <2>4
<1>6. QED
  BY <1>2, <1>3, <1>4, <1>5 DEF IInv, CauseInv, OrderInv

\* After it sent more, the sender of a body goes on where what was sent ends.
LEMMA BodySent ==
  ASSUME NEW c \in Clients, out[c] \in Seq(Nat), InOrder(c),
         NEW s \in Sender \ {NoSender}, NEW n \in 1..Read(s), GoesOn(c, s),
         out'[c] = out[c] \o Bytes(s, n), asked'[c] = asked[c],
         NEW t, t = AfterSend(s, n)
  PROVE  InOrder(c)' /\ GoesOn(c, t)'
<1>1. /\ InOrder(c)'
      /\ \A i \in DOMAIN out'[c] : out'[c][i] <= t.pos
      /\ \A command \in SureText : OnlyAsked(c, command)' =>
           t.done = t.pos /\ Len(out'[c]) = t.pos + 1
  BY AppendInOrder
<1>2. t.kind = s.kind /\ t.len = s.len
  BY AfterSendFacts
<1>3. Fits(c, t.kind, t.len)'
  BY <1>2 DEF GoesOn, Fits, OnlyAsked
<1>4. QED
  BY <1>1, <1>2, <1>3 DEF GoesOn

\* The header is sent whole; then its sender has nothing left.
LEMMA HeaderSent ==
  ASSUME IInv, NEW c \in Clients, Announced(c), c = fd, NEW s, s = current, Read(s) > 0,
         NEW n, n = Accepted(s, room[c]), InOrder(c), Len(asked[c]) <= 1,
         out'[c] = out[c] \o Bytes(s, n), asked'[c] = asked[c],
         current' = AfterSend(s, n), UNCHANGED following
  PROVE  Announced(c)' /\ InOrder(c)'
<1> USE MusicAssumption
<1>1. /\ s \in Sender \ {NoSender} /\ s.kind = "header" /\ s.len = 1 /\ s.pos = s.done
      /\ s.done = 0 /\ Read(s) = 1 /\ out[c] = <<>>
  <2>1. s \in Sender /\ s.kind = "header" /\ s.len = 1 /\ s.pos = s.done
    BY DEF IInv, TypeOK, Announced
  <2>2. s # NoSender /\ Read(s) \in 0..(s.len - s.done) /\ s.done \in Nat
    BY <2>1, ChunkFacts, SenderFields
  <2>3. s.done = 0 /\ Read(s) = 1
    BY <2>1, <2>2
  <2>4. QED
    BY <2>1, <2>2, <2>3 DEF Announced
<1>2. room[c] = Room
  BY <1>1, HeaderHasRoom
<1>3. n = 1
  BY <1>1, <1>2 DEF Accepted, Smaller
<1>4. /\ AfterSend(s, n).kind = "header" /\ AfterSend(s, n).len = 1
      /\ AfterSend(s, n).done = 1 /\ AfterSend(s, n).pos = 1
  BY <1>1, <1>3, AfterSendFacts
<1>5. out'[c] = <<0>>
  <2>1. Bytes(s, 1) \in Seq(Nat) /\ Len(Bytes(s, 1)) = 1 /\ Bytes(s, 1)[1] = 0
    <3>1. 1 \in Nat /\ 1 \in 1..1 /\ s \in Sender
      BY <1>1
    <3>2. /\ Bytes(s, 1) \in Seq(Nat) /\ Len(Bytes(s, 1)) = 1
          /\ \A i \in 1..1 : Bytes(s, 1)[i] = IF s.kind = "header" THEN 0 ELSE s.pos + i
      BY <3>1, BytesFacts, Zenon
    <3>3. Bytes(s, 1)[1] = 0
      BY <1>1, <3>1, <3>2, Zenon
    <3>4. QED
      BY <3>2, <3>3, Zenon
  <2>2. Bytes(s, 1) = <<0>>
    BY <2>1
  <2>3. <<>> \o Bytes(s, 1) = Bytes(s, 1)
    BY <2>1, ConcatEmptySeq
  <2>4. QED
    BY <1>1, <1>3, <2>2, <2>3
<1>6. Announced(c)'
  BY <1>4, <1>5 DEF Announced, Fits, OnlyAsked
<1>7. InOrder(c)'
  <2>1. Increasing(<<0>>)
    BY DEF Increasing
  <2>2. ASSUME NEW command \in SureText PROVE IsPrefixOf(<<0>>, TextAnswer(command))
    <3>1. command \in TextCommand
      BY DEF SureText
    <3>2. PICK l \in Nat : l = TextLen(command)
      BY <3>1, TextAnswerFacts
    <3>3. Len(TextAnswer(command)) = 1 + l /\ \A i \in 1..(1 + l) : TextAnswer(command)[i] = i - 1
      BY <3>1, <3>2, TextAnswerFacts
    <3>4. 1 \in 1..(1 + l)
      OBVIOUS
    <3>5. TextAnswer(command)[1] = 0
      BY <3>3, <3>4
    <3>6. QED
      BY <3>3, <3>5 DEF IsPrefixOf
  <2>3. QED
    BY <1>5, <2>1, <2>2 DEF InOrder
<1>8. QED
  BY <1>6, <1>7

\* The loop's sender sends a chunk.
LEMMA TransmitStep ==
  ASSUME IInv, at = "send_with_sender", Read(current) > 0, room[fd] > 0,
         NEW n, n = Accepted(current, room[fd]),
         Transmit(current, n), current' = AfterSend(current, n),
         UNCHANGED <<at, fd, outEvent, following, connVars, clientVars>>
  PROVE  IInv'
<1> USE DEF connVars, sendingVars, clientVars
<1>1. PICK s \in Sender \ {NoSender} : s = current
  BY ChunkFacts DEF IInv, TypeOK
<1>2. PICK c \in Clients : c = fd
  BY DEF IInv, TypeOK
<1>3. /\ n \in 1..Read(s)
      /\ out' \in [Clients -> Seq(Nat)] /\ room' \in [Clients -> 0..Room]
      /\ out'[c] = out[c] \o Bytes(s, n)
      /\ \A d \in Clients \ {c} : out'[d] = out[d]
      /\ \A d \in Clients : Room - room'[d] <= Len(out'[d])
  BY <1>1, <1>2, TransmitFacts
<1>4. current' \in Sender \ {NoSender} /\ current'.kind = current.kind
  BY <1>1, <1>3, AfterSendFacts
<1>5. TypeOK' /\ LoopInv' /\ SenderMatchesState'
  BY <1>3, <1>4 DEF IInv, TypeOK, LoopInv, SenderMatchesState
<1>6. CauseInv'
  <2>1. \A d \in Clients : Cause(d)' <=> Cause(d)
    BY SameCauses
  <2>2. LoopCause'
    BY <1>2, <1>4, <2>1 DEF IInv, CauseInv, LoopCause
  <2>3. ASSUME NEW d \in Clients PROVE ClientCause(d)'
    BY <2>1 DEF IInv, CauseInv, ClientCause
  <2>4. QED
    BY <2>2, <2>3 DEF CauseInv
<1>7. ASSUME NEW d \in Clients PROVE AnswerInv(d)'
  <2>1. CASE d # c
    BY <1>2, <1>3, <2>1, AnswerKept DEF IInv, OrderInv, Serving
  <2>2. CASE d = c /\ Len(asked[c]) <= 1
    <3>1. Serving(c) /\ Answered(c) /\ InOrder(c)
      BY <1>2, <2>2 DEF Serving, IInv, OrderInv, AnswerInv, Unanswered
    <3>2. CASE Announced(c)
      <4>1. Announced(c)' /\ InOrder(c)'
        BY <1>1, <1>2, <1>3, <2>2, <3>1, <3>2, HeaderSent
      <4>2. Answered(c)'
        BY <3>1, <4>1 DEF Answered, Serving
      <4>3. QED
        BY <2>2, <4>1, <4>2 DEF AnswerInv
    <3>3. CASE following = <<>> /\ GoesOn(c, current)
      <4>1. PICK t : t = AfterSend(s, n)
        OBVIOUS
      <4>2. out[c] \in Seq(Nat) /\ GoesOn(c, s)
        BY <1>1, <3>3 DEF IInv, TypeOK
      <4>3. InOrder(c)' /\ GoesOn(c, t)'
        BY <1>3, <3>1, <4>1, <4>2, BodySent
      <4>4. current' = t
        BY <1>1, <4>1
      <4>5. GoesOn(c, current)'
        BY <4>3, <4>4 DEF GoesOn
      <4>6. Answered(c)'
        BY <3>1, <3>3, <4>5 DEF Answered, Serving
      <4>7. QED
        BY <2>2, <4>3, <4>6 DEF AnswerInv
    <3>4. QED
      BY <3>1, <3>2, <3>3 DEF Answered
  <2>3. CASE d = c /\ ~(Len(asked[c]) <= 1)
    BY <2>3 DEF AnswerInv
  <2>4. QED
    BY <2>1, <2>2, <2>3
<1>8. QED
  BY <1>5, <1>6, <1>7 DEF IInv, OrderInv

\* The loop's sender is refused: it is kept in the client, and epoll watches.
LEMMA RefuseStep ==
  ASSUME IInv, at = "send_with_sender", Refused(current),
         KeepSender(fd, AfterBlock(current)), NextSender,
         UNCHANGED <<fd, clients, accepted, shut, wireVars, clientVars>>
  PROVE  IInv'
<1> USE DEF wireVars, clientVars
<1>1. PICK s \in Sender \ {NoSender} : s = current /\ Read(s) > 0
  BY ChunkFacts DEF IInv, TypeOK, Refused, Blocked
<1>2. PICK c \in Clients : c = fd
  BY DEF IInv, TypeOK
<1>3. PICK t \in Sender \ {NoSender} : t = AfterBlock(s)
  BY AfterBlockFacts
<1>4. /\ sender' \in [Clients -> Sender] /\ sender'[c] = t
      /\ state' \in [Clients -> {"RECEIVING", "SENDING"}] /\ state'[c] = "SENDING"
      /\ armed' \in [Clients -> BOOLEAN] /\ armed'[c] = TRUE
      /\ \A d \in Clients \ {c} :
           sender'[d] = sender[d] /\ state'[d] = state[d] /\ armed'[d] = armed[d]
  BY <1>1, <1>2, <1>3 DEF KeepSender, IInv, TypeOK
<1>5. /\ at' \in {"epoll_wait", "send_with_sender", "resume_sending"} /\ outEvent' \in BOOLEAN
      /\ current' \in Sender /\ following' \in Seq(Sender)
      /\ at' = "send_with_sender" => current' # NoSender
      /\ Len(following') <= 1 /\ \A i \in DOMAIN following' : following'[i] # NoSender
      /\ LoopCause'
  <2>1. sender'[fd] # NoSender
    BY <1>2, <1>3, <1>4
  <2>2. QED
    BY <2>1, NextFacts
<1>6. TypeOK' /\ LoopInv'
  BY <1>4, <1>5 DEF IInv, TypeOK, LoopInv
<1>7. SenderMatchesState'
  BY <1>4 DEF IInv, SenderMatchesState
<1>8. ASSUME NEW d \in Clients PROVE ClientCause(d)'
  <2>1. CASE d # c
    BY <1>4, <2>1, SameCauses DEF IInv, CauseInv, ClientCause
  <2>2. CASE d = c
    <3>1. t.kind = "song" => Cause(c)
      BY <1>1, <1>2, <1>3, AfterBlockFacts DEF IInv, CauseInv, LoopCause
    <3>2. QED
      BY <1>4, <2>2, <3>1, SameCauses DEF IInv, CauseInv, ClientCause
  <2>3. QED
    BY <2>1, <2>2
<1>9. ASSUME NEW d \in Clients PROVE AnswerInv(d)'
  <2>1. CASE d # c
    BY <1>2, <1>4, <2>1, AnswerKept DEF IInv, OrderInv, Serving
  <2>2. CASE d = c /\ Len(asked[c]) <= 1
    <3>1. Serving(c) /\ Answered(c) /\ InOrder(c)
      BY <1>2, <2>2 DEF Serving, IInv, OrderInv, AnswerInv, Unanswered
    <3>2. InOrder(c)'
      BY <3>1 DEF InOrder, OnlyAsked
    <3>3. ~Announced(c)
      <4>1. SUFFICES ASSUME Announced(c) PROVE FALSE
        OBVIOUS
      <4>2. s.kind = "header" /\ s.len = 1 /\ s.pos = s.done /\ s.done \in Nat
        BY <1>1, <4>1, SenderFields DEF Announced
      <4>3. s.done = 0
        BY <1>1, <4>2, ChunkFacts
      <4>4. out[c] = <<>>
        BY <1>1, <4>1, <4>3 DEF Announced
      <4>5. room[c] = Room /\ Room > 0
        BY <4>4, HeaderHasRoom
      <4>6. room[c] = 0
        BY <1>1, <1>2, <4>2 DEF Refused, Blocked
      <4>7. QED
        BY <4>5, <4>6
    <3>4. following = <<>> /\ GoesOn(c, s)
      BY <1>1, <3>1, <3>3 DEF Answered
    <3>5. at' # "send_with_sender"
      BY <3>4 DEF NextSender, AfterInput
    <3>6. GoesOn(c, t)'
      <4>1. /\ t.kind = s.kind /\ t.len = s.len /\ t.pos >= s.pos
            /\ t.kind # "song" => t.pos = s.pos /\ t.done = s.done
        BY <1>3, AfterBlockFacts
      <4>2. Fits(c, t.kind, t.len)'
        BY <3>4, <4>1 DEF GoesOn, Fits, OnlyAsked
      <4>3. s.pos \in Nat /\ t.pos \in Nat /\ out[c] \in Seq(Nat)
        BY SenderFields DEF IInv, TypeOK
      <4>4. \A i \in DOMAIN out'[c] : out'[c][i] <= t.pos
        <5>1. ASSUME NEW i \in DOMAIN out[c] PROVE out[c][i] <= t.pos
          <6>1. out[c][i] \in Nat /\ out[c][i] <= s.pos
            BY <3>4, <4>3 DEF GoesOn
          <6>2. QED
            BY <4>1, <4>3, <6>1
        <5>2. QED
          BY <5>1
      <4>5. \A command \in SureText :
              OnlyAsked(c, command)' => t.done = t.pos /\ Len(out'[c]) = t.pos + 1
        BY <3>4, <4>1 DEF GoesOn, Fits, OnlyAsked
      <4>6. QED
        BY <3>4, <4>1, <4>2, <4>4, <4>5 DEF GoesOn
    <3>7. Answered(c)'
      <4>1. GoesOn(c, sender[c])'
        BY <1>4, <3>6 DEF GoesOn
      <4>2. QED
        BY <3>1, <3>5, <4>1 DEF Answered, Serving
    <3>8. QED
      BY <2>2, <3>2, <3>7 DEF AnswerInv
  <2>3. CASE d = c /\ ~(Len(asked[c]) <= 1)
    BY <2>3 DEF AnswerInv
  <2>4. QED
    BY <2>1, <2>2, <2>3
<1>10. QED
  BY <1>5, <1>6, <1>7, <1>8, <1>9 DEF IInv, CauseInv, OrderInv

\* Where a send may end the server, there is a cause.
LEMMA FatalSend ==
  ASSUME IInv, NEW s \in Sender, s.kind = "song" => Cause(fd), Exits(s) \/ Broken,
         GoDown, UNCHANGED clientVars
  PROVE  IInv'
<1>1. fd \in Clients /\ parted \subseteq Clients
  BY DEF IInv, TypeOK
<1>2. Cause(fd)
  <2>1. CASE Exits(s)
    BY <2>1, ChunkFacts
  <2>2. CASE shut[fd]
    BY <1>1, <2>2 DEF IInv, CauseInv, ClientCause
  <2>3. CASE fd \in hungUp
    BY <2>3 DEF Cause
  <2>4. QED
    BY <2>1, <2>2, <2>3 DEF Broken
<1>3. Cause(fd)'
  BY <1>2 DEF GoDown, clientVars, Cause
<1>4. fd' = fd
  BY DEF GoDown
<1>5. \E c \in Clients : Cause(c)'
  BY <1>1, <1>3, <1>4 DEF Cause
<1>6. QED
  BY <1>1, <1>5, DownStep DEF GoDown, clientVars

\* One turn of send_with_sender's loop.
LEMMA SendStep ==
  ASSUME IInv, SendWithSender
  PROVE  IInv'
<1>1. at = "send_with_sender" /\ UNCHANGED clientVars
  BY DEF SendWithSender
<1>2. CASE Finished(current) /\ NextSender /\ UNCHANGED <<fd, connVars, wireVars>>
  BY <1>1, <1>2, FinishStep
<1>3. CASE (Exits(current) \/ (~Finished(current) /\ Broken)) /\ GoDown
  <2>1. PICK s \in Sender : s = current
    BY DEF IInv, TypeOK
  <2>2. s.kind = "song" => Cause(fd)
    BY <1>1, <2>1 DEF IInv, CauseInv, LoopCause
  <2>3. QED
    BY <1>1, <1>3, <2>1, <2>2, FatalSend
<1>4. CASE /\ Read(current) > 0 /\ room[fd] > 0 /\ Writable
           /\ Transmit(current, Accepted(current, room[fd]))
           /\ current' = AfterSend(current, Accepted(current, room[fd]))
           /\ UNCHANGED <<at, fd, outEvent, following, connVars>>
  <2>1. PICK n : n = Accepted(current, room[fd])
    OBVIOUS
  <2>2. QED
    BY <1>1, <1>4, <2>1, TransmitStep
<1>5. CASE /\ Refused(current) /\ Writable
           /\ KeepSender(fd, AfterBlock(current))
           /\ NextSender
           /\ UNCHANGED <<fd, clients, accepted, shut, wireVars>>
  BY <1>1, <1>5, RefuseStep
<1>6. QED
  BY <1>2, <1>3, <1>4, <1>5 DEF SendWithSender

\* A kept sender sends a chunk.
LEMMA ResumeTransmitStep ==
  ASSUME IInv, at = "resume_sending", NEW s \in Sender \ {NoSender}, s = sender[fd],
         Read(s) > 0, room[fd] > 0, NEW n, n = Accepted(s, room[fd]),
         Transmit(s, n), sender' = [sender EXCEPT ![fd] = AfterSend(s, n)],
         UNCHANGED <<loopVars, clients, accepted, state, armed, shut, clientVars>>
  PROVE  IInv'
<1> USE DEF loopVars, clientVars
<1>1. PICK c \in Clients : c = fd
  BY DEF IInv, TypeOK
<1>2. /\ n \in 1..Read(s)
      /\ out' \in [Clients -> Seq(Nat)] /\ room' \in [Clients -> 0..Room]
      /\ out'[c] = out[c] \o Bytes(s, n)
      /\ \A d \in Clients \ {c} : out'[d] = out[d]
      /\ \A d \in Clients : Room - room'[d] <= Len(out'[d])
  BY <1>1, TransmitFacts
<1>3. PICK t \in Sender \ {NoSender} : t = AfterSend(s, n) /\ t.kind = s.kind
  BY <1>2, AfterSendFacts
<1>4. /\ sender' \in [Clients -> Sender] /\ sender'[c] = t
      /\ \A d \in Clients \ {c} : sender'[d] = sender[d]
  BY <1>1, <1>3 DEF IInv, TypeOK
<1>5. TypeOK' /\ LoopInv'
  BY <1>2, <1>4 DEF IInv, TypeOK, LoopInv
<1>6. SenderMatchesState'
  BY <1>1, <1>3, <1>4 DEF IInv, SenderMatchesState
<1>7. CauseInv'
  <2>1. \A d \in Clients : Cause(d)' <=> Cause(d)
    BY SameCauses
  <2>2. LoopCause'
    BY <1>1, <1>3, <1>4 DEF LoopCause
  <2>3. ASSUME NEW d \in Clients PROVE ClientCause(d)'
    BY <1>1, <1>3, <1>4, <2>1 DEF IInv, CauseInv, ClientCause
  <2>4. QED
    BY <2>2, <2>3 DEF CauseInv
<1>8. ASSUME NEW d \in Clients PROVE AnswerInv(d)'
  <2>1. CASE d # c
    BY <1>1, <1>2, <1>4, <2>1, AnswerKept DEF IInv, OrderInv, Serving
  <2>2. CASE d = c /\ Len(asked[c]) <= 1
    <3>1. ~Serving(c) /\ Answered(c) /\ InOrder(c)
      BY <1>1, <2>2 DEF Serving, IInv, OrderInv, AnswerInv, Unanswered
    <3>2. out[c] \in Seq(Nat) /\ GoesOn(c, s)
      BY <1>1, <3>1 DEF Answered, IInv, TypeOK
    <3>3. InOrder(c)' /\ GoesOn(c, t)'
      BY <1>2, <1>3, <3>1, <3>2, BodySent
    <3>4. GoesOn(c, sender[c])'
      BY <1>4, <3>3 DEF GoesOn
    <3>5. Answered(c)'
      BY <3>1, <3>4 DEF Answered, Serving
    <3>6. QED
      BY <2>2, <3>3, <3>5 DEF AnswerInv
  <2>3. CASE d = c /\ ~(Len(asked[c]) <= 1)
    BY <2>3 DEF AnswerInv
  <2>4. QED
    BY <2>1, <2>2, <2>3
<1>9. QED
  BY <1>5, <1>6, <1>7, <1>8 DEF IInv, OrderInv

\* The loop waits again, and the client has its sender still or none.
LEMMA ResumeDone ==
  ASSUME IInv, at = "resume_sending", at' = "epoll_wait", DropSender(fd) \/ UNCHANGED sendingVars,
         UNCHANGED <<fd, outEvent, current, following, clients, accepted, shut, wireVars, clientVars>>
  PROVE  IInv'
<1> USE DEF sendingVars, wireVars, clientVars
<1>1. fd \in Clients
  BY DEF IInv, TypeOK
<1>2. /\ sender' \in [Clients -> Sender]
      /\ state' \in [Clients -> {"RECEIVING", "SENDING"}] /\ armed' \in [Clients -> BOOLEAN]
      /\ \A d \in Clients : sender'[d] \in {sender[d], NoSender}
      /\ SenderMatchesState'
  <2>1. CASE DropSender(fd)
    BY <1>1, <2>1, DropFacts
  <2>2. CASE UNCHANGED sendingVars
    BY <2>2 DEF IInv, TypeOK, SenderMatchesState
  <2>3. QED
    BY <2>1, <2>2
<1>3. TypeOK' /\ LoopInv' /\ LoopCause'
  BY <1>2 DEF IInv, TypeOK, LoopInv, LoopCause
<1>4. ASSUME NEW d \in Clients PROVE ClientCause(d)'
  <2>1. sender'[d] = sender[d] \/ sender'[d].kind = "none"
    BY <1>2 DEF NoSender
  <2>2. QED
    BY <2>1, SameCauses DEF IInv, CauseInv, ClientCause
<1>5. ASSUME NEW d \in Clients PROVE AnswerInv(d)'
  BY <1>2, AnswerLeft DEF IInv, OrderInv
<1>6. QED
  BY <1>2, <1>3, <1>4, <1>5 DEF IInv, CauseInv, OrderInv

\* One turn of resume_sending's loop.
LEMMA ResumeStep ==
  ASSUME IInv, ResumeSending
  PROVE  IInv'
<1>1. at = "resume_sending" /\ UNCHANGED clientVars
  BY DEF ResumeSending
<1>2. PICK s \in Sender : s = sender[fd]
  BY DEF IInv, TypeOK
<1>3. CASE s = NoSender /\ GoDown
  <2>1. Cause(fd) /\ fd \in Clients /\ parted \subseteq Clients
    BY <1>1, <1>2, <1>3 DEF IInv, TypeOK, CauseInv, LoopCause
  <2>2. Cause(fd)'
    BY <1>1, <1>3, <2>1 DEF GoDown, clientVars, Cause
  <2>3. fd' = fd
    BY <1>3 DEF GoDown
  <2>4. \E c \in Clients : Cause(c)'
    BY <2>1, <2>2, <2>3 DEF Cause
  <2>5. QED
    BY <1>1, <1>3, <2>1, <2>4, DownStep DEF GoDown, clientVars
<1>4. CASE /\ s # NoSender /\ Finished(s) /\ at' = "epoll_wait"
           /\ UNCHANGED <<fd, outEvent, current, following, connVars, wireVars>>
  BY <1>1, <1>4, ResumeDone DEF connVars
<1>5. CASE (Exits(s) \/ (~Finished(s) /\ Broken)) /\ GoDown
  <2>1. s.kind = "song" => Cause(fd)
    BY <1>2 DEF IInv, TypeOK, CauseInv, ClientCause
  <2>2. QED
    BY <1>1, <1>5, <2>1, FatalSend
<1>6. CASE /\ Read(s) > 0 /\ room[fd] > 0 /\ Writable
           /\ Transmit(s, Accepted(s, room[fd]))
           /\ sender' = [sender EXCEPT ![fd] = AfterSend(s, Accepted(s, room[fd]))]
           /\ UNCHANGED <<loopVars, clients, accepted, state, armed, shut>>
  <2>1. s # NoSender
    BY <1>6, ChunkFacts
  <2>2. PICK n : n = Accepted(s, room[fd])
    OBVIOUS
  <2>3. QED
    BY <1>1, <1>2, <1>6, <2>1, <2>2, ResumeTransmitStep
<1>7. CASE /\ Refused(s) /\ Writable /\ at' = "epoll_wait" /\ DropSender(fd)
           /\ UNCHANGED <<fd, outEvent, current, following, clients, accepted, shut, wireVars>>
  BY <1>1, <1>7, ResumeDone
<1>8. QED
  BY <1>2, <1>3, <1>4, <1>5, <1>6, <1>7 DEF ResumeSending

-----------------------------------------------------------------------------
(* The theorems. *)

LEMMA InitIInv ==
  ASSUME Init
  PROVE  IInv
<1> USE MusicAssumption DEF Init
<1>1. fd \in Clients
  OBVIOUS
<1>2. NoSender \in Sender /\ NoSender.kind = "none"
  BY DEF Sender, NoSender
<1>3. TypeOK
  <2>1. /\ following \in Seq(Sender) /\ out \in [Clients -> Seq(Nat)]
        /\ inbox \in [Clients -> Seq(Command \cup {Rest})]
        /\ asked \in [Clients -> Seq(Command)]
    OBVIOUS
  <2>2. room \in [Clients -> 0..Room]
    OBVIOUS
  <2>3. sender \in [Clients -> Sender] /\ current \in Sender
    BY <1>2
  <2> HIDE DEF Init
  <2>4. /\ at = "epoll_wait" /\ outEvent = FALSE /\ clients = {} /\ accepted = {}
        /\ hungUp = {} /\ parted = {}
        /\ state \in [Clients -> {"RECEIVING", "SENDING"}]
        /\ armed \in [Clients -> BOOLEAN] /\ shut \in [Clients -> BOOLEAN]
        /\ turn \in [Clients -> Nat \cup {NoTurn}]
    BY DEF Init
  <2>5. QED
    BY <1>1, <2>1, <2>2, <2>3, <2>4 DEF TypeOK
<1>4. LoopInv /\ SenderMatchesState
  BY DEF LoopInv, SenderMatchesState
<1>5. CauseInv
  BY <1>2 DEF CauseInv, LoopCause, ClientCause
<1>6. ASSUME NEW c \in Clients PROVE AnswerInv(c)
  BY NothingInOrder DEF AnswerInv, Unanswered, Serving, InOrder
<1>7. QED
  BY <1>3, <1>4, <1>5, <1>6 DEF IInv, OrderInv

LEMMA StepIInv ==
  ASSUME IInv, [Next]_vars
  PROVE  IInv'
<1>1. ASSUME NEW c \in Clients, Request(c) PROVE IInv'
  <2>1. PICK command \in Command : Ask(c, command)
    BY <1>1, MusicAssumption DEF Request
  <2>2. QED
    BY <1>1, <2>1, AskStep DEF Request
<1>2. ASSUME NEW c \in Clients, HangUp(c) PROVE IInv'
  <2>1. hungUp \subseteq hungUp' /\ hungUp' \subseteq Clients
    BY <1>2 DEF HangUp, IInv, TypeOK
  <2>2. QED
    BY <1>2, <2>1, HangUpStep DEF HangUp
<1>3. CASE UNCHANGED vars
  <2>1. UNCHANGED <<loopVars, connVars, wireVars, inbox, asked, turn, hungUp, parted>>
    BY <1>3 DEF vars, clientVars
  <2>2. hungUp' \subseteq Clients
    BY <2>1 DEF IInv, TypeOK
  <2>3. QED
    BY <2>1, <2>2, HangUpStep
<1>4. QED
  BY <1>1, <1>2, <1>3, ReadStep, AcceptFailsStep, EventStep, SendStep, ResumeStep DEF Next, Idle

\* The inductive invariant holds.
THEOREM MusicInvariance == Spec => []IInv
<1>1. Init => IInv
  BY InitIInv
<1>2. IInv /\ [Next]_vars => IInv'
  BY StepIInv
<1>3. QED
  BY <1>1, <1>2, PTL DEF Spec

\* Every variable keeps its type, whatever the clients send.
THEOREM MusicTypeCorrect == Spec => []TypeOK
<1>1. IInv => TypeOK
  BY DEF IInv
<1>2. QED
  BY <1>1, MusicInvariance, PTL

\* State, sender and epoll's interest always agree.
THEOREM SendersMatchState == Spec => []SenderMatchesState
<1>1. IInv => SenderMatchesState
  BY DEF IInv
<1>2. QED
  BY <1>1, MusicInvariance, PTL

\* Without a song, a stop, a request in parts, a closed connection and one that could
\* not be accepted nothing ends the server.
THEOREM DownWithACause == Spec => []DownHasACause
<1>1. IInv => DownHasACause
  BY DEF IInv, CauseInv, LoopCause, Cause, DownHasACause
<1>2. QED
  BY <1>1, MusicInvariance, PTL

\* In order is what the properties say.
LEMMA InOrderEverywhere ==
  ASSUME IInv, NEW c \in Clients, NEW command \in Command, OnlyAsked(c, command)
  PROVE  InOrder(c)
<1>1. Len(asked[c]) <= 1
  <2>1. Len(<<command>>) = 1
    OBVIOUS
  <2>2. QED
    BY <2>1 DEF OnlyAsked
<1>2. QED
  BY <1>1 DEF IInv, OrderInv, AnswerInv

\* The text a connection gets for its only request lacks nothing but its end,
\* however the socket's buffer and the chunks cut it.
THEOREM TextsInOrder == Spec => []TextInOrder
<1>1. IInv => TextInOrder
  <2>1. SUFFICES ASSUME IInv, NEW c \in Clients, NEW command \in SureText,
                        OnlyAsked(c, command)
                 PROVE  IsPrefixOf(out[c], TextAnswer(command))
    BY DEF TextInOrder
  <2>2. command \in Command
    BY DEF SureText, Command
  <2>3. QED
    BY <2>1, <2>2, InOrderEverywhere DEF InOrder
<1>2. QED
  BY <1>1, MusicInvariance, PTL

\* A song's bytes are never sent twice or out of order, whatever the sizes.
THEOREM SongsMoveForward == Spec => []SongOnlyMovesForward
<1>1. IInv => SongOnlyMovesForward
  <2>1. SUFFICES ASSUME IInv, NEW c \in Clients, OnlyAsked(c, "play")
                 PROVE  \A i, j \in DOMAIN out[c] : i < j => out[c][i] < out[c][j]
    BY DEF SongOnlyMovesForward
  <2>2. "play" \in Command
    BY DEF Command
  <2>3. QED
    BY <2>1, <2>2, InOrderEverywhere DEF InOrder, Increasing
<1>2. QED
  BY <1>1, MusicInvariance, PTL

-----------------------------------------------------------------------------
(* Connections that are used again. *)

\* All that c asked for is answered by texts.
OnlyTexts(c) == \A i \in DOMAIN asked[c] : asked[c][i] \in SureText

\* How many bytes of the answer to the last request were sent.
InAnswer(c) == Len(out[c]) - turn[c]

\* Behind t, s counts from 0.
CountsFrom(s, t) == \A i \in 1..(Len(s) - t) : s[t + i] = i - 1

\* Those bytes are the first of that answer.
Begun(c) ==
  /\ turn[c] \in 0..Len(out[c])
  /\ InAnswer(c) <= 1 + TextLen(LastAsked(c))
  /\ CountsFrom(out[c], turn[c])

\* s is the sender of the text, and it goes on where the bytes sent so far end.
InPlace(c, s) ==
  /\ s.kind = "text" /\ s.len = TextLen(LastAsked(c))
  /\ s.done = s.pos /\ InAnswer(c) = s.done + 1

\* The last request is not received yet; what was sent before it, is over and read.
Awaited(c) ==
  /\ inbox[c] = <<LastAsked(c)>> /\ InAnswer(c) = 0 /\ room[c] = Room
  /\ Finished(sender[c])
  /\ Serving(c) => Finished(current) /\ \A i \in DOMAIN following : Finished(following[i])

\* The header is sent into a socket that has room, and the text will follow it.
HeaderTurn(c) ==
  /\ inbox[c] = <<>> /\ Finished(sender[c]) /\ Serving(c)
  /\ current.kind = "header" /\ current.len = 1
  /\ current.done = InAnswer(c) /\ current.pos = InAnswer(c)
  /\ following = <<NewSender("text", TextLen(LastAsked(c)))>>
  /\ current.done = 0 => room[c] > 0

\* The text is sent.
TextTurn(c) ==
  /\ inbox[c] = <<>> /\ Finished(sender[c]) /\ Serving(c)
  /\ following = <<>> /\ InPlace(c, current)

\* The loop is elsewhere, and the text is kept, over, or cut.
LeftTurn(c) ==
  /\ inbox[c] = <<>> /\ ~Serving(c)
  /\ Finished(sender[c]) \/ InPlace(c, sender[c])

\* Nothing was asked yet.
Unasked(c) ==
  /\ asked[c] = <<>> /\ inbox[c] = <<>> /\ out[c] = <<>> /\ turn[c] = NoTurn
  /\ sender[c] = NoSender /\ ~Serving(c)

TurnInv(c) ==
  c \notin parted /\ OnlyTexts(c) =>
    \/ Unasked(c)
    \/ asked[c] # <<>> /\ turn[c] = NoTurn
    \/ /\ asked[c] # <<>> /\ Begun(c)
       /\ Awaited(c) \/ HeaderTurn(c) \/ TextTurn(c) \/ LeftTurn(c)

\* A step keeps what is said of c if it leaves c's answer alone: it leaves the loop as
\* well, or the loop does not serve c afterwards, and c has its sender or none.
LEMMA TurnLeft ==
  ASSUME TypeOK, TypeOK', NEW c \in Clients, TurnInv(c), parted \subseteq parted',
         asked'[c] = asked[c], turn'[c] = turn[c], inbox'[c] = inbox[c], out'[c] = out[c],
         room'[c] >= room[c],
         \/ ~Serving(c)' /\ sender'[c] \in {sender[c], NoSender}
         \/ sender'[c] = sender[c] /\ UNCHANGED <<at, fd, current, following>>
  PROVE  TurnInv(c)'
<1>1. SUFFICES ASSUME c \notin parted, OnlyTexts(c)
               PROVE  \/ Unasked(c)'
                      \/ asked'[c] # <<>> /\ turn'[c] = NoTurn
                      \/ /\ asked'[c] # <<>> /\ Begun(c)'
                         /\ Awaited(c)' \/ HeaderTurn(c)' \/ TextTurn(c)' \/ LeftTurn(c)'
  BY DEF TurnInv, OnlyTexts
<1>2. /\ LastAsked(c)' = LastAsked(c) /\ InAnswer(c)' = InAnswer(c)
      /\ Begun(c) => Begun(c)'
  BY DEF LastAsked, InAnswer, Begun
<1>3. Finished(NoSender)
  BY ChunkFacts DEF Sender
<1>4. Finished(sender[c]) => Finished(sender'[c])
  BY <1>3
<1>5. room[c] \in 0..Room /\ room'[c] \in 0..Room
  BY DEF TypeOK
<1>6. (room[c] = Room => room'[c] = Room) /\ (room[c] > 0 => room'[c] > 0)
  BY <1>5, MusicAssumption
<1>7. CASE ~Serving(c)' /\ sender'[c] \in {sender[c], NoSender}
  <2>1. Unasked(c) => Unasked(c)'
    BY <1>7 DEF Unasked
  <2>2. Awaited(c) => Awaited(c)'
    BY <1>2, <1>4, <1>6, <1>7 DEF Awaited
  <2>3. HeaderTurn(c) \/ TextTurn(c) => LeftTurn(c)'
    BY <1>4, <1>7 DEF HeaderTurn, TextTurn, LeftTurn
  <2>4. LeftTurn(c) => LeftTurn(c)'
    BY <1>2, <1>3, <1>4, <1>7 DEF LeftTurn, InPlace
  <2>5. QED
    BY <1>1, <1>2, <2>1, <2>2, <2>3, <2>4 DEF TurnInv
<1>8. CASE sender'[c] = sender[c] /\ UNCHANGED <<at, fd, current, following>>
  <2>1. Serving(c)' <=> Serving(c)
    BY <1>8 DEF Serving
  <2>2. Unasked(c) => Unasked(c)'
    BY <1>8, <2>1 DEF Unasked
  <2>3. Awaited(c) => Awaited(c)'
    BY <1>2, <1>6, <1>8, <2>1 DEF Awaited
  <2>4. HeaderTurn(c) => HeaderTurn(c)'
    BY <1>2, <1>6, <1>8, <2>1 DEF HeaderTurn
  <2>5. TextTurn(c) => TextTurn(c)'
    BY <1>2, <1>8, <2>1 DEF TextTurn, InPlace
  <2>6. LeftTurn(c) => LeftTurn(c)'
    BY <1>2, <1>8, <2>1 DEF LeftTurn, InPlace
  <2>7. QED
    BY <1>1, <1>2, <2>2, <2>3, <2>4, <2>5, <2>6 DEF TurnInv
<1>9. QED
  BY <1>7, <1>8

\* Once the whole answer was read, nothing of it is left to be sent.
LEMMA WholeIsOver ==
  ASSUME IInv, NEW c \in Clients, Begun(c), room[c] = Room,
         InAnswer(c) = 1 + TextLen(LastAsked(c)), LastAsked(c) \in TextCommand,
         Awaited(c) \/ HeaderTurn(c) \/ TextTurn(c) \/ LeftTurn(c)
  PROVE  /\ inbox[c] = <<>> /\ Finished(sender[c])
         /\ Serving(c) => Finished(current) /\ \A i \in DOMAIN following : Finished(following[i])
<1>1. PICK L \in Nat : L = TextLen(LastAsked(c)) /\ L \in {ListLen, InfoLen}
  BY TextAnswerFacts
<1>2. sender[c] \in Sender /\ current \in Sender
  BY DEF IInv, TypeOK
<1>3. CASE Awaited(c)
  BY <1>1, <1>3 DEF Awaited
<1>4. CASE HeaderTurn(c)
  <2>1. current.done <= 1 /\ current.done = 1 + L
    BY <1>1, <1>2, <1>4, SenderFields DEF HeaderTurn
  <2>2. L = 0 /\ Finished(current)
    BY <1>1, <1>2, <1>4, <2>1, ChunkFacts DEF HeaderTurn
  <2>3. NewSender("text", 0) \in Sender /\ Finished(NewSender("text", 0))
    <3>1. NewSender("text", 0) \in Sender
      BY <1>1, <2>2, NewSenderMade DEF Kinds
    <3>2. QED
      BY <3>1, ChunkFacts DEF NewSender
  <2>4. \A i \in DOMAIN following : following[i] = NewSender("text", 0)
    BY <1>1, <1>4, <2>2 DEF HeaderTurn
  <2>5. QED
    BY <1>4, <2>2, <2>3, <2>4 DEF HeaderTurn
<1>5. CASE TextTurn(c)
  <2>1. current.done = current.len
    BY <1>1, <1>2, <1>5, SenderFields DEF TextTurn, InPlace
  <2>2. QED
    BY <1>2, <1>5, <2>1, ChunkFacts DEF TextTurn
<1>6. CASE LeftTurn(c)
  <2>1. InPlace(c, sender[c]) => sender[c].done = sender[c].len
    BY <1>1, <1>2, SenderFields DEF InPlace
  <2>2. QED
    BY <1>2, <1>6, <2>1, ChunkFacts DEF LeftTurn
<1>7. QED
  BY <1>3, <1>4, <1>5, <1>6

\* A request is c's turn if the whole answer to the one before was read.
LEMMA TurnAsk ==
  ASSUME IInv, IInv', NEW c \in Clients, TurnInv(c), NEW d \in Clients, NEW command \in Command,
         Ask(d, command), UNCHANGED <<loopVars, connVars, wireVars, hungUp, parted>>
  PROVE  TurnInv(c)'
<1> USE DEF loopVars, connVars, sendingVars, wireVars
<1>1. /\ inbox[c] \in Seq(Command \cup {Rest}) /\ asked[c] \in Seq(Command)
      /\ out[c] \in Seq(Nat) /\ room[c] \in 0..Room /\ TypeOK /\ TypeOK'
  BY DEF IInv, TypeOK
<1>2. CASE c # d
  <2>1. asked'[c] = asked[c] /\ turn'[c] = turn[c] /\ inbox'[c] = inbox[c]
    BY <1>1, <1>2 DEF Ask, TypeOK
  <2>2. room'[c] >= room[c]
    BY <1>1
  <2>3. QED
    BY <1>1, <2>1, <2>2, TurnLeft
<1>3. CASE c = d
  <2>1. /\ asked'[c] = Append(asked[c], command) /\ inbox'[c] = Append(inbox[c], command)
        /\ turn'[c] = IF AnswerRead(c) THEN Len(out[c]) ELSE NoTurn
    BY <1>1, <1>3 DEF Ask, TypeOK
  <2>2. asked'[c] # <<>> /\ LastAsked(c)' = command
    <3>1. Len(asked'[c]) = Len(asked[c]) + 1 /\ asked'[c][Len(asked[c]) + 1] = command
      BY <1>1, <2>1
    <3>2. asked'[c] # <<>>
      BY <1>1, <3>1
    <3>3. QED
      BY <3>1, <3>2 DEF LastAsked
  <2>3. SUFFICES ASSUME c \notin parted, OnlyTexts(c)', AnswerRead(c)
                 PROVE  Begun(c)' /\ Awaited(c)'
    BY <2>1, <2>2 DEF TurnInv
  <2>4. command \in TextCommand
    <3>1. Len(asked[c]) + 1 \in DOMAIN asked'[c] /\ asked'[c][Len(asked[c]) + 1] = command
      BY <1>1, <2>1
    <3>2. QED
      BY <2>3, <3>1 DEF OnlyTexts, SureText
  <2>5. OnlyTexts(c)
    <3>1. \A i \in DOMAIN asked[c] : i \in DOMAIN asked'[c] /\ asked'[c][i] = asked[c][i]
      BY <1>1, <2>1
    <3>2. QED
      BY <2>3, <3>1 DEF OnlyTexts
  <2>6. turn'[c] = Len(out[c]) /\ InAnswer(c)' = 0 /\ Len(out[c]) \in Nat
    BY <1>1, <2>1, <2>3 DEF InAnswer
  <2>7. Begun(c)'
    <3>1. CountsFrom(out[c], Len(out[c]))
      BY <2>6 DEF CountsFrom
    <3>2. QED
      BY <2>2, <2>4, <2>6, <3>1, TextAnswerFacts DEF Begun
  <2>8. /\ inbox[c] = <<>> /\ room[c] = Room /\ Finished(sender[c])
        /\ Serving(c) => Finished(current) /\ \A i \in DOMAIN following : Finished(following[i])
    <3>1. CASE Unasked(c)
      <4>1. Finished(NoSender)
        BY ChunkFacts DEF Sender
      <4>2. QED
        BY <3>1, <4>1, HeaderHasRoom DEF Unasked
    <3>2. CASE ~Unasked(c)
      <4>1. asked[c] # <<>> \/ inbox[c] = <<>>
        BY <2>3, <2>5, <3>2 DEF TurnInv
      <4>2. asked[c] # <<>>
        BY <2>3, <2>5, <3>2 DEF TurnInv
      <4>3. /\ turn[c] # NoTurn /\ room[c] = Room
            /\ Len(out[c]) = turn[c] + 1 + TextLen(LastAsked(c))
        BY <2>3, <4>2 DEF AnswerRead
      <4>4. Begun(c) /\ (Awaited(c) \/ HeaderTurn(c) \/ TextTurn(c) \/ LeftTurn(c))
        BY <2>3, <2>5, <3>2, <4>3 DEF TurnInv
      <4>5. LastAsked(c) \in TextCommand
        <5>1. Len(asked[c]) \in DOMAIN asked[c]
          BY <1>1, <4>2
        <5>2. QED
          BY <2>5, <5>1 DEF OnlyTexts, SureText, LastAsked
      <4>6. InAnswer(c) = 1 + TextLen(LastAsked(c))
        <5>1. turn[c] \in Nat /\ TextLen(LastAsked(c)) \in Nat
          BY <2>6, <4>4, <4>5, TextAnswerFacts DEF Begun
        <5>2. QED
          BY <4>3, <5>1 DEF InAnswer
      <4>7. QED
        BY <4>3, <4>4, <4>5, <4>6, WholeIsOver
    <3>3. QED
      BY <3>1, <3>2
  <2>9. inbox'[c] = <<command>>
    BY <2>1, <2>8
  <2>10. QED
    BY <2>2, <2>6, <2>7, <2>8, <2>9 DEF Awaited, Serving
<1>4. QED
  BY <1>2, <1>3

\* What recv returns first is the request that c waits for.
LEMMA AwaitedRequest ==
  ASSUME IInv, NEW c \in Clients, TurnInv(c), InputReady(c), c \notin parted, OnlyTexts(c),
         turn[c] # NoTurn
  PROVE  /\ asked[c] # <<>> /\ Begun(c) /\ Awaited(c)
         /\ inbox[c] = <<LastAsked(c)>> /\ Head(inbox[c]) = LastAsked(c)
         /\ LastAsked(c) \in SureText
<1>1. inbox[c] # <<>>
  BY DEF InputReady
<1>2. asked[c] # <<>> /\ Begun(c) /\ Awaited(c)
  BY <1>1 DEF TurnInv, Unasked, HeaderTurn, TextTurn, LeftTurn
<1>3. Len(asked[c]) \in DOMAIN asked[c]
  BY <1>2 DEF IInv, TypeOK
<1>4. QED
  BY <1>2, <1>3 DEF OnlyTexts, LastAsked, Awaited

\* The answer to it begins.
LEMMA TurnAnswer ==
  ASSUME IInv, IInv', NEW c \in Clients, TurnInv(c), NEW d \in Clients, InputReady(d),
         NEW kind, NEW len, Answer(d, kind, len), fd' = d,
         NEW q, inbox' = [inbox EXCEPT ![d] = q], UNCHANGED <<asked, turn>>,
         parted \subseteq parted',
         d \notin parted' /\ Head(inbox[d]) \in SureText =>
           q = <<>> /\ kind = "text" /\ len = TextLen(Head(inbox[d]))
  PROVE  TurnInv(c)'
<1> USE DEF Answer, connVars, sendingVars, wireVars
<1>1. at = "epoll_wait" /\ at' = "send_with_sender" /\ ~Serving(c)
  BY DEF InputReady, Serving
<1>2. TypeOK /\ TypeOK' /\ room[c] \in Int
  <2>1. TypeOK /\ TypeOK'
    BY DEF IInv
  <2>2. room[c] \in 0..Room
    BY <2>1 DEF TypeOK
  <2>3. QED
    BY <2>1, <2>2
<1>3. CASE c # d
  <2>1. inbox'[c] = inbox[c] /\ ~Serving(c)'
    BY <1>2, <1>3 DEF TypeOK, Serving
  <2>2. QED
    BY <1>2, <2>1, TurnLeft
<1>4. CASE c = d
  <2>1. SUFFICES ASSUME c \notin parted', OnlyTexts(c)
                 PROVE  \/ asked[c] # <<>> /\ turn[c] = NoTurn
                        \/ asked[c] # <<>> /\ Begun(c)' /\ HeaderTurn(c)'
    BY DEF TurnInv, OnlyTexts
  <2>2. CASE turn[c] = NoTurn
    <3>1. inbox[c] # <<>>
      BY <1>4 DEF InputReady
    <3>2. asked[c] # <<>>
      BY <2>1, <2>2, <3>1 DEF TurnInv, Unasked
    <3>3. QED
      BY <2>2, <3>2
  <2>3. CASE turn[c] # NoTurn
    <3>1. /\ asked[c] # <<>> /\ Begun(c) /\ Awaited(c)
          /\ Head(inbox[c]) = LastAsked(c) /\ LastAsked(c) \in SureText
      BY <1>4, <2>1, <2>3, AwaitedRequest
    <3>2. q = <<>> /\ kind = "text" /\ len = TextLen(LastAsked(c)) /\ inbox'[c] = <<>>
      BY <1>2, <1>4, <2>1, <3>1 DEF TypeOK
    <3>3. LastAsked(c)' = LastAsked(c) /\ InAnswer(c)' = InAnswer(c) /\ Begun(c)'
      BY <3>1 DEF LastAsked, InAnswer, Begun
    <3>4. HeaderTurn(c)'
      <4>1. /\ current'.kind = "header" /\ current'.len = 1 /\ current'.done = 0
            /\ current'.pos = 0
        BY DEF NewSender
      <4>2. QED
        BY <1>1, <1>4, <3>1, <3>2, <3>3, <4>1, MusicAssumption DEF HeaderTurn, Awaited, Serving
    <3>5. QED
      BY <3>1, <3>3, <3>4
  <2>4. QED
    BY <2>2, <2>3
<1>5. QED
  BY <1>3, <1>4

\* No event of any client disturbs what is said of c.
LEMMA TurnEvent ==
  ASSUME IInv, IInv', NEW c \in Clients, TurnInv(c), NEW d \in Clients, Event(d)
  PROVE  TurnInv(c)'
<1>1. /\ TypeOK /\ TypeOK' /\ room[c] \in 0..Room
  BY DEF IInv, TypeOK
<1>2. CASE SetupNewClient(d)
  BY <1>1, <1>2, TurnLeft DEF SetupNewClient, loopVars, wireVars, clientVars
<1>3. CASE HandleClose(d)
  <2>1. at' # "send_with_sender" /\ UNCHANGED <<wireVars, clientVars>>
    BY <1>3 DEF HandleClose, AfterInput
  <2>2. sender'[c] \in {sender[c], NoSender}
    BY <1>1, <1>3 DEF HandleClose, DropSender, TypeOK
  <2>3. QED
    BY <1>1, <2>1, <2>2, TurnLeft DEF Serving, wireVars, clientVars
<1>4. CASE DispatchOutput(d)
  BY <1>1, <1>4, TurnLeft DEF DispatchOutput, connVars, sendingVars, wireVars, clientVars, Serving
<1>5. CASE GoDown /\ UNCHANGED <<inbox, asked, turn>> /\ parted \subseteq parted'
  BY <1>1, <1>5, TurnLeft DEF GoDown, connVars, sendingVars, wireVars, Serving
<1>6. CASE HandlePart(d)
  BY <1>5, <1>6 DEF HandlePart
<1>7. CASE HandleText(d)
  <2>1. PICK command \in TextCommand :
          HandleInput(d, command) /\ Answer(d, "text", TextLen(command))
    BY <1>7 DEF HandleText
  <2>2. /\ InputReady(d) /\ fd' = d /\ Head(inbox[d]) = command
        /\ inbox' = [inbox EXCEPT ![d] = <<>>] /\ UNCHANGED <<asked, turn, parted>>
    BY <2>1 DEF HandleInput
  <2>3. QED
    BY <2>1, <2>2, TurnAnswer
<1>8. {"play", "stop", Rest} \cap SureText = {}
  BY DEF SureText, TextCommand, Rest
<1>9. CASE HandlePlay(d)
  <2>1. /\ InputReady(d) /\ fd' = d /\ Head(inbox[d]) = "play" /\ Answer(d, "song", SongLen)
        /\ inbox' = [inbox EXCEPT ![d] = <<>>] /\ UNCHANGED <<asked, turn, parted>>
    BY <1>9 DEF HandlePlay, HandleInput
  <2>2. QED
    BY <1>8, <2>1, TurnAnswer
<1>10. CASE HandleRest(d)
  <2>1. CASE HandleInput(d, Rest) /\ Answer(d, "text", ListLen)
    <3>1. /\ InputReady(d) /\ fd' = d /\ Head(inbox[d]) = Rest
          /\ inbox' = [inbox EXCEPT ![d] = <<>>] /\ UNCHANGED <<asked, turn, parted>>
      BY <2>1 DEF HandleInput
    <3>2. QED
      BY <1>8, <2>1, <3>1, TurnAnswer
  <2>2. CASE GoDown /\ UNCHANGED clientVars
    BY <1>5, <2>2 DEF clientVars
  <2>3. QED
    BY <1>10, <2>1, <2>2 DEF HandleRest
<1>11. CASE HandleHeader(d)
  <2>1. PICK kind \in {"text", "song"}, len \in {InfoLen, SongLen} : Answer(d, kind, len)
    BY <1>11 DEF HandleHeader
  <2>2. /\ InputReady(d) /\ fd' = d /\ UNCHANGED <<asked, turn>>
        /\ parted' = parted \cup {d}
        /\ inbox' = [inbox EXCEPT ![d] = <<Rest>> \o Tail(inbox[d])]
    BY <1>1, <1>11 DEF HandleHeader, TypeOK
  <2>3. QED
    BY <2>1, <2>2, TurnAnswer
<1>12. CASE HandleStop(d)
  <2>1. /\ at' # "send_with_sender" /\ at = "epoll_wait" /\ UNCHANGED <<asked, turn, parted, wireVars>>
        /\ InputReady(d) /\ Head(inbox[d]) = "stop"
    BY <1>12 DEF HandleStop, HandleInput, AfterInput, InputReady
  <2>2. sender'[c] \in {sender[c], NoSender}
    <3>1. DropSender(d) \/ UNCHANGED sender
      BY <1>12 DEF HandleStop, sendingVars
    <3>2. QED
      BY <1>1, <3>1 DEF DropSender, TypeOK
  <2>3. CASE c # d
    <3>1. inbox'[c] = inbox[c]
      BY <1>1, <1>12, <2>3 DEF HandleStop, HandleInput, TypeOK
    <3>2. QED
      BY <1>1, <2>1, <2>2, <3>1, TurnLeft DEF Serving, wireVars
  <2>4. CASE c = d
    <3>1. SUFFICES ASSUME c \notin parted, OnlyTexts(c) PROVE asked[c] # <<>> /\ turn[c] = NoTurn
      BY <2>1 DEF TurnInv, OnlyTexts
    <3>2. turn[c] = NoTurn
      BY <1>8, <2>1, <2>4, <3>1, AwaitedRequest
    <3>3. asked[c] # <<>>
      BY <2>1, <2>4, <3>1 DEF TurnInv, Unasked, InputReady
    <3>4. QED
      BY <3>2, <3>3
  <2>5. QED
    BY <2>3, <2>4
<1>13. QED
  BY <1>2, <1>3, <1>4, <1>6, <1>7, <1>9, <1>10, <1>11, <1>12 DEF Event

-----------------------------------------------------------------------------
(* Sending an answer that has its turn. *)

\* Bytes that follow those sent so far.
LEMMA BegunFurther ==
  ASSUME NEW o \in Seq(Nat), NEW t \in 0..Len(o), CountsFrom(o, t),
         NEW s \in Sender, NEW n \in Nat,
         IF s.kind = "header" THEN n = 1 /\ Len(o) = t ELSE s.pos + 1 = Len(o) - t
  PROVE  Len(o \o Bytes(s, n)) = Len(o) + n /\ CountsFrom(o \o Bytes(s, n), t)
<1>1. PICK b \in Seq(Nat) : b = Bytes(s, n) /\ Len(b) = n
  BY BytesFacts
<1>2. \A i \in 1..n : b[i] = IF s.kind = "header" THEN 0 ELSE s.pos + i
  BY <1>1, BytesFacts
<1>3. PICK m \in Nat : m = Len(o)
  OBVIOUS
<1>4. t \in Nat /\ t <= m /\ s.pos \in Nat
  BY <1>3, SenderFields
<1>5. IsAppended(o \o b, o, m, b, n)
  BY <1>1, <1>3, Elements
<1>6. ASSUME NEW i \in 1..(m + n - t) PROVE (o \o b)[t + i] = i - 1
  <2>1. t + i \in 1..(m + n)
    BY <1>4
  <2>2. CASE t + i <= m
    <3>1. i \in 1..(Len(o) - t) /\ t + i \in 1..m
      BY <1>3, <1>4, <2>2
    <3>2. (o \o b)[t + i] = o[t + i]
      BY <1>5, <3>1 DEF IsAppended
    <3>3. QED
      BY <3>1, <3>2 DEF CountsFrom
  <2>3. CASE ~(t + i <= m)
    <3>1. PICK j \in 1..n : t + i = m + j
      <4>1. t + i - m \in 1..n /\ t + i = m + (t + i - m)
        BY <1>3, <1>4, <2>1, <2>3
      <4>2. QED
        BY <4>1
    <3>2. (o \o b)[t + i] = IF s.kind = "header" THEN 0 ELSE s.pos + j
      BY <1>2, <1>5, <3>1 DEF IsAppended
    <3>3. CASE s.kind = "header"
      <4>1. i = 1
        BY <1>3, <1>4, <3>1, <3>3
      <4>2. QED
        BY <3>2, <3>3, <4>1
    <3>4. CASE s.kind # "header"
      <4>1. s.pos + 1 = m - t
        BY <1>3, <3>4
      <4>2. s.pos + j = i - 1
        <5>1. PICK p \in Nat : p = s.pos
          BY <1>4
        <5>2. t + i = m + j /\ p + 1 = m - t /\ i \in Int /\ j \in Int
          BY <1>4, <3>1, <4>1, <5>1
        <5>3. p + j = i - 1
          BY <1>4, <5>2
        <5>4. QED
          BY <5>1, <5>3
      <4>3. QED
        BY <3>2, <3>4, <4>2
    <3>5. QED
      BY <3>3, <3>4
  <2>4. QED
    BY <2>2, <2>3
<1>7. Len(o \o b) = m + n
  BY <1>5 DEF IsAppended
<1>8. QED
  BY <1>1, <1>3, <1>6, <1>7 DEF CountsFrom

\* A chunk of the text, sent by the loop or by resume_sending, and its sender after it.
LEMMA TextFurther ==
  ASSUME IInv, NEW c \in Clients, Begun(c), NEW s \in Sender \ {NoSender}, InPlace(c, s),
         LastAsked(c) \in TextCommand,
         NEW n \in 1..Read(s), out'[c] = out[c] \o Bytes(s, n), UNCHANGED <<asked, turn>>
  PROVE  Begun(c)' /\ InPlace(c, AfterSend(s, n))'
<1>0. PICK o \in Seq(Nat) : o = out[c]
  BY DEF IInv, TypeOK
<1>1. PICK t \in 0..Len(o) : o = out[c] /\ t = turn[c]
  BY <1>0 DEF Begun
<1>2. Len(o) - t = s.done + 1 /\ s.pos = s.done /\ s.kind = "text" /\ CountsFrom(o, t)
  BY <1>1 DEF InPlace, Begun, InAnswer
<1>3. PICK u \in Sender : u = AfterSend(s, n) /\ u.kind = "text" /\ u.len = s.len
                          /\ u.done = s.done + n /\ u.pos = s.done + n
  BY <1>2, AfterSendFacts
<1>4. n \in Nat /\ s.done \in Nat /\ s.len \in Nat /\ u.done <= u.len
  BY <1>3, ChunkFacts, SenderFields
<1>5. Len(out'[c]) = Len(o) + n /\ CountsFrom(out'[c], t)
  <2>1. IF s.kind = "header" THEN n = 1 /\ Len(o) = t ELSE s.pos + 1 = Len(o) - t
    BY <1>2
  <2>2. Len(o \o Bytes(s, n)) = Len(o) + n /\ CountsFrom(o \o Bytes(s, n), t)
    BY <1>2, <1>4, <2>1, BegunFurther
  <2>3. QED
    BY <1>1, <2>2
<1>6. LastAsked(c)' = LastAsked(c) /\ InAnswer(c)' = s.done + n + 1 /\ turn'[c] = t
  <2>1. PICK m \in Nat : m = Len(o)
    OBVIOUS
  <2>2. turn'[c] = t /\ LastAsked(c)' = LastAsked(c)
    BY <1>1 DEF LastAsked
  <2>3. InAnswer(c)' = m + n - t
    BY <1>5, <2>1, <2>2 DEF InAnswer
  <2>4. PICK k \in Nat, d \in Nat : k = n /\ d = s.done
    BY <1>4
  <2>5. t \in Nat /\ m - t = d + 1
    BY <1>2, <2>1, <2>4
  <2>6. m + k - t = d + k + 1
    BY <2>5
  <2>7. QED
    BY <2>2, <2>3, <2>4, <2>6
<1>7. s.len = TextLen(LastAsked(c))
  BY DEF InPlace
<1>8. Begun(c)'
  <2>2. t \in 0..Len(out'[c])
    BY <1>1, <1>4, <1>5
  <2>3. InAnswer(c)' <= 1 + TextLen(LastAsked(c))
    BY <1>3, <1>4, <1>6, <1>7
  <2>4. QED
    BY <1>5, <1>6, <2>2, <2>3 DEF Begun
<1>9. InPlace(c, u)'
  BY <1>3, <1>6, <1>7, <1>4 DEF InPlace
<1>10. QED
  BY <1>3, <1>8, <1>9 DEF InPlace

\* The header is sent, and its sender has nothing left.
LEMMA HeaderFurther ==
  ASSUME IInv, NEW c \in Clients, Begun(c), HeaderTurn(c), Read(current) > 0,
         LastAsked(c) \in TextCommand,
         NEW n \in 1..Read(current), out'[c] = out[c] \o Bytes(current, n),
         current' = AfterSend(current, n),
         UNCHANGED <<at, fd, following, sender, inbox, asked, turn>>
  PROVE  Begun(c)' /\ HeaderTurn(c)'
<1>1. PICK o \in Seq(Nat) : o = out[c]
  BY DEF IInv, TypeOK
<1>2. PICK t \in 0..Len(o) : t = turn[c]
  BY <1>1 DEF Begun
<1>3. /\ current \in Sender \ {NoSender} /\ current.kind = "header" /\ current.len = 1
      /\ current.done = InAnswer(c) /\ current.pos = InAnswer(c)
  BY DEF HeaderTurn, Serving, IInv, TypeOK, LoopInv
<1>4. current.done = 0 /\ n = 1 /\ InAnswer(c) = 0 /\ Len(o) = t
  <2>1. InChunk(current) \in 0..(current.len - current.done) /\ Read(current) = InChunk(current)
    BY <1>3, ChunkFacts
  <2>2. PICK d \in Nat : d = current.done
    BY <1>3, SenderFields
  <2>3. d = 0 /\ n = 1
    BY <1>3, <2>1, <2>2
  <2>4. PICK m \in Nat : m = Len(o)
    OBVIOUS
  <2>5. m - t = 0 /\ t \in Int
    BY <1>1, <1>2, <1>3, <2>2, <2>3, <2>4 DEF InAnswer
  <2>6. QED
    BY <1>3, <2>2, <2>3, <2>4, <2>5
<1>5. Len(out'[c]) = Len(o) + 1 /\ CountsFrom(out'[c], t)
  <2>1. CountsFrom(o, t)
    BY <1>1, <1>2 DEF Begun
  <2>2. Len(o \o Bytes(current, n)) = Len(o) + n /\ CountsFrom(o \o Bytes(current, n), t)
    BY <1>3, <1>4, <2>1, BegunFurther
  <2>3. QED
    BY <1>1, <1>4, <2>2
<1>6. turn'[c] = t /\ LastAsked(c)' = LastAsked(c) /\ InAnswer(c)' = 1
  <2>1. turn'[c] = t /\ LastAsked(c)' = LastAsked(c)
    BY <1>2 DEF LastAsked
  <2>2. Len(out'[c]) = t + 1 /\ t \in Nat
    BY <1>2, <1>4, <1>5
  <2>3. QED
    BY <2>1, <2>2 DEF InAnswer
<1>7. Begun(c)'
  <2>1. TextLen(LastAsked(c)) \in Nat
    BY TextAnswerFacts
  <2>2. t \in 0..Len(out'[c])
    BY <1>4, <1>5
  <2>3. QED
    BY <1>5, <1>6, <2>1, <2>2 DEF Begun
<1>8. /\ current'.kind = "header" /\ current'.len = 1 /\ current'.done = 1 /\ current'.pos = 1
  BY <1>3, <1>4, AfterSendFacts
<1>9. QED
  BY <1>6, <1>7, <1>8 DEF HeaderTurn, Serving

\* What follows the loop's sender once that is over: the text after its header, or
\* something else than sending.
LEMMA TurnNext ==
  ASSUME IInv, IInv', NEW c \in Clients, TurnInv(c), at = "send_with_sender", c = fd,
         Finished(current), NextSender, UNCHANGED <<fd, connVars, wireVars, clientVars>>
  PROVE  TurnInv(c)'
<1> USE DEF connVars, sendingVars, wireVars, clientVars
<1>1. /\ TypeOK /\ TypeOK' /\ room[c] \in 0..Room /\ Serving(c)
      /\ following \in Seq(Sender) /\ Len(following) <= 1
  BY DEF IInv, TypeOK, LoopInv, Serving
<1>2. CASE following = <<>>
  <2>1. ~Serving(c)'
    BY <1>2 DEF NextSender, AfterInput, Serving
  <2>2. QED
    BY <1>1, <2>1, TurnLeft
<1>3. CASE following # <<>>
  <2>1. following = <<Head(following)>> /\ Tail(following) = <<>>
    BY <1>1, <1>3, SingletonSeq
  <2>2. current' = Head(following) /\ following' = <<>> /\ UNCHANGED <<at, outEvent>>
    BY <1>3, <2>1 DEF NextSender
  <2>3. /\ LastAsked(c)' = LastAsked(c) /\ InAnswer(c)' = InAnswer(c)
        /\ Begun(c) => Begun(c)'
    BY DEF LastAsked, InAnswer, Begun
  <2>4. SUFFICES ASSUME c \notin parted, OnlyTexts(c), asked[c] # <<>>, Begun(c),
                        Awaited(c) \/ HeaderTurn(c)
                 PROVE  Awaited(c)' \/ TextTurn(c)'
    BY <1>1, <1>3, <2>3 DEF TurnInv, OnlyTexts, Unasked, TextTurn, LeftTurn
  <2>5. CASE Awaited(c)
    <3>1. Finished(Head(following))
      <4>1. 1 \in DOMAIN following /\ Head(following) = following[1]
        BY <2>1
      <4>2. QED
        BY <1>1, <2>5, <4>1 DEF Awaited
    <3>2. DOMAIN following' = {}
      BY <2>2
    <3>3. QED
      BY <2>2, <2>3, <2>5, <3>1, <3>2 DEF Awaited
  <2>6. CASE HeaderTurn(c)
    <3>1. Head(following) = NewSender("text", TextLen(LastAsked(c)))
      BY <2>6 DEF HeaderTurn
    <3>2. /\ current'.kind = "text" /\ current'.len = TextLen(LastAsked(c))
          /\ current'.done = 0 /\ current'.pos = 0
      BY <2>2, <3>1 DEF NewSender
    <3>3. InAnswer(c) = 1
      <4>1. current.done = current.len
        BY <1>1, ChunkFacts DEF TypeOK
      <4>2. QED
        BY <2>6, <4>1 DEF HeaderTurn
    <3>4. QED
      BY <1>1, <2>2, <2>3, <2>6, <3>2, <3>3 DEF TextTurn, InPlace, HeaderTurn, Serving
  <2>7. QED
    BY <2>4, <2>5, <2>6
<1>4. QED
  BY <1>2, <1>3

\* A refused send keeps the sender of a text in its place; a header is not refused.
LEMMA TurnRefused ==
  ASSUME IInv, IInv', NEW c \in Clients, TurnInv(c), at = "send_with_sender", c = fd,
         Refused(current), KeepSender(fd, AfterBlock(current)), NextSender,
         UNCHANGED <<fd, wireVars, clientVars>>
  PROVE  TurnInv(c)'
<1> USE DEF wireVars, clientVars
<1>1. /\ TypeOK /\ Serving(c) /\ current \in Sender \ {NoSender}
      /\ asked[c] \in Seq(Command)
  BY DEF IInv, TypeOK, LoopInv, Serving
<1>2. Read(current) > 0 /\ ~Finished(current)
  BY <1>1, ChunkFacts DEF Refused, Blocked
<1>3. SUFFICES ASSUME c \notin parted, OnlyTexts(c), asked[c] # <<>>, Begun(c),
                      HeaderTurn(c) \/ TextTurn(c)
               PROVE  Begun(c)' /\ LeftTurn(c)'
  BY <1>1, <1>2 DEF TurnInv, OnlyTexts, Unasked, Awaited, LeftTurn
<1>4. /\ LastAsked(c)' = LastAsked(c) /\ InAnswer(c)' = InAnswer(c) /\ Begun(c)'
  BY <1>3 DEF LastAsked, InAnswer, Begun
<1>5. CASE HeaderTurn(c)
  <2>1. current.done = 0
    <3>1. current.done <= 1 /\ current.done \in Nat /\ current.done # 1
      BY <1>1, <1>2, <1>5, SenderFields, ChunkFacts DEF HeaderTurn
    <3>2. QED
      BY <3>1
  <2>2. room[fd] > 0 /\ current.kind = "header"
    BY <1>5, <2>1 DEF HeaderTurn
  <2>3. QED
    BY <2>2 DEF Refused, Blocked
<1>6. CASE TextTurn(c)
  <2>1. sender'[c] = current
    <3>1. AfterBlock(current) = current
      BY <1>1, <1>6, AfterBlockFacts DEF TextTurn, InPlace
    <3>2. QED
      BY <1>1, <3>1 DEF KeepSender, TypeOK
  <2>2. ~Serving(c)'
    BY <1>6 DEF TextTurn, NextSender, AfterInput, Serving
  <2>3. QED
    BY <1>4, <1>6, <2>1, <2>2 DEF TextTurn, LeftTurn, InPlace
<1>7. QED
  BY <1>3, <1>5, <1>6

\* One turn of send_with_sender's loop.
LEMMA TurnSend ==
  ASSUME IInv, IInv', NEW c \in Clients, TurnInv(c), SendWithSender
  PROVE  TurnInv(c)'
<1>1. /\ at = "send_with_sender" /\ UNCHANGED <<fd, clientVars>>
      /\ TypeOK /\ TypeOK' /\ room[c] \in 0..Room
      /\ fd \in Clients /\ current \in Sender \ {NoSender} /\ asked[c] \in Seq(Command)
  BY DEF SendWithSender, GoDown, IInv, TypeOK, LoopInv
<1>2. CASE c # fd
  <2>1. ~Serving(c)'
    BY <1>1, <1>2 DEF Serving
  <2>2. out'[c] = out[c] /\ sender'[c] = sender[c] /\ room'[c] = room[c]
    BY <1>1, <1>2 DEF SendWithSender, GoDown, Transmit, KeepSender, connVars, sendingVars,
                      wireVars, TypeOK
  <2>3. QED
    BY <1>1, <2>1, <2>2, TurnLeft DEF clientVars
<1>3. CASE c = fd /\ Finished(current) /\ NextSender /\ UNCHANGED <<connVars, wireVars>>
  BY <1>1, <1>3, TurnNext
<1>4. CASE c = fd /\ GoDown
  BY <1>1, <1>4, TurnLeft DEF GoDown, connVars, sendingVars, wireVars, clientVars, Serving
<1>5. CASE /\ c = fd /\ Refused(current) /\ KeepSender(fd, AfterBlock(current)) /\ NextSender
           /\ UNCHANGED wireVars
  BY <1>1, <1>5, TurnRefused
<1>6. ASSUME c = fd, NEW n, n = Accepted(current, room[fd]), Read(current) > 0, room[fd] > 0,
             Transmit(current, n), current' = AfterSend(current, n),
             UNCHANGED <<at, following, connVars>>
      PROVE  TurnInv(c)'
  <2>1. n \in 1..Read(current) /\ out'[c] = out[c] \o Bytes(current, n)
    BY <1>1, <1>6, TransmitFacts
  <2>2. UNCHANGED <<sender, inbox, asked, turn, parted>> /\ Serving(c) /\ Serving(c)'
    BY <1>1, <1>6 DEF connVars, sendingVars, clientVars, Serving
  <2>3. ~Finished(current)
    BY <1>1, <1>6, ChunkFacts
  <2>4. SUFFICES ASSUME c \notin parted, OnlyTexts(c), asked[c] # <<>>, Begun(c),
                        HeaderTurn(c) \/ TextTurn(c)
                 PROVE  Begun(c)' /\ (HeaderTurn(c)' \/ TextTurn(c)')
    BY <2>2, <2>3 DEF TurnInv, OnlyTexts, Unasked, Awaited, LeftTurn
  <2>5. LastAsked(c) \in TextCommand
    <3>1. Len(asked[c]) \in DOMAIN asked[c]
      BY <1>1, <2>4
    <3>2. QED
      BY <2>4, <3>1 DEF OnlyTexts, SureText, LastAsked
  <2>6. CASE HeaderTurn(c)
    BY <1>1, <1>6, <2>1, <2>2, <2>4, <2>5, <2>6, HeaderFurther
  <2>7. CASE TextTurn(c)
    <3>1. Begun(c)' /\ InPlace(c, current)'
      <4>1. PICK s \in Sender \ {NoSender} : s = current
        BY <1>1
      <4>2. InPlace(c, s) /\ n \in 1..Read(s) /\ out'[c] = out[c] \o Bytes(s, n)
        BY <2>1, <2>7, <4>1 DEF TextTurn
      <4>3. Begun(c)' /\ InPlace(c, AfterSend(s, n))'
        BY <2>2, <2>4, <2>5, <4>2, TextFurther
      <4>4. current' = AfterSend(s, n)
        BY <1>6, <4>1
      <4>5. QED
        BY <4>3, <4>4 DEF InPlace
    <3>2. QED
      BY <1>6, <2>2, <2>7, <3>1 DEF TextTurn
  <2>8. QED
    BY <2>4, <2>6, <2>7
<1>7. QED
  BY <1>1, <1>2, <1>3, <1>4, <1>5, <1>6 DEF SendWithSender

\* One turn of resume_sending's loop.
LEMMA TurnResume ==
  ASSUME IInv, IInv', NEW c \in Clients, TurnInv(c), ResumeSending
  PROVE  TurnInv(c)'
<1>1. /\ at = "resume_sending" /\ UNCHANGED <<fd, clientVars>>
      /\ TypeOK /\ TypeOK' /\ room[c] \in 0..Room
      /\ fd \in Clients /\ sender[fd] \in Sender /\ asked[c] \in Seq(Command)
  BY DEF ResumeSending, GoDown, loopVars, IInv, TypeOK
<1>2. ~Serving(c) /\ ~Serving(c)'
  BY <1>1 DEF ResumeSending, GoDown, loopVars, Serving
<1>3. CASE c # fd
  <2>1. out'[c] = out[c] /\ sender'[c] = sender[c] /\ room'[c] = room[c]
    BY <1>1, <1>3 DEF ResumeSending, GoDown, Transmit, DropSender, connVars, sendingVars,
                      wireVars, TypeOK
  <2>2. QED
    BY <1>1, <1>2, <2>1, TurnLeft DEF clientVars
<1>4. CASE c = fd /\ UNCHANGED wireVars /\ (UNCHANGED connVars \/ DropSender(fd))
  <2>1. sender'[c] \in {sender[c], NoSender}
    BY <1>1, <1>4 DEF connVars, sendingVars, DropSender, TypeOK
  <2>2. QED
    BY <1>1, <1>2, <1>4, <2>1, TurnLeft DEF wireVars, clientVars
<1>5. ASSUME c = fd, NEW s \in Sender, s = sender[c], NEW n, n = Accepted(s, room[fd]),
             Read(s) > 0, room[fd] > 0,
             Transmit(s, n), sender' = [sender EXCEPT ![fd] = AfterSend(s, n)],
             UNCHANGED loopVars
      PROVE  TurnInv(c)'
  <2>1. s # NoSender /\ ~Finished(s)
    BY <1>5, ChunkFacts
  <2>2. n \in 1..Read(s) /\ out'[c] = out[c] \o Bytes(s, n)
    BY <1>1, <1>5, <2>1, TransmitFacts
  <2>3. UNCHANGED <<inbox, asked, turn, parted>> /\ sender'[c] = AfterSend(s, n)
    BY <1>1, <1>5 DEF clientVars, TypeOK
  <2>4. SUFFICES ASSUME c \notin parted, OnlyTexts(c), asked[c] # <<>>, Begun(c),
                        LeftTurn(c), InPlace(c, s)
                 PROVE  Begun(c)' /\ LeftTurn(c)'
    BY <1>2, <1>5, <2>1, <2>3 DEF TurnInv, OnlyTexts, Unasked, Awaited, HeaderTurn, TextTurn,
                                  LeftTurn
  <2>5. LastAsked(c) \in TextCommand
    <3>1. Len(asked[c]) \in DOMAIN asked[c]
      BY <1>1, <2>4
    <3>2. QED
      BY <2>4, <3>1 DEF OnlyTexts, SureText, LastAsked
  <2>6. Begun(c)' /\ InPlace(c, AfterSend(s, n))'
    BY <2>1, <2>2, <2>3, <2>4, <2>5, TextFurther
  <2>7. InPlace(c, sender[c])'
    BY <2>3, <2>6 DEF InPlace
  <2>8. QED
    BY <1>2, <2>3, <2>4, <2>6, <2>7 DEF LeftTurn
<1>6. QED
  BY <1>1, <1>3, <1>4, <1>5 DEF ResumeSending, GoDown

LEMMA InitTurn ==
  ASSUME Init, NEW c \in Clients
  PROVE  TurnInv(c)
  BY DEF Init, TurnInv, Unasked, Serving

LEMMA StepTurn ==
  ASSUME IInv, IInv', [Next]_vars, NEW c \in Clients, TurnInv(c)
  PROVE  TurnInv(c)'
<1>1. TypeOK /\ TypeOK' /\ room[c] \in 0..Room
  BY DEF IInv, TypeOK
<1>2. CASE \E d \in Clients : Request(d)
  <2>1. PICK d \in Clients, command \in Command : Ask(d, command) /\ Request(d)
    BY <1>2, MusicAssumption DEF Request
  <2>2. QED
    BY <2>1, TurnAsk DEF Request
<1>3. CASE \E d \in Clients : ReadByte(d) \/ HangUp(d) \/ AcceptFails(d)
  <2>1. room'[c] >= room[c]
    <3>1. CASE room' = room
      BY <1>1, <3>1
    <3>2. ASSUME NEW d \in Clients, ReadByte(d) PROVE room'[c] >= room[c]
      <4>1. room'[c] = IF c = d THEN room[c] + 1 ELSE room[c]
        BY <1>1, <3>2 DEF ReadByte, TypeOK
      <4>2. QED
        BY <1>1, <4>1
    <3>3. QED
      BY <1>3, <3>1, <3>2 DEF HangUp, AcceptFails, wireVars
  <2>2. QED
    BY <1>1, <1>3, <2>1, TurnLeft DEF ReadByte, HangUp, AcceptFails, Serving, loopVars,
       connVars, sendingVars, wireVars, clientVars
<1>4. CASE UNCHANGED vars
  BY <1>1, <1>4, TurnLeft DEF vars, loopVars, connVars, sendingVars, wireVars, clientVars
<1>5. QED
  BY <1>2, <1>3, <1>4, TurnEvent, TurnSend, TurnResume DEF Next, Idle

\* However often a connection is used again for texts: as long as the client waits for
\* the whole answer each time, the next one comes whole and in order as far as it
\* comes, and begins with its header.  This holds for any sizes of texts, chunks and
\* buffers, and whatever other clients do.
THEOREM AnswersComeInTurn == Spec => []AnswersInTurn
<1> DEFINE TIInv == IInv /\ \A c \in Clients : TurnInv(c)
<1>1. Init => TIInv
  BY InitIInv, InitTurn
<1>2. TIInv /\ [Next]_vars => TIInv'
  BY StepIInv, StepTurn
<1>3. TIInv => AnswersInTurn
  <2>1. SUFFICES ASSUME TIInv, NEW c \in Clients \ parted, turn[c] # NoTurn, OnlyTexts(c)
                 PROVE  IsPrefixOf(SubSeq(out[c], turn[c] + 1, Len(out[c])),
                                   TextAnswer(LastAsked(c)))
    BY DEF AnswersInTurn, OnlyTexts
  <2>2. asked[c] # <<>> /\ Begun(c)
    BY <2>1 DEF TurnInv, Unasked
  <2>3. PICK o \in Seq(Nat) : o = out[c]
    BY <2>1 DEF IInv, TypeOK
  <2>4. PICK t \in 0..Len(o) : t = turn[c]
    BY <2>2, <2>3 DEF Begun
  <2>5. LastAsked(c) \in TextCommand
    <3>1. Len(asked[c]) \in DOMAIN asked[c]
      BY <2>1, <2>2 DEF IInv, TypeOK
    <3>2. QED
      BY <2>1, <3>1 DEF OnlyTexts, SureText, LastAsked
  <2>6. PICK m \in Nat : m = Len(o)
    OBVIOUS
  <2>7. /\ Len(SubSeq(o, t + 1, m)) = m - t
        /\ \A i \in 1..(m - t) : SubSeq(o, t + 1, m)[i] = o[t + i]
    <3>1. \A i \in (t + 1)..m : o[i] \in Nat
      BY <2>6
    <3>2. PICK s : s = SubSeq(o, t + 1, m)
      OBVIOUS
    <3>3. /\ Len(s) = IF t + 1 <= m THEN m - (t + 1) + 1 ELSE 0
          /\ \A i \in 1..(m - (t + 1) + 1) : s[i] = o[t + 1 + i - 1]
      BY <2>6, <3>1, <3>2, SubSeqProperties
    <3>4. t \in Nat /\ m - (t + 1) + 1 = m - t /\ t <= m
      BY <2>6
    <3>5. \A i \in 1..(m - t) : t + 1 + i - 1 = t + i
      BY <3>4
    <3>6. Len(s) = m - t
      BY <3>3, <3>4
    <3>7. \A i \in 1..(m - t) : s[i] = o[t + i]
      BY <3>3, <3>4, <3>5
    <3>8. QED
      BY <3>2, <3>6, <3>7
  <2>8. /\ m - t <= 1 + TextLen(LastAsked(c))
        /\ \A i \in 1..(m - t) : o[t + i] = i - 1
    BY <2>2, <2>3, <2>4, <2>6 DEF Begun, InAnswer, CountsFrom
  <2>9. PICK s \in Seq(Nat) : s = SubSeq(o, t + 1, m)
    <3>1. \A i \in (t + 1)..m : o[i] \in Nat
      BY <2>6
    <3>2. SubSeq(o, t + 1, m) \in Seq(Nat)
      BY <2>6, <3>1, SubSeqProperties
    <3>3. QED
      BY <3>2
  <2>10. PICK a : a = TextAnswer(LastAsked(c))
    OBVIOUS
  <2>11. Len(a) = 1 + TextLen(LastAsked(c)) /\ TextLen(LastAsked(c)) \in Nat
         /\ \A i \in 1..(1 + TextLen(LastAsked(c))) : a[i] = i - 1
    BY <2>5, <2>10, TextAnswerFacts
  <2>12. DOMAIN s = 1..(m - t) /\ Len(s) <= Len(a) /\ \A i \in 1..(m - t) : s[i] = i - 1
    BY <2>7, <2>8, <2>9, <2>11
  <2>13. \A i \in 1..(m - t) : i \in 1..(1 + TextLen(LastAsked(c)))
    BY <2>6, <2>8, <2>11
  <2>14. IsPrefixOf(s, a)
    BY <2>11, <2>12, <2>13 DEF IsPrefixOf
  <2>15. QED
    BY <2>3, <2>4, <2>6, <2>9, <2>10, <2>14
<1>4. QED
  BY <1>1, <1>2, <1>3, PTL DEF Spec
=============================================================================
