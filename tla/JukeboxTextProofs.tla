------------------------- MODULE JukeboxTextProofs -------------------------
(***************************************************************************)
(* What the Java client may rely on when it asks for a text: that it gets  *)
(* all of it, and that this never ends the server.                         *)
(*                                                                         *)
(* Here the invariant of JukeboxProofs is joined by what the threads know  *)
(* of the requests (RequestsInv), by what was read from a connection that  *)
(* is closed (ReadWhole), and by the fact that only songs and texts longer *)
(* than the send buffer are ever left to be resumed (LongInv).             *)
(***************************************************************************)
EXTENDS JukeboxProofs

\* Asked for something that need not fit in the send buffer.
LongAsked(c) == \E command \in {"play", "play_invalid"} \cup LongText : OnlyAsked(c, command)

\* Each connection has one request, and what the main thread and the player threads
\* do with it fits that request.
RequestsInv ==
  /\ \A c \in Clients : Len(asked[c]) <= 1
  /\ \A c \in hungUp : asked[c] # <<>>
  /\ main = "header" => asked[socket] # <<"stop">>
  /\ main = "text" => \E command \in SureText : OnlyAsked(socket, command)
  /\ main = "stopping" => asked[socket] = <<"stop">>
  /\ \A c \in Clients : players[c] # "none" => asked[c] = <<"play">>

\* While the server runs, every text that was asked for is over, but the last.
TextsDone ==
  at # "down" => \A c \in Clients, command \in SureText :
    OnlyAsked(c, command) => c \in hungUp \/ (c = socket /\ main \in {"header", "text"})

\* The connection of a text is closed when its header and all of it were read.
ReadWhole ==
  \A c \in hungUp, command \in SureText :
    OnlyAsked(c, command) /\ (main # "ended" \/ at # "down") => Taken(c) = 1 + TextLen(command)

TInv == JInv /\ RequestsInv /\ TextsDone /\ ReadWhole

-----------------------------------------------------------------------------
(* The server. *)

\* What is put into the send buffer was not read yet.
LEMMA TransmitKeepsTaken ==
  ASSUME IInv, NEW s \in Sender \ {NoSender}, Read(s) > 0, room[fd] > 0,
         Transmit(s, Accepted(s, room[fd]))
  PROVE  \A c \in Clients : Taken(c)' = Taken(c)
<1>1. PICK n : n = Accepted(s, room[fd])
  OBVIOUS
<1>2. PICK d \in Clients : d = fd
  BY DEF IInv, TypeOK
<1>3. /\ n \in 1..Read(s) /\ out'[d] = out[d] \o Bytes(s, n)
      /\ \A c \in Clients \ {d} : out'[c] = out[c]
  BY <1>1, <1>2, TransmitFacts
<1>4. n \in Nat /\ Bytes(s, n) \in Seq(Nat) /\ Len(Bytes(s, n)) = n
  <2>1. n \in Nat
    BY <1>3
  <2>2. QED
    BY <2>1, BytesFacts
<1>5. out[d] \in Seq(Nat) /\ room \in [Clients -> 0..Room]
  BY DEF IInv, TypeOK
<1>6. Len(out'[d]) = Len(out[d]) + n /\ Len(out[d]) \in Nat
  <2>1. PICK o \in Seq(Nat), b \in Seq(Nat) : o = out[d] /\ b = Bytes(s, n)
    BY <1>4, <1>5
  <2>2. Len(o \o b) = Len(o) + Len(b)
    OBVIOUS
  <2>3. QED
    BY <1>3, <1>4, <2>1, <2>2
<1>7. room'[d] = room[d] - n /\ \A c \in Clients \ {d} : room'[c] = room[c]
  BY <1>1, <1>2, <1>5 DEF Transmit
<1>8. Taken(d)' = Taken(d)
  <2>1. room[d] \in Nat /\ Room \in Nat
    BY <1>5, MusicAssumption
  <2>2. QED
    BY <1>4, <1>6, <1>7, <2>1 DEF Taken, Unread
<1>9. \A c \in Clients \ {d} : Taken(c)' = Taken(c)
  BY <1>3, <1>7 DEF Taken, Unread
<1>10. QED
  BY <1>8, <1>9

\* The server reads nothing for the client, sends no requests and closes nothing; once
\* it has ended, it does not come back.
LEMMA ServerKeeps ==
  ASSUME IInv, (\E c \in Clients : Event(c)) \/ SendWithSender \/ ResumeSending
  PROVE  /\ UNCHANGED <<asked, hungUp>> /\ \A c \in Clients : Taken(c)' = Taken(c)
         /\ at # "down"
<1>1. CASE \E c \in Clients : Event(c)
  <2>1. UNCHANGED <<asked, hungUp, out, room>> /\ at # "down"
    BY <1>1 DEF Event, SetupNewClient, HandleClose, HandleText, HandlePlay, HandleStop,
                HandleRest, HandlePart, HandleHeader, DispatchOutput, HandleInput, InputReady,
                Answer, GoDown, clientVars, wireVars
  <2>2. QED
    BY <2>1 DEF Taken, Unread
<1>2. CASE SendWithSender
  <2>1. UNCHANGED <<asked, hungUp>> /\ at # "down"
    BY <1>2 DEF SendWithSender, clientVars
  <2>2. CASE UNCHANGED wireVars
    BY <2>1, <2>2 DEF wireVars, Taken, Unread
  <2>3. CASE Read(current) > 0 /\ room[fd] > 0 /\ Transmit(current, Accepted(current, room[fd]))
    <3>1. current \in Sender \ {NoSender}
      BY <2>3, ChunkFacts DEF IInv, TypeOK
    <3>2. QED
      BY <2>1, <2>3, <3>1, TransmitKeepsTaken
  <2>4. QED
    BY <1>2, <2>2, <2>3 DEF SendWithSender, GoDown
<1>3. CASE ResumeSending
  <2>1. UNCHANGED <<asked, hungUp>> /\ at # "down"
    BY <1>3 DEF ResumeSending, clientVars
  <2>2. CASE UNCHANGED wireVars
    BY <2>1, <2>2 DEF wireVars, Taken, Unread
  <2>3. CASE /\ Read(sender[fd]) > 0 /\ room[fd] > 0
             /\ Transmit(sender[fd], Accepted(sender[fd], room[fd]))
    <3>1. PICK s \in Sender : s = sender[fd]
      BY DEF IInv, TypeOK
    <3>2. s \in Sender \ {NoSender}
      BY <2>3, <3>1, ChunkFacts
    <3>3. QED
      BY <2>1, <2>3, <3>1, <3>2, TransmitKeepsTaken
  <2>4. QED
    BY <1>3, <2>2, <2>3 DEF ResumeSending, GoDown
<1>4. QED
  BY <1>1, <1>2, <1>3

\* The server's steps, and no step at all.
LEMMA ServerKeepsTexts ==
  ASSUME TInv, JInv', UNCHANGED <<asked, hungUp, main, socket, players>>,
         \A c \in Clients : Taken(c)' = Taken(c), at' # "down" => at # "down"
  PROVE  TInv'
<1>1. RequestsInv'
  BY DEF TInv, RequestsInv, OnlyAsked
<1>2. TextsDone'
  BY DEF TInv, TextsDone, OnlyAsked
<1>3. ReadWhole'
  BY DEF TInv, ReadWhole, OnlyAsked, JInv, IInv, TypeOK
<1>4. QED
  BY <1>1, <1>2, <1>3 DEF TInv

-----------------------------------------------------------------------------
(* The client's steps. *)

\* A step keeps the invariant if the threads still fit the requests, and those texts
\* whose connections it closes were read.
LEMMA ClientKeepsTexts ==
  ASSUME TInv, JInv', RequestsInv', TextsDone', UNCHANGED <<asked, at>>, main # "ended",
         \A c \in hungUp : Taken(c)' = Taken(c),
         \A c \in hungUp' \ hungUp, command \in SureText :
           OnlyAsked(c, command) => Taken(c)' = 1 + TextLen(command)
  PROVE  TInv'
<1>1. ASSUME NEW c \in hungUp', NEW command \in SureText, OnlyAsked(c, command)'
      PROVE  Taken(c)' = 1 + TextLen(command)
  <2>1. OnlyAsked(c, command)
    BY <1>1 DEF OnlyAsked
  <2>2. CASE c \in hungUp
    BY <2>1, <2>2 DEF TInv, ReadWhole
  <2>3. CASE c \notin hungUp
    BY <1>1, <2>1, <2>3
  <2>4. QED
    BY <2>2, <2>3
<1>2. ReadWhole'
  BY <1>1 DEF ReadWhole
<1>3. QED
  BY <1>2 DEF TInv

\* A byte is read from an open connection.
LEMMA ByteReadKeeps ==
  ASSUME TInv, NEW c \in Clients, ReadByte(c)
  PROVE  /\ UNCHANGED <<asked, at, hungUp>> /\ \A d \in hungUp : Taken(d)' = Taken(d)
<1>1. c \notin hungUp /\ UNCHANGED <<asked, at, hungUp, out>>
  BY DEF ReadByte, loopVars, clientVars
<1>2. ASSUME NEW d \in hungUp PROVE room'[d] = room[d]
  BY <1>1 DEF ReadByte, TInv, JInv, IInv, TypeOK
<1>3. QED
  BY <1>1, <1>2 DEF Taken, Unread

\* Connections are closed.
LEMMA ClosedKeeps ==
  ASSUME TInv, NEW connections \in SUBSET Clients, CloseAll(connections)
  PROVE  /\ UNCHANGED <<asked, at>> /\ hungUp' = hungUp \cup connections
         /\ \A d \in Clients : Taken(d)' = Taken(d)
  BY DEF CloseAll, loopVars, wireVars, Taken, Unread

\* Nothing that the server sees changes.
LEMMA NothingKeeps ==
  ASSUME UNCHANGED vars
  PROVE  /\ UNCHANGED <<asked, at, hungUp>> /\ \A d \in Clients : Taken(d)' = Taken(d)
  BY DEF vars, loopVars, wireVars, clientVars, Taken, Unread

\* A connection that is opened carries its first request.
LEMMA NewRequest ==
  ASSUME TInv, NEW command \in Command, Open(command)
  PROVE  /\ at # "down" /\ UNCHANGED <<at, hungUp>>
         /\ socket' \in Clients \ hungUp /\ asked[socket'] = <<>> /\ asked'[socket'] = <<command>>
         /\ \A c \in Clients \ {socket'} : asked'[c] = asked[c]
         /\ \A c \in Clients : Taken(c)' = Taken(c)
<1>1. /\ at # "down" /\ UNCHANGED <<at, hungUp, out, room>>
      /\ socket' \in Clients /\ asked[socket'] = <<>>
  BY DEF Open, loopVars, wireVars
<1>2. PICK d \in Clients : d = socket'
  BY <1>1
<1>3. asked' = [asked EXCEPT ![d] = Append(@, command)]
  BY <1>2 DEF Open, Ask
<1>4. asked'[d] = Append(<<>>, command) /\ \A c \in Clients \ {d} : asked'[c] = asked[c]
  BY <1>1, <1>2, <1>3 DEF TInv, JInv, IInv, TypeOK
<1>5. d \notin hungUp
  BY <1>1, <1>2 DEF TInv, RequestsInv
<1>6. QED
  BY <1>1, <1>2, <1>4, <1>5 DEF Taken, Unread

\* The main thread opens a connection and waits for the header of its answer, or goes
\* on to stop the player.
LEMMA OpenKeepsTexts ==
  ASSUME TInv, JInv', NEW command \in Command, Open(command), main = "prompt",
         \/ main' = "header" /\ command # "stop"
         \/ main' = "stopping" /\ command = "stop",
         UNCHANGED players
  PROVE  TInv'
<1>1. /\ at # "down" /\ UNCHANGED <<at, hungUp>>
      /\ socket' \in Clients \ hungUp /\ asked[socket'] = <<>> /\ asked'[socket'] = <<command>>
      /\ \A c \in Clients \ {socket'} : asked'[c] = asked[c]
      /\ \A c \in Clients : Taken(c)' = Taken(c)
  BY NewRequest
<1>2. hungUp \subseteq Clients
  BY DEF TInv, JInv, IInv, TypeOK
<1>3. RequestsInv'
  <2>1. ASSUME NEW c \in Clients PROVE Len(asked'[c]) <= 1
    <3>1. Len(asked[c]) <= 1
      BY DEF TInv, RequestsInv
    <3>2. CASE c = socket'
      <4>1. asked'[c] = <<command>>
        BY <1>1, <3>2
      <4>2. Len(<<command>>) = 1
        OBVIOUS
      <4>3. QED
        BY <4>1, <4>2
    <3>3. CASE c # socket'
      BY <1>1, <3>1, <3>3
    <3>4. QED
      BY <3>2, <3>3
  <2>2. \A c \in hungUp' : asked'[c] # <<>>
    BY <1>1, <1>2 DEF TInv, RequestsInv
  <2>3. ASSUME NEW c \in Clients, players[c] # "none" PROVE asked'[c] = <<"play">>
    <3>1. asked[c] = <<"play">>
      BY <2>3 DEF TInv, RequestsInv
    <3>2. QED
      BY <1>1, <3>1
  <2>4. <<command>> = <<"stop">> <=> command = "stop"
    OBVIOUS
  <2>5. QED
    BY <1>1, <2>1, <2>2, <2>3, <2>4 DEF RequestsInv
<1>4. TextsDone'
  <2>1. SUFFICES ASSUME NEW c \in Clients, NEW text \in SureText, OnlyAsked(c, text)'
                 PROVE  c \in hungUp' \/ (c = socket' /\ main' = "header")
    BY DEF TextsDone
  <2>2. CASE c = socket'
    <3>1. command = text /\ text # "stop"
      BY <1>1, <2>1, <2>2 DEF OnlyAsked, SureText, TextCommand
    <3>2. QED
      BY <2>2, <3>1
  <2>3. CASE c # socket'
    <3>1. OnlyAsked(c, text)
      BY <1>1, <2>1, <2>3 DEF OnlyAsked
    <3>2. QED
      BY <1>1, <3>1 DEF TInv, TextsDone
  <2>4. QED
    BY <2>2, <2>3
<1>5. ReadWhole'
  <2>1. SUFFICES ASSUME NEW c \in hungUp, NEW text \in SureText, OnlyAsked(c, text)'
                 PROVE  Taken(c)' = 1 + TextLen(text)
    BY <1>1 DEF ReadWhole
  <2>2. c \in Clients \ {socket'} /\ OnlyAsked(c, text)
    BY <1>1, <1>2, <2>1 DEF OnlyAsked
  <2>3. QED
    BY <1>1, <2>2 DEF TInv, ReadWhole
<1>6. QED
  BY <1>3, <1>4, <1>5 DEF TInv

\* The header tells a text from a song.
LEMMA HeaderKeepsTexts ==
  ASSUME TInv, JInv', ReceiveHeader
  PROVE  TInv'
<1>1. main = "header" /\ socket \in Clients
  BY WorksWithAConnection DEF ReceiveHeader, TInv
<1>2. CASE /\ ReadByte(socket)
           /\ main' = IF Head(asked[socket]) \in {"play", "play_invalid"}
                      THEN "open_player" ELSE "text"
           /\ UNCHANGED <<socket, playing, players, interrupted>>
  <2>1. UNCHANGED <<asked, at, hungUp>> /\ \A d \in hungUp : Taken(d)' = Taken(d)
    BY <1>1, <1>2, ByteReadKeeps
  <2>2. PICK command \in Command \ {"stop"} : OnlyAsked(socket, command)
    <3>1. asked[socket] # <<>>
      <4>1. asked[socket] # <<>> <=> socket <= socket
        BY <1>1 DEF TInv, JInv, ClientInv
      <4>2. socket \in Nat
        BY <1>1, Connections
      <4>3. QED
        BY <4>1, <4>2
    <3>2. asked[socket] \in Seq(Command) /\ Len(asked[socket]) <= 1 /\ asked[socket] # <<"stop">>
      BY <1>1 DEF TInv, JInv, IInv, TypeOK, RequestsInv
    <3>3. PICK command \in Command : asked[socket] = <<command>>
      BY <3>1, <3>2, SingletonSeq
    <3>4. QED
      BY <3>2, <3>3 DEF OnlyAsked
  <2>3. Head(asked[socket]) = command
    BY <2>2 DEF OnlyAsked
  <2>4. main' = "text" => command \in SureText
    BY <1>2, <2>3 DEF Command, SureText
  <2>5. main' # "text" => command \in {"play", "play_invalid"}
    BY <1>2, <2>3
  <2>6. RequestsInv'
    BY <1>1, <1>2, <2>1, <2>2, <2>4 DEF TInv, RequestsInv, OnlyAsked
  <2>7. \A text \in SureText : OnlyAsked(socket, text) => main' = "text"
    BY <2>2, <2>5 DEF OnlyAsked, SureText, TextCommand
  <2>8. TextsDone'
    BY <1>1, <1>2, <2>1, <2>7 DEF TInv, TextsDone, OnlyAsked
  <2>9. QED
    BY <1>1, <2>1, <2>6, <2>8, ClientKeepsTexts
<1>3. CASE EndOfStream(socket) /\ Abandon /\ UNCHANGED vars
  <2>1. UNCHANGED <<asked, at, hungUp>> /\ \A d \in Clients : Taken(d)' = Taken(d)
    BY <1>3, NothingKeeps
  <2>2. RequestsInv' /\ TextsDone'
    BY <1>3, <2>1 DEF Abandon, EndOfStream, TInv, RequestsInv, TextsDone
  <2>3. hungUp \subseteq Clients
    BY DEF TInv, JInv, IInv, TypeOK
  <2>4. QED
    BY <1>1, <2>1, <2>2, <2>3, ClientKeepsTexts
<1>4. QED
  BY <1>2, <1>3 DEF ReceiveHeader

\* All of the text is read before its connection is closed.
LEMMA TextKeepsTexts ==
  ASSUME TInv, JInv', ReceiveText
  PROVE  TInv'
<1>1. main = "text" /\ socket \in Clients
  BY WorksWithAConnection DEF ReceiveText, TInv
<1>2. hungUp \subseteq Clients
  BY DEF TInv, JInv, IInv, TypeOK
<1>3. CASE ReadByte(socket) /\ UNCHANGED clientSideVars
  <2>1. UNCHANGED <<asked, at, hungUp>> /\ \A d \in hungUp : Taken(d)' = Taken(d)
    BY <1>1, <1>3, ByteReadKeeps
  <2>2. RequestsInv' /\ TextsDone'
    BY <1>1, <1>3, <2>1 DEF clientSideVars, TInv, RequestsInv, TextsDone, OnlyAsked
  <2>3. QED
    BY <1>1, <2>1, <2>2, ClientKeepsTexts
<1>4. CASE TextReceived(socket) /\ CloseAll({socket}) /\ main' = "prompt"
           /\ UNCHANGED <<socket, playing, players, interrupted>>
  <2>1. UNCHANGED <<asked, at>> /\ hungUp' = hungUp \cup {socket}
        /\ \A d \in Clients : Taken(d)' = Taken(d)
    BY <1>1, <1>4, ClosedKeeps
  <2>2. PICK command \in SureText : OnlyAsked(socket, command)
    BY <1>1 DEF TInv, RequestsInv
  <2>3. asked[socket] # <<>> /\ Head(asked[socket]) = command
    BY <2>2 DEF OnlyAsked
  <2>4. RequestsInv'
    BY <1>1, <1>4, <2>1, <2>3 DEF TInv, RequestsInv
  <2>5. TextsDone'
    BY <1>1, <1>4, <2>1 DEF TInv, TextsDone, OnlyAsked
  <2>6. ASSUME NEW text \in SureText, OnlyAsked(socket, text)
        PROVE  Taken(socket)' = 1 + TextLen(text)
    <3>1. Head(asked[socket]) = text
      BY <2>6 DEF OnlyAsked
    <3>2. Taken(socket)' = Taken(socket)
      BY <1>1, <1>4, <2>1
    <3>3. QED
      BY <1>4, <3>1, <3>2 DEF TextReceived
  <2>7. \A c \in hungUp' \ hungUp : c = socket
    BY <2>1
  <2>8. \A c \in hungUp' \ hungUp, text \in SureText :
          OnlyAsked(c, text) => Taken(c)' = 1 + TextLen(text)
    <3>1. SUFFICES ASSUME NEW c \in hungUp' \ hungUp, NEW text \in SureText, OnlyAsked(c, text)
                   PROVE  Taken(c)' = 1 + TextLen(text)
      OBVIOUS
    <3>2. OnlyAsked(socket, text) /\ c \in Clients
      BY <1>1, <2>7, <3>1
    <3>3. Taken(c)' = Taken(c) /\ Taken(socket)' = Taken(socket)
      BY <1>1, <1>4, <2>1, <3>2
    <3>4. Taken(c) = Taken(socket)
      BY <2>7
    <3>5. QED
      BY <2>6, <3>2, <3>3, <3>4
  <2>9. QED
    BY <1>1, <1>2, <2>1, <2>4, <2>5, <2>8, ClientKeepsTexts
<1>5. CASE EndOfStream(socket) /\ Abandon /\ UNCHANGED vars
  <2>1. UNCHANGED <<asked, at, hungUp>> /\ \A d \in Clients : Taken(d)' = Taken(d)
    BY <1>5, NothingKeeps
  <2>2. RequestsInv' /\ TextsDone'
    BY <1>5, <2>1 DEF Abandon, EndOfStream, TInv, RequestsInv, TextsDone
  <2>3. QED
    BY <1>1, <1>2, <2>1, <2>2, ClientKeepsTexts
<1>6. QED
  BY <1>3, <1>4, <1>5 DEF ReceiveText

\* Songs, and what is asked for where there is none, are no texts.
LEMMA OpenPlayerKeepsTexts ==
  ASSUME TInv, JInv', OpenPlayer
  PROVE  TInv'
<1>1. main = "open_player" /\ socket \in Clients /\ UNCHANGED socket
  BY WorksWithAConnection DEF OpenPlayer, Abandon, clientSideVars, TInv
<1>2. hungUp \subseteq Clients /\ players \in [Clients -> {"none", "reading", "writing", "ended"}]
  BY DEF TInv, JInv, IInv, TypeOK, JukeboxTypeOK
<1>3. UNCHANGED <<asked, at, hungUp>> /\ \A d \in hungUp : Taken(d)' = Taken(d)
  BY <1>1, <1>2, ByteReadKeeps, NothingKeeps DEF OpenPlayer
<1>4. main' \in {"prompt", "open_player"}
  BY <1>1 DEF OpenPlayer, Abandon, clientSideVars
<1>5. TextsDone'
  BY <1>1, <1>3 DEF TInv, TextsDone, OnlyAsked
<1>6. ASSUME NEW c \in Clients, players'[c] # "none" PROVE asked[c] = <<"play">>
  <2>1. CASE players[c] # "none"
    BY <2>1 DEF TInv, RequestsInv
  <2>2. CASE players[c] = "none"
    <3>1. Head(asked[socket]) = "play" /\ StartPlayer(socket)
      BY <1>6, <2>2 DEF OpenPlayer, Abandon, clientSideVars
    <3>2. c = socket
      BY <1>2, <1>6, <2>2, <3>1 DEF StartPlayer
    <3>3. asked[socket] \in Seq(Command) /\ Len(asked[socket]) <= 1
      BY <1>1 DEF TInv, JInv, IInv, TypeOK, RequestsInv
    <3>4. asked[socket] # <<>>
      <4>1. asked[socket] # <<>> <=> socket <= socket
        BY <1>1 DEF TInv, JInv, ClientInv
      <4>2. socket \in Nat
        BY <1>1, Connections
      <4>3. QED
        BY <4>1, <4>2
    <3>5. asked[socket] = <<Head(asked[socket])>>
      BY <3>3, <3>4, SingletonSeq
    <3>6. QED
      BY <3>1, <3>2, <3>5
  <2>3. QED
    BY <2>1, <2>2
<1>7. RequestsInv'
  BY <1>3, <1>4, <1>6 DEF TInv, RequestsInv
<1>8. QED
  BY <1>1, <1>3, <1>5, <1>7, ClientKeepsTexts

\* The connection of a stop carries no text, and when the process ends, all texts
\* are over.
LEMMA StopKeepsTexts ==
  ASSUME TInv, JInv', Stop \/ FinishStop \/ Exit \/ EndProcess
  PROVE  TInv'
<1>1. hungUp \subseteq Clients
  BY DEF TInv, JInv, IInv, TypeOK
<1>2. CASE main = "prompt" /\ main' = "stopping" /\ Open("stop") /\ UNCHANGED players
  <2>1. "stop" \in Command
    BY DEF Command
  <2>2. QED
    BY <1>2, <2>1, OpenKeepsTexts
<1>3. CASE main = "prompt" /\ main' \in {"prompt", "exited"}
           /\ UNCHANGED <<vars, socket, players>>
  <2>1. UNCHANGED <<asked, at, hungUp>> /\ \A d \in Clients : Taken(d)' = Taken(d)
    BY <1>3, NothingKeeps
  <2>2. RequestsInv' /\ TextsDone'
    BY <1>3, <2>1 DEF TInv, RequestsInv, TextsDone, OnlyAsked
  <2>3. QED
    BY <1>1, <1>3, <2>1, <2>2, ClientKeepsTexts
<1>4. CASE FinishStop
  <2>1. main = "stopping" /\ socket \in Clients /\ main' = "prompt"
        /\ UNCHANGED <<socket, players>>
    BY <1>4, WorksWithAConnection DEF FinishStop, TInv
  <2>2. UNCHANGED <<asked, at>> /\ hungUp' = hungUp \cup {socket}
        /\ \A d \in Clients : Taken(d)' = Taken(d)
    BY <1>4, <2>1, ClosedKeeps DEF FinishStop
  <2>3. asked[socket] = <<"stop">> /\ <<"stop">> # <<>>
    BY <2>1 DEF TInv, RequestsInv
  <2>4. RequestsInv'
    BY <2>1, <2>2, <2>3 DEF TInv, RequestsInv
  <2>5. TextsDone'
    BY <2>1, <2>2 DEF TInv, TextsDone, OnlyAsked
  <2>6. \A text \in SureText : ~OnlyAsked(socket, text)
    BY <2>3 DEF OnlyAsked, SureText, TextCommand
  <2>7. \A c \in hungUp' \ hungUp, text \in SureText :
          OnlyAsked(c, text) => Taken(c)' = 1 + TextLen(text)
    BY <2>2, <2>6
  <2>8. QED
    BY <1>1, <2>1, <2>2, <2>4, <2>5, <2>7, ClientKeepsTexts
<1>5. CASE EndProcess
  <2>1. main = "exited" /\ main' = "ended" /\ UNCHANGED <<socket, players>>
    BY <1>5 DEF EndProcess
  <2>2. UNCHANGED <<asked, at>> /\ hungUp' = hungUp \cup {c \in Clients : asked[c] # <<>>}
        /\ \A d \in Clients : Taken(d)' = Taken(d)
    BY <1>5, ClosedKeeps DEF EndProcess
  <2>3. RequestsInv'
    BY <2>1, <2>2 DEF TInv, RequestsInv
  <2>4. TextsDone'
    BY <2>1, <2>2 DEF TInv, TextsDone, OnlyAsked
  <2>5. \A c \in hungUp' : c \in Clients
    BY <1>1, <2>2
  <2>6. \A c \in hungUp' \ hungUp, text \in SureText : at # "down" => ~OnlyAsked(c, text)
    BY <2>1, <2>5 DEF TInv, TextsDone
  <2>7. ReadWhole'
    BY <2>1, <2>2, <2>5, <2>6 DEF TInv, ReadWhole, OnlyAsked
  <2>8. QED
    BY <2>3, <2>4, <2>7 DEF TInv
<1>6. QED
  BY <1>2, <1>3, <1>4, <1>5 DEF Stop, Exit

\* A player's connection carries a song.
LEMMA PlayerKeepsTexts ==
  ASSUME TInv, JInv', NEW c \in Clients, PlayerNext(c)
  PROVE  TInv'
<1>1. /\ players[c] # "none" /\ UNCHANGED <<main, socket>>
      /\ \E p \in {"reading", "writing", "ended"} : players' = [players EXCEPT ![c] = p]
  BY DEF PlayerNext, PlayerReads, PlayerWrites, EndPlayer
<1>2. hungUp \subseteq Clients /\ players \in [Clients -> {"none", "reading", "writing", "ended"}]
  BY DEF TInv, JInv, IInv, TypeOK, JukeboxTypeOK
<1>3. asked[c] = <<"play">> /\ <<"play">> # <<>>
  BY <1>1 DEF TInv, RequestsInv
<1>4. UNCHANGED <<asked, at>> /\ hungUp' \in {hungUp, hungUp \cup {c}}
      /\ \A d \in hungUp : Taken(d)' = Taken(d)
  <2>1. CASE ReadByte(c)
    BY <2>1, ByteReadKeeps
  <2>2. CASE UNCHANGED vars
    BY <1>2, <2>2, NothingKeeps
  <2>3. CASE CloseAll({c})
    BY <1>2, <2>3, ClosedKeeps
  <2>4. QED
    BY <2>1, <2>2, <2>3 DEF PlayerNext, PlayerReads, PlayerWrites, EndPlayer
<1>5. \A d \in Clients : players'[d] # "none" => d = c \/ players[d] # "none"
  BY <1>1, <1>2
<1>6. RequestsInv'
  BY <1>1, <1>3, <1>4, <1>5 DEF TInv, RequestsInv, OnlyAsked
<1>7. \A text \in SureText : ~OnlyAsked(c, text)
  BY <1>3 DEF OnlyAsked, SureText, TextCommand
<1>8. TextsDone'
  BY <1>1, <1>4 DEF TInv, TextsDone, OnlyAsked
<1>9. ReadWhole'
  BY <1>1, <1>2, <1>4, <1>7 DEF TInv, ReadWhole, OnlyAsked
<1>10. QED
  BY <1>6, <1>8, <1>9 DEF TInv

-----------------------------------------------------------------------------
LEMMA InitTInv ==
  ASSUME JukeboxInit
  PROVE  TInv
<1>1. JInv
  BY InitJInv
<1>2. RequestsInv /\ TextsDone /\ ReadWhole
  BY DEF JukeboxInit, Init, RequestsInv, TextsDone, ReadWhole, OnlyAsked
<1>3. QED
  BY <1>1, <1>2 DEF TInv

LEMMA StepTInv ==
  ASSUME TInv, [JukeboxNext]_jukeboxVars
  PROVE  TInv'
<1>1. JInv'
  BY StepJInv DEF TInv
<1>2. CASE MainNext
  BY <1>1, <1>2, HeaderKeepsTexts, TextKeepsTexts, OpenPlayerKeepsTexts, StopKeepsTexts
     DEF MainNext
<1>3. CASE UserNext
  <2>1. CASE \E command \in Commands : Enter(command)
    <3>1. PICK command \in Commands : Enter(command)
      BY <2>1
    <3>2. /\ command \in Command /\ command # "stop" /\ Open(command) /\ main = "prompt"
          /\ main' = "header" /\ UNCHANGED players
      BY <3>1, MusicAssumption DEF Enter
    <3>3. QED
      BY <1>1, <3>2, OpenKeepsTexts
  <2>2. QED
    BY <1>1, <1>3, <2>1, StopKeepsTexts DEF UserNext
<1>4. CASE \E c \in Clients : PlayerNext(c)
  BY <1>1, <1>4, PlayerKeepsTexts
<1>5. CASE (\E c \in Clients : ServerEvent(c)) \/ ServerSends
  <2>1. (\E c \in Clients : Event(c)) \/ SendWithSender \/ ResumeSending
    BY <1>5 DEF ServerEvent, ServerSends
  <2>2. UNCHANGED clientSideVars
    BY <1>5 DEF ServerEvent, ServerSends
  <2>3. /\ UNCHANGED <<asked, hungUp>> /\ \A c \in Clients : Taken(c)' = Taken(c)
        /\ at # "down"
    BY <2>1, ServerKeeps DEF TInv, JInv
  <2>4. QED
    BY <1>1, <2>2, <2>3, ServerKeepsTexts DEF clientSideVars
<1>6. CASE UNCHANGED jukeboxVars \/ (Idle /\ UNCHANGED clientSideVars)
  <2>1. UNCHANGED <<vars, clientSideVars>>
    BY <1>6 DEF jukeboxVars, Idle
  <2>2. UNCHANGED <<asked, at, hungUp>> /\ \A d \in Clients : Taken(d)' = Taken(d)
    BY <2>1, NothingKeeps
  <2>3. QED
    BY <1>1, <2>1, <2>2, ServerKeepsTexts DEF clientSideVars
<1>7. QED
  BY <1>2, <1>3, <1>4, <1>5, <1>6 DEF JukeboxNext

\* What was read from a connection is whole: it is as long as the text, and the
\* bytes that were sent are in order.
LEMMA WholeTexts ==
  ASSUME TInv
  PROVE  PrintsWholeText
<1>1. SUFFICES ASSUME NEW c \in hungUp, NEW command \in SureText,
                      OnlyAsked(c, command), main # "ended"
               PROVE  out[c] = TextAnswer(command) /\ Taken(c) = Len(out[c])
  BY DEF PrintsWholeText
<1>2. c \in Clients /\ out[c] \in Seq(Nat) /\ room[c] \in 0..Room
  BY DEF TInv, JInv, IInv, TypeOK
<1>3. IsPrefixOf(out[c], TextAnswer(command))
  <2>1. Len(asked[c]) <= 1
    BY <1>2 DEF TInv, RequestsInv
  <2>2. QED
    BY <1>1, <1>2, <2>1 DEF TInv, JInv, IInv, OrderInv, AnswerInv, InOrder
<1>4. Taken(c) = 1 + TextLen(command)
  BY <1>1 DEF TInv, ReadWhole
<1>5. /\ TextLen(command) \in Nat /\ Len(TextAnswer(command)) = 1 + TextLen(command)
      /\ TextAnswer(command) \in Seq(Nat)
  <2>1. command \in TextCommand
    BY DEF SureText
  <2>2. TextLen(command) \in Nat /\ Len(TextAnswer(command)) = 1 + TextLen(command)
    BY <2>1, TextAnswerFacts
  <2>3. [i \in 1..TextLen(command) |-> i] \in Seq(Nat) /\ <<0>> \in Seq(Nat)
    BY <2>2
  <2>4. QED
    BY <2>2, <2>3, ConcatProperties DEF TextAnswer
<1>6. Len(out[c]) = 1 + TextLen(command) /\ Taken(c) = Len(out[c])
  <2>1. Len(out[c]) \in Nat /\ Len(out[c]) <= 1 + TextLen(command)
    BY <1>2, <1>3, <1>5 DEF IsPrefixOf
  <2>2. Taken(c) <= Len(out[c])
    BY <1>2, <2>1, MusicAssumption DEF Taken, Unread
  <2>3. QED
    BY <1>4, <1>5, <2>1, <2>2
<1>7. out[c] = TextAnswer(command)
  <2>1. \A i \in 1..Len(out[c]) : out[c][i] = TextAnswer(command)[i]
    BY <1>2, <1>3 DEF IsPrefixOf
  <2>2. QED
    BY <1>2, <1>5, <1>6, <2>1, SeqEqual
<1>8. QED
  BY <1>6, <1>7

\* The invariant of the client and of the texts it asked for, whatever the sizes.
THEOREM TextInvariance == JukeboxSpec => []TInv
<1>1. JukeboxInit => TInv
  BY InitTInv
<1>2. TInv /\ [JukeboxNext]_jukeboxVars => TInv'
  BY StepTInv
<1>3. QED
  BY <1>1, <1>2, PTL DEF JukeboxSpec

\* However the server cuts a text into pieces, and the client its reads: the text that
\* it prints is the one it asked for, and nothing of it is left in the connection.
THEOREM TextsArePrintedWhole == JukeboxSpec => []PrintsWholeText
<1>1. TInv => PrintsWholeText
  BY WholeTexts
<1>2. QED
  BY <1>1, TextInvariance, PTL

-----------------------------------------------------------------------------
(* What ends the server. *)

\* Only long answers leave something to be resumed; only a stop shuts a connection.
LongInv ==
  /\ \A c \in Clients : sender[c] # NoSender => LongAsked(c)
  /\ \A c \in Clients : shut[c] => asked[c] = <<"stop">>
  /\ \A c \in Clients : inbox[c] \in {<<>>, asked[c]}
  /\ at = "resume_sending" => LongAsked(fd)
  /\ at = "send_with_sender" => asked[fd] \notin {<<>>, <<"stop">>} /\ (outEvent => LongAsked(fd))
  /\ at = "down" => LongAsked(fd)

PInv == TInv /\ LongInv

\* Neither stop nor no request at all is a request for a long answer.
LEMMA LongIsAsked ==
  ASSUME NEW c \in Clients, LongAsked(c)
  PROVE  asked[c] # <<>> /\ asked[c] # <<"stop">>
<1>1. PICK command \in {"play", "play_invalid"} \cup LongText : asked[c] = <<command>>
  BY DEF LongAsked, OnlyAsked
<1>2. command # "stop"
  BY DEF LongText, TextCommand
<1>3. QED
  BY <1>1, <1>2

\* A request that is received is the only one of its connection, and a whole one.
LEMMA ReceivedRequest ==
  ASSUME PInv, NEW c \in Clients, inbox[c] # <<>>
  PROVE  inbox[c] = asked[c] /\ asked[c] = <<Head(inbox[c])>> /\ Head(inbox[c]) \in Command
<1>1. inbox[c] = asked[c]
  BY DEF PInv, LongInv
<1>2. asked[c] \in Seq(Command) /\ Len(asked[c]) <= 1
  BY DEF PInv, TInv, JInv, IInv, TypeOK, RequestsInv
<1>3. asked[c] = <<Head(asked[c])>>
  BY <1>1, <1>2, SingletonSeq
<1>4. Head(asked[c]) \in Command
  BY <1>1, <1>2
<1>5. QED
  BY <1>1, <1>3, <1>4

\* epoll reports that c can be sent more only where something was left to be sent.
LEMMA ReadyIsLong ==
  ASSUME PInv, NEW c \in Clients, OutReady(c)
  PROVE  LongAsked(c)
  BY DEF OutReady, PInv, TInv, JInv, IInv, SenderMatchesState, LongInv

\* Events.
LEMMA EventKeepsLong ==
  ASSUME PInv, NEW c \in Clients, Event(c), UNCHANGED asked
  PROVE  LongInv'
<1> USE DEF LongAsked, OnlyAsked, connVars, sendingVars, wireVars, clientVars
<1>1. /\ sender \in [Clients -> Sender] /\ shut \in [Clients -> BOOLEAN]
      /\ inbox \in [Clients -> Seq(Command \cup {Rest})]
  BY DEF PInv, TInv, JInv, IInv, TypeOK
<1>2. CASE SetupNewClient(c)
  BY <1>2 DEF SetupNewClient, loopVars, PInv, LongInv
<1>3. CASE HandleClose(c)
  <2>1. /\ at' \in {"epoll_wait", "resume_sending"} /\ fd' = c /\ UNCHANGED <<shut, inbox>>
        /\ at' = "resume_sending" => OutReady(c)
    BY <1>3 DEF HandleClose, AfterInput
  <2>2. \A d \in Clients : sender'[d] \in {sender[d], NoSender}
    BY <1>1, <1>3 DEF HandleClose, DropSender
  <2>3. QED
    BY <2>1, <2>2, ReadyIsLong DEF PInv, LongInv
<1>4. CASE HandleText(c) \/ HandlePlay(c)
  <2>1. PICK command \in TextCommand \cup {"play"} : HandleInput(c, command)
    BY <1>4 DEF HandleText, HandlePlay
  <2>2. /\ at' = "send_with_sender" /\ fd' = c /\ outEvent' = OutReady(c)
        /\ UNCHANGED <<sender, shut>>
    BY <1>4 DEF HandleText, HandlePlay, HandleInput, Answer
  <2>3. inbox[c] # <<>> /\ Head(inbox[c]) = command /\ inbox' = [inbox EXCEPT ![c] = <<>>]
    BY <2>1 DEF HandleInput, InputReady
  <2>4. asked[c] = <<command>> /\ command # "stop"
    BY <2>3, ReceivedRequest DEF TextCommand
  <2>5. asked[c] \notin {<<>>, <<"stop">>}
    BY <2>4
  <2>6. \A d \in Clients : inbox'[d] \in {<<>>, inbox[d]}
    BY <1>1, <2>3
  <2>7. QED
    BY <2>2, <2>5, <2>6, ReadyIsLong DEF PInv, LongInv
<1>5. CASE HandleStop(c)
  <2>1. inbox[c] # <<>> /\ Head(inbox[c]) = "stop" /\ inbox' = [inbox EXCEPT ![c] = <<>>]
    BY <1>5 DEF HandleStop, HandleInput, InputReady
  <2>2. asked[c] = <<"stop">>
    BY <2>1, ReceivedRequest
  <2>3. ~OutReady(c)
    BY <2>2, ReadyIsLong, LongIsAsked
  <2>4. at' = "epoll_wait"
    BY <1>5, <2>3 DEF HandleStop, AfterInput
  <2>5. \A d \in Clients : sender'[d] \in {sender[d], NoSender}
    BY <1>1, <1>5 DEF HandleStop, DropSender
  <2>6. \A d \in Clients : inbox'[d] \in {<<>>, inbox[d]} /\ (shut'[d] => d = c \/ shut[d])
    BY <1>1, <1>5, <2>1 DEF HandleStop
  <2>7. QED
    BY <2>2, <2>4, <2>5, <2>6 DEF PInv, LongInv
<1>6. ~HandleRest(c)
  <2>1. Rest \notin Command
    BY DEF Rest, Command, TextCommand
  <2>2. HandleRest(c) => inbox[c] # <<>> /\ Head(inbox[c]) = Rest
    BY DEF HandleRest, HandleInput, InputReady
  <2>3. QED
    BY <2>1, <2>2, ReceivedRequest
<1>7. ~HandlePart(c) /\ ~HandleHeader(c)
  BY RequestsAssumption DEF HandlePart, HandleHeader
<1>8. CASE DispatchOutput(c)
  BY <1>8, ReadyIsLong DEF DispatchOutput, PInv, LongInv
<1>9. QED
  BY <1>2, <1>3, <1>4, <1>5, <1>6, <1>7, <1>8 DEF Event

\* A sender that fails, or that the socket refuses, is of a long answer: another text
\* fits in the buffer, and its connection is closed after all of it was sent.
LEMMA StuckIsLong ==
  ASSUME PInv, at = "send_with_sender",
         \/ Exits(current) \/ (~Finished(current) /\ Broken)
         \/ Refused(current)
  PROVE  LongAsked(fd)
<1>1. PICK c \in Clients : c = fd
  BY DEF PInv, TInv, JInv, IInv, TypeOK
<1>2. /\ asked[c] \in Seq(Command) /\ Len(asked[c]) <= 1 /\ asked[c] # <<>>
      /\ asked[c] # <<"stop">>
  BY <1>1 DEF PInv, LongInv, TInv, JInv, IInv, TypeOK, RequestsInv
<1>3. PICK command \in Command : asked[c] = <<command>>
  BY <1>2, SingletonSeq
<1>4. command # "stop"
  BY <1>2, <1>3
<1>5. SUFFICES ASSUME command \in SureText \ LongText PROVE FALSE
  BY <1>1, <1>3, <1>4 DEF Command, SureText, LongAsked, OnlyAsked
<1>6. PICK l \in Nat : l = TextLen(command) /\ 1 + l <= Room
  <2>1. command \in TextCommand
    BY <1>5 DEF SureText
  <2>2. TextLen(command) \in Nat /\ TextLen(command) \in {ListLen, InfoLen}
    BY <2>1, TextAnswerFacts
  <2>3. QED
    BY <1>5, <2>1, <2>2, MusicAssumption DEF LongText
<1>7. PICK s \in Sender \ {NoSender} : s = current
  BY DEF PInv, TInv, JInv, IInv, TypeOK, LoopInv
<1>8. PICK m \in Nat : m = Len(out[c]) /\ Room - room[c] <= m /\ room[c] \in Nat
  BY DEF PInv, TInv, JInv, IInv, TypeOK, LoopInv
<1>9. OnlyAsked(c, command)
  BY <1>3 DEF OnlyAsked
<1>10. Announced(c) \/ GoesOn(c, s)
  BY <1>1, <1>2, <1>7 DEF PInv, TInv, JInv, IInv, OrderInv, AnswerInv, Unanswered, Answered, Serving
<1>11. s.kind # "song" /\ (~Finished(s) => m < 1 + l)
  <2>1. /\ s.done \in Nat /\ s.len \in Nat /\ s.done <= s.len
        /\ Finished(s) <=> s.done = s.len
    BY SenderFields, ChunkFacts
  <2>2. CASE Announced(c)
    <3>1. /\ s.kind = "header" /\ s.len = 1
          /\ out[c] = IF s.done = 0 THEN <<>> ELSE <<0>>
      BY <1>7, <2>2 DEF Announced
    <3>2. ~Finished(s) => s.done = 0
      BY <2>1, <3>1
    <3>3. ~Finished(s) => m = 0
      BY <1>8, <3>1, <3>2
    <3>4. QED
      BY <3>1, <3>3
  <2>3. CASE GoesOn(c, s)
    <3>1. s.kind = "text" /\ s.len = l
      BY <1>5, <1>6, <1>9, <2>3 DEF GoesOn, Fits
    <3>2. m = s.done + 1
      BY <1>5, <1>8, <1>9, <2>3 DEF GoesOn
    <3>3. QED
      BY <2>1, <3>1, <3>2
  <2>4. QED
    BY <1>10, <2>2, <2>3
<1>12. ~Finished(s) /\ (Broken \/ room[c] = 0)
  <2>1. ~Exits(s)
    BY <1>11, ChunkFacts
  <2>2. Refused(s) => Read(s) > 0 /\ room[c] = 0
    BY <1>1, <1>11 DEF Refused, Blocked
  <2>3. QED
    BY <1>7, <2>1, <2>2, ChunkFacts
<1>13. ~shut[c]
  BY <1>2 DEF PInv, LongInv
<1>14. c \in hungUp => m >= 1 + l
  <2>1. c \in hungUp => Taken(c) = 1 + l
    BY <1>5, <1>6, <1>9 DEF PInv, TInv, ReadWhole
  <2>2. Taken(c) <= m
    BY <1>8, MusicAssumption DEF Taken, Unread, PInv, TInv, JInv, IInv, TypeOK
  <2>3. QED
    BY <1>6, <1>8, <2>1, <2>2
<1>15. room[c] = 0 => m >= 1 + l
  BY <1>6, <1>8, MusicAssumption
<1>16. QED
  BY <1>1, <1>6, <1>8, <1>11, <1>12, <1>13, <1>14, <1>15 DEF Broken

\* The loop goes to resume sending only for a long answer.
LEMMA NextIsLong ==
  ASSUME PInv, at = "send_with_sender", NextSender, UNCHANGED <<fd, shut, inbox, asked>>,
         \A c \in Clients : sender'[c] # NoSender => LongAsked(c)
  PROVE  LongInv'
<1>1. at' \in {"epoll_wait", "send_with_sender", "resume_sending"}
      /\ (at' = "resume_sending" => outEvent) /\ (outEvent' => outEvent)
  BY DEF NextSender, AfterInput
<1>2. asked[fd] \notin {<<>>, <<"stop">>} /\ (outEvent => LongAsked(fd))
  BY DEF PInv, LongInv
<1>3. QED
  BY <1>1, <1>2 DEF PInv, LongInv, LongAsked, OnlyAsked

\* What ends the server while it sends.
LEMMA DownIsLong ==
  ASSUME PInv, GoDown, UNCHANGED clientVars, LongAsked(fd)
  PROVE  LongInv'
<1>1. /\ at' = "down" /\ UNCHANGED <<fd, sender, shut, inbox, asked>>
  BY DEF GoDown, connVars, sendingVars, clientVars, PInv, TInv, JInv, IInv, TypeOK
<1>2. QED
  BY <1>1 DEF PInv, LongInv, LongAsked, OnlyAsked

\* One turn of send_with_sender's loop.
LEMMA SendKeepsLong ==
  ASSUME PInv, SendWithSender
  PROVE  LongInv'
<1>1. at = "send_with_sender" /\ UNCHANGED clientVars /\ fd \in Clients
  BY DEF SendWithSender, PInv, TInv, JInv, IInv, TypeOK
<1>2. \A c \in Clients : sender[c] # NoSender => LongAsked(c)
  BY DEF PInv, LongInv
<1>3. CASE Finished(current) /\ NextSender /\ UNCHANGED <<fd, connVars, wireVars>>
  BY <1>1, <1>2, <1>3, NextIsLong DEF connVars, sendingVars, clientVars
<1>4. CASE (Exits(current) \/ (~Finished(current) /\ Broken)) /\ GoDown
  BY <1>1, <1>4, StuckIsLong, DownIsLong
<1>5. CASE UNCHANGED <<at, fd, outEvent, following, connVars>>
  BY <1>1, <1>5 DEF connVars, sendingVars, clientVars, PInv, LongInv, LongAsked, OnlyAsked
<1>6. CASE /\ Refused(current) /\ KeepSender(fd, AfterBlock(current)) /\ NextSender
           /\ UNCHANGED <<fd, clients, accepted, shut, wireVars>>
  <2>1. LongAsked(fd)
    BY <1>1, <1>6, StuckIsLong
  <2>2. \A c \in Clients : c # fd => sender'[c] = sender[c]
    BY <1>6 DEF KeepSender, PInv, TInv, JInv, IInv, TypeOK
  <2>3. \A c \in Clients : sender'[c] # NoSender => LongAsked(c)
    BY <1>2, <2>1, <2>2
  <2>4. QED
    BY <1>1, <1>6, <2>3, NextIsLong DEF clientVars
<1>7. QED
  BY <1>3, <1>4, <1>5, <1>6 DEF SendWithSender

\* One turn of resume_sending's loop.
LEMMA ResumeKeepsLong ==
  ASSUME PInv, ResumeSending
  PROVE  LongInv'
<1>1. at = "resume_sending" /\ UNCHANGED clientVars /\ LongAsked(fd) /\ fd \in Clients
  BY DEF ResumeSending, PInv, LongInv, TInv, JInv, IInv, TypeOK
<1>2. CASE GoDown
  BY <1>1, <1>2, DownIsLong
<1>3. ASSUME UNCHANGED <<fd, shut>>, at' \in {"epoll_wait", "resume_sending"},
             \A c \in Clients : c # fd => sender'[c] = sender[c]
      PROVE  LongInv'
  <2>1. \A c \in Clients : sender'[c] # NoSender => LongAsked(c)
    BY <1>1, <1>3 DEF PInv, LongInv
  <2>2. QED
    BY <1>1, <1>3, <2>1 DEF clientVars, PInv, LongInv, LongAsked, OnlyAsked
<1>4. CASE at' = "epoll_wait"
           /\ UNCHANGED <<fd, outEvent, current, following, connVars, wireVars>>
  BY <1>3, <1>4 DEF connVars, sendingVars
<1>5. CASE \E s : /\ sender' = [sender EXCEPT ![fd] = s]
                  /\ UNCHANGED <<loopVars, clients, accepted, state, armed, shut>>
  <2>1. \A c \in Clients : c # fd => sender'[c] = sender[c]
    BY <1>5 DEF PInv, TInv, JInv, IInv, TypeOK
  <2>2. QED
    BY <1>1, <1>3, <1>5, <2>1 DEF loopVars
<1>6. CASE at' = "epoll_wait" /\ DropSender(fd) /\ UNCHANGED <<fd, shut>>
  <2>1. \A c \in Clients : c # fd => sender'[c] = sender[c]
    BY <1>6 DEF DropSender, PInv, TInv, JInv, IInv, TypeOK
  <2>2. QED
    BY <1>3, <1>6, <2>1
<1>7. QED
  BY <1>2, <1>4, <1>5, <1>6 DEF ResumeSending

\* The client's steps change nothing of the server, but for a new connection.
LEMMA LongKept ==
  ASSUME PInv, UNCHANGED <<at, fd, outEvent, sender, shut, inbox, asked>>
  PROVE  LongInv'
  BY DEF PInv, LongInv, LongAsked, OnlyAsked

LEMMA OpenKeepsLong ==
  ASSUME PInv, NEW command \in Command, Open(command)
  PROVE  LongInv'
<1>1. PICK d \in Clients : d = socket'
  BY NewRequest DEF PInv
<1>2. /\ at # "down" /\ asked[d] = <<>> /\ asked'[d] = <<command>>
      /\ \A c \in Clients \ {d} : asked'[c] = asked[c]
  BY <1>1, NewRequest DEF PInv
<1>3. UNCHANGED <<at, fd, outEvent, sender, shut>>
  BY DEF Open, loopVars, connVars, sendingVars
<1>4. inbox[d] = <<>>
  BY <1>2 DEF PInv, LongInv
<1>5. inbox' = [inbox EXCEPT ![d] = Append(@, command)]
  BY <1>1 DEF Open, Ask
<1>6. inbox'[d] = <<command>> /\ \A c \in Clients \ {d} : inbox'[c] = inbox[c]
  BY <1>4, <1>5 DEF PInv, TInv, JInv, IInv, TypeOK
<1>7. ~LongAsked(d) /\ asked[d] # <<"stop">>
  BY <1>2, LongIsAsked
<1>8. fd \in Clients
  BY DEF PInv, TInv, JInv, IInv, TypeOK
<1>9. \A c \in Clients : sender'[c] # NoSender => LongAsked(c)'
  BY <1>2, <1>3, <1>7 DEF PInv, LongInv, LongAsked, OnlyAsked
<1>10. \A c \in Clients : shut'[c] => asked'[c] = <<"stop">>
  BY <1>2, <1>3, <1>7 DEF PInv, LongInv
<1>11. \A c \in Clients : inbox'[c] \in {<<>>, asked'[c]}
  BY <1>2, <1>6 DEF PInv, LongInv
<1>12. at' = "resume_sending" => LongAsked(fd)'
  BY <1>2, <1>3, <1>7, <1>8 DEF PInv, LongInv, LongAsked, OnlyAsked
<1>13. at' = "send_with_sender" =>
         asked'[fd'] \notin {<<>>, <<"stop">>} /\ (outEvent' => LongAsked(fd)')
  BY <1>2, <1>3, <1>8 DEF PInv, LongInv, LongAsked, OnlyAsked
<1>14. QED
  BY <1>2, <1>3, <1>9, <1>10, <1>11, <1>12, <1>13 DEF LongInv

\* The client.
LEMMA ClientKeepsLong ==
  ASSUME PInv, MainNext \/ UserNext \/ \E c \in Clients : PlayerNext(c)
  PROVE  LongInv'
<1>1. CASE \E c \in Clients : ReadByte(c)
  BY <1>1, LongKept DEF ReadByte, loopVars, connVars, sendingVars, clientVars
<1>2. CASE \E connections : CloseAll(connections)
  BY <1>2, LongKept DEF CloseAll, loopVars, connVars, sendingVars
<1>3. CASE UNCHANGED vars
  BY <1>3, LongKept DEF vars, loopVars, connVars, sendingVars, clientVars
<1>4. CASE \E command \in Command : Open(command)
  BY <1>4, OpenKeepsLong
<1>5. CASE MainNext
  <2>1. socket \in Clients \/ FinishStop \/ EndProcess
    BY <1>5, WorksWithAConnection DEF MainNext, ReceiveHeader, ReceiveText, OpenPlayer, PInv, TInv
  <2>2. QED
    BY <1>1, <1>2, <1>3, <1>5, <2>1 DEF MainNext, ReceiveHeader, ReceiveText, OpenPlayer,
                                         FinishStop, EndProcess
<1>6. CASE UserNext
  <2>1. Commands \subseteq Command /\ "stop" \in Command
    BY MusicAssumption DEF Command
  <2>2. QED
    BY <1>3, <1>4, <1>6, <2>1 DEF UserNext, Enter, Stop, Exit
<1>7. CASE \E c \in Clients : PlayerNext(c)
  BY <1>1, <1>2, <1>3, <1>7 DEF PlayerNext, PlayerReads, PlayerWrites, EndPlayer
<1>8. QED
  BY <1>5, <1>6, <1>7

LEMMA InitPInv ==
  ASSUME JukeboxInit
  PROVE  PInv
<1>1. TInv
  BY InitTInv
<1>2. LongInv
  BY DEF JukeboxInit, Init, LongInv
<1>3. QED
  BY <1>1, <1>2 DEF PInv

LEMMA StepPInv ==
  ASSUME PInv, [JukeboxNext]_jukeboxVars
  PROVE  PInv'
<1>1. TInv'
  BY StepTInv DEF PInv
<1>2. CASE \E c \in Clients : ServerEvent(c)
  <2>1. PICK c \in Clients : Event(c)
    BY <1>2 DEF ServerEvent
  <2>2. UNCHANGED asked
    BY <2>1, ServerKeeps DEF PInv, TInv, JInv
  <2>3. QED
    BY <1>1, <2>1, <2>2, EventKeepsLong DEF PInv
<1>3. CASE ServerSends
  BY <1>1, <1>3, SendKeepsLong, ResumeKeepsLong DEF ServerSends, PInv
<1>4. CASE MainNext \/ UserNext \/ \E c \in Clients : PlayerNext(c)
  BY <1>1, <1>4, ClientKeepsLong DEF PInv
<1>5. CASE UNCHANGED jukeboxVars \/ Idle
  BY <1>1, <1>5, LongKept DEF jukeboxVars, Idle, vars, loopVars, connVars, sendingVars,
                              clientVars, PInv
<1>6. QED
  BY <1>2, <1>3, <1>4, <1>5 DEF JukeboxNext

\* Only long answers are ever left to be resumed.
THEOREM LongInvariance == JukeboxSpec => []PInv
<1>1. JukeboxInit => PInv
  BY InitPInv
<1>2. PInv /\ [JukeboxNext]_jukeboxVars => PInv'
  BY StepPInv
<1>3. QED
  BY <1>1, <1>2, PTL DEF JukeboxSpec

\* A text that fits in the send buffer never ends the server, neither by its request
\* nor by the close of its connection, whatever other connections ask for: the one
\* that ends it asked for a song or for a longer text.
THEOREM OnlyLongAnswersEndTheServer == JukeboxSpec => []EndedByLongAnswer
<1>1. PInv => EndedByLongAnswer
  BY DEF PInv, LongInv, EndedByLongAnswer, LongAsked
<1>2. QED
  BY <1>1, LongInvariance, PTL
=============================================================================
