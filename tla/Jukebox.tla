------------------------------ MODULE Jukebox ------------------------------
(***************************************************************************)
(* The Java client of the streaming music protocol together with the       *)
(* server of module MusicServer.                                           *)
(*                                                                         *)
(* The client is a Java process: the main thread, which reads the user's   *)
(* commands and makes a connection of its own for each of them, and a      *)
(* thread for each song that plays, which reads from the connection that   *)
(* the main thread made for it.  A socket that the program forgets stays   *)
(* open until the process ends.  Connections are numbered as they are      *)
(* made.  The server accepts one some time after the client made it, and   *)
(* the client may have sent its request, or closed it, before that.        *)
(*                                                                         *)
(* A thread that waits for bytes from its connection does not notice that  *)
(* it was interrupted; one that waits for the sound line does.             *)
(***************************************************************************)
EXTENDS MusicServer

ASSUME ConnectionsAssumption == IsFiniteSet(Clients) /\ Clients = 1..Cardinality(Clients)

\* The client writes its request of a few bytes at once, to a connection that has
\* carried nothing: recv returns it whole.
ASSUME RequestsAssumption == ~MayPart

VARIABLES
  main,        \* what the main thread does, see JukeboxTypeOK
  socket,      \* the connection it last made
  playing,     \* audioPlayerThread: the connection of that thread, None if null
  players,     \* the thread that reads from a connection
  interrupted  \* the threads that were interrupted

None == 0

clientSideVars == <<main, socket, playing, players, interrupted>>
jukeboxVars == <<vars, clientSideVars>>

-----------------------------------------------------------------------------
(* Connections, as the client sees them. *)

\* The bytes that were read from a connection, and those that may be read.
Unread(c) == Room - room[c]
Taken(c) == Len(out[c]) - Unread(c)

\* The server has ended, and nothing is left to read.
EndOfStream(c) == at = "down" /\ Unread(c) = 0

\* A new connection, with one request.
Open(command) ==
  /\ at # "down"
  /\ socket' \in Clients /\ asked[socket'] = <<>>
  /\ \A c \in Clients : c < socket' => asked[c] # <<>>
  /\ Ask(socket', command)
  /\ UNCHANGED <<loopVars, connVars, wireVars, hungUp, parted>>

CloseAll(connections) ==
  /\ hungUp' = hungUp \cup connections
  /\ UNCHANGED <<loopVars, connVars, wireVars, inbox, asked, turn, parted>>

-----------------------------------------------------------------------------
(* The main thread. *)

\* play, list (or test) and info, which is a text too.  If the connection cannot
\* be made, nothing happens.
Enter(command) ==
  /\ main = "prompt"
  /\ command \in Commands \ {"stop"}
  /\ Open(command)
  /\ main' = "header"
  /\ UNCHANGED <<playing, players, interrupted>>

\* Main's exceptions: printed, and the socket is forgotten.
Abandon == main' = "prompt" /\ UNCHANGED <<socket, playing, players, interrupted>>

\* receiveHeader.  The type of an error is not recognised: its byte is negative.
ReceiveHeader ==
  /\ main = "header"
  /\ \/ /\ ReadByte(socket)
        /\ main' = IF Head(asked[socket]) \in {"play", "play_invalid"}
                   THEN "open_player" ELSE "text"
        /\ UNCHANGED <<socket, playing, players, interrupted>>
     \/ EndOfStream(socket) /\ Abandon /\ UNCHANGED vars

\* Mutants: what is there is taken for the text; one byte more is waited for.
TextReceivedPart(c) == Taken(c) >= 1
TextReceivedMore(c) == Taken(c) > 1 + TextLen(Head(asked[c]))

\* readFully has all the bytes that the header announced.
TextReceived(c) == Taken(c) = 1 + TextLen(Head(asked[c]))

\* receiveString; then the text is printed and the socket closed.
ReceiveText ==
  /\ main = "text"
  /\ \/ /\ ~TextReceived(socket)
        /\ ReadByte(socket)
        /\ UNCHANGED clientSideVars
     \/ /\ TextReceived(socket)
        /\ CloseAll({socket})
        /\ main' = "prompt" /\ UNCHANGED <<socket, playing, players, interrupted>>
     \/ ~TextReceived(socket) /\ EndOfStream(socket) /\ Abandon /\ UNCHANGED vars

\* The thread's run begins with writing what it has: nothing yet.
StartPlayer(c) ==
  /\ playing' = c
  /\ players' = [players EXCEPT ![c] = "writing"]

\* The constructor of AudioPlayerThread looks at the stream, byte by byte, until it
\* finds a format, and waits while there is nothing to look at; then it opens a sound
\* line.  An exception leaves the socket open and the earlier thread in place.
OpenPlayer ==
  /\ main = "open_player"
  /\ \/ /\ Head(asked[socket]) = "play"
        /\ ReadByte(socket)
        /\ main' = "prompt" /\ StartPlayer(socket)
        /\ UNCHANGED <<socket, interrupted>>
     \/ ReadByte(socket) /\ Abandon
     \/ ReadByte(socket) /\ UNCHANGED clientSideVars
     \/ EndOfStream(socket) /\ Abandon /\ UNCHANGED vars

\* Mutant: the reference is kept.
InterruptKeepsThread ==
  /\ interrupted' = interrupted \cup {playing}
  /\ UNCHANGED playing

Interrupt ==
  /\ interrupted' = interrupted \cup {playing}
  /\ playing' = None

\* Mutant: the reference is not tested.
StopUnchecked ==
  /\ main = "prompt"
  /\ Open("stop") /\ main' = "stopping"
  /\ UNCHANGED <<playing, interrupted, players>>

\* stop: the request goes over a connection of its own.
Stop ==
  /\ main = "prompt" /\ playing # None
  /\ \/ Open("stop") /\ main' = "stopping" /\ UNCHANGED <<playing, interrupted>>
     \/ at = "down" /\ Interrupt /\ UNCHANGED <<vars, main, socket>>
  /\ UNCHANGED players

FinishStop ==
  /\ main = "stopping"
  /\ CloseAll({socket})
  /\ Interrupt
  /\ main' = "prompt"
  /\ UNCHANGED <<socket, players>>

\* exit, or the end of the input, whose exception ends the main thread.
Exit ==
  /\ main = "prompt"
  /\ main' = "exited"
  /\ \/ playing # None /\ interrupted' = interrupted \cup {playing}
     \/ UNCHANGED interrupted
  /\ UNCHANGED <<vars, socket, playing, players>>

Alive(c) == players[c] \in {"reading", "writing"}

\* The process ends with its last thread.
EndProcess ==
  /\ main = "exited" /\ \A c \in Clients : ~Alive(c)
  /\ main' = "ended"
  /\ CloseAll({c \in Clients : asked[c] # <<>>})
  /\ UNCHANGED <<socket, playing, players, interrupted>>

-----------------------------------------------------------------------------
(* The player threads. *)

\* Mutant: the streams are not closed.
EndPlayerOpen(c) ==
  /\ players' = [players EXCEPT ![c] = "ended"]
  /\ UNCHANGED <<main, socket, playing, interrupted, vars>>

\* run's finally: the stream is closed, and with it the socket.
EndPlayer(c) ==
  /\ players' = [players EXCEPT ![c] = "ended"]
  /\ CloseAll({c})
  /\ UNCHANGED <<main, socket, playing, interrupted>>

\* Bytes are read and decoded; that may fail.
PlayerReads(c) ==
  /\ players[c] = "reading"
  /\ \/ /\ ReadByte(c)
        /\ players' = [players EXCEPT ![c] = "writing"]
        /\ UNCHANGED <<main, socket, playing, interrupted>>
     \/ Unread(c) > 0 /\ EndPlayer(c)
     \/ EndOfStream(c) /\ EndPlayer(c)

\* The thread waits for the sound line, writes to it, and looks for an interrupt.
PlayerWrites(c) ==
  /\ players[c] = "writing"
  /\ \/ c \in interrupted /\ EndPlayer(c)
     \/ /\ c \notin interrupted
        /\ players' = [players EXCEPT ![c] = "reading"]
        /\ UNCHANGED <<vars, main, socket, playing, interrupted>>

-----------------------------------------------------------------------------
JukeboxInit ==
  /\ Init
  /\ main = "prompt" /\ socket = None /\ playing = None
  /\ players = [c \in Clients |-> "none"] /\ interrupted = {}

\* The main thread goes on by itself, and when the user says so.
MainNext == ReceiveHeader \/ ReceiveText \/ OpenPlayer \/ FinishStop \/ EndProcess
UserNext == (\E command \in Commands : Enter(command)) \/ Stop \/ Exit

PlayerNext(c) == PlayerReads(c) \/ PlayerWrites(c)

\* The server's events are those of connections that exist.
ServerEvent(c) == asked[c] # <<>> /\ Event(c) /\ UNCHANGED clientSideVars
ServerSends == (SendWithSender \/ ResumeSending) /\ UNCHANGED clientSideVars

JukeboxNext ==
  \/ MainNext \/ UserNext
  \/ \E c \in Clients : PlayerNext(c)
  \/ \E c \in Clients : ServerEvent(c)
  \/ ServerSends
  \/ Idle /\ UNCHANGED clientSideVars

\* The threads of both programs run; the user is free to do nothing.
JukeboxSpec ==
  /\ JukeboxInit /\ [][JukeboxNext]_jukeboxVars
  /\ WF_jukeboxVars(MainNext) /\ WF_jukeboxVars(ServerSends)
  /\ \A c \in Clients : WF_jukeboxVars(PlayerNext(c)) /\ SF_jukeboxVars(ServerEvent(c))

-----------------------------------------------------------------------------
(* Properties. *)

JukeboxTypeOK ==
  /\ main \in {"prompt", "header", "text", "open_player", "stopping", "exited", "ended"}
  /\ socket \in Clients \cup {None} /\ playing \in Clients \cup {None}
  /\ players \in [Clients -> {"none", "reading", "writing", "ended"}]
  /\ interrupted \subseteq Clients
  /\ \A c \in Clients : Taken(c) >= 0

\* The user's stop reaches the song started last, once; a song that plays on and
\* cannot be stopped any more was left behind by a later play.
OrphanedByReplay ==
  /\ playing # None /\ main \notin {"exited", "ended"} =>
       players[playing] # "none" /\ playing \notin interrupted
  /\ \A c \in Clients :
       Alive(c) /\ c \notin interrupted /\ c # playing =>
         \E d \in Clients : d > c /\ players[d] # "none"

\* The text that is printed is the whole text, although the server sends it in
\* pieces and the client reads it in others.
PrintsWholeText ==
  \A c \in Clients, command \in SureText :
    c \in hungUp /\ OnlyAsked(c, command) /\ main # "ended" =>
      out[c] = TextAnswer(command) /\ Taken(c) = Len(out[c])

\* The texts that do not fit in the send buffer of a connection.
LongText == {command \in TextCommand : 1 + TextLen(command) > Room}

\* The server ends only over a connection that asked for a song or for a text that
\* had to be sent in pieces.  A text that fits is over on both sides when the client
\* closes its connection, so the close finds neither the server sending nor epoll
\* watching for room.
EndedByLongAnswer ==
  at = "down" =>
    \E command \in {"play", "play_invalid"} \cup LongText : OnlyAsked(fd, command)

\* The header of an answer, a text that fits in the send buffer, and stop do not keep
\* the user waiting for ever: the server answers, or has ended.  A longer text may be
\* cut, and the player may look for a format for ever; the client waits for both
\* without limit.
CommandReturns ==
  main \in {"header", "text", "stopping"}
    ~> \/ main \in {"prompt", "open_player"}
       \/ main = "text" /\ \E command \in LongText : OnlyAsked(socket, command)

\* A song that is stopped while its thread writes is over at the server as well:
\* the connection that is closed there, not the request, ends it.
StoppedSongEnds ==
  \A c \in Clients :
    c \in interrupted /\ players[c] = "writing"
      ~> (c \notin clients /\ sender[c] = NoSender) \/ at = "down"
=============================================================================
