--------------------------- MODULE JukeboxProofs ---------------------------
(***************************************************************************)
(* Proofs about Jukebox, for any number of connections.  What the client   *)
(* does to the server are requests, reads and closed connections of        *)
(* module MusicServer, so that its inductive invariant holds here too; the *)
(* client adds that connections are numbered as they are made, and threads *)
(* belong to connections that were made (ClientInv).                       *)
(***************************************************************************)
EXTENDS Jukebox, MusicProofs, FiniteSetTheorems

\* A connection is used if it has one of the numbers up to socket; only those have
\* threads, and only threads are interrupted.
ClientInv ==
  /\ \A c \in Clients : asked[c] # <<>> <=> c <= socket
  /\ \A c \in Clients : players[c] # "none" => c <= socket
  /\ main \in {"header", "text", "open_player", "stopping"} => socket # None
  /\ main \in {"header", "text", "open_player"} => players[socket] = "none"
  /\ \A c \in interrupted : players[c] # "none"
  /\ main = "stopping" => playing # None
  /\ playing # None => players[playing] # "none"

JInv == IInv /\ JukeboxTypeOK /\ ClientInv /\ OrphanedByReplay

LEMMA Connections ==
  /\ Clients \subseteq Nat \ {0}
  /\ \A c \in Clients : \A d \in Nat \ {0} : d <= c => d \in Clients
  /\ None \in Nat /\ None \notin Clients
<1>1. PICK n \in Nat : Clients = 1..n
  BY ConnectionsAssumption, FS_CardinalityType
<1>2. QED
  BY <1>1 DEF None

\* After a step of the server no client has read more than it was sent.
LEMMA TakenIsSent ==
  ASSUME IInv'
  PROVE  \A c \in Clients : Taken(c)' >= 0
<1>1. SUFFICES ASSUME NEW c \in Clients PROVE Taken(c)' >= 0
  OBVIOUS
<1>2. /\ Len(out'[c]) \in Nat /\ room'[c] \in 0..Room /\ Room - room'[c] <= Len(out'[c])
  BY DEF IInv, TypeOK, LoopInv
<1>3. QED
  BY <1>2, MusicAssumption DEF Taken, Unread

\* A byte is read, and the client's own state may change.
LEMMA ByteRead ==
  ASSUME JInv, NEW c \in Clients, ReadByte(c)
  PROVE  /\ IInv' /\ \A d \in Clients : Taken(d)' >= 0
         /\ UNCHANGED <<at, asked>>
<1>1. IInv'
  BY ReadStep DEF JInv
<1>2. QED
  BY <1>1, TakenIsSent DEF ReadByte, loopVars, clientVars

\* The server's steps, and closed connections, are not seen by what follows here.
LEMMA ClientUnchanged ==
  ASSUME JInv, IInv', UNCHANGED <<asked, clientSideVars>>
  PROVE  JInv'
<1> USE DEF clientSideVars
<1>1. \A c \in Clients : Taken(c)' >= 0
  BY TakenIsSent
<1>2. JukeboxTypeOK'
  BY <1>1 DEF JInv, JukeboxTypeOK
<1>3. ClientInv' /\ OrphanedByReplay'
  BY DEF JInv, ClientInv, OrphanedByReplay, Alive
<1>4. QED
  BY <1>2, <1>3 DEF JInv

\* So are connections that are closed.
LEMMA Closed ==
  ASSUME JInv, NEW connections \in SUBSET Clients, CloseAll(connections)
  PROVE  /\ IInv' /\ \A d \in Clients : Taken(d)' >= 0
         /\ UNCHANGED asked
<1>1. hungUp \subseteq hungUp' /\ hungUp' \subseteq Clients
  BY DEF CloseAll, JInv, IInv, TypeOK
<1>2. IInv'
  BY <1>1, HangUpStep DEF CloseAll, JInv
<1>3. QED
  BY <1>2, TakenIsSent DEF CloseAll

\* A new connection is the next one.
LEMMA Opened ==
  ASSUME JInv, NEW command \in Command, Open(command)
  PROVE  /\ IInv' /\ \A d \in Clients : Taken(d)' >= 0
         /\ socket' \in Clients /\ socket < socket'
         /\ \A c \in Clients : asked'[c] # <<>> <=> c <= socket'
<1>1. /\ socket' \in Clients /\ asked[socket'] = <<>>
      /\ \A c \in Clients : c < socket' => asked[c] # <<>>
      /\ asked' = [asked EXCEPT ![socket'] = Append(@, command)]
  BY DEF Open, Ask
<1>2. IInv'
  <2>1. PICK c \in Clients : c = socket'
    BY <1>1
  <2>2. Ask(c, command)
    BY <2>1 DEF Open, Ask
  <2>3. UNCHANGED <<loopVars, connVars, wireVars, hungUp, parted>>
    BY DEF Open
  <2>4. QED
    BY <2>2, <2>3, AskStep DEF JInv
<1>3. socket \in Nat /\ socket' \in Nat /\ socket' > 0
  BY <1>1, Connections DEF JInv, JukeboxTypeOK
<1>4. socket < socket'
  <2>1. \A c \in Clients : asked[c] # <<>> <=> c <= socket
    BY DEF JInv, ClientInv
  <2>2. ~(socket' <= socket)
    BY <1>1, <2>1
  <2>3. QED
    BY <1>3, <2>2
<1>5. ASSUME NEW c \in Clients PROVE asked'[c] # <<>> <=> c <= socket'
  <2>1. asked \in [Clients -> Seq(Command)] /\ c \in Nat
    BY Connections DEF JInv, IInv, TypeOK
  <2>2. CASE c = socket'
    <3>1. asked'[c] = Append(<<>>, command)
      BY <1>1, <2>1, <2>2
    <3>2. QED
      BY <1>3, <2>2, <3>1
  <2>3. CASE c # socket'
    <3>1. asked'[c] = asked[c]
      BY <1>1, <2>1, <2>3
    <3>2. asked[c] # <<>> <=> c <= socket
      BY DEF JInv, ClientInv
    <3>3. QED
      BY <1>1, <1>3, <1>4, <2>1, <2>3, <3>1, <3>2
  <2>4. QED
    BY <2>2, <2>3
<1>6. QED
  BY <1>1, <1>2, <1>4, <1>5, TakenIsSent

-----------------------------------------------------------------------------
(* The main thread. *)

LEMMA EnterStep ==
  ASSUME JInv, NEW command \in Commands, Enter(command)
  PROVE  JInv'
<1> USE DEF Enter
<1>1. /\ IInv' /\ \A d \in Clients : Taken(d)' >= 0
      /\ socket' \in Clients /\ socket < socket'
      /\ \A c \in Clients : asked'[c] # <<>> <=> c <= socket'
  BY MusicAssumption, Opened
<1>2. JukeboxTypeOK'
  BY <1>1 DEF JInv, JukeboxTypeOK
<1>3. ClientInv'
  <2>1. \A c \in Clients : players[c] # "none" => c <= socket
    BY DEF JInv, ClientInv
  <2>2. socket \in Nat /\ socket' \in Nat \ {0} /\ \A c \in Clients : c \in Nat
    BY <1>1, Connections DEF JInv, JukeboxTypeOK
  <2>3. \A c \in Clients : players[c] # "none" => c <= socket'
    BY <1>1, <2>1, <2>2
  <2>4. players[socket'] = "none"
    <3>1. players[socket'] # "none" => socket' <= socket
      BY <1>1, <2>1
    <3>2. QED
      BY <1>1, <2>2, <3>1
  <2>5. socket' # None
    BY <1>1, Connections
  <2>6. QED
    BY <1>1, <2>3, <2>4, <2>5 DEF JInv, ClientInv
<1>4. OrphanedByReplay'
  BY DEF JInv, OrphanedByReplay, Alive
<1>5. QED
  BY <1>1, <1>2, <1>3, <1>4 DEF JInv

\* The main thread goes to its prompt, or on, and nothing else changes but what the
\* server may see.
LEMMA MainGoesOn ==
  ASSUME JInv, IInv', UNCHANGED <<asked, socket, playing, players, interrupted>>,
         main' \in {"prompt", "text", "open_player"},
         main' # "prompt" => main = "header",
         main \notin {"exited", "ended"}
  PROVE  JInv'
<1>1. \A d \in Clients : Taken(d)' >= 0
  BY TakenIsSent
<1>2. JukeboxTypeOK'
  BY <1>1 DEF JInv, JukeboxTypeOK
<1>3. ClientInv'
  BY DEF JInv, ClientInv
<1>4. OrphanedByReplay'
  BY DEF JInv, OrphanedByReplay, Alive
<1>5. QED
  BY <1>2, <1>3, <1>4 DEF JInv

\* The connection that the main thread works with is one.
LEMMA WorksWithAConnection ==
  ASSUME JInv, main \in {"header", "text", "open_player", "stopping"}
  PROVE  socket \in Clients
  BY DEF JInv, JukeboxTypeOK, ClientInv

\* Nothing that the server sees changes.
LEMMA ServerUnchanged ==
  ASSUME JInv, UNCHANGED vars
  PROVE  IInv' /\ UNCHANGED asked
<1>1. UNCHANGED <<loopVars, connVars, wireVars, inbox, asked, turn, hungUp, parted>>
  BY DEF vars, clientVars
<1>2. QED
  BY <1>1, HangUpStep DEF JInv, IInv, TypeOK

LEMMA HeaderReceived ==
  ASSUME JInv, ReceiveHeader
  PROVE  JInv'
<1>1. main = "header" /\ socket \in Clients
  BY WorksWithAConnection DEF ReceiveHeader
<1>2. CASE ReadByte(socket) /\ main' \in {"open_player", "text"}
           /\ UNCHANGED <<socket, playing, players, interrupted>>
  <2>1. IInv' /\ UNCHANGED asked
    BY <1>1, <1>2, ByteRead
  <2>2. QED
    BY <1>1, <1>2, <2>1, MainGoesOn
<1>3. CASE Abandon /\ UNCHANGED vars
  BY <1>1, <1>3, ServerUnchanged, MainGoesOn DEF Abandon
<1>4. QED
  BY <1>2, <1>3 DEF ReceiveHeader

LEMMA TextStepOfClient ==
  ASSUME JInv, ReceiveText
  PROVE  JInv'
<1>1. main = "text" /\ socket \in Clients
  BY WorksWithAConnection DEF ReceiveText
<1>2. CASE ReadByte(socket) /\ UNCHANGED clientSideVars
  <2>1. IInv' /\ UNCHANGED asked
    BY <1>1, <1>2, ByteRead
  <2>2. QED
    BY <1>2, <2>1, ClientUnchanged
<1>3. CASE CloseAll({socket}) /\ main' = "prompt"
           /\ UNCHANGED <<socket, playing, players, interrupted>>
  <2>1. IInv' /\ UNCHANGED asked
    BY <1>1, <1>3, Closed
  <2>2. QED
    BY <1>1, <1>3, <2>1, MainGoesOn
<1>4. CASE Abandon /\ UNCHANGED vars
  BY <1>1, <1>4, ServerUnchanged, MainGoesOn DEF Abandon
<1>5. QED
  BY <1>2, <1>3, <1>4 DEF ReceiveText

\* The new thread is that of the newest connection: whichever thread it replaces is
\* of an earlier one.
LEMMA PlayerStarts ==
  ASSUME JInv, main = "open_player", ReadByte(socket), main' = "prompt", StartPlayer(socket),
         UNCHANGED <<socket, interrupted>>
  PROVE  JInv'
<1>1. socket \in Clients
  BY WorksWithAConnection
<1>2. /\ IInv' /\ \A d \in Clients : Taken(d)' >= 0
      /\ UNCHANGED asked
  BY <1>1, ByteRead
<1>3. /\ players' \in [Clients -> {"none", "reading", "writing", "ended"}]
      /\ players'[socket] = "writing" /\ \A c \in Clients \ {socket} : players'[c] = players[c]
      /\ playing' = socket
  BY <1>1 DEF StartPlayer, JInv, JukeboxTypeOK
<1>4. JukeboxTypeOK'
  BY <1>1, <1>2, <1>3 DEF JInv, JukeboxTypeOK
<1>5. \A c \in Clients : c \in Nat /\ c <= c
  BY Connections
<1>6. ClientInv'
  BY <1>1, <1>2, <1>3, <1>5 DEF JInv, ClientInv, JukeboxTypeOK
<1>7. OrphanedByReplay'
  <2>1. players[socket] = "none" /\ socket \notin interrupted
    BY DEF JInv, ClientInv
  <2>2. ASSUME NEW c \in Clients, Alive(c)', c # socket PROVE socket > c
    <3>1. players[c] # "none"
      BY <1>3, <2>2 DEF Alive
    <3>2. c <= socket
      BY <3>1 DEF JInv, ClientInv
    <3>3. QED
      BY <1>1, <1>5, <2>2, <3>2
  <2>3. QED
    BY <1>1, <1>3, <2>1, <2>2 DEF OrphanedByReplay
<1>8. QED
  BY <1>2, <1>4, <1>6, <1>7 DEF JInv

LEMMA OpenPlayerStep ==
  ASSUME JInv, OpenPlayer
  PROVE  JInv'
<1>1. main = "open_player" /\ socket \in Clients
  BY WorksWithAConnection DEF OpenPlayer
<1>2. CASE ReadByte(socket) /\ main' = "prompt" /\ StartPlayer(socket)
           /\ UNCHANGED <<socket, interrupted>>
  BY <1>1, <1>2, PlayerStarts
<1>3. CASE ReadByte(socket) /\ Abandon
  <2>1. IInv' /\ UNCHANGED asked
    BY <1>1, <1>3, ByteRead
  <2>2. QED
    BY <1>1, <1>3, <2>1, MainGoesOn DEF Abandon
<1>4. CASE Abandon /\ UNCHANGED vars
  BY <1>1, <1>4, ServerUnchanged, MainGoesOn DEF Abandon
<1>5. CASE ReadByte(socket) /\ UNCHANGED clientSideVars
  <2>1. IInv' /\ UNCHANGED asked
    BY <1>1, <1>5, ByteRead
  <2>2. QED
    BY <1>5, <2>1, ClientUnchanged
<1>6. QED
  BY <1>2, <1>3, <1>4, <1>5 DEF OpenPlayer

\* The thread that plays is interrupted and its reference given up: it is not
\* orphaned.
LEMMA Interrupts ==
  ASSUME JInv, playing # None, Interrupt, IInv', UNCHANGED <<asked, socket, players>>,
         main' = "prompt", main \notin {"exited", "ended"}
  PROVE  JInv'
<1> USE DEF Interrupt
<1>1. \A d \in Clients : Taken(d)' >= 0
  BY TakenIsSent
<1>2. playing \in Clients /\ players[playing] # "none"
  BY DEF JInv, JukeboxTypeOK, ClientInv
<1>3. JukeboxTypeOK'
  BY <1>1, <1>2 DEF JInv, JukeboxTypeOK
<1>4. ClientInv'
  BY <1>2 DEF JInv, ClientInv
<1>5. OrphanedByReplay'
  BY DEF JInv, OrphanedByReplay, Alive
<1>6. QED
  BY <1>3, <1>4, <1>5 DEF JInv

LEMMA StopStepOfClient ==
  ASSUME JInv, Stop
  PROVE  JInv'
<1>1. main = "prompt" /\ playing # None /\ UNCHANGED players
  BY DEF Stop
<1>2. CASE at = "down" /\ Interrupt /\ UNCHANGED <<vars, main, socket>>
  BY <1>1, <1>2, ServerUnchanged, Interrupts
<1>3. CASE Open("stop") /\ main' = "stopping" /\ UNCHANGED <<playing, interrupted>>
  <2>1. /\ IInv' /\ \A d \in Clients : Taken(d)' >= 0
        /\ socket' \in Clients /\ socket < socket'
        /\ \A c \in Clients : asked'[c] # <<>> <=> c <= socket'
    <3>1. "stop" \in Command
      BY DEF Command
    <3>2. QED
      BY <1>3, <3>1, Opened
  <2>2. JukeboxTypeOK'
    BY <1>1, <1>3, <2>1 DEF JInv, JukeboxTypeOK
  <2>3. ClientInv'
    <3>1. \A c \in Clients : players[c] # "none" => c <= socket
      BY DEF JInv, ClientInv
    <3>2. socket \in Nat /\ socket' \in Nat \ {0} /\ \A c \in Clients : c \in Nat
      BY <2>1, Connections DEF JInv, JukeboxTypeOK
    <3>3. \A c \in Clients : players[c] # "none" => c <= socket'
      BY <2>1, <3>1, <3>2
    <3>4. socket' # None
      BY <2>1, Connections
    <3>5. QED
      BY <1>1, <1>3, <2>1, <3>3, <3>4 DEF JInv, ClientInv
  <2>4. OrphanedByReplay'
    BY <1>1, <1>3 DEF JInv, OrphanedByReplay, Alive
  <2>5. QED
    BY <2>1, <2>2, <2>3, <2>4 DEF JInv
<1>4. QED
  BY <1>2, <1>3 DEF Stop

LEMMA FinishStopStep ==
  ASSUME JInv, FinishStop
  PROVE  JInv'
<1>1. main = "stopping" /\ socket \in Clients
  BY WorksWithAConnection DEF FinishStop
<1>2. playing # None
  BY <1>1 DEF JInv, ClientInv
<1>3. IInv' /\ UNCHANGED asked
  BY <1>1, Closed DEF FinishStop
<1>4. QED
  BY <1>1, <1>2, <1>3, Interrupts DEF FinishStop

LEMMA ExitStep ==
  ASSUME JInv, Exit
  PROVE  JInv'
<1> USE DEF Exit
<1>1. IInv' /\ UNCHANGED asked
  BY ServerUnchanged
<1>2. \A d \in Clients : Taken(d)' >= 0
  BY <1>1, TakenIsSent
<1>3. /\ interrupted \subseteq interrupted' /\ interrupted' \subseteq interrupted \cup {playing}
      /\ playing = None => UNCHANGED interrupted
  OBVIOUS
<1>4. JukeboxTypeOK'
  BY <1>2, <1>3 DEF JInv, JukeboxTypeOK
<1>5. ClientInv'
  BY <1>1, <1>3 DEF JInv, ClientInv
<1>6. OrphanedByReplay'
  BY <1>3 DEF JInv, OrphanedByReplay, Alive
<1>7. QED
  BY <1>1, <1>4, <1>5, <1>6 DEF JInv

LEMMA EndProcessStep ==
  ASSUME JInv, EndProcess
  PROVE  JInv'
<1>1. IInv' /\ UNCHANGED asked /\ \A d \in Clients : Taken(d)' >= 0
  BY Closed DEF EndProcess
<1>2. JukeboxTypeOK'
  BY <1>1 DEF EndProcess, JInv, JukeboxTypeOK
<1>3. ClientInv' /\ OrphanedByReplay'
  BY <1>1 DEF EndProcess, JInv, ClientInv, OrphanedByReplay, Alive
<1>4. QED
  BY <1>1, <1>2, <1>3 DEF JInv

-----------------------------------------------------------------------------
(* The player threads, and the server. *)

\* A thread goes on, or ends.
LEMMA ThreadGoesOn ==
  ASSUME JInv, IInv', NEW c \in Clients, Alive(c), NEW p \in {"reading", "writing", "ended"},
         players' = [players EXCEPT ![c] = p],
         UNCHANGED <<asked, main, socket, playing, interrupted>>
  PROVE  JInv'
<1>1. \A d \in Clients : Taken(d)' >= 0
  BY TakenIsSent
<1>2. /\ players' \in [Clients -> {"none", "reading", "writing", "ended"}]
      /\ \A d \in Clients : players'[d] # "none" <=> players[d] # "none"
      /\ \A d \in Clients : Alive(d)' => Alive(d)
  BY DEF JInv, JukeboxTypeOK, Alive
<1>3. JukeboxTypeOK'
  BY <1>1, <1>2 DEF JInv, JukeboxTypeOK
<1>4. ClientInv'
  <2>1. main \in {"header", "text", "open_player"} => socket \in Clients
    BY WorksWithAConnection
  <2>2. playing \in Clients \cup {None} /\ interrupted \subseteq Clients
    BY DEF JInv, JukeboxTypeOK
  <2>3. QED
    BY <1>2, <2>1, <2>2 DEF JInv, ClientInv
<1>5. OrphanedByReplay'
  BY <1>2 DEF JInv, JukeboxTypeOK, OrphanedByReplay
<1>6. QED
  BY <1>3, <1>4, <1>5 DEF JInv

LEMMA PlayerEnds ==
  ASSUME JInv, NEW c \in Clients, Alive(c), EndPlayer(c)
  PROVE  JInv'
<1>1. IInv' /\ UNCHANGED asked
  BY Closed DEF EndPlayer
<1>2. QED
  BY <1>1, ThreadGoesOn DEF EndPlayer

LEMMA PlayerStep ==
  ASSUME JInv, NEW c \in Clients, PlayerNext(c)
  PROVE  JInv'
<1>1. Alive(c)
  BY DEF PlayerNext, PlayerReads, PlayerWrites, Alive
<1>2. CASE EndPlayer(c)
  BY <1>1, <1>2, PlayerEnds
<1>3. CASE ReadByte(c) /\ players' = [players EXCEPT ![c] = "writing"]
           /\ UNCHANGED <<main, socket, playing, interrupted>>
  <2>1. IInv' /\ UNCHANGED asked
    BY <1>3, ByteRead
  <2>2. QED
    BY <1>1, <1>3, <2>1, ThreadGoesOn
<1>4. CASE players' = [players EXCEPT ![c] = "reading"]
           /\ UNCHANGED <<vars, main, socket, playing, interrupted>>
  BY <1>1, <1>4, ServerUnchanged, ThreadGoesOn
<1>5. QED
  BY <1>2, <1>3, <1>4 DEF PlayerNext, PlayerReads, PlayerWrites

LEMMA ServerStep ==
  ASSUME JInv, (\E c \in Clients : ServerEvent(c)) \/ ServerSends
  PROVE  JInv'
<1>1. CASE \E c \in Clients : ServerEvent(c)
  <2>1. PICK c \in Clients : Event(c) /\ UNCHANGED clientSideVars
    BY <1>1 DEF ServerEvent
  <2>2. IInv'
    BY <2>1, EventStep DEF JInv
  <2>3. UNCHANGED asked
    BY <2>1 DEF Event, SetupNewClient, HandleClose, HandleText, HandlePlay, HandleStop,
                HandleRest, HandlePart, HandleHeader, DispatchOutput, HandleInput, clientVars
  <2>4. QED
    BY <2>1, <2>2, <2>3, ClientUnchanged
<1>2. CASE ServerSends
  <2>1. IInv'
    BY <1>2, SendStep, ResumeStep DEF ServerSends, JInv
  <2>2. UNCHANGED asked
    BY <1>2 DEF ServerSends, SendWithSender, ResumeSending, clientVars
  <2>3. QED
    BY <1>2, <2>1, <2>2, ClientUnchanged DEF ServerSends
<1>3. QED
  BY <1>1, <1>2

-----------------------------------------------------------------------------
(* The theorems. *)

LEMMA InitJInv ==
  ASSUME JukeboxInit
  PROVE  JInv
<1> USE DEF JukeboxInit
<1>1. IInv
  BY InitIInv
<1>2. JukeboxTypeOK
  <2>1. \A c \in Clients : Taken(c) >= 0
    BY MusicAssumption DEF Init, Taken, Unread
  <2>2. QED
    BY <2>1 DEF JukeboxTypeOK
<1>3. ClientInv
  BY Connections DEF Init, ClientInv, None
<1>4. OrphanedByReplay
  BY DEF OrphanedByReplay, Alive
<1>5. QED
  BY <1>1, <1>2, <1>3, <1>4 DEF JInv

LEMMA StepJInv ==
  ASSUME JInv, [JukeboxNext]_jukeboxVars
  PROVE  JInv'
<1>1. CASE MainNext
  BY <1>1, HeaderReceived, TextStepOfClient, OpenPlayerStep, FinishStopStep, EndProcessStep
     DEF MainNext
<1>2. CASE UserNext
  BY <1>2, EnterStep, StopStepOfClient, ExitStep DEF UserNext
<1>3. CASE UNCHANGED jukeboxVars
  BY <1>3, ServerUnchanged, ClientUnchanged DEF jukeboxVars
<1>4. CASE Idle /\ UNCHANGED clientSideVars
  BY <1>3, <1>4 DEF Idle, jukeboxVars
<1>5. QED
  BY <1>1, <1>2, <1>3, <1>4, PlayerStep, ServerStep DEF JukeboxNext

\* The server keeps its inductive invariant when the Java client is its client, and
\* the client its own.
THEOREM JukeboxInvariance == JukeboxSpec => []JInv
<1>1. JukeboxInit => JInv
  BY InitJInv
<1>2. JInv /\ [JukeboxNext]_jukeboxVars => JInv'
  BY StepJInv
<1>3. QED
  BY <1>1, <1>2, PTL DEF JukeboxSpec

\* Every variable of the client keeps its type, and no more is read from a connection
\* than was sent over it.
THEOREM JukeboxTypeCorrect == JukeboxSpec => []JukeboxTypeOK
<1>1. JInv => JukeboxTypeOK
  BY DEF JInv
<1>2. QED
  BY <1>1, JukeboxInvariance, PTL

\* However many songs are played and stopped: stop reaches the one started last, and
\* whichever plays on beyond its reach was replaced by a later one.
THEOREM OrphansWereReplaced == JukeboxSpec => []OrphanedByReplay
<1>1. JInv => OrphanedByReplay
  BY DEF JInv
<1>2. QED
  BY <1>1, JukeboxInvariance, PTL
=============================================================================
