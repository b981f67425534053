---------------------------- MODULE MusicServer ----------------------------
(***************************************************************************)
(* The server of the streaming music protocol: one thread that waits in    *)
(* epoll_wait and handles one event at a time, for clients that send       *)
(* requests, read what the server sends, or do not, and hang up.           *)
(*                                                                         *)
(* The socket to a client is non-blocking.  room[c] is what its send       *)
(* buffer still takes; the client makes room by reading.  Each call of     *)
(* send_next_chunk is a step of its own, since the client reads meanwhile. *)
(*                                                                         *)
(* An answer is a header (one byte here) and a body.  The list is a text   *)
(* of its own length; the info of a song, and what the server answers to   *)
(* an invalid song number or an unknown request, are shorter texts.  A     *)
(* request is written at once, but recv may return its first bytes before  *)
(* the others have arrived.                                                *)
(***************************************************************************)
EXTENDS ChunkedDataSender, FiniteSets, Folds, Functions

CONSTANTS
  Clients,      \* the sockets of the clients that connect
  Commands,     \* the requests they send, a subset of Command
  MaxRequests,  \* a bound: how many requests the clients send, all together
  ListLen,      \* bytes of the song list
  InfoLen,      \* bytes of any other text
  SongLen,      \* bytes of a song
  Room,         \* the size of a socket's send buffer
  MayHangUp,    \* TRUE: clients may close their connections at any moment
  MayPart       \* TRUE: recv may return a part of a request

\* The requests answered by a text, and those for a song that is there.
TextCommand == {"list", "info", "play_invalid", "unknown"}
Command == TextCommand \cup {"play", "stop"}

\* The length of a text.
TextLen(command) == IF command = "list" THEN ListLen ELSE InfoLen

\* What is left of a request behind its header: the four bytes of a song number.
Rest == "rest"

ASSUME MusicAssumption ==
  /\ Clients # {} /\ Commands \subseteq Command
  /\ MaxRequests \in Nat
  /\ ListLen \in Nat /\ InfoLen \in Nat /\ SongLen \in Nat
  /\ Room \in Nat \ {0}
  /\ MayHangUp \in BOOLEAN /\ MayPart \in BOOLEAN

VARIABLES
  at,         \* the step of event_loop, see TypeOK; "down" once it has ended
  fd,         \* the client whose event is being handled
  outEvent,   \* TRUE: that event has EPOLLOUT set as well
  current,    \* send_with_sender's chunk_sender
  following,  \* the senders that handle_input has still to call it with
  clients,    \* the keys of event_loop's map
  accepted,   \* the clients that setup_new_client has been called for
  sender,     \* ConnectedClient::sender
  state,      \* ConnectedClient::state
  armed,      \* whether epoll watches the client's socket for EPOLLOUT
  shut,       \* whether the server has shut down its side of the connection
  out,        \* the bytes sent to the client so far
  room,       \* what the socket's send buffer still takes
  inbox,      \* the requests that the server has not received yet
  asked,      \* the requests the client has sent, in order
  turn,       \* where in out the answer to the last of them begins, NoTurn if the
              \* client did not wait for the answer to an earlier one
  hungUp,     \* the clients that have closed their connection
  parted      \* the clients one of whose requests was received in part

loopVars == <<at, fd, outEvent, current, following>>
sendingVars == <<sender, state, armed>>
connVars == <<clients, accepted, sendingVars, shut>>
wireVars == <<out, room>>
clientVars == <<inbox, asked, turn, hungUp, parted>>
vars == <<loopVars, connVars, wireVars, clientVars>>

-----------------------------------------------------------------------------
(* The clients. *)

\* How many requests were sent so far.
Sent == FoldFunction(LAMBDA a, b : Len(a) + b, 0, asked)

NoTurn == -1

LastAsked(c) == asked[c][Len(asked[c])]

\* The client has read the whole answer to whatever it asked.
AnswerRead(c) ==
  \/ asked[c] = <<>>
  \/ /\ turn[c] # NoTurn /\ room[c] = Room
     /\ Len(out[c]) = turn[c] + 1 + TextLen(LastAsked(c))

\* One request is written to the socket.
Ask(c, command) ==
  /\ inbox' = [inbox EXCEPT ![c] = Append(@, command)]
  /\ asked' = [asked EXCEPT ![c] = Append(@, command)]
  /\ turn' = [turn EXCEPT ![c] = IF AnswerRead(c) THEN Len(out[c]) ELSE NoTurn]

Request(c) ==
  /\ c \notin hungUp /\ Sent < MaxRequests
  /\ \E command \in Commands : Ask(c, command)
  /\ UNCHANGED <<loopVars, connVars, wireVars, hungUp, parted>>

ReadByte(c) ==
  /\ c \notin hungUp /\ room[c] < Room
  /\ room' = [room EXCEPT ![c] = @ + 1]
  /\ UNCHANGED <<loopVars, connVars, out, clientVars>>

HangUp(c) ==
  /\ MayHangUp
  /\ hungUp' = hungUp \cup {c}
  /\ UNCHANGED <<loopVars, connVars, wireVars, inbox, asked, turn, parted>>

-----------------------------------------------------------------------------
(* The event loop. *)

\* A sender that could not go on is kept, and epoll watches for room.
KeepSender(c, s) ==
  /\ sender' = [sender EXCEPT ![c] = s]
  /\ state' = [state EXCEPT ![c] = "SENDING"]
  /\ armed' = [armed EXCEPT ![c] = TRUE]

\* Mutant: epoll goes on watching for room.
DropSenderStaysArmed(c) ==
  /\ sender' = [sender EXCEPT ![c] = NoSender]
  /\ state' = [state EXCEPT ![c] = "RECEIVING"]
  /\ UNCHANGED armed

\* The sender is deleted, and epoll no longer watches for room.
DropSender(c) ==
  /\ sender' = [sender EXCEPT ![c] = NoSender]
  /\ state' = [state EXCEPT ![c] = "RECEIVING"]
  /\ armed' = [armed EXCEPT ![c] = FALSE]

\* setup_new_client
SetupNewClient(c) ==
  /\ at = "epoll_wait" /\ c \notin accepted
  /\ accepted' = accepted \cup {c} /\ clients' = clients \cup {c}
  /\ UNCHANGED <<loopVars, sender, state, armed, shut, wireVars, clientVars>>

\* accept_connection fails while other clients hold the last descriptors, and the
\* server ends.
AcceptFails(c) ==
  /\ at = "epoll_wait" /\ c \notin accepted /\ clients # {}
  /\ at' = "down" /\ accepted' = accepted \cup {c}
  /\ UNCHANGED <<fd, outEvent, current, following, clients, sendingVars, shut>>
  /\ UNCHANGED <<wireVars, clientVars>>

\* Whether epoll reports EPOLLOUT for c.  A closed connection is writable too.
OutReady(c) == armed[c] /\ (room[c] > 0 \/ c \in hungUp)

\* Where the loop goes once the first part of an event is done.
AfterInput(out_) == IF out_ THEN "resume_sending" ELSE "epoll_wait"

\* An EPOLLRDHUP event: handle_close and erase.  EPOLLOUT in the same event then
\* looks the client up again, and the map makes a new one without a sender.
HandleClose(c) ==
  /\ at = "epoll_wait" /\ c \in clients /\ c \in hungUp
  /\ at' = AfterInput(OutReady(c))
  /\ fd' = c
  /\ clients' = clients \ {c}
  /\ DropSender(c)
  /\ UNCHANGED <<outEvent, current, following, accepted, shut, wireVars, clientVars>>

\* An EPOLLIN event, perhaps with EPOLLOUT.
InputReady(c) ==
  /\ at = "epoll_wait" /\ c \in clients /\ c \notin hungUp
  /\ inbox[c] # <<>>

\* recv takes all there is, and only the first request in it is looked at.
HandleInput(c, command) ==
  /\ InputReady(c) /\ Head(inbox[c]) = command
  /\ inbox' = [inbox EXCEPT ![c] = <<>>]
  /\ fd' = c
  /\ UNCHANGED <<asked, turn, hungUp, parted>>

\* Mutant: the sender that is still there goes first, instead of the header.
AnswerKeepsSender(c, kind, len) ==
  /\ at' = "send_with_sender" /\ outEvent' = OutReady(c)
  /\ current' = IF state[c] = "SENDING" THEN sender[c] ELSE NewSender("header", 1)
  /\ following' = <<NewSender(kind, len)>>
  /\ UNCHANGED <<connVars, wireVars>>

\* The answer is sent in two calls of send_message: a header, and what follows it.
Answer(c, kind, len) ==
  /\ at' = "send_with_sender" /\ outEvent' = OutReady(c)
  /\ current' = NewSender("header", 1)
  /\ following' = <<NewSender(kind, len)>>
  /\ UNCHANGED <<connVars, wireVars>>

\* The process ends: exit, an exception, an access through a null pointer, or SIGPIPE.
GoDown ==
  /\ at' = "down"
  /\ UNCHANGED <<fd, outEvent, current, following, connVars, wireVars>>

HandleText(c) ==
  \E command \in TextCommand :
    HandleInput(c, command) /\ Answer(c, "text", TextLen(command))

HandlePlay(c) ==
  /\ HandleInput(c, "play")
  /\ Answer(c, "song", SongLen)

\* The song number of a request that was looked at before.  Alone it is shorter
\* than a header, and the string made of what follows the header has a negative
\* length; with a request behind it, it begins with a zero byte like LIST_REQUEST.
HandleRest(c) ==
  \/ /\ HandleInput(c, Rest) /\ Len(inbox[c]) > 1
     /\ Answer(c, "text", ListLen)
  \/ /\ InputReady(c) /\ inbox[c] = <<Rest>>
     /\ GoDown
     /\ UNCHANGED clientVars

\* recv returns less than a header, to the same effect.
HandlePart(c) ==
  /\ MayPart /\ InputReady(c)
  /\ GoDown
  /\ parted' = parted \cup {c}
  /\ UNCHANGED <<inbox, asked, turn, hungUp>>

\* recv returns a header without its song number, which is then what happens to be
\* in the buffer data: the number of some song, or none.
HandleHeader(c) ==
  /\ MayPart /\ InputReady(c)
  /\ Head(inbox[c]) \in {"play", "play_invalid", "info"}
  /\ \/ Answer(c, "text", InfoLen)
     \/ Head(inbox[c]) # "info" /\ Answer(c, "song", SongLen)
  /\ fd' = c
  /\ inbox' = [inbox EXCEPT ![c] = <<Rest>> \o Tail(@)]
  /\ parted' = parted \cup {c}
  /\ UNCHANGED <<asked, turn, hungUp>>

HandleStop(c) ==
  /\ HandleInput(c, "stop")
  /\ at' = AfterInput(OutReady(c))
  /\ IF state[c] = "SENDING" THEN DropSender(c) ELSE UNCHANGED sendingVars
  /\ shut' = [shut EXCEPT ![c] = TRUE]
  /\ UNCHANGED <<outEvent, current, following, clients, accepted, wireVars>>

\* An EPOLLOUT event alone.
DispatchOutput(c) ==
  /\ at = "epoll_wait" /\ c \in clients /\ c \notin hungUp
  /\ inbox[c] = <<>> /\ OutReady(c)
  /\ at' = "resume_sending" /\ fd' = c
  /\ UNCHANGED <<outEvent, current, following, connVars, wireVars, clientVars>>

-----------------------------------------------------------------------------
(* Sending. *)

\* n bytes of s go into the socket's send buffer.
Transmit(s, n) ==
  /\ out' = [out EXCEPT ![fd] = @ \o Bytes(s, n)]
  /\ room' = [room EXCEPT ![fd] = @ - n]

\* send fails on a connection that was shut down, and may on one that was hung up.
Broken == shut[fd] \/ fd \in hungUp
Writable == ~shut[fd]

\* Mutant: the socket was left blocking, and send waits for room.
RefusedNever(s) == Read(s) > 0 /\ s.kind = "song" /\ fd \in hungUp

\* send_next_chunk returns -1.  FileSender does so on any error of send.
Refused(s) ==
  \/ Blocked(s, room[fd])
  \/ Read(s) > 0 /\ s.kind = "song" /\ fd \in hungUp

\* send_with_sender has returned: handle_input calls it for what follows, or is done.
NextSender ==
  IF following # <<>>
  THEN /\ current' = Head(following) /\ following' = Tail(following)
       /\ UNCHANGED <<at, outEvent>>
  ELSE /\ current' = NoSender /\ at' = AfterInput(outEvent) /\ outEvent' = FALSE
       /\ UNCHANGED following

\* One turn of send_with_sender's loop.
SendWithSender ==
  /\ at = "send_with_sender"
  /\ \/ /\ Finished(current)
        /\ NextSender
        /\ UNCHANGED <<fd, connVars, wireVars>>
     \/ /\ Exits(current) \/ (~Finished(current) /\ Broken)
        /\ GoDown
     \/ /\ Read(current) > 0 /\ room[fd] > 0 /\ Writable
        /\ LET n == Accepted(current, room[fd])
           IN Transmit(current, n) /\ current' = AfterSend(current, n)
        /\ UNCHANGED <<at, fd, outEvent, following, connVars>>
     \/ /\ Refused(current) /\ Writable
        /\ KeepSender(fd, AfterBlock(current))
        /\ NextSender
        /\ UNCHANGED <<fd, clients, accepted, shut, wireVars>>
  /\ UNCHANGED clientVars

\* One turn of resume_sending's loop.  Without a sender the program ends; a full
\* buffer drops the sender; the end of the data leaves everything as it is.
ResumeSending ==
  /\ at = "resume_sending"
  /\ LET s == sender[fd] IN
     \/ /\ s = NoSender
        /\ GoDown
     \/ /\ s # NoSender /\ Finished(s)
        /\ at' = "epoll_wait"
        /\ UNCHANGED <<fd, outEvent, current, following, connVars, wireVars>>
     \/ /\ Exits(s) \/ (~Finished(s) /\ Broken)
        /\ GoDown
     \/ /\ Read(s) > 0 /\ room[fd] > 0 /\ Writable
        /\ LET n == Accepted(s, room[fd])
           IN Transmit(s, n) /\ sender' = [sender EXCEPT ![fd] = AfterSend(s, n)]
        /\ UNCHANGED <<loopVars, clients, accepted, state, armed, shut>>
     \/ /\ Refused(s) /\ Writable
        /\ at' = "epoll_wait"
        /\ DropSender(fd)
        /\ UNCHANGED <<fd, outEvent, current, following, clients, accepted, shut, wireVars>>
  /\ UNCHANGED clientVars

-----------------------------------------------------------------------------
Init ==
  /\ at = "epoll_wait" /\ fd = (CHOOSE c \in Clients : TRUE) /\ outEvent = FALSE
  /\ current = NoSender /\ following = <<>>
  /\ clients = {} /\ accepted = {}
  /\ sender = [c \in Clients |-> NoSender]
  /\ state = [c \in Clients |-> "RECEIVING"]
  /\ armed = [c \in Clients |-> FALSE]
  /\ shut = [c \in Clients |-> FALSE]
  /\ out = [c \in Clients |-> <<>>]
  /\ room = [c \in Clients |-> Room]
  /\ inbox = [c \in Clients |-> <<>>]
  /\ asked = [c \in Clients |-> <<>>]
  /\ turn = [c \in Clients |-> NoTurn]
  /\ hungUp = {} /\ parted = {}

\* The events of client c that epoll_wait may return next.
Event(c) ==
  \/ SetupNewClient(c)
  \/ HandleClose(c)
  \/ HandleText(c) \/ HandlePlay(c) \/ HandleStop(c)
  \/ HandleRest(c) \/ HandlePart(c) \/ HandleHeader(c)
  \/ DispatchOutput(c)

\* The clients may stop, and the server then waits for ever.
Idle ==
  /\ at \in {"epoll_wait", "down"}
  /\ UNCHANGED vars

Next ==
  \/ \E c \in Clients : Request(c) \/ ReadByte(c) \/ HangUp(c)
  \/ \E c \in Clients : Event(c) \/ AcceptFails(c)
  \/ SendWithSender \/ ResumeSending
  \/ Idle

Spec == Init /\ [][Next]_vars

\* The thread runs, and epoll_wait returns every descriptor that is ready: none
\* is passed over for ever.  Nothing is asked of the clients.
FairSpec ==
  /\ Spec
  /\ WF_vars(SendWithSender) /\ WF_vars(ResumeSending)
  /\ \A c \in Clients : SF_vars(Event(c))

\* The clients, too, read on.
ReadingSpec == FairSpec /\ \A c \in Clients : WF_vars(ReadByte(c))
-----------------------------------------------------------------------------
(* Properties. *)

\* A sender never goes past what it has to send.
Sender ==
  {s \in [kind : Kinds, len : {1, ListLen, InfoLen, SongLen}, done : Nat, pos : Nat] :
     s.done <= s.len} \cup {NoSender}

TypeOK ==
  /\ at \in {"epoll_wait", "send_with_sender", "resume_sending", "down"}
  /\ fd \in Clients /\ outEvent \in BOOLEAN
  /\ current \in Sender /\ following \in Seq(Sender)
  /\ clients \subseteq accepted /\ accepted \subseteq Clients
  /\ hungUp \subseteq Clients /\ parted \subseteq Clients
  /\ sender \in [Clients -> Sender]
  /\ state \in [Clients -> {"RECEIVING", "SENDING"}]
  /\ armed \in [Clients -> BOOLEAN] /\ shut \in [Clients -> BOOLEAN]
  /\ room \in [Clients -> 0..Room]
  /\ out \in [Clients -> Seq(Nat)]
  /\ inbox \in [Clients -> Seq(Command \cup {Rest})] /\ asked \in [Clients -> Seq(Command)]
  /\ turn \in [Clients -> Nat \cup {NoTurn}]

TextAnswer(command) == <<0>> \o [i \in 1..TextLen(command) |-> i]
SongAnswer == <<0>> \o [i \in 1..SongLen |-> i]

\* The requests whose answer is known to be a text: the number behind a header that
\* was received alone may turn an invalid song number into a valid one.
SureText == TextCommand \ {"play_invalid"}

\* What the client of a connection got that it used for one request, as the Java
\* client does.
OnlyAsked(c, command) == asked[c] = <<command>>

IsPrefixOf(s, t) == Len(s) <= Len(t) /\ \A i \in DOMAIN s : s[i] = t[i]

\* A client is in state SENDING exactly while it has a sender, and exactly then
\* epoll watches its socket for room.
SenderMatchesState ==
  \A c \in Clients :
    /\ state[c] = "SENDING" <=> sender[c] # NoSender
    /\ armed[c] <=> sender[c] # NoSender

\* The answer to a connection's only request, in however many pieces it is sent, is
\* the text that was asked for and lacks nothing but its end.
TextInOrder ==
  \A c \in Clients, command \in SureText :
    OnlyAsked(c, command) => IsPrefixOf(out[c], TextAnswer(command))

\* A connection may be used again once the whole answer to the request before was
\* read: what follows is the header and the text of the next answer and nothing else,
\* although the sender of the one before may still be there and epoll may still call
\* it.  Its header is never kept for later, so the text cannot take its place.
AnswersInTurn ==
  \A c \in Clients \ parted :
    turn[c] # NoTurn /\ (\A i \in DOMAIN asked[c] : asked[c][i] \in SureText) =>
      IsPrefixOf(SubSeq(out[c], turn[c] + 1, Len(out[c])), TextAnswer(LastAsked(c)))

\* No byte of a song is sent twice or after a later one: the stream is rewound by
\* exactly what the socket did not take.
SongOnlyMovesForward ==
  \A c \in Clients : OnlyAsked(c, "play") =>
    \A i, j \in DOMAIN out[c] : i < j => out[c][i] < out[c][j]

\* Clients that only ask for texts, each in one piece, and stay connected never end
\* the server, however slowly they read, as long as all of them are accepted.
DownHasACause ==
  at = "down" => \E c \in Clients :
    \/ c \in hungUp \cup parted \cup (accepted \ clients)
    \/ \E i \in DOMAIN asked[c] : asked[c][i] \notin TextCommand

SmallText == {command \in SureText : 1 + TextLen(command) <= Room}

\* A text that the socket buffer holds arrives whole, even if nobody reads: no other
\* client can keep the server from it.
SmallAnswersArrive ==
  \A c \in Clients :
    (\E command \in SmallText : OnlyAsked(c, command))
      ~> \/ \E command \in SmallText : OnlyAsked(c, command) /\ out[c] = TextAnswer(command)
         \/ Len(asked[c]) > 1 \/ c \in hungUp \/ at = "down"

\* A song arrives in order and without a gap.
SongInOrder ==
  \A c \in Clients : OnlyAsked(c, "play") => IsPrefixOf(out[c], SongAnswer)

\* Whoever reads on gets the whole list.
ListArrives ==
  \A c \in Clients :
    OnlyAsked(c, "list") ~> out[c] = TextAnswer("list") \/ ~OnlyAsked(c, "list")
=============================================================================
