# Formal models of the networking projects

TLA+ models of the five programs of this repository, checked with TLC on small
instances and, where it is worth it, proved with TLAPS for every instance.

1. [The system](#1-the-system): the parts, their state, what can go wrong
2. [Modules](#2-modules): which module models which part, and how
3. [Runs](#3-runs): what each model-checking run shows, its bounds, its fairness
4. [Disagreements found](#4-disagreements-found)
5. [Proofs](#5-proofs)
6. [What is not modelled](#6-what-is-not-modelled)
7. [Plan](#7-plan)

To check a run: `tlc -config MCRDT_transfer.cfg MCRDT`. To check proofs:
`tlapm RDTProofs.tla`.

## 1. The system

The repository holds five independent course projects. They share no code.

### p04, reliable data transport over UDP

| part | state | operations |
|---|---|---|
| `ReliableSocket` (sender side) | `state`, `sequence_number`, RTT estimate | `connect_to_remote`, `send_data`, `send_until_acked`, `close_connection` |
| `ReliableSocket` (receiver side) | `state`, expected bit | `accept_connection`, `receive_data`, `send_ack`, `close_connection` |
| `RDTSegment` | header fields, payload | build and parse |
| `UnreliableSocket`, `mock_network.py` | segments under way | send, receive with a timer, lose, delay |
| `sender.cpp`, `receiver.cpp` | position in the file | read and send; receive and write |
| `update_rtt` | `estimated_rtt`, `dev_rtt`, the socket timer | one sample |

The two programs interact by segments only. The handshake has three messages
(CONN, ACK 2, ACK 3), data is stop-and-wait with an alternating bit, and CLOSE is
answered by ACK 4. Hard: loss, duplicates made by retransmission, an old ACK or a
duplicate with the bit of a later chunk, timeouts that race answers, the end of the
file, the close of two peers that may not hear each other. Correct means: what
`receive_data` returned is a prefix of the file, `send_data` returns only once its
chunk is out, neither end stops early, and once connected the receiver gets it all.

### p02, ToreroServe, a web server

| part | state | operations |
|---|---|---|
| `BoundedBuffer` | queue, two condition variables | `getItem`, `putItem` |
| main thread | the connection in hand | `acceptConnection`, `putItem` |
| four workers | the client in hand, the step of its answer | `getItem`, `receiveData`, `sendResponse`, `close` |
| file system | what is there | changed by others at any time |

Main and workers share the buffer and its mutex. Hard: notifications and spurious
wakeups, a full buffer, exceptions that leave a thread and end the process (of `send` and
`recv`, and of the file system functions, also for names that were never there), files that
vanish or are forbidden between a check and a use, clients that are silent or leave. Correct means: no
connection is lost between the threads or handled twice, no worker sleeps on work,
each connection is closed after one whole answer to its request.

### p05, streaming music protocol

| part | state | operations |
|---|---|---|
| `music-server.cpp` event loop | map from descriptors to clients | accept, hang-up, input and output events |
| `ConnectedClient` | `state`, `sender`, epoll registration | `handle_input`, `send_with_sender`, `resume_sending`, `handle_close` |
| `ArraySender`, `FileSender` | position, bytes sent | `send_next_chunk` |
| `SongLibrary` | songs, infos | look-ups |
| Java `AudioClient` | the current player thread | `play`, `list`/`test`, `info`, `stop`, `exit` |
| Java `AudioPlayerThread` | stream, sound line, interrupt flag | read, wait and write, end |

The server is one thread over non-blocking sockets; the client makes a connection for
each command. Hard: senders that stop half-way and are resumed by events, two halves of
one event, hang-ups at any moment, two requests on one connection, requests that arrive
in parts, a full table of descriptors, threads that were interrupted or forgotten. Correct means: state, sender and registration of a client
agree, bytes leave in order, small answers arrive whoever else is connected, commands
come back, what is stopped is over on both sides.

### p01, sensor network client

One thread that connects to a server, then to a weather station, with seven calls that
may each fail. State: two descriptors, the selection, the last line received. Correct
means: every error path closes exactly what is open, and no call is given a descriptor
that was closed before, which may by then be another connection's.

### p03, iterative DNS resolver

Every function of `resolver.py` is `pass`. What is there is `helpers.py`: pure functions
that build a query (`get_dns_name_encoding`, `construct_query`) and read an answer
(`decode_dns_name`). Hard: names that end in a pointer to another name, pointers that
lead in circles, messages that are cut. Correct means: a name that was asked for is
decoded to itself wherever an answer repeats it, and decoding always ends.

## 2. Modules

| module | models | composes |
|---|---|---|
| `FileTransfer` | abstract: a transfer of a file, chunk by chunk | |
| `UnreliableChannel` | one direction of the network | |
| `RDT` | sender, receiver and network of p04 | `UnreliableChannel` twice (operators), refines `FileTransfer` |
| `RttEstimator` | `update_rtt` and the timer | |
| `BoundedBuffer` | the buffer of p02 | |
| `WorkerPool` | abstract: connections served in order, each once, by one worker | |
| `ToreroServe` | the web server, its clients, the file system | `BoundedBuffer`, refines `WorkerPool` |
| `ChunkedDataSender` | both senders of p05, as functions | |
| `MusicServer` | event loop and connected clients, with arbitrary clients | `ChunkedDataSender` |
| `Jukebox` | the Java client | `MusicServer` |
| `SensorClient` | the client of p01 | |
| `DnsNames` | encoding and decoding of names of p03 | |
| `RDTProofs`, `RttProofs`, `ToreroProofs`, `MusicProofs`, `SensorProofs` | proofs | each extends the module it is about |
| `JukeboxProofs` | proofs | `Jukebox`, `MusicProofs` |
| `JukeboxTextProofs` | proofs about the texts the Java client asks for | `JukeboxProofs` |
| `DnsProofs` | proofs | `DnsNames` |
| `MC*` | the modules under TLC | |

**RDT.** `sCall` and `rCall` name the call each program is in, `sState` and `rState` are
the sockets' `state`. An action is one pass through a loop of the code: a receive, what
the code does with the segment, and the sends up to the next receive. A timeout may come
at any moment. A chunk is its number; what distinguishes chunks on the wire is the bit
alone. A retransmission is a new segment, and duplicates arise from nothing else. `Cap`
bounds the segments under way in one direction; a send into a full direction is lost, as
any segment may be. `Reordering` says whether the network may deliver out of order;
`mock_network.py` does not, UDP may. `LastChunkEmpty` is the last pass of the loop of
`sender.cpp` when the file's size is a multiple of the chunk size.

**FileTransfer.** Its state is what users of the two programs see: the chunks received,
how many calls of `send_data` returned, whether the receiver is open, closing, closed,
or left early (`cut`), and whether the sender has finished. `RDT!Transfer` is the
refinement mapping.

**RttEstimator.** Integers as in the code: the averages 0.875 / 0.125 and 0.75 / 0.25
are truncated on assignment. A sample is any of a set of round-trip times, 0 ms included:
the clock counts milliseconds, and on one machine most segments are answered within one.
`Chunks` is the length of the file, which `send_until_acked` is called for chunk by chunk;
with a lost segment and a timer of 0 it ends before.

**BoundedBuffer, ToreroServe.** A step of `BoundedBuffer` is what happens under the
mutex at once: look and wait, or look, take and notify. Waiting threads are sets; a
spurious wakeup is an action. A worker's step is one system call of `handleClient` and
what follows it. `MaxMishaps` bounds how often a client breaks its connection, or a
resource is removed or forbidden (`Forbid`: the system refuses to look it up). An exception
in a worker ends the process (`up`). The functions of `std::filesystem` throw wherever they
can say neither yes nor no: the kind `too_long` is a name the system refuses from the start,
`unreadable` a file whose content cannot be opened, `opaque` a directory that may be entered
but does not show its entries. The one `recv` of a request may return a part of it, whose
first line does not parse and is answered by 400.

**WorkerPool.** What clients can see of the server: how many connections were accepted, how
many of these a worker began to serve, which worker serves which, what each client was
sent, which connections are closed. It has no buffer and no locks. `ToreroServe!Pool` maps
to it: `taken` is what is accepted less what is in the buffer or in the main thread's
hand, and a worker serves its `client` until it closes the connection. Waiting, waking,
looking at the file system and reading a request are stuttering.

**ChunkedDataSender, MusicServer.** A byte is its position in its answer; a header is one
byte. `out[c]` is what the server put into the socket of `c`, `room[c]` what its buffer
still takes; reading makes room. `at` is where the loop is: `epoll_wait`, in
`send_with_sender` with the senders still to come (`following`), in `resume_sending`, or
`down`. One call of `send_next_chunk` is one step, since clients read meanwhile. The two
halves of an event are two steps with `outEvent` remembered between them. `down` is any
end of the process: `exit`, a null pointer, SIGPIPE, an exception. The list has its own
length (`ListLen`), all other texts have another (`InfoLen`). `recv` may return a request
in parts (`MayPart`): less than a header ends the process (`HandlePart`); a header without
its song number is answered with whatever number the buffer holds (`HandleHeader`), and
the number then arrives as a request of its own (`Rest`, `HandleRest`). `parted` keeps the
clients this happened to. `turn[c]` is a history variable: where in `out[c]` the answer to the
last request begins, as long as the client has read the whole answer to each earlier one
before it asked again; no step of the server depends on it. `AcceptFails` is `accept` without a free descriptor, which
happens only where other clients are connected and ends the process.

**Jukebox.** The actions of `Request` and `HangUp` are replaced by what the Java client
does: the main thread (`main`) makes connection `socket`, sends, reads a header and a text
or hands the connection to a player. A player is opened by a library that looks for a format
in the stream: it reads a byte and goes on looking, finds one, or fails. `playing` is `audioPlayerThread`. `interrupted`
threads end when they wait for the sound line or after a write, not while they read.
Everything the process leaves open is closed when it ends. Requests arrive whole here
(`RequestsAssumption`), since the client writes its few bytes with one flush to a fresh
connection, and `accept` does not fail.

**SensorClient.** One step per call of `send`, `recv` or `connect_to_host` with what
follows up to the next call, each with its error path. Descriptors are numbers that are
used again, lowest first, so a descriptor that was closed and kept is visible.

**DnsNames.** A message is a sequence of bytes, a text the sequence of its parts between
dots, and a part the sequence of its characters, which are ASCII. A name is encoded as in
the code: a step writes the length and the characters of one part, or raises `struct.error`
where the length does not fit in a byte, and the last step adds the type and the class.
`offsets` is a history variable, the place of each part in the query; no step of the
code depends on it. The server's answer (`Message`, `Asked`, `Answer`) is external:
it repeats the query, and the name in one record in any compressed form and in another as
a pointer to that, and it may arrive cut anywhere. Besides answers, any message of `Buffers` may be
decoded. `decode` is UTF-8: a label is accepted if its bytes are well-formed characters of one
to four bytes (`Decodable`). A step of decoding is one turn of the loop of `decode_dns_name`: the end of the name,
a pointer, a label, or one of the exceptions of `struct.unpack`, `decode` and the
recursion. The nested calls are one state, because an outer call only waits for the inner
one: what all of them have read, the offsets they went to, and the index the outermost
will return. As in the code, a length of 64 to 191 is read as a label's and one of 192 or
more as a pointer, and a name that is a pointer to an empty name keeps the dot before it.

## 3. Runs

| run | config | shows | bounds |
|---|---|---|---|
| `transfer` | `MCRDT_transfer.cfg` | all safety of RDT, the refinement, completion once established | 3 chunks, 3 segments per direction, loss |
| `rtt` | `MCRttEstimator.cfg` | how long the timer lasts, what the estimate follows | samples 0, 1, 12, 40 ms; 34 chunks |
| `torero` | `MCToreroServe_serve.cfg` | buffer and answers under every interleaving, the refinement | 2 workers, capacity 2, 3 clients, requests for a file, a directory, one that does not show its entries, an overlong name; 1 mishap |
| `music` | `MCMusicServer_serve.cfg` | sender, state and registration agree; order of bytes in one answer and from one to the next; what ends the server; small answers arrive | 2 clients, 2 requests (list, unknown, play, stop), list 5, other texts 2, song 5, chunk 2, buffer 3; hang-ups, requests in parts, a failing `accept` |
| `jukebox` | `MCJukebox_commands.cfg` | the Java client with the server | 3 connections, list 3, other texts 1, song 2, chunk 2, buffer 2; list, info, play, play of no song, stop |
| `sensor` | `MCSensorClient_requests.cfg` | every outcome of every call | 3 descriptors, any number of requests |
| `dns` | `MCDnsNames.cfg` | names in answers, whole or cut; arbitrary messages | 6 hostnames of 1 to 3 parts, all messages of up to 5 bytes from {0, 1, 2, 3, 169, 192, 195, 227}, 6 nested calls |
| `lostack3`, `zerobytes`, `torero_full`, `music_song`, `music_list` | | section 4 | |

Why the bounds are enough. *rtt*: 29 samples forget the initial 200 ms, and 31 samples of
0 ms bring the timer to 0, so 34 chunks lie behind both. *transfer*: with three chunks the first and the third have the
same bit, so a late segment of the one could be taken for the other; three places hold an
original, its duplicate and one more. The proofs cover all other values. *torero*: three
connections fill a buffer of two with one left in the main thread's hand, and two workers
race for one item. The kinds of requests left out (`bad`, `missing`, `index`, `special`,
`unreadable`) are reached where a request arrives in part or a resource is removed or forbidden,
or are covered by the proofs alone. *music*: the answer to an unknown request just fits in the send buffer,
a list or a song does not, and chunks do not divide the room, so senders are cut inside a
chunk, kept, resumed and dropped; two requests on one connection meet every state that
the first leaves behind. The proofs cover all other sizes and numbers. *jukebox*: two songs and a stop, or three songs, or texts in between; the header with an
info or an error text just fits in the buffer, a list or a song does not, so a list is read
whole after it was resumed, or cut and waited for for ever. *sensor*: at most one descriptor is ever open, so with three a
leak shows before `connect_to_host` runs out of them; the loop itself is unbounded. *dns*: three parts
give names without a pointer, with one, and a pointer to a pointer; parts of 191 and 192
characters lie on both sides of the longest length that is not a pointer, and one of 256
is the shortest that cannot be encoded; 169 continues a
character that 195 or 227 begins, 192 begins none, so there are whole and broken ones; five bytes make
pointers to themselves, to each other, to labels and out of the message, and fewer bytes
than nested calls separate circles from mere depth.

Fairness, and why the code justifies it.

- `transfer`: each program goes on with its call (weak fairness: a program that can run,
  runs); a timeout comes for sure only while the channel is empty, since SO_RCVTIMEO ends a
  receive only when nothing arrives; a program that is sent segments again and again
  receives one in the end (strong fairness: the network loses some, not all). Safety
  needs none of it.
- `torero`: the main thread and the workers run whenever they can, and clients that
  connected send their request (weak fairness each). Nobody has to connect, and spurious
  wakeups are not counted on.
- `music`: the loop goes on, and `epoll_wait` returns every ready descriptor in the end
  (strong fairness per client, since a readiness may come and go). Nothing is asked of the
  clients; only `ReadingSpec` (run `music_list`) lets them read on.
- `jukebox`: the same for the server, and that every Java thread runs. The user may stop
  typing at any moment.
- `dns`: one sequential program that goes on (weak fairness of its next step).

`rtt` and `sensor` need no fairness: what they check is safety.

What the properties say is in comments at their definitions. Some that deserve a remark:

- `AcceptsTheOutstandingChunk` (RDT) is about a step: a chunk is accepted only while
  `send_data` is still busy with that very chunk. It is what makes one bit enough.
- `NoLostWakeup` (ToreroServe) relates waiting workers, the buffer and the workers that
  are about to look: `putItem` notifies one worker per item, and another may steal it.
- `ImplementsWorkerPool` (ToreroServe): first come, first served, and nobody is answered
  twice or cut short, whatever the interleaving of notifications, thefts of items and
  spurious wakeups.
- `TimerOutlastsShortFile` and `EstimateFollows` (RttEstimator) hold with round trips of
  0 ms. The first says for how long the timer is safe, not that it always is: see section 4.
- `CrashHasACause` (ToreroServe): the process ends only while a worker serves a client that
  broke its connection, or that asks for a name at which the file system throws. One
  well-formed request for a name of 300 characters is such a cause, and the property says so;
  that no other request ends the server is what it promises.
- `TextInOrder` and `SongOnlyMovesForward` (MusicServer) are about connections that are
  used for one request, as the Java client does.
- `AnswersInTurn` (MusicServer) is about connections that are used again by a client that
  reads each answer to its end before it asks again: the next answer then starts with its
  header and comes in order, although the sender of the one before may still be kept and
  epoll may still call it. A client that does not wait gets its answers cut into each other;
  nothing in the code promises otherwise.
- `EndedByLongAnswer` (Jukebox): the connection over which the server ends (`fd`) asked for a
  song, or for a text longer than the send buffer. It relates the client's close to the
  server's sender: a text that fits is over on both sides by then.
- `CommandReturns` (Jukebox) leaves two waits out that have no end in the code: for the rest
  of a list that the server cut, and for a format in the stream of a player that opens,
  which never comes if the stream is an error text.
- `DownHasACause` (MusicServer): the process ends only over a client that hung up, asked
  for a song or a stop, sent a request in parts, or could not be accepted. Slow readers
  alone never end it.
- `NameArrives` (DnsNames): where an answer is cut, the result is an error exactly when the
  name itself is, never another name.
- `RecursionOnlyInCircles` (DnsNames): Python's limit is no length limit: it is reached only
  over a pointer that is followed twice.
- `SmallAnswersArrive` (MusicServer): whoever else is connected, reads nothing or hangs up,
  an answer that fits in the socket buffer arrives, unless the server ends.
- `StoppedSongEnds` (Jukebox): the request STOP goes over a connection of its own, to
  which no song belongs. What ends the song at the server is that the player closes the
  song's connection.
- `OrphanedByReplay` (Jukebox): `stop` always reaches the song played last; a song it no
  longer reaches was replaced by a later `play`.

## 4. Disagreements found

Each is a run that must find its property violated.

| run | the code | what a comment or document says |
|---|---|---|
| `lostack3` | ACK 3 is sent once (`ReliableSocket.cpp:148`); if it is lost, the receiver resends ACK 2 and ignores DATA, the sender resends DATA: neither gets further | `:150` "connection established, ready to send data" |
| `zerobytes` | a file of a multiple of the chunk size ends with a chunk of 0 bytes, which `receive_data` returns as 0: the receiver leaves before the CLOSE, the sender never ends | `receiver.cpp:44` "Keep receiving data until we do a receive that gives us 0 bytes" |
| `torero_full` | `putItem` waits on `space_available`, which nobody notifies | `BoundedBuffer.cpp:49` "Adds a new item to the back of the buffer." |
| `music_song` | a refused send moves the file forward | `ChunkedDataSender.cpp:76` "if we couldnt send then rewind and try again later" |
| `music_list` | `resume_sending` deletes the sender when the socket is full again | `ConnectedClient.h:64` "Resumes sending data when socket becomes writable again" |

Six more show in the models without a run of their own:

- With `Reordering = TRUE`, `OutputIsPrefix` fails: a late duplicate two chunks old has the
  expected bit. The theorems about `RDT`, `TypeCorrect` aside, assume a network that keeps
  the order.
- Round trips of 0 ms let the estimate decay until the timer is 0, which means no timeout
  (`ReliableSocket.cpp:172`): after 31 chunks of them a lost segment is never sent again. The
  run `rtt` reaches this state; `TimerOutlastsShortFile` says that it takes 29 chunks at
  least.
- A request for an overlong name, for a directory without read permission, or for what lies
  behind one that may not be entered makes `exists`, `is_directory` or the directory's
  iterator throw out of a worker (`torero-serve.cpp:245`, `:131`, `:79`): the process ends. It
  is why `CrashHasACause` names such requests.
- EPOLLRDHUP together with EPOLLOUT erases the client (`music-server.cpp:132`) and then
  resumes a new, empty one without a sender, which ends the process; `:162` says "you should
  only reach this point if you started sending a response, but had to stop". It is why
  `DownHasACause` names clients that hung up. The Java client meets it: it reads a list that
  was longer than the send buffer to its end and closes the connection, on which the server
  still watches for room. It is why `EndedByLongAnswer` names long texts.
- The answer to the play of a song that does not exist has a type that the Java client does
  not recognise (`StreamingMusicProtocol.java:27` reads a signed byte), so that its text goes
  to the player, which looks for a format on a connection that stays open.
- A Java player thread that waits for bytes does not notice `stop` or `exit`
  (`AudioClient.java:116`), and the server leaves the connection open after a song: the
  thread stays, and with it the process after `exit`. `StoppedSongEnds` is therefore about
  threads that are not waiting for bytes.

## 5. Proofs

All theorems are checked by TLAPS to the last step. They rest on the named assumptions of
the constants and on nothing else.

**RDTProofs**, for every number of chunks, capacity and loss pattern. `TypeCorrect` is
inductive by itself, whatever the network does. The other theorems assume that the
network keeps the order. Their inductive invariant `IInv` (in `RDT`, and an invariant of
the run `transfer`) has five parts besides the type: what is out is an initial part of the
file; where each program can be (`ControlInv`); the two programs are at most one chunk
apart, and the sender's bit tells whether the outstanding chunk is out (`ProgressInv`);
every DATA under way is the last chunk out or the next, in that order, and its bit tells
which (`ToReceiverInv`); an ACK with the last bit is behind all those with the other
(`ToSenderInv`). The properties alone are not inductive because they say nothing about
what is under way: a stale segment is what could break them next. `StepKeepsIInv` has one case
per action. From it follow `InOrderDelivery`, `ReliableSend`, `CompleteFile`,
`CloseHandshake`, `FreshAcceptance`, and `Refinement`: the system implements
`FileTransfer`, with retransmissions and losses as stuttering.

**RttProofs**, for any set of samples, 0 included, and files of any length: `RttTypeCorrect`,
`TimerLasts`, `EstimateFollowsSamples`. `EstimateInv` follows what is left of the initial 200 ms
after each sample (`Remainder`): truncated multiplication by 7/8 takes 29 steps to bring it to
0, and until then the estimate is at least what is left, and at most that above the longest
sample. `dev_rtt` is never negative.

**ToreroProofs**, for every finite set of workers, number of connections and capacity:
`ServerTypeCorrect`, `NoWakeupIsLost`, `ConnectionsHandledOnce`, `WholeAnswers`,
`CrashesHaveACause`, and `ServerRefinement`: the server implements `WorkerPool`. Their
inductive invariant `IInv` adds what a worker knows at each step (`AtStep`: what its client
was sent, and which requests lead there; what throws at a step is thereby a cause that
`CrashHasACause` names), that connections nobody took were sent nothing,
and that the closed ones have a whole answer. `NoLostWakeup` needs counting: a worker that
takes an item leaves one more that is awake or one item less, so the lemmas about the
wait sets are about cardinalities.

**MusicProofs**, for any clients, requests and sizes: `MusicTypeCorrect`,
`SendersMatchState`, `DownWithACause`, `TextsInOrder`, `SongsMoveForward`,
`AnswersComeInTurn`. Three parts of `IInv` make the first five inductive. `LoopInv`: while the loop sends, it has a sender, and at most one
follows. `CauseInv`: a song's sender, a shut connection, a request that is no text and a
client to be resumed without a sender all come from a client that is a cause; without it
nothing ties the state that ends the process to who brought it about. `OrderInv`: the
sender of a connection's only answer stands where the bytes sent so far end, since order
could only be lost through a sender that stands elsewhere.

The last, `AnswersComeInTurn`, is about connections that are used again. `TurnInv` follows the
answer that has its turn: the request is not received and all senders of the client have
nothing left to send (`Awaited`); the header is sent into a socket that has room, and the text
will follow (`HeaderTurn`); the text is sent by the loop (`TextTurn`), or is kept, over or cut
(`LeftTurn`), and its sender stands where the bytes of this answer end (`InPlace`). What makes
it inductive is `WholeIsOver`: a client that has read the whole answer leaves no sender with
anything to send, so the request it asks next finds the connection as a new one.

**JukeboxProofs**, for any finite number of connections: `JukeboxTypeCorrect` and
`OrphansWereReplaced`. Every step of the client is, for the server, a request, a read, a
hang-up or nothing, so `IInv` of `MusicProofs` holds here by its own lemmas. `ClientInv` adds
that connections are numbered as they are made and that threads belong to such connections.

**JukeboxTextProofs**, whatever the sizes: `TextsArePrintedWhole` and
`OnlyLongAnswersEndTheServer`, by joining the client's invariant with what its threads know.
`RequestsInv`: every connection has one request, and the step of the main thread fits it.
`TextsDone`: every text but the last is over. `ReadWhole`: what was read from the connection of
a text, when it was closed, is a header and all of it; with `TextsInOrder` it follows that
what is printed is the text. `LongInv` says that only songs and texts longer than the send
buffer are ever left to be resumed, and that only a stop shuts a connection; a sender that
is refused or fails then belongs to one of them, since another text was taken whole by the
buffer before its client could close. `EndedByLongAnswer` follows without a condition on the
sizes.

**DnsProofs**, for every set of names, messages, ids and types, and every limit of the
recursion above 2: `DnsTypeCorrect` (every label that is returned is well-formed UTF-8), `NamesArrive`,
`CirclesOnly`. `QueryInv` says that the parts of the
name lie in the query one behind the other, from byte 12 on. `Written(k)` says the same of the
answer that repeats `k` parts and then points into the query; it speaks of a byte only
where the message is long enough, and so holds for messages that are cut. `Reading(k)`
ties the calls of `decode_dns_name` to it: the parts read are the first parts of the name,
`position` is where the next one is, in the query or in the repetition, and the
index to be returned is known once a pointer was followed. `CirclesOnly` needs counting:
pointers that were followed lie inside the message (`CircleInv`), so by the pigeonhole
principle more of them than the message has bytes are not all different. What the folds and
loops of the code compute for a whole name at once is stated step by step here, so that
no induction over data is needed.

**SensorProofs**, for any number of descriptors: `SensorTypeCorrect`, `NoDescriptorLeaks`,
`OnlyOpenSockets`. The invariant adds that a sensor is selected once a request has begun, and
that the station was sent some sensor's command.

Only model-checked:

- liveness (`EstablishedCompletes`, `BufferedIsServed`, `SmallAnswersArrive`,
  `CommandReturns`, `StoppedSongEnds`, `DecodingEnds`), which needs
  fairness and is out of the prover's reach;
- the disagreements of section 4, which are counterexamples.

Every safety property that a passing run checks is also a theorem, under the conditions
named above, and so are both refinements.

## 6. What is not modelled

- `resolver.py`: its functions are empty. Of `helpers.py`: `get_answer`, a search in two
  lists, the record classes, and `get_root_servers`, which reads a file.
- The Java test server and `AudioUtil`: given with the assignment, replaced by the C++ server.
- `aixlog.hpp`, logging, the test scripts, examples and the original binaries.
- The byte order and the values of lengths in messages of the music protocol; a song number
  is one of a song that is there, or not.
- Events of one batch of `epoll_wait` that are stale when they are handled, and failures of
  `recv` and of `epoll_ctl` on a connection.
- The contents of the song library and its reading at start-up; it does not change afterwards.
- A failing `accept` of ToreroServe: connections accepted at a time are bounded by the
  buffer, the workers and the one in hand, far below the limit of descriptors.
- Failures of system calls that end a program at start-up (`socket`, `bind`, `epoll_ctl`).
- The 2 s of the linger in `close_connection`: it may end at any moment.
- The sound library of Java: opening a player looks at the stream byte by byte and finds a
  format, fails, or goes on looking; which bytes it takes for a format is left open.
- The exits of the p04 programs where `send` or `recv` fails with anything but a timeout
  (`UnreliableSocket.cpp:108`, `:135`), and `ConnectionClosed` for an empty datagram, which no
  segment is. Without the proxy the system may report that the peer's process has ended: the
  program then exits with an error, where the model's goes on sending to nobody.
- In the sensor client, the NULL that `ctime` returns for a time out of its range, and numbers
  of a line that `sscanf` cannot hold: a line is known by whether it is parsed.
- Hostnames that are not ASCII: `helpers.py` writes the number of characters of a part before
  its encoded bytes, which are more. What is decoded may be any UTF-8.
- The byte before a buffer that `recv_line` overwrites after a failed `recv` (`client.c:223`).

## 7. Plan

Written, in the order of importance: RDT with its abstraction and proofs, the estimator,
the web server with its abstraction and proofs, the music server with partial requests
and its proofs, the Java client and its proofs, the sensor client, the DNS names.

Worth doing next:

1. Model: the player that waits for bytes as a run of `Jukebox` of its own; several
   descriptors in one batch of `epoll_wait`; `resolver.py` once its functions are written,
   on top of `DnsNames`.
2. Proofs: every safety property of the runs is proved. What is left are stronger
   statements: what a client gets that asks again before it has read the answer, and which
   beginnings of a list `Jukebox` may have read when the server cuts it.
