---------------------------- MODULE ToreroServe ----------------------------
(***************************************************************************)
(* ToreroServe: the main thread accepts connections and puts them into a   *)
(* BoundedBuffer, the workers take them out and answer one request each.   *)
(*                                                                         *)
(* Connections are numbered in the order in which they arrive; the queue   *)
(* of the listening socket keeps that order.  A client connects, sends one *)
(* request at a time of its choice, and may leave or reset its connection  *)
(* at any moment.  Someone else may remove files from the served directory *)
(* or take away the permission to look at them while a worker is between   *)
(* two looks.                                                              *)
(*                                                                         *)
(* An exception that leaves handleClient leaves the thread function as     *)
(* well, which ends the process: up becomes FALSE.                         *)
(***************************************************************************)
EXTENDS BoundedBuffer, Integers, FiniteSets

CONSTANTS
  Workers,     \* the threads that run consumeClients; runServer starts 4
  Main,        \* the thread that runs runServer
  NumClients,  \* how many connections arrive
  Requests,    \* what clients ask for, a subset of RequestKind
  MaxMishaps   \* a bound: how many clients break and resources vanish

\* "bad" does not parse; "missing" names nothing; "too_long" is no name that the
\* system looks up.  The others name something in the served directory: a regular
\* file, a regular file that the server may not open, a directory with and without
\* an index.html, what is neither file nor directory, and a directory that does not
\* show all of what is in it: it may not be searched or listed, one of its entries
\* cannot be looked up, or its index.html has no size.
Resource == {"file", "unreadable", "index", "listing", "special", "opaque"}
RequestKind == {"bad", "missing", "too_long"} \cup Resource

ASSUME ServerAssumption ==
  /\ IsFiniteSet(Workers) /\ Main \notin Workers
  /\ NumClients \in Nat
  /\ Requests \subseteq RequestKind
  /\ MaxMishaps \in Nat

Clients == 1..NumClients

VARIABLES
  up,        \* FALSE once an exception or a signal has ended the process
  arrived,   \* how many connections have arrived at the listening socket
  accepted,  \* how many of them acceptConnection has returned
  mainAt,    \* "accept", or "putItem" with the last accepted connection
  at,        \* at[w]: the step of consumeClients or handleClient w is at
  client,    \* client[w]: the connection w works for, 0 for none
  request,   \* request[c]: what client c sent, "none" until it does, and what
             \* recv returned of it
  link,      \* link[c]: the client's end: "open", "left" or "reset"
  sent,      \* sent[c]: what sendData has sent to c, in order
  closed,    \* the connections the server has closed
  present,   \* the resources that exist in the served directory
  forbidden, \* the names for which the file system functions throw
  mishaps    \* how many clients broke and resources vanished

mainVars == <<arrived, accepted, mainAt>>
workerVars == <<at, client>>
clientVars == <<request, link>>
world == <<present, forbidden, mishaps>>
vars == <<bufferVars, mainVars, workerVars, clientVars, up, sent, closed, world>>

-----------------------------------------------------------------------------
(* The clients and the file system. *)

Arrive ==
  /\ arrived < NumClients
  /\ arrived' = arrived + 1
  /\ UNCHANGED <<bufferVars, accepted, mainAt, workerVars, clientVars, up, sent,
                 closed, world>>

SendRequest(c) ==
  /\ c <= arrived /\ link[c] = "open" /\ request[c] = "none"
  /\ \E r \in Requests : request' = [request EXCEPT ![c] = r]
  /\ UNCHANGED <<bufferVars, mainVars, workerVars, link, up, sent, closed, world>>

Break(c) ==
  /\ mishaps < MaxMishaps /\ mishaps' = mishaps + 1
  /\ c <= arrived /\ c \notin closed /\ link[c] = "open"
  /\ \E how \in {"left", "reset"} : link' = [link EXCEPT ![c] = how]
  /\ UNCHANGED <<bufferVars, mainVars, workerVars, request, up, sent, closed, present,
                 forbidden>>

Remove(r) ==
  /\ mishaps < MaxMishaps /\ mishaps' = mishaps + 1
  /\ r \in present
  /\ present' = present \ {r}
  /\ UNCHANGED <<bufferVars, mainVars, workerVars, clientVars, up, sent, closed, forbidden>>

\* The way to a resource is closed to the server: status fails, and not with ENOENT.
Forbid(r) ==
  /\ mishaps < MaxMishaps /\ mishaps' = mishaps + 1
  /\ r \in present \ forbidden
  /\ forbidden' = forbidden \cup {r}
  /\ UNCHANGED <<bufferVars, mainVars, workerVars, clientVars, up, sent, closed, present>>

-----------------------------------------------------------------------------
(* The main thread: runServer's loop. *)

AcceptConnection ==
  /\ up /\ mainAt = "accept"
  /\ accepted < arrived
  /\ accepted' = accepted + 1
  /\ mainAt' = "putItem"
  /\ UNCHANGED <<bufferVars, arrived, workerVars, clientVars, up, sent, closed, world>>

\* putItem: wait for space, or add the connection and go back to accepting.
PutItem ==
  /\ up /\ mainAt = "putItem"
  /\ \/ PutWaits(Main) /\ UNCHANGED mainAt
     \/ PutAdds(Main, accepted) /\ mainAt' = "accept"
  /\ UNCHANGED <<arrived, accepted, workerVars, clientVars, up, sent, closed, world>>

-----------------------------------------------------------------------------
(* A worker: consumeClients and handleClient. *)

GetItem(w) ==
  /\ up /\ at[w] = "getItem"
  /\ \/ GetWaits(w) /\ UNCHANGED workerVars
     \/ /\ GetTakes(w)
        /\ client' = [client EXCEPT ![w] = Head(buffer)]
        /\ at' = [at EXCEPT ![w] = "receiveData"]
  /\ UNCHANGED <<mainVars, clientVars, up, sent, closed, world>>

\* What a step of handleClient leaves alone.
HandlerFrame == UNCHANGED <<bufferVars, mainVars, client, clientVars, world>>

GoTo(w, step) ==
  /\ at' = [at EXCEPT ![w] = step]
  /\ UNCHANGED <<up, sent, closed>>

\* An uncaught exception: std::terminate.
Terminate == up' = FALSE /\ UNCHANGED <<at, sent, closed>>

\* sendData with everything it was given, which fails only if the client is gone.
SendData(w, part, step) ==
  \/ /\ at' = [at EXCEPT ![w] = step]
     /\ sent' = [sent EXCEPT ![client[w]] = Append(@, part)]
     /\ UNCHANGED <<up, closed>>
  \/ link[client[w]] # "open" /\ Terminate

\* Mutant: an empty resource is looked up like any other.
FirstStepNoBadRequest(r) == "exists"

\* parseRequest and the cases of sendResponse, up to its look at the file: an
\* empty resource is a bad request, and so is a connection closed at once.
FirstStep(r) == IF r \in {"none", "bad"} THEN "bad" ELSE "exists"

\* Mutant: a line that does not parse throws, as at() would on an empty match.
ReceiveParsed(w) ==
  /\ up /\ at[w] = "receiveData"
  /\ \/ /\ request[client[w]] \notin {"none", "bad"}
        /\ GoTo(w, FirstStep(request[client[w]]))
        /\ UNCHANGED request
     \/ /\ request[client[w]] # "none"
        /\ request' = [request EXCEPT ![client[w]] = "bad"]
        /\ Terminate
     \/ link[client[w]] # "open" /\ Terminate /\ UNCHANGED request
  /\ UNCHANGED <<bufferVars, mainVars, client, link, world>>

\* The one recv returns what was sent or a part of it, whose first line does not
\* parse; nothing once the client has left; and an error (which throws) after a
\* reset, if the reset overtook the request.
ReceiveData(w) ==
  /\ up /\ at[w] = "receiveData"
  /\ \/ /\ request[client[w]] # "none" \/ link[client[w]] = "left"
        /\ GoTo(w, FirstStep(request[client[w]]))
        /\ UNCHANGED request
     \/ /\ request[client[w]] # "none"
        /\ request' = [request EXCEPT ![client[w]] = "bad"]
        /\ GoTo(w, "bad")
     \/ link[client[w]] = "reset" /\ Terminate /\ UNCHANGED request
  /\ UNCHANGED <<bufferVars, mainVars, client, link, world>>

RespondWith400(w) ==
  /\ up /\ at[w] = "bad"
  /\ SendData(w, "400", "close")
  /\ HandlerFrame

\* sendResponse: exists, which throws unless the name is found or not found.
CheckExists(w) ==
  /\ up /\ at[w] = "exists"
  /\ LET r == request[client[w]] IN
     \/ r \in forbidden /\ Terminate
     \/ r \notin forbidden /\ GoTo(w, IF r \in present THEN "kind" ELSE "missing")
  /\ HandlerFrame

\* The two calls of sendData in respondWith404.
RespondWith404(w) ==
  /\ up
  /\ \/ at[w] = "missing" /\ SendData(w, "404", "missing_body")
     \/ at[w] = "missing_body" /\ SendData(w, "body", "close")
  /\ HandlerFrame

\* Where respondWith200 goes on.  What is neither directory nor regular file, or no
\* longer there, gets no answer; an opaque directory has an index.html or not.
Respond(r) ==
  IF r \notin present \/ r = "special" THEN {"close"}
  ELSE IF r = "opaque" THEN {"list", "header"}
  ELSE IF r = "listing" THEN {"list"} ELSE {"header"}

\* respondWith200 looks at the path again: is_directory, exists of the index.html,
\* is_regular_file.  Each of them throws where the system refuses to look.
CheckKind(w) ==
  /\ up /\ at[w] = "kind"
  /\ LET r == request[client[w]] IN
     \/ r \in forbidden \cup (present \cap {"opaque"}) /\ Terminate
     \/ r \notin forbidden /\ \E step \in Respond(r) : GoTo(w, step)
  /\ HandlerFrame

\* generateDirectoryHTML, which throws if the directory is gone or does not show what
\* is in it, then the header.
SendListing(w) ==
  /\ up /\ at[w] = "list"
  /\ IF request[client[w]] \in present \ (forbidden \cup {"opaque"})
     THEN SendData(w, "200", "list_body") ELSE Terminate
  /\ HandlerFrame

SendListingBody(w) ==
  /\ up /\ at[w] = "list_body"
  /\ SendData(w, "body", "close")
  /\ HandlerFrame

\* Mutant: the connection is closed behind the header.
SendHeaderOnly(w) ==
  /\ up /\ at[w] = "header"
  /\ IF request[client[w]] \in present
     THEN SendData(w, "200", "close") ELSE Terminate
  /\ HandlerFrame

\* sendOKHeader: file_size throws if the file is gone, or if index.html is no file.
SendOKHeader(w) ==
  /\ up /\ at[w] = "header"
  /\ IF request[client[w]] \in present \ (forbidden \cup {"opaque"})
     THEN SendData(w, "200", "body") ELSE Terminate
  /\ HandlerFrame

\* sendFile.  A stream that could not be opened fails every read without ever
\* reaching eof, and the loop does not end.
SendFile(w) ==
  /\ up /\ at[w] = "body"
  /\ IF request[client[w]] \in present \ (forbidden \cup {"unreadable"})
     THEN SendData(w, "body", "close")
     ELSE GoTo(w, "spin")
  /\ HandlerFrame

\* One more turn of sendFile's loop, which changes nothing.
Spin(w) == up /\ at[w] = "spin" /\ UNCHANGED vars

\* handleClient closes the connection, and the worker goes back to getItem.
CloseClient(w) ==
  /\ up /\ at[w] = "close"
  /\ closed' = closed \cup {client[w]}
  /\ at' = [at EXCEPT ![w] = "getItem"]
  /\ client' = [client EXCEPT ![w] = 0]
  /\ UNCHANGED <<bufferVars, mainVars, clientVars, up, sent, world>>

-----------------------------------------------------------------------------
Wakeup(t) ==
  /\ up
  /\ SpuriousWakeup(t)
  /\ UNCHANGED <<mainVars, workerVars, clientVars, up, sent, closed, world>>

\* The process has ended.
Ended == ~up /\ UNCHANGED vars

Init ==
  /\ BufferInit
  /\ up = TRUE /\ arrived = 0 /\ accepted = 0 /\ mainAt = "accept"
  /\ at = [w \in Workers |-> "getItem"]
  /\ client = [w \in Workers |-> 0]
  /\ request = [c \in Clients |-> "none"]
  /\ link = [c \in Clients |-> "open"]
  /\ sent = [c \in Clients |-> <<>>]
  /\ closed = {}
  /\ present = Resource \cap Requests
  /\ forbidden = {"too_long"} \cap Requests /\ mishaps = 0

MainNext == AcceptConnection \/ PutItem

HandleClient(w) ==
  \/ ReceiveData(w)
  \/ RespondWith400(w) \/ CheckExists(w) \/ RespondWith404(w)
  \/ CheckKind(w) \/ SendListing(w) \/ SendListingBody(w)
  \/ SendOKHeader(w) \/ SendFile(w) \/ Spin(w)
  \/ CloseClient(w)

Next ==
  \/ Arrive
  \/ \E c \in Clients : SendRequest(c) \/ Break(c)
  \/ \E r \in present : Remove(r) \/ Forbid(r)
  \/ MainNext
  \/ \E w \in Workers : GetItem(w) \/ HandleClient(w)
  \/ \E t \in Workers \cup {Main} : Wakeup(t)
  \/ Ended

Spec == Init /\ [][Next]_vars

\* Threads that can run do run, and every client sends its request in the end
\* or gives up.  Nothing promises a spurious wakeup.
FairSpec ==
  /\ Spec
  /\ WF_vars(MainNext)
  /\ \A w \in Workers : WF_vars(GetItem(w)) /\ WF_vars(HandleClient(w))
  /\ \A c \in Clients : WF_vars(SendRequest(c))
-----------------------------------------------------------------------------
(* Properties. *)

TypeOK ==
  /\ buffer \in Seq(Clients) /\ Len(buffer) <= Capacity
  /\ dataWaiters \subseteq Workers /\ spaceWaiters \subseteq {Main}
  /\ arrived \in 0..NumClients /\ accepted \in 0..arrived
  /\ mainAt \in {"accept", "putItem"}
  /\ at \in [Workers -> {"getItem", "receiveData", "bad", "exists", "missing",
                         "missing_body", "kind", "list", "list_body", "header",
                         "body", "spin", "close"}]
  /\ client \in [Workers -> 0..NumClients]
  /\ request \in [Clients -> RequestKind \cup {"none"}]
  /\ link \in [Clients -> {"open", "left", "reset"}]
  /\ sent \in [Clients -> Seq({"200", "400", "404", "body"})]
  /\ closed \subseteq Clients
  /\ present \subseteq Resource /\ forbidden \subseteq Resource \cup {"too_long"}
  /\ mishaps \in 0..MaxMishaps
  /\ up \in BOOLEAN

\* The workers that are in getItem and wait for nothing but the mutex.
Looking == {w \in Workers : at[w] = "getItem"} \ dataWaiters

\* While a worker waits for data, there is a worker about to look for every
\* connection in the buffer: no notification of putItem is ever lost, although
\* a worker that never waited may take the connection it was for.
NoLostWakeup == dataWaiters # {} => Len(buffer) <= Cardinality(Looking)

\* How many connections workers have taken out of the buffer.
Taken == accepted - Len(buffer) - (IF mainAt = "putItem" THEN 1 ELSE 0)

Busy == {w \in Workers : at[w] # "getItem"}

\* Connections leave the buffer in the order they arrived, and each of those
\* taken is either with one worker or closed: none is lost between the threads,
\* answered by two workers, or used again after it was closed.
EachConnectionOnce ==
  /\ \A i \in DOMAIN buffer : buffer[i] = Taken + i
  /\ 1..Taken = closed \cup {client[w] : w \in Busy}
  /\ \A w \in Busy : client[w] \notin closed
  /\ \A v, w \in Busy : client[v] = client[w] => v = w

\* The answers sendResponse can give to what c asked for, now that it has it.
Answers(c) ==
  IF request[c] \in {"none", "bad"} THEN {<<"400">>}
  ELSE IF request[c] \notin present THEN {<<"404", "body">>, <<"200", "body">>, <<>>}
  ELSE IF request[c] = "special" THEN {<<>>}
  ELSE {<<"200", "body">>}

\* A connection is closed only after one whole answer, the one for its request;
\* it is closed without any only where the resource is special or has vanished.
OneWholeAnswer == \A c \in closed : sent[c] \in Answers(c)

\* What may throw out of handleClient while a worker serves c: c has broken its
\* connection, or it asks for a name that the system refuses to look at, for what
\* has vanished, or for a directory that does not show all of what is in it.
MayThrow(c) ==
  \/ link[c] # "open"
  \/ request[c] \in forbidden \cup {"opaque"} \cup (Resource \ present)

\* The process ends only where a worker serves such a client.  Any other request, for
\* a missing or a special resource or one that does not parse, leaves it up, whatever
\* the others do meanwhile.  (One request for an overlong name is enough to end it.)
CrashHasACause == ~up => \E w \in Busy : MayThrow(client[w])

\* The refinement mapping: a connection is taken once it has left the buffer.
Pool == INSTANCE WorkerPool WITH
  MaxPending <- Capacity + 1,
  alive <- up,
  taken <- Taken,
  serving <- client

\* The threads, the buffer and the files implement the abstract pool: whatever
\* the main thread and the workers interleave, connections are served in order,
\* and bytes go to a connection only while one worker has it and only in order.
ImplementsWorkerPool == Pool!PoolSpec

\* A connection in the buffer is answered and closed, unless the process ends
\* or a worker is caught in sendFile's loop.
BufferedIsServed ==
  \A c \in Clients :
    (\E i \in DOMAIN buffer : buffer[i] = c)
      ~> c \in closed \/ ~up \/ \E w \in Workers : at[w] = "spin"

\* The server accepts and serves whoever connects.
EveryoneIsServed == \A c \in Clients : c <= arrived ~> c \in closed
=============================================================================
