---------------------------- MODULE ToreroProofs ----------------------------
(***************************************************************************)
(* Proofs about ToreroServe, for every finite set of workers, every number *)
(* of connections and every capacity of the buffer.                        *)
(*                                                                         *)
(* The properties become inductive once the invariant says what each       *)
(* worker knows at its step: what its client was sent so far, and which    *)
(* requests lead there.                                                    *)
(***************************************************************************)
EXTENDS ToreroServe, SequenceTheorems, FiniteSetTheorems, TLAPS

\* Workers without a connection have no client; only those wait for data.
IdleInv ==
  /\ \A w \in Workers : at[w] = "getItem" => client[w] = 0
  /\ \A w \in dataWaiters : at[w] = "getItem"
  /\ Taken \in 0..NumClients
  /\ mainAt = "putItem" => accepted > 0

\* The server went past recv for c: its request is known, and stays the same.
Settled(c) == request[c] # "none" \/ link[c] = "left"

\* What c was sent and what it asked for when its worker is at a step.
AtStep(step, c) ==
  /\ step # "receiveData" => Settled(c)
  /\ step \in {"receiveData", "bad", "exists", "missing", "kind", "list", "header"}
       => sent[c] = <<>>
  /\ step \in {"list_body", "body", "spin"} => sent[c] = <<"200">>
  /\ step = "missing_body" => sent[c] = <<"404">>
  /\ step = "bad" => request[c] \in {"none", "bad"}
  /\ step = "exists" => request[c] \notin {"none", "bad"}
  /\ step \in {"missing", "missing_body"} => request[c] \notin present \cup {"none", "bad"}
  /\ step = "kind" => request[c] \in Resource
  /\ step = "list" => request[c] \in {"listing", "opaque"}
  /\ step = "list_body" => request[c] = "listing"
  /\ step \in {"header", "body", "spin"} => request[c] \in Resource \ {"special", "listing"}
  /\ step = "close" => sent[c] \in Answers(c)

StepInv == \A w \in Busy : AtStep(at[w], client[w])

UnsentInv == \A c \in Clients : c > Taken => sent[c] = <<>>

ClosedInv == \A c \in closed : Settled(c) /\ sent[c] \in Answers(c)

IInv ==
  /\ TypeOK /\ IdleInv
  /\ EachConnectionOnce /\ NoLostWakeup
  /\ StepInv /\ UnsentInv /\ ClosedInv
  /\ CrashHasACause

Steps == {"getItem", "receiveData", "bad", "exists", "missing", "missing_body", "kind",
          "list", "list_body", "header", "body", "spin", "close"}

-----------------------------------------------------------------------------
(* The wait sets and the workers that are about to look into the buffer. *)

\* Notifying takes at most one thread out of the wait set, and one if there is any.
LEMMA NotifyFacts ==
  ASSUME NEW waiters, NEW left \in NotifyOne(waiters)
  PROVE  \/ waiters = {} /\ left = {}
         \/ \E t \in waiters : left = waiters \ {t}
  BY DEF NotifyOne

\* A set of workers is finite, and one worker more or less changes its size by one.
LEMMA WorkerCount ==
  ASSUME NEW S \in SUBSET Workers, NEW w \in Workers
  PROVE  /\ Cardinality(S) \in Nat
         /\ w \notin S => Cardinality(S \cup {w}) = Cardinality(S) + 1
         /\ w \in S => Cardinality(S \ {w}) = Cardinality(S) - 1
<1>1. IsFiniteSet(S)
  BY FS_Subset, ServerAssumption
<1>2. QED
  BY <1>1, FS_CardinalityType, FS_AddElement, FS_RemoveElement

\* A larger set of workers counts at least as many.
LEMMA MoreWorkers ==
  ASSUME NEW S \in SUBSET Workers, NEW T \in SUBSET S
  PROVE  Cardinality(T) <= Cardinality(S)
  BY FS_Subset, ServerAssumption

\* If no connection is added and no worker stops looking, no notification is lost.
LEMMA WakeupKept ==
  ASSUME TypeOK, NoLostWakeup, TypeOK',
         dataWaiters' \subseteq dataWaiters,
         Len(buffer') = Len(buffer),
         Looking \subseteq Looking'
  PROVE  NoLostWakeup'
<1>1. Looking' \in SUBSET Workers /\ Looking \in SUBSET Looking'
  BY DEF Looking
<1>2. Cardinality(Looking) <= Cardinality(Looking')
  BY <1>1, MoreWorkers
<1>3. Cardinality(Looking) \in Nat /\ Cardinality(Looking') \in Nat
  BY <1>1, FS_Subset, FS_CardinalityType, ServerAssumption
<1>4. Len(buffer) \in Nat
  BY DEF TypeOK
<1>5. QED
  BY <1>2, <1>3, <1>4 DEF NoLostWakeup
-----------------------------------------------------------------------------
(* Steps of the world outside the server. *)

\* A worker past getItem has a connection that was taken out of the buffer, and
\* whoever has been taken out is one of the clients.
LEMMA BusyClient ==
  ASSUME IInv, NEW w \in Busy
  PROVE  /\ w \in Workers
         /\ client[w] \in 1..Taken /\ client[w] \in Clients
         /\ AtStep(at[w], client[w])
<1>1. client[w] \in 1..Taken
  BY DEF IInv, EachConnectionOnce
<1>2. Taken \in 0..NumClients
  BY DEF IInv, IdleInv
<1>3. client[w] \in Clients
  BY <1>1, <1>2, ServerAssumption DEF Clients
<1>4. QED
  BY <1>1, <1>3 DEF IInv, StepInv, Busy

\* What a step of the clients and the file system leaves alone in the server.
ServerFrame == UNCHANGED <<bufferVars, accepted, mainAt, workerVars, up, sent, closed>>

\* A step outside keeps what relates buffer, threads and connections.
LEMMA OutsideKeepsThreads ==
  ASSUME IInv, ServerFrame
  PROVE  IdleInv' /\ EachConnectionOnce' /\ NoLostWakeup' /\ UnsentInv'
  BY DEF IInv, ServerFrame, bufferVars, workerVars, IdleInv, EachConnectionOnce,
         NoLostWakeup, UnsentInv, Taken, Busy, Looking

\* What every step keeps that leaves requests, answers and workers alone.
LEMMA AnswersKept ==
  ASSUME IInv, UNCHANGED <<workerVars, clientVars, sent, closed, present>>
  PROVE  ClosedInv' /\ StepInv'
  BY DEF IInv, workerVars, clientVars, ClosedInv, StepInv, AtStep, Answers, Settled, Busy

\* If the process has ended, its cause remains one.
LEMMA CauseKept ==
  ASSUME IInv, ServerFrame,
         \A w \in Busy : MayThrow(client[w]) => MayThrow(client[w])'
  PROVE  CrashHasACause'
<1>1. up' = up /\ at' = at /\ client' = client /\ Busy' = Busy
  BY DEF ServerFrame, workerVars, Busy
<1>2. QED
  BY <1>1 DEF IInv, CrashHasACause

\* Once a worker is past recv, a new request comes from somebody else.
LEMMA SendRequestKeeps ==
  ASSUME IInv, NEW c \in Clients, SendRequest(c)
  PROVE  IInv'
<1>1. ServerFrame
  BY DEF SendRequest, mainVars, workerVars, ServerFrame
<1>2. TypeOK'
  BY ServerAssumption DEF IInv, TypeOK, SendRequest, bufferVars, mainVars, workerVars,
     world, Clients
<1>4. ASSUME NEW d \in Clients, Settled(d) PROVE d # c
  BY <1>4 DEF SendRequest, Settled
<1>5. ASSUME NEW d \in Clients, d # c
      PROVE  request'[d] = request[d] /\ Answers(d)' = Answers(d) /\ Settled(d)' = Settled(d)
  BY <1>5 DEF IInv, TypeOK, SendRequest, Answers, Settled, world
<1>6. ClosedInv'
  <2> SUFFICES ASSUME NEW d \in closed PROVE (Settled(d) /\ sent[d] \in Answers(d))'
    BY DEF ClosedInv, SendRequest
  <2>1. d \in Clients /\ Settled(d) /\ sent[d] \in Answers(d)
    BY DEF IInv, ClosedInv, TypeOK
  <2>2. QED
    BY <2>1, <1>4, <1>5 DEF SendRequest
<1>7. StepInv'
  <2> SUFFICES ASSUME NEW w \in Busy PROVE AtStep(at[w], client[w])'
    BY DEF StepInv, Busy, SendRequest, workerVars
  <2>1. AtStep(at[w], client[w])
    BY BusyClient
  <2>2. client[w] \in Clients
    BY BusyClient
  <2>3. at' = at /\ client' = client /\ sent' = sent /\ present' = present
    BY DEF SendRequest, workerVars, world
  <2>4. CASE at[w] = "receiveData"
    BY <2>1, <2>3, <2>4 DEF AtStep
  <2>5. CASE at[w] # "receiveData"
    <3>1. Settled(client[w]) /\ client[w] # c
      BY <2>1, <2>2, <2>5, <1>4 DEF AtStep
    <3>2. QED
      BY <2>1, <2>2, <2>3, <3>1, <1>5 DEF AtStep
  <2>6. QED
    BY <2>4, <2>5
<1>8. CrashHasACause'
  <2>1. ASSUME NEW d \in Clients, MayThrow(d) PROVE MayThrow(d)'
    <3>1. CASE d = c
      <4>1. request[c] = "none" /\ link[c] = "open"
        BY DEF SendRequest
      <4>2. "none" \notin forbidden \cup {"opaque"} \cup Resource
        BY DEF IInv, TypeOK, Resource
      <4>3. QED
        BY <2>1, <3>1, <4>1, <4>2 DEF MayThrow
    <3>2. CASE d # c
      BY <2>1, <3>2, <1>5 DEF SendRequest, MayThrow, world
    <3>3. QED
      BY <3>1, <3>2
  <2>2. QED
    BY <1>1, <2>1, CauseKept, BusyClient DEF ServerFrame, workerVars
<1>9. QED
  BY <1>1, <1>2, <1>6, <1>7, <1>8, OutsideKeepsThreads DEF IInv

\* A client that breaks its connection is none whose connection was closed.
LEMMA BreakKeeps ==
  ASSUME IInv, NEW c \in Clients, Break(c)
  PROVE  IInv'
<1>1. ServerFrame
  BY DEF Break, mainVars, workerVars, ServerFrame
<1>2. TypeOK'
  BY ServerAssumption DEF IInv, TypeOK, Break, bufferVars, mainVars, workerVars, Clients
<1>4. ASSUME NEW d \in Clients
      PROVE  Answers(d)' = Answers(d) /\ (Settled(d) => Settled(d)')
  BY DEF IInv, TypeOK, Break, Answers, Settled
<1>5. ClosedInv'
  BY <1>4 DEF IInv, TypeOK, ClosedInv, Break
<1>6. StepInv'
  <2> SUFFICES ASSUME NEW w \in Busy PROVE AtStep(at[w], client[w])'
    BY DEF StepInv, Busy, Break, workerVars
  <2>1. AtStep(at[w], client[w])
    BY BusyClient
  <2>2. client[w] \in Clients
    BY BusyClient
  <2>3. QED
    BY <2>1, <2>2, <1>4 DEF AtStep, Break, workerVars
<1>7. CrashHasACause'
  <2>1. ASSUME NEW d \in Clients, MayThrow(d) PROVE MayThrow(d)'
    BY <2>1 DEF IInv, TypeOK, Break, MayThrow
  <2>2. QED
    BY <1>1, <2>1, CauseKept, BusyClient DEF ServerFrame, workerVars
<1>8. QED
  BY <1>1, <1>2, <1>5, <1>6, <1>7, OutsideKeepsThreads DEF IInv

\* A resource that vanishes allows more answers to those who asked for it.
LEMMA RemoveKeeps ==
  ASSUME IInv, NEW r \in present, Remove(r)
  PROVE  IInv'
<1>1. ServerFrame
  BY DEF Remove, mainVars, workerVars, ServerFrame
<1>2. TypeOK'
  BY ServerAssumption DEF IInv, TypeOK, Remove, bufferVars, mainVars, workerVars, clientVars
<1>4. ASSUME NEW d \in Clients
      PROVE  Answers(d) \subseteq Answers(d)' /\ Settled(d)' = Settled(d)
  BY DEF Remove, Answers, Settled, clientVars
<1>5. ClosedInv'
  BY <1>4 DEF IInv, TypeOK, ClosedInv, Remove
<1>6. StepInv'
  <2> SUFFICES ASSUME NEW w \in Busy PROVE AtStep(at[w], client[w])'
    BY DEF StepInv, Busy, Remove, workerVars
  <2>1. AtStep(at[w], client[w])
    BY BusyClient
  <2>2. client[w] \in Clients
    BY BusyClient
  <2>3. QED
    BY <2>1, <2>2, <1>4 DEF AtStep, Remove, workerVars, clientVars
<1>7. CrashHasACause'
  <2>1. ASSUME NEW d \in Clients, MayThrow(d) PROVE MayThrow(d)'
    BY <2>1 DEF Remove, MayThrow, clientVars
  <2>2. QED
    BY <1>1, <2>1, CauseKept, BusyClient DEF ServerFrame, workerVars
<1>8. QED
  BY <1>1, <1>2, <1>5, <1>6, <1>7, OutsideKeepsThreads DEF IInv

\* What a client is told does not depend on what it might no longer be told.
LEMMA ForbidKeeps ==
  ASSUME IInv, NEW r \in present, Forbid(r)
  PROVE  IInv'
<1>1. ServerFrame
  BY DEF Forbid, mainVars, workerVars, ServerFrame
<1>2. TypeOK'
  BY ServerAssumption DEF IInv, TypeOK, Forbid, bufferVars, mainVars, workerVars, clientVars
<1>3. UNCHANGED <<workerVars, clientVars, sent, closed, present>>
  BY DEF Forbid
<1>4. ClosedInv' /\ StepInv'
  BY <1>3, AnswersKept
<1>5. CrashHasACause'
  <2>1. ASSUME NEW d \in Clients, MayThrow(d) PROVE MayThrow(d)'
    BY <2>1 DEF Forbid, MayThrow, clientVars
  <2>2. QED
    BY <1>1, <2>1, CauseKept, BusyClient DEF ServerFrame, workerVars
<1>6. QED
  BY <1>1, <1>2, <1>4, <1>5, OutsideKeepsThreads DEF IInv

\* A connection that arrives is in no thread's hands yet.
LEMMA ArriveKeeps ==
  ASSUME IInv, Arrive
  PROVE  IInv'
<1>1. ServerFrame
  BY DEF Arrive, ServerFrame
<1>2. TypeOK'
  BY ServerAssumption DEF IInv, TypeOK, Arrive, bufferVars, workerVars, clientVars, world
<1>3. ClosedInv' /\ StepInv'
  BY AnswersKept DEF Arrive, world
<1>4. CrashHasACause'
  BY <1>1, CauseKept DEF Arrive, MayThrow, workerVars, clientVars, world
<1>5. QED
  BY <1>1, <1>2, <1>3, <1>4, OutsideKeepsThreads DEF IInv
-----------------------------------------------------------------------------
(* Steps of the main thread and of the buffer. *)

\* Taken is counted in integers.
LEMMA TakenFacts ==
  ASSUME TypeOK
  PROVE  /\ accepted \in Nat /\ Len(buffer) \in Nat /\ Taken \in Int
         /\ mainAt = "putItem" => Taken = accepted - Len(buffer) - 1
         /\ mainAt = "accept" => Taken = accepted - Len(buffer)
<1>1. Len(buffer) \in Nat
  BY DEF TypeOK
<1>2. arrived \in Nat /\ accepted \in Nat
  BY ServerAssumption DEF TypeOK
<1>3. QED
  BY <1>1, <1>2 DEF Taken

\* A connection in the main thread's hand does not count as taken.
LEMMA AcceptKeeps ==
  ASSUME IInv, AcceptConnection
  PROVE  IInv'
<1>1. TypeOK'
  BY ServerAssumption DEF IInv, TypeOK, AcceptConnection, bufferVars, workerVars,
     clientVars, world
<1>2. TypeOK
  BY DEF IInv
<1>3. mainAt = "accept" /\ mainAt' = "putItem" /\ accepted' = accepted + 1
      /\ buffer' = buffer
  BY DEF AcceptConnection, bufferVars
<1>4. Taken' = Taken
  BY <1>2, <1>3, TakenFacts DEF Taken
<1>5. accepted' > 0
  BY <1>2, <1>3, TakenFacts
<1>6. ClosedInv' /\ StepInv'
  BY AnswersKept DEF AcceptConnection, world
<1>7. IdleInv' /\ EachConnectionOnce' /\ NoLostWakeup' /\ UnsentInv'
  BY <1>4, <1>5 DEF IInv, AcceptConnection, bufferVars, workerVars, IdleInv,
     EachConnectionOnce, NoLostWakeup, UnsentInv, Busy, Looking
<1>8. CrashHasACause'
  BY DEF AcceptConnection, CrashHasACause
<1>9. QED
  BY <1>1, <1>6, <1>7, <1>8 DEF IInv

\* Waiting for space changes nothing but the wait set.
LEMMA PutWaitsKeeps ==
  ASSUME IInv, PutItem, PutWaits(Main), UNCHANGED mainAt
  PROVE  IInv'
<1>1. TypeOK'
  BY DEF IInv, TypeOK, PutItem, PutWaits, workerVars, clientVars, world
<1>2. ClosedInv' /\ StepInv'
  BY AnswersKept DEF PutItem, world
<1>3. IdleInv' /\ EachConnectionOnce' /\ NoLostWakeup' /\ UnsentInv'
  BY DEF IInv, PutItem, PutWaits, workerVars, IdleInv, EachConnectionOnce, NoLostWakeup,
     UnsentInv, Busy, Looking, Taken
<1>4. CrashHasACause'
  BY DEF PutItem, CrashHasACause
<1>5. QED
  BY <1>1, <1>2, <1>3, <1>4 DEF IInv

\* What is added is the next connection after those in the buffer, and if a
\* worker waits, one of those that wait begins to look.
LEMMA PutAddsKeeps ==
  ASSUME IInv, PutItem, PutAdds(Main, accepted), mainAt' = "accept"
  PROVE  IInv'
<1>1. /\ mainAt = "putItem" /\ accepted' = accepted /\ at' = at /\ client' = client
      /\ closed' = closed /\ sent' = sent
      /\ buffer' = Append(buffer, accepted) /\ Len(buffer) # Capacity
      /\ dataWaiters' \in NotifyOne(dataWaiters) /\ spaceWaiters' = spaceWaiters
  BY DEF PutItem, PutAdds, workerVars
<1>2. TypeOK /\ accepted \in Clients /\ Len(buffer) \in Nat
  <2>1. TypeOK /\ accepted > 0
    BY <1>1 DEF IInv, IdleInv
  <2>2. QED
    BY <2>1, ServerAssumption, TakenFacts DEF TypeOK, Clients
<1>3. Append(buffer, accepted) \in Seq(Clients) /\ Len(Append(buffer, accepted)) = Len(buffer) + 1
      /\ \A i \in 1..(Len(buffer) + 1) :
           Append(buffer, accepted)[i] = IF i <= Len(buffer) THEN buffer[i] ELSE accepted
  <2>1. buffer \in Seq(Clients)
    BY <1>2 DEF TypeOK
  <2>2. QED
    BY <1>2, <2>1
<1>4. \/ dataWaiters = {} /\ dataWaiters' = {}
      \/ \E t \in dataWaiters : dataWaiters' = dataWaiters \ {t}
  BY <1>1, NotifyFacts
<1>5. TypeOK'
  <2>1. dataWaiters' \subseteq Workers
    BY <1>2, <1>4 DEF TypeOK
  <2>2. Len(buffer') <= Capacity
    BY <1>1, <1>2, <1>3, CapacityAssumption DEF TypeOK
  <2>3. QED
    BY <1>1, <1>2, <1>3, <2>1, <2>2 DEF TypeOK, PutItem, workerVars, clientVars, world
<1>6. Taken' = Taken
  <2>1. Taken = accepted - Len(buffer) - 1
    BY <1>1, <1>2, TakenFacts
  <2>2. Taken' = accepted - Len(buffer')
    BY <1>1, <1>2, <1>3, TakenFacts DEF Taken
  <2>3. QED
    BY <1>1, <1>2, <1>3, <2>1, <2>2, TakenFacts
<1>7. ClosedInv' /\ StepInv'
  BY AnswersKept DEF PutItem, world
<1>8. IdleInv'
  BY <1>1, <1>4, <1>6 DEF IInv, IdleInv
<1>9. EachConnectionOnce'
  <2>1. ASSUME NEW i \in DOMAIN buffer' PROVE buffer'[i] = Taken + i
    <3>1. i \in 1..(Len(buffer) + 1)
      <4>1. buffer' \in Seq(Clients) /\ Len(buffer') = Len(buffer) + 1
        BY <1>1, <1>3
      <4>2. DOMAIN buffer' = 1..Len(buffer')
        BY <4>1, LenProperties
      <4>3. QED
        BY <4>1, <4>2
    <3>2. Taken = accepted - Len(buffer) - 1 /\ accepted \in Nat
      BY <1>1, <1>2, TakenFacts
    <3>3. CASE i <= Len(buffer)
      <4>1. i \in DOMAIN buffer
        BY <1>2, <3>1, <3>3, LenProperties DEF TypeOK
      <4>2. QED
        BY <1>1, <1>3, <3>1, <3>3, <4>1 DEF IInv, EachConnectionOnce
    <3>4. CASE ~(i <= Len(buffer))
      BY <1>1, <1>2, <1>3, <3>1, <3>2, <3>4
    <3>5. QED
      BY <3>3, <3>4
  <2>2. QED
    BY <1>1, <1>6, <2>1 DEF IInv, EachConnectionOnce, Busy
<1>10. NoLostWakeup'
  <2>1. CASE dataWaiters = {}
    BY <1>4, <2>1 DEF NoLostWakeup
  <2>2. CASE dataWaiters # {}
    <3>1. PICK t \in dataWaiters : dataWaiters' = dataWaiters \ {t}
      BY <1>4, <2>2
    <3>2. t \in Workers /\ at[t] = "getItem"
      BY <1>2 DEF TypeOK, IInv, IdleInv
    <3>3. Looking' = Looking \cup {t} /\ t \notin Looking
      BY <1>1, <3>1, <3>2 DEF Looking
    <3>4. Looking \in SUBSET Workers
      BY DEF Looking
    <3>5. Cardinality(Looking') = Cardinality(Looking) + 1 /\ Cardinality(Looking) \in Nat
      BY <3>2, <3>3, <3>4, WorkerCount
    <3>6. Len(buffer) <= Cardinality(Looking)
      BY <2>2 DEF IInv, NoLostWakeup
    <3>7. QED
      BY <1>1, <1>2, <1>3, <3>5, <3>6 DEF NoLostWakeup
  <2>3. QED
    BY <2>1, <2>2
<1>11. UnsentInv' /\ CrashHasACause'
  BY <1>1, <1>6 DEF IInv, UnsentInv, CrashHasACause, PutItem
<1>12. QED
  BY <1>5, <1>7, <1>8, <1>9, <1>10, <1>11 DEF IInv

\* A spurious wakeup makes a waiting worker look, and no worker stops looking.
LEMMA WakeupKeeps ==
  ASSUME IInv, NEW t \in Workers \cup {Main}, Wakeup(t)
  PROVE  IInv'
<1>1. /\ at' = at /\ client' = client /\ buffer' = buffer /\ accepted' = accepted
      /\ mainAt' = mainAt /\ closed' = closed /\ sent' = sent /\ up
      /\ dataWaiters' \subseteq dataWaiters /\ spaceWaiters' \subseteq spaceWaiters
  BY DEF Wakeup, SpuriousWakeup, mainVars, workerVars
<1>2. TypeOK'
  BY <1>1 DEF IInv, TypeOK, Wakeup, mainVars, clientVars, world
<1>3. ClosedInv' /\ StepInv'
  BY AnswersKept DEF Wakeup, world
<1>4. NoLostWakeup'
  <2>1. Looking \subseteq Looking'
    BY <1>1 DEF Looking
  <2>2. QED
    BY <1>1, <1>2, <2>1, WakeupKept DEF IInv
<1>5. IdleInv' /\ EachConnectionOnce' /\ UnsentInv'
  BY <1>1 DEF IInv, IdleInv, EachConnectionOnce, UnsentInv, Taken, Busy
<1>6. CrashHasACause'
  BY <1>1 DEF Wakeup, CrashHasACause
<1>7. QED
  BY <1>2, <1>3, <1>4, <1>5, <1>6 DEF IInv
-----------------------------------------------------------------------------
(* Steps of a worker. *)

\* Waiting on an empty buffer loses no notification: there is nothing to take.
LEMMA GetWaitsKeeps ==
  ASSUME IInv, NEW w \in Workers, GetItem(w), GetWaits(w), UNCHANGED workerVars
  PROVE  IInv'
<1>1. TypeOK'
  BY DEF IInv, TypeOK, GetItem, GetWaits, mainVars, workerVars, clientVars, world
<1>2. ClosedInv' /\ StepInv'
  BY AnswersKept DEF GetItem, world
<1>3. IdleInv' /\ EachConnectionOnce' /\ UnsentInv'
  BY DEF IInv, GetItem, GetWaits, mainVars, workerVars, IdleInv, EachConnectionOnce,
     UnsentInv, Busy, Taken
<1>4. NoLostWakeup'
  <2>1. Looking' \in SUBSET Workers /\ Len(buffer') = 0
    BY DEF Looking, GetWaits
  <2>2. Cardinality(Looking') \in Nat
    BY <2>1, FS_Subset, FS_CardinalityType, ServerAssumption
  <2>3. QED
    BY <2>1, <2>2 DEF NoLostWakeup
<1>5. CrashHasACause'
  BY DEF GetItem, CrashHasACause
<1>6. QED
  BY <1>1, <1>2, <1>3, <1>4, <1>5 DEF IInv

\* The connection a worker takes is the next one, which no worker has or had, and
\* there is one connection and one looking worker fewer.
LEMMA GetTakesKeeps ==
  ASSUME IInv, NEW w \in Workers, GetItem(w), GetTakes(w),
         client' = [client EXCEPT ![w] = Head(buffer)],
         at' = [at EXCEPT ![w] = "receiveData"]
  PROVE  IInv'
<1>1. /\ up /\ up' = up /\ at[w] = "getItem" /\ accepted' = accepted /\ mainAt' = mainAt
      /\ request' = request /\ link' = link /\ sent' = sent /\ closed' = closed
      /\ present' = present /\ forbidden' = forbidden /\ arrived' = arrived
      /\ mishaps' = mishaps /\ w \notin dataWaiters /\ Len(buffer) > 0 /\ buffer' = Tail(buffer)
      /\ dataWaiters' = dataWaiters /\ spaceWaiters' = spaceWaiters
  BY DEF GetItem, GetTakes, mainVars, clientVars, world
<1>2. TypeOK /\ Len(buffer) \in Nat /\ buffer # <<>>
  BY <1>1 DEF IInv, TypeOK
<1>3. /\ Tail(buffer) \in Seq(Clients) /\ Len(Tail(buffer)) = Len(buffer) - 1
      /\ \A i \in 1..(Len(buffer) - 1) : Tail(buffer)[i] = buffer[i + 1]
      /\ Head(buffer) = buffer[1] /\ Head(buffer) \in Clients
      /\ DOMAIN buffer = 1..Len(buffer)
  <2>1. buffer \in Seq(Clients)
    BY <1>2 DEF TypeOK
  <2>2. QED
    BY <1>2, <2>1, HeadTailProperties, LenProperties
<1>4. Head(buffer) = Taken + 1
  BY <1>1, <1>2, <1>3 DEF IInv, EachConnectionOnce
<1>5. Taken \in Nat /\ Taken' = Taken + 1 /\ Taken' \in 0..NumClients
  <2>1. Taken \in 0..NumClients /\ Taken + 1 \in Clients
    BY <1>3, <1>4 DEF IInv, IdleInv
  <2>2. Taken' = Taken + 1
    BY <1>1, <1>2, <1>3, TakenFacts DEF Taken
  <2>3. QED
    BY <2>1, <2>2, ServerAssumption DEF Clients
<1>6. TypeOK'
  <2>1. Len(buffer') <= Capacity
    BY <1>1, <1>2, <1>3, CapacityAssumption DEF TypeOK
  <2>2. client' \in [Workers -> 0..NumClients]
    BY <1>2, <1>3, ServerAssumption DEF TypeOK, Clients
  <2>3. QED
    BY <1>1, <1>2, <1>3, <2>1, <2>2 DEF TypeOK
<1>7. ClosedInv'
  BY <1>1 DEF IInv, ClosedInv, Settled, Answers
<1>8. /\ Busy' = Busy \cup {w} /\ w \notin Busy
      /\ client'[w] = Taken + 1
      /\ \A v \in Busy : client'[v] = client[v] /\ client[v] \in 1..Taken /\ at'[v] = at[v]
  <2>1. w \notin Busy
    BY <1>1 DEF Busy
  <2>2. ASSUME NEW v \in Busy PROVE client[v] \in 1..Taken
    BY BusyClient
  <2>3. QED
    BY <1>1, <1>2, <1>4, <2>1, <2>2 DEF TypeOK, Busy
<1>9. IdleInv'
  BY <1>1, <1>2, <1>5 DEF IInv, IdleInv, TypeOK
<1>10. closed \subseteq 1..Taken
  BY DEF IInv, EachConnectionOnce
<1>11. EachConnectionOnce'
  <2>1. ASSUME NEW i \in DOMAIN buffer' PROVE buffer'[i] = Taken' + i
    <3>1. DOMAIN buffer' = 1..(Len(buffer) - 1)
      BY <1>1, <1>3, LenProperties
    <3>2. i \in 1..(Len(buffer) - 1) /\ i + 1 \in DOMAIN buffer
      BY <1>2, <1>3, <3>1
    <3>3. buffer[i + 1] = Taken + (i + 1)
      BY <3>2 DEF IInv, EachConnectionOnce
    <3>4. QED
      BY <1>1, <1>3, <1>5, <3>2, <3>3
  <2>2. 1..Taken' = closed' \cup {client'[v] : v \in Busy'}
    <3>1. 1..Taken = closed \cup {client[v] : v \in Busy}
      BY DEF IInv, EachConnectionOnce
    <3>2. {client'[v] : v \in Busy'} = {client[v] : v \in Busy} \cup {Taken + 1}
      BY <1>8
    <3>3. 1..(Taken + 1) = (1..Taken) \cup {Taken + 1}
      BY <1>5
    <3>4. QED
      BY <1>1, <1>5, <3>1, <3>2, <3>3
  <2>3. \A v \in Busy' : client'[v] \notin closed'
    <3>1. Taken + 1 \notin closed
      BY <1>5, <1>10
    <3>2. \A v \in Busy : client[v] \notin closed
      BY DEF IInv, EachConnectionOnce
    <3>3. QED
      BY <1>1, <1>8, <3>1, <3>2
  <2>4. \A u, v \in Busy' : client'[u] = client'[v] => u = v
    <3>1. \A v \in Busy : client[v] # Taken + 1
      BY <1>5, <1>8
    <3>2. \A u, v \in Busy : client[u] = client[v] => u = v
      BY DEF IInv, EachConnectionOnce
    <3>3. QED
      BY <1>8, <3>1, <3>2
  <2>5. QED
    BY <2>1, <2>2, <2>3, <2>4 DEF EachConnectionOnce
<1>12. NoLostWakeup'
  <2>1. Looking' = Looking \ {w} /\ w \in Looking /\ Looking \in SUBSET Workers
    BY <1>1, <1>2 DEF Looking, TypeOK
  <2>2. Cardinality(Looking') = Cardinality(Looking) - 1 /\ Cardinality(Looking) \in Nat
    BY <2>1, WorkerCount
  <2>3. QED
    BY <1>1, <1>2, <1>3, <2>2 DEF IInv, NoLostWakeup
<1>13. StepInv'
  <2>1. ASSUME NEW v \in Busy PROVE AtStep(at[v], client[v])'
    <3>1. AtStep(at[v], client[v]) /\ at'[v] = at[v] /\ client'[v] = client[v]
      BY <1>8, BusyClient
    <3>2. QED
      BY <1>1, <3>1 DEF AtStep, Settled, Answers
  <2>2. sent[Taken + 1] = <<>>
    BY <1>3, <1>4, <1>5 DEF IInv, UnsentInv
  <2>3. AtStep(at[w], client[w])'
    BY <1>1, <1>2, <1>8, <2>2 DEF AtStep, TypeOK
  <2>4. QED
    BY <1>8, <2>1, <2>3 DEF StepInv
<1>14. UnsentInv'
  BY <1>1, <1>5, ServerAssumption DEF IInv, UnsentInv, Clients
<1>15. CrashHasACause'
  BY <1>1 DEF CrashHasACause
<1>16. QED
  BY <1>6, <1>7, <1>9, <1>11, <1>12, <1>13, <1>14, <1>15 DEF IInv

\* What a step of handleClient leaves alone that changes at most the request of c, to
\* the part of it that was read.
StepFrame(c) ==
  /\ UNCHANGED <<bufferVars, mainVars, client, link, world>>
  /\ \/ request' = request
     \/ request' = [request EXCEPT ![c] = "bad"]

\* What a step of handleClient keeps that sends at most one part to the worker's
\* own client and leaves the worker busy: no other worker has that client.
LEMMA MoveKeeps ==
  ASSUME IInv, NEW w \in Busy, up, StepFrame(client[w]), up' = up, closed' = closed,
         NEW step \in Steps \ {"getItem"}, at' = [at EXCEPT ![w] = step],
         NEW part \in {"200", "400", "404", "body"},
         \/ sent' = sent
         \/ sent' = [sent EXCEPT ![client[w]] = Append(@, part)],
         AtStep(step, client[w])'
  PROVE  IInv'
<1>1. /\ w \in Workers /\ client[w] \in 1..Taken /\ client[w] \in Clients
      /\ client[w] \notin closed
      /\ \A v \in Busy : v # w => client[v] # client[w]
  BY BusyClient DEF IInv, EachConnectionOnce
<1>2. /\ client' = client /\ link' = link /\ present' = present /\ forbidden' = forbidden
      /\ buffer' = buffer /\ dataWaiters' = dataWaiters /\ spaceWaiters' = spaceWaiters
      /\ accepted' = accepted /\ mainAt' = mainAt /\ arrived' = arrived
      /\ mishaps' = mishaps
      /\ \/ request' = request
         \/ request' = [request EXCEPT ![client[w]] = "bad"]
  BY DEF StepFrame, bufferVars, mainVars, world
<1>3. TypeOK /\ request \in [Clients -> RequestKind \cup {"none"}]
  BY DEF IInv, TypeOK
<1>4. /\ sent' \in [Clients -> Seq({"200", "400", "404", "body"})]
      /\ \A c \in Clients : c # client[w] => sent'[c] = sent[c]
  <2>1. sent \in [Clients -> Seq({"200", "400", "404", "body"})]
    BY <1>3 DEF TypeOK
  <2>2. Append(sent[client[w]], part) \in Seq({"200", "400", "404", "body"})
    BY <1>1, <2>1
  <2>3. QED
    BY <1>1, <2>1, <2>2
<1>5. /\ at' \in [Workers -> Steps] /\ at'[w] = step
      /\ \A v \in Workers : v # w => at'[v] = at[v]
  BY <1>1, <1>3 DEF TypeOK, Steps
<1>6. TypeOK'
  <2>1. request' \in [Clients -> RequestKind \cup {"none"}]
    BY <1>2, <1>3 DEF RequestKind
  <2>2. QED
    BY <1>2, <1>3, <1>4, <1>5, <2>1 DEF TypeOK, Steps
<1>7. Busy' = Busy /\ Taken' = Taken
  BY <1>1, <1>2, <1>5 DEF Busy, Taken, Steps
<1>8. IdleInv' /\ EachConnectionOnce'
  BY <1>2, <1>5, <1>7 DEF IInv, TypeOK, IdleInv, EachConnectionOnce, Busy
<1>9. NoLostWakeup'
  <2>1. Looking' = Looking
    BY <1>1, <1>2, <1>5 DEF Looking, Busy, Steps
  <2>2. QED
    BY <1>2, <2>1 DEF IInv, NoLostWakeup
<1>10. CrashHasACause'
  BY DEF CrashHasACause
<1>11. ASSUME NEW c \in Clients, c # client[w]
       PROVE  /\ request'[c] = request[c] /\ sent'[c] = sent[c]
              /\ Answers(c)' = Answers(c) /\ Settled(c)' = Settled(c)
  <2>1. request'[c] = request[c]
    BY <1>2, <1>3, <1>11
  <2>2. QED
    BY <1>2, <1>4, <1>11, <2>1 DEF Answers, Settled
<1>12. ClosedInv'
  <2> SUFFICES ASSUME NEW c \in closed PROVE (Settled(c) /\ sent[c] \in Answers(c))'
    BY DEF ClosedInv
  <2>1. c \in Clients /\ c # client[w]
    BY <1>1, <1>3 DEF TypeOK
  <2>2. QED
    BY <2>1, <1>11 DEF IInv, ClosedInv
<1>13. StepInv'
  <2>1. ASSUME NEW v \in Busy, v # w PROVE AtStep(at[v], client[v])'
    <3>1. AtStep(at[v], client[v]) /\ client[v] \in Clients /\ client[v] # client[w]
          /\ at'[v] = at[v]
      BY <1>1, <1>5, <2>1, BusyClient
    <3>2. QED
      BY <1>2, <3>1, <1>11 DEF AtStep
  <2>2. AtStep(at[w], client[w])'
    BY <1>2, <1>5
  <2>3. QED
    BY <1>7, <2>1, <2>2 DEF StepInv
<1>14. UnsentInv'
  <2>1. ASSUME NEW c \in Clients, c > Taken PROVE c # client[w]
    BY <1>1, <1>3, <2>1, TakenFacts DEF Clients
  <2>2. QED
    BY <1>4, <1>7, <2>1 DEF IInv, UnsentInv
<1>15. QED
  BY <1>6, <1>8, <1>9, <1>10, <1>12, <1>13, <1>14 DEF IInv

\* An exception in a worker ends the process while it serves the client that it is for.
LEMMA TerminateKeeps ==
  ASSUME IInv, NEW w \in Busy, HandlerFrame, Terminate,
         MayThrow(client[w])
  PROVE  IInv'
<1>2. TypeOK'
  BY DEF IInv, TypeOK, HandlerFrame, Terminate, bufferVars, mainVars, clientVars, world
<1>3. ClosedInv' /\ StepInv'
  BY AnswersKept DEF HandlerFrame, Terminate, workerVars, world
<1>4. IdleInv' /\ EachConnectionOnce' /\ NoLostWakeup' /\ UnsentInv'
  BY DEF IInv, HandlerFrame, Terminate, bufferVars, mainVars, IdleInv,
     EachConnectionOnce, NoLostWakeup, UnsentInv, Busy, Looking, Taken
<1>5. CrashHasACause'
  <2>1. Busy' = Busy /\ MayThrow(client[w])' /\ client' = client
    BY DEF HandlerFrame, Terminate, clientVars, world, MayThrow, Busy
  <2>2. QED
    BY <2>1 DEF CrashHasACause
<1>6. QED
  BY <1>2, <1>3, <1>4, <1>5 DEF IInv

\* sendData sends one part, or throws because the client is gone.
LEMMA SendDataKeeps ==
  ASSUME IInv, NEW w \in Busy, up, HandlerFrame,
         NEW part \in {"200", "400", "404", "body"}, NEW step \in Steps \ {"getItem"},
         SendData(w, part, step),
         sent' = [sent EXCEPT ![client[w]] = Append(@, part)] => AtStep(step, client[w])'
  PROVE  IInv'
<1>1. CASE link[client[w]] # "open" /\ Terminate
  BY <1>1, TerminateKeeps DEF MayThrow
<1>2. CASE /\ at' = [at EXCEPT ![w] = step]
           /\ sent' = [sent EXCEPT ![client[w]] = Append(@, part)]
           /\ UNCHANGED <<up, closed>>
  BY <1>2, MoveKeeps DEF HandlerFrame, StepFrame, clientVars
<1>3. QED
  BY <1>1, <1>2 DEF SendData

\* A body behind a header makes an answer of two parts.
LEMMA TwoParts ==
  ASSUME NEW status \in {"200", "404"}
  PROVE  Append(<<status>>, "body") = <<status, "body">>
<1> DEFINE Parts == {"200", "404", "body"}
           both == Append(<<status>>, "body")
<1>1. <<status>> \in Seq(Parts) /\ Len(<<status>>) = 1
  OBVIOUS
<1>2. both \in Seq(Parts) /\ Len(both) = 2 /\ both[1] = status /\ both[2] = "body"
  BY <1>1, AppendProperties
<1>3. <<status, "body">> \in Seq(Parts) /\ Len(<<status, "body">>) = 2
  OBVIOUS
<1> HIDE DEF both
<1>4. \A i \in 1..2 : both[i] = <<status, "body">>[i]
  BY <1>2
<1>5. both = <<status, "body">>
  BY <1>2, <1>3, <1>4, SeqEqual
<1>6. QED
  BY <1>5 DEF both

\* Each step of handleClient knows what its predecessors have sent and checked.
LEMMA HandlerKeeps ==
  ASSUME IInv, NEW w \in Workers, HandleClient(w), ~CloseClient(w), ~Spin(w)
  PROVE  IInv'
<1> DEFINE c == client[w]
<1>1. /\ w \in Busy /\ c \in Clients /\ up
      /\ AtStep(at[w], c) /\ sent \in [Clients -> Seq({"200", "400", "404", "body"})]
      /\ request \in [Clients -> RequestKind \cup {"none"}]
      /\ c' = c /\ link' = link /\ present' = present
  <2>1. w \in Busy /\ up /\ UNCHANGED <<client, link, present>>
    BY DEF HandleClient, ReceiveData, RespondWith400, CheckExists, RespondWith404,
       CheckKind, SendListing, SendListingBody, SendOKHeader, SendFile, Busy,
       HandlerFrame, clientVars, world
  <2>2. QED
    BY <2>1, BusyClient DEF IInv, TypeOK
<1>2. \A part, step : sent' = [sent EXCEPT ![c] = Append(@, part)]
                        => sent'[c] = Append(sent[c], part)
  BY <1>1
<1> HIDE DEF c
<1>3. CASE ReceiveData(w)
  <2>frame. StepFrame(c)
    BY <1>3 DEF ReceiveData, StepFrame, c
  <2>1. CASE /\ request[c] # "none" \/ link[c] = "left"
             /\ GoTo(w, FirstStep(request[c]))
             /\ UNCHANGED request
    <3>1. FirstStep(request[c]) \in Steps \ {"getItem"}
      BY DEF FirstStep, Steps
    <3>2. AtStep(FirstStep(request[c]), c)'
      BY <1>1, <1>3, <2>1 DEF AtStep, FirstStep, Settled, ReceiveData, GoTo
    <3>3. QED
      BY <1>1, <2>frame, <2>1, <3>1, <3>2, MoveKeeps DEF GoTo, c
  <2>2. CASE /\ request[c] # "none"
             /\ request' = [request EXCEPT ![c] = "bad"]
             /\ GoTo(w, "bad")
    <3>1. AtStep("bad", c)'
      BY <1>1, <1>3, <2>2 DEF AtStep, Settled, ReceiveData, GoTo
    <3>2. QED
      BY <1>1, <2>frame, <2>2, <3>1, MoveKeeps DEF GoTo, Steps, c
  <2>3. CASE link[c] = "reset" /\ Terminate /\ UNCHANGED request
    BY <1>1, <1>3, <2>3, TerminateKeeps
       DEF MayThrow, ReceiveData, HandlerFrame, clientVars, c
  <2>4. QED
    BY <1>3, <2>1, <2>2, <2>3 DEF ReceiveData, c
<1> SUFFICES ASSUME ~ReceiveData(w) PROVE IInv'
  BY <1>3
<1>frame. /\ HandlerFrame /\ StepFrame(c)
          /\ request' = request /\ request[c] \in RequestKind \cup {"none"}
  <2>1. HandlerFrame
    BY DEF HandleClient, RespondWith400, CheckExists, RespondWith404, CheckKind,
       SendListing, SendListingBody, SendOKHeader, SendFile
  <2>2. QED
    BY <1>1, <2>1 DEF HandlerFrame, StepFrame, clientVars
<1>4. CASE RespondWith400(w)
  <2>1. sent' = [sent EXCEPT ![c] = Append(@, "400")] => AtStep("close", c)'
    BY <1>1, <1>frame, <1>2, <1>4 DEF AtStep, Settled, Answers, RespondWith400
  <2>2. QED
    BY <1>1, <1>frame, <1>4, <2>1, SendDataKeeps DEF RespondWith400, Steps, c
<1>5. CASE CheckExists(w)
  <2>0. CASE request[c] \in forbidden /\ Terminate
    BY <1>1, <1>frame, <2>0, TerminateKeeps DEF MayThrow, c
  <2> SUFFICES ASSUME ~(request[c] \in forbidden /\ Terminate) PROVE IInv'
    BY <2>0
  <2>1. PICK step \in {"kind", "missing"} :
           /\ at' = [at EXCEPT ![w] = step] /\ UNCHANGED <<up, sent, closed>>
           /\ at[w] = "exists" /\ (step = "kind" <=> request[c] \in present)
    BY <1>5 DEF CheckExists, GoTo, c
  <2>2. request[c] \in present => request[c] \in Resource
    BY DEF IInv, TypeOK
  <2>3. /\ sent'[c] = <<>> /\ Settled(c)' /\ request'[c] \notin {"none", "bad"}
        /\ step = "missing" => request'[c] \notin present'
        /\ step = "kind" => request'[c] \in Resource
    BY <1>1, <1>frame, <2>1, <2>2 DEF AtStep, Settled
  <2>4. AtStep(step, c)'
    BY <1>1, <1>frame, <2>3 DEF AtStep
  <2>5. QED
    BY <1>1, <1>frame, <2>1, <2>4, MoveKeeps DEF Steps, c
<1>6. CASE RespondWith404(w)
  <2>1. CASE at[w] = "missing" /\ SendData(w, "404", "missing_body")
    <3>1. sent' = [sent EXCEPT ![c] = Append(@, "404")] => AtStep("missing_body", c)'
      BY <1>1, <1>frame, <1>2, <2>1 DEF AtStep, Settled
    <3>2. QED
      BY <1>1, <1>frame, <2>1, <3>1, SendDataKeeps DEF Steps, c
  <2>2. CASE at[w] = "missing_body" /\ SendData(w, "body", "close")
    <3>1. sent' = [sent EXCEPT ![c] = Append(@, "body")] => AtStep("close", c)'
      <4>1. /\ sent[c] = <<"404">> /\ Settled(c)
            /\ request[c] \notin present \cup {"none", "bad"}
        BY <1>1, <1>frame, <2>2 DEF AtStep
      <4>2. <<"404", "body">> \in Answers(c)'
        BY <1>1, <1>frame, <4>1 DEF Answers
      <4>3. QED
        BY <1>1, <1>frame, <1>2, <4>1, <4>2, TwoParts DEF AtStep, Settled
    <3>2. QED
      BY <1>1, <1>frame, <2>2, <3>1, SendDataKeeps DEF Steps, c
  <2>3. QED
    BY <1>6, <2>1, <2>2 DEF RespondWith404
<1>7. CASE CheckKind(w)
  <2>0. CASE request[c] \in forbidden \cup (present \cap {"opaque"}) /\ Terminate
    BY <1>1, <1>frame, <2>0, TerminateKeeps DEF MayThrow, c
  <2> SUFFICES ASSUME ~(request[c] \in forbidden \cup (present \cap {"opaque"}) /\ Terminate)
               PROVE  IInv'
    BY <2>0
  <2>1. PICK step \in Respond(request[c]) :
           /\ at' = [at EXCEPT ![w] = step] /\ UNCHANGED <<up, sent, closed>>
           /\ at[w] = "kind"
    BY <1>7 DEF CheckKind, GoTo, c
  <2>2. AtStep(step, c)'
    BY <1>1, <1>frame, <2>1 DEF AtStep, Settled, Answers, Resource, Respond
  <2>3. QED
    BY <1>1, <1>frame, <2>1, <2>2, MoveKeeps DEF Steps, Respond, c
<1>8. CASE SendListing(w)
  <2>1. CASE /\ request[c] \in present \ (forbidden \cup {"opaque"})
             /\ SendData(w, "200", "list_body")
    <3>1. sent' = [sent EXCEPT ![c] = Append(@, "200")] => AtStep("list_body", c)'
      BY <1>1, <1>frame, <1>2, <1>8, <2>1 DEF AtStep, Settled, SendListing
    <3>2. QED
      BY <1>1, <1>frame, <2>1, <3>1, SendDataKeeps DEF Steps, c
  <2>2. CASE request[c] \notin present \ (forbidden \cup {"opaque"}) /\ Terminate
    <3>1. MayThrow(c)
      BY <1>1, <1>8, <2>2 DEF SendListing, AtStep, Resource, MayThrow
    <3>2. QED
      BY <1>1, <1>frame, <2>2, <3>1, TerminateKeeps DEF c
  <2>3. QED
    BY <1>8, <2>1, <2>2 DEF SendListing, c
<1>9. CASE SendListingBody(w)
  <2>1. sent' = [sent EXCEPT ![c] = Append(@, "body")] => AtStep("close", c)'
    <3>1. sent[c] = <<"200">> /\ Settled(c) /\ request[c] = "listing"
      BY <1>1, <1>frame, <1>9 DEF AtStep, SendListingBody
    <3>2. <<"200", "body">> \in Answers(c)'
      BY <1>1, <1>frame, <3>1 DEF Answers
    <3>3. QED
      BY <1>1, <1>frame, <1>2, <3>1, <3>2, TwoParts DEF AtStep, Settled
  <2>2. QED
    BY <1>1, <1>frame, <1>9, <2>1, SendDataKeeps DEF SendListingBody, Steps, c
<1>10. CASE SendOKHeader(w)
  <2>1. CASE /\ request[c] \in present \ (forbidden \cup {"opaque"})
             /\ SendData(w, "200", "body")
    <3>1. sent' = [sent EXCEPT ![c] = Append(@, "200")] => AtStep("body", c)'
      BY <1>1, <1>frame, <1>2, <1>10, <2>1 DEF AtStep, Settled, SendOKHeader
    <3>2. QED
      BY <1>1, <1>frame, <2>1, <3>1, SendDataKeeps DEF Steps, c
  <2>2. CASE request[c] \notin present \ (forbidden \cup {"opaque"}) /\ Terminate
    <3>1. MayThrow(c)
      BY <1>1, <1>10, <2>2 DEF SendOKHeader, AtStep, MayThrow
    <3>2. QED
      BY <1>1, <1>frame, <2>2, <3>1, TerminateKeeps DEF c
  <2>3. QED
    BY <1>10, <2>1, <2>2 DEF SendOKHeader, c
<1>11. CASE SendFile(w)
  <2>1. CASE /\ request[c] \in present \ (forbidden \cup {"unreadable"})
             /\ SendData(w, "body", "close")
    <3>1. sent' = [sent EXCEPT ![c] = Append(@, "body")] => AtStep("close", c)'
      <4>1. sent[c] = <<"200">> /\ Settled(c) /\ request[c] \in Resource \ {"special"}
        BY <1>1, <1>frame, <1>11 DEF AtStep, SendFile
      <4>2. <<"200", "body">> \in Answers(c)'
        BY <1>1, <1>frame, <4>1 DEF Answers, Resource
      <4>3. QED
        BY <1>1, <1>frame, <1>2, <4>1, <4>2, TwoParts DEF AtStep, Settled
    <3>2. QED
      BY <1>1, <1>frame, <2>1, <3>1, SendDataKeeps DEF Steps, c
  <2>2. CASE GoTo(w, "spin")
    <3>1. AtStep("spin", c)'
      BY <1>1, <1>frame, <1>11, <2>2 DEF AtStep, Settled, SendFile, GoTo
    <3>2. QED
      BY <1>1, <1>frame, <2>2, <3>1, MoveKeeps DEF GoTo, Steps, c
  <2>3. QED
    BY <1>11, <2>1, <2>2 DEF SendFile, c
<1>12. QED
  BY <1>4, <1>5, <1>6, <1>7, <1>8, <1>9, <1>10, <1>11 DEF HandleClient

\* A client whose connection is closed has had its answer; the worker looks again.
LEMMA CloseKeeps ==
  ASSUME IInv, NEW w \in Workers, CloseClient(w)
  PROVE  IInv'
<1>1. /\ at[w] = "close" /\ w \in Busy /\ up
      /\ closed' = closed \cup {client[w]}
      /\ at' = [at EXCEPT ![w] = "getItem"] /\ client' = [client EXCEPT ![w] = 0]
      /\ request' = request /\ link' = link /\ present' = present /\ sent' = sent
      /\ buffer' = buffer /\ dataWaiters' = dataWaiters /\ spaceWaiters' = spaceWaiters
      /\ accepted' = accepted /\ mainAt' = mainAt /\ arrived' = arrived
      /\ forbidden' = forbidden /\ mishaps' = mishaps /\ up' = up
  BY DEF CloseClient, bufferVars, mainVars, clientVars, world, Busy
<1>2. TypeOK
  BY DEF IInv
<1>3. client[w] \in Clients /\ client[w] \in 1..Taken /\ AtStep("close", client[w])
  BY <1>1, BusyClient
<1>4. TypeOK'
  BY <1>1, <1>2, <1>3, ServerAssumption DEF TypeOK
<1>5. /\ Taken' = Taken /\ Busy' = Busy \ {w} /\ at'[w] = "getItem" /\ client'[w] = 0
      /\ \A v \in Workers : v # w => at'[v] = at[v] /\ client'[v] = client[v]
  BY <1>1, <1>2 DEF Taken, Busy, TypeOK
<1>6. IdleInv'
  BY <1>1, <1>2, <1>5 DEF IInv, IdleInv, TypeOK
<1>7. EachConnectionOnce'
  <2>1. {client'[v] : v \in Busy'} = {client[v] : v \in Busy \ {w}}
    BY <1>5 DEF Busy
  <2>2. {client[v] : v \in Busy} = {client[v] : v \in Busy \ {w}} \cup {client[w]}
    BY <1>1
  <2>3. \A v \in Busy \ {w} : client'[v] = client[v] /\ client[v] # client[w]
    BY <1>1, <1>5 DEF IInv, EachConnectionOnce, Busy
  <2>4. QED
    BY <1>1, <1>5, <2>1, <2>2, <2>3 DEF IInv, EachConnectionOnce
<1>8. NoLostWakeup'
  <2>1. Looking \subseteq Looking'
    BY <1>1, <1>5 DEF Looking
  <2>2. QED
    BY <1>1, <1>2, <1>4, <2>1, WakeupKept DEF IInv
<1>9. UnsentInv' /\ CrashHasACause'
  BY <1>1, <1>5 DEF IInv, UnsentInv, CrashHasACause
<1>10. ClosedInv'
  BY <1>1, <1>3 DEF IInv, ClosedInv, AtStep, Settled, Answers
<1>11. StepInv'
  <2> SUFFICES ASSUME NEW v \in Busy \ {w} PROVE AtStep(at[v], client[v])'
    BY <1>5 DEF StepInv
  <2>1. AtStep(at[v], client[v]) /\ at'[v] = at[v] /\ client'[v] = client[v]
    BY <1>5, BusyClient DEF Busy
  <2>2. QED
    BY <1>1, <2>1 DEF AtStep, Settled, Answers
<1>12. QED
  BY <1>4, <1>6, <1>7, <1>8, <1>9, <1>10, <1>11 DEF IInv

-----------------------------------------------------------------------------
(* The theorems. *)

\* Nothing has happened when the server starts.
LEMMA InitIInv == Init => IInv
<1> SUFFICES ASSUME Init PROVE IInv
  OBVIOUS
<1>1. buffer = <<>> /\ Len(buffer) = 0 /\ DOMAIN buffer = {} /\ buffer \in Seq(Clients)
  BY DEF Init, BufferInit
<1>2. TypeOK
  BY <1>1, CapacityAssumption, ServerAssumption
     DEF Init, BufferInit, TypeOK, Resource
<1>3. Taken = 0 /\ Busy = {}
  <2>1. Taken = accepted - Len(buffer)
    BY <1>2, TakenFacts DEF Init
  <2>2. Busy = {}
    BY DEF Init, Busy
  <2>3. QED
    BY <1>1, <2>1, <2>2 DEF Init
<1>4. IdleInv /\ NoLostWakeup /\ StepInv /\ UnsentInv /\ ClosedInv
      /\ CrashHasACause
  BY <1>3, ServerAssumption DEF Init, BufferInit, IdleInv, NoLostWakeup,
     StepInv, UnsentInv, ClosedInv, CrashHasACause
<1>5. EachConnectionOnce
  BY <1>1, <1>3 DEF Init, EachConnectionOnce
<1>6. QED
  BY <1>2, <1>4, <1>5 DEF IInv

\* Every step of the clients, the main thread and the workers keeps the invariant.
LEMMA StepIInv == IInv /\ [Next]_vars => IInv'
<1> SUFFICES ASSUME IInv, [Next]_vars PROVE IInv'
  OBVIOUS
<1>1. CASE UNCHANGED vars
  BY <1>1 DEF vars, bufferVars, mainVars, workerVars, clientVars, world, IInv, TypeOK,
     IdleInv, EachConnectionOnce, NoLostWakeup, StepInv, UnsentInv, ClosedInv,
     CrashHasACause, MayThrow, AtStep, Settled, Answers, Taken, Busy, Looking
<1>2. CASE Arrive
  BY <1>2, ArriveKeeps
<1>3. ASSUME NEW c \in Clients, SendRequest(c) \/ Break(c) PROVE IInv'
  BY <1>3, SendRequestKeeps, BreakKeeps
<1>4. ASSUME NEW r \in present, Remove(r) \/ Forbid(r) PROVE IInv'
  BY <1>4, RemoveKeeps, ForbidKeeps
<1>5. CASE AcceptConnection
  BY <1>5, AcceptKeeps
<1>6. CASE PutItem
  BY <1>6, PutWaitsKeeps, PutAddsKeeps DEF PutItem
<1>7. ASSUME NEW w \in Workers, GetItem(w) PROVE IInv'
  BY <1>7, GetWaitsKeeps, GetTakesKeeps DEF GetItem
<1>8. ASSUME NEW w \in Workers, HandleClient(w) PROVE IInv'
  BY <1>1, <1>8, HandlerKeeps, CloseKeeps DEF Spin
<1>9. ASSUME NEW t \in Workers \cup {Main}, Wakeup(t) PROVE IInv'
  BY <1>9, WakeupKeeps
<1>10. QED
  BY <1>1, <1>2, <1>3, <1>4, <1>5, <1>6, <1>7, <1>8, <1>9 DEF Next, MainNext, Ended

\* In every behaviour the inductive invariant holds throughout.
THEOREM ServerInvariance == Spec => []IInv
<1>1. IInv /\ [Next]_vars => IInv'
  BY StepIInv
<1>2. QED
  BY <1>1, InitIInv, PTL DEF Spec

\* Whatever threads and clients do, each variable keeps its type; in particular the
\* buffer never holds more than its capacity.
THEOREM ServerTypeCorrect == Spec => []TypeOK
<1>1. IInv => TypeOK
  BY DEF IInv
<1>2. QED
  BY <1>1, ServerInvariance, PTL

\* For any number of workers and any capacity: while one sleeps in getItem, enough
\* others are about to look for every connection in the buffer.
THEOREM NoWakeupIsLost == Spec => []NoLostWakeup
<1>1. IInv => NoLostWakeup
  BY DEF IInv
<1>2. QED
  BY <1>1, ServerInvariance, PTL

\* No connection is lost between the threads, handled by two workers, or touched
\* again after it was closed.
THEOREM ConnectionsHandledOnce == Spec => []EachConnectionOnce
<1>1. IInv => EachConnectionOnce
  BY DEF IInv
<1>2. QED
  BY <1>1, ServerInvariance, PTL

\* Whenever files vanish and clients leave, a connection is closed after one whole
\* answer to its own request, or none where the code has none.
THEOREM WholeAnswers == Spec => []OneWholeAnswer
<1>1. IInv => OneWholeAnswer
  BY DEF IInv, ClosedInv, OneWholeAnswer
<1>2. QED
  BY <1>1, ServerInvariance, PTL

\* The process ends only while a worker serves a client that broke its connection, or
\* one whose request names what the file system does not let the server look at: any
\* other request leaves it up.
THEOREM CrashesHaveACause == Spec => []CrashHasACause
<1>1. IInv => CrashHasACause
  BY DEF IInv
<1>2. QED
  BY <1>1, ServerInvariance, PTL

-----------------------------------------------------------------------------
(* The refinement of WorkerPool. *)

\* Steps that leave these alone are stuttering steps of the pool.
LEMMA PoolStutters ==
  ASSUME IInv, UNCHANGED <<up, accepted, buffer, mainAt, at, client, closed, sent>>
  PROVE  UNCHANGED Pool!poolVars
  BY DEF Pool!poolVars, Taken

\* Accepting a connection leaves at most one more than the buffer holds pending.
LEMMA AcceptImplements ==
  ASSUME IInv, IInv', AcceptConnection
  PROVE  Pool!Accept
<1>1. /\ up /\ up' = up /\ accepted' = accepted + 1 /\ accepted < arrived
      /\ mainAt = "accept" /\ mainAt' = "putItem" /\ buffer' = buffer
      /\ at' = at /\ client' = client /\ closed' = closed /\ sent' = sent
  BY DEF AcceptConnection, bufferVars, workerVars
<1>2. TypeOK
  BY DEF IInv
<1>3. Taken' = Taken
  BY <1>1, <1>2, TakenFacts DEF Taken
<1>4. accepted < NumClients
  BY <1>1, <1>2, ServerAssumption, TakenFacts DEF TypeOK
<1>5. accepted - Taken < Capacity + 1
  <2>1. Taken = accepted - Len(buffer) /\ Len(buffer) <= Capacity
    BY <1>1, <1>2, TakenFacts DEF TypeOK
  <2>2. QED
    BY <1>2, <2>1, CapacityAssumption, TakenFacts
<1>6. QED
  BY <1>1, <1>3, <1>4, <1>5 DEF Pool!Accept

\* Putting a connection into the buffer is no step of the pool.
LEMMA PutImplements ==
  ASSUME IInv, PutItem
  PROVE  UNCHANGED Pool!poolVars
<1>1. /\ mainAt = "putItem" /\ accepted' = accepted /\ at' = at /\ client' = client
      /\ closed' = closed /\ sent' = sent /\ up' = up
  BY DEF PutItem, workerVars
<1>2. CASE PutWaits(Main) /\ UNCHANGED mainAt
  BY <1>1, <1>2, PoolStutters DEF PutWaits
<1>3. CASE PutAdds(Main, accepted) /\ mainAt' = "accept"
  <2>1. TypeOK /\ buffer \in Seq(Clients) /\ accepted \in Clients
    <3>1. TypeOK /\ accepted > 0
      BY <1>1 DEF IInv, IdleInv
    <3>2. QED
      BY <3>1, ServerAssumption, TakenFacts DEF TypeOK, Clients
  <2>2. Len(buffer') = Len(buffer) + 1
    BY <1>3, <2>1 DEF PutAdds
  <2>3. Taken' = accepted - (Len(buffer) + 1)
    BY <1>1, <1>3, <2>1, <2>2, TakenFacts DEF Taken
  <2>4. Taken' = Taken
    BY <1>1, <2>1, <2>3, TakenFacts
  <2>5. QED
    BY <1>1, <2>4 DEF Pool!poolVars
<1>4. QED
  BY <1>2, <1>3 DEF PutItem

\* Taking a connection out of the buffer begins its service.
LEMMA GetImplements ==
  ASSUME IInv, NEW w \in Workers, GetItem(w)
  PROVE  Pool!Begin(w) \/ UNCHANGED Pool!poolVars
<1>1. /\ up /\ up' = up /\ at[w] = "getItem" /\ accepted' = accepted /\ mainAt' = mainAt
      /\ closed' = closed /\ sent' = sent
  BY DEF GetItem, mainVars
<1>2. CASE GetWaits(w) /\ UNCHANGED workerVars
  BY <1>1, <1>2, PoolStutters DEF GetWaits, workerVars
<1>3. CASE /\ GetTakes(w)
           /\ client' = [client EXCEPT ![w] = Head(buffer)]
           /\ at' = [at EXCEPT ![w] = "receiveData"]
  <2>1. TypeOK /\ Len(buffer) > 0 /\ buffer' = Tail(buffer) /\ buffer # <<>>
    BY <1>3 DEF IInv, TypeOK, GetTakes
  <2>2. /\ Len(Tail(buffer)) = Len(buffer) - 1 /\ Head(buffer) = buffer[1]
        /\ DOMAIN buffer = 1..Len(buffer)
    <3>1. buffer \in Seq(Clients)
      BY <2>1 DEF TypeOK
    <3>2. QED
      BY <2>1, <3>1, HeadTailProperties, LenProperties
  <2>3. Head(buffer) = Taken + 1
    BY <2>1, <2>2, TakenFacts DEF IInv, EachConnectionOnce
  <2>4. Taken' = Taken + 1 /\ Taken < accepted
    <3>1. Taken' = Taken + 1
      BY <1>1, <2>1, <2>2, TakenFacts DEF Taken
    <3>2. mainAt \in {"accept", "putItem"}
      BY <2>1 DEF TypeOK
    <3>3. QED
      BY <2>1, <3>1, <3>2, TakenFacts
  <2>5. client[w] = 0
    BY <1>1 DEF IInv, IdleInv
  <2>6. QED
    BY <1>1, <1>3, <2>3, <2>4, <2>5 DEF Pool!Begin
<1>4. QED
  BY <1>2, <1>3 DEF GetItem

\* sendData gives the client the next part of its answer.
LEMMA SendDataImplements ==
  ASSUME IInv, NEW w \in Busy, up, HandlerFrame,
         NEW part \in {"200", "400", "404", "body"}, NEW step \in Steps,
         SendData(w, part, step),
         \/ sent[client[w]] = <<>> /\ part # "body"
         \/ sent[client[w]] \in {<<"200">>, <<"404">>} /\ part = "body"
  PROVE  Pool!Answer(w) \/ Pool!Crash
<1>1. /\ client' = client /\ accepted' = accepted /\ mainAt' = mainAt /\ buffer' = buffer
      /\ Taken' = Taken
  BY DEF HandlerFrame, mainVars, bufferVars, Taken
<1>2. /\ client[w] # 0 /\ client[w] \in Clients
      /\ sent \in [Clients -> Seq({"200", "400", "404", "body"})]
  <2>1. client[w] \in Clients
    BY BusyClient
  <2>2. client[w] # 0
    BY <2>1, ServerAssumption DEF Clients
  <2>3. sent \in [Clients -> Seq({"200", "400", "404", "body"})]
    BY DEF IInv, TypeOK
  <2>4. QED
    BY <2>1, <2>2, <2>3
<1>3. CASE Terminate
  BY <1>1, <1>3 DEF Terminate, Pool!Crash
<1>4. CASE /\ sent' = [sent EXCEPT ![client[w]] = Append(@, part)]
           /\ UNCHANGED <<up, closed>>
  <2>1. CASE sent[client[w]] = <<>> /\ part # "body"
    <3>1. Append(sent[client[w]], part) = <<part>>
      BY <2>1
    <3>2. Pool!Header(client[w], part)
      BY <1>4, <2>1, <3>1 DEF Pool!Header
    <3>3. QED
      BY <1>1, <1>2, <1>4, <2>1, <3>2 DEF Pool!Answer
  <2>2. CASE sent[client[w]] \in {<<"200">>, <<"404">>} /\ part = "body"
    <3>1. Pool!Body(client[w])
      BY <1>4, <2>2 DEF Pool!Body
    <3>2. QED
      BY <1>1, <1>2, <1>4, <3>1 DEF Pool!Answer
  <2>3. QED
    BY <2>1, <2>2
<1>5. QED
  BY <1>3, <1>4 DEF SendData

\* A step of handleClient sends a part, ends the process, or nobody sees it.
LEMMA HandlerImplements ==
  ASSUME IInv, NEW w \in Workers, HandleClient(w), ~CloseClient(w), ~Spin(w)
  PROVE  Pool!Answer(w) \/ Pool!Crash \/ UNCHANGED Pool!poolVars
<1>1. /\ w \in Busy /\ up /\ UNCHANGED <<bufferVars, mainVars, client>>
      /\ ReceiveData(w) \/ HandlerFrame
      /\ AtStep(at[w], client[w])
  <2>1. /\ w \in Busy /\ up /\ UNCHANGED <<bufferVars, mainVars, client>>
        /\ ReceiveData(w) \/ HandlerFrame
    BY DEF HandleClient, ReceiveData, RespondWith400, CheckExists, RespondWith404,
       CheckKind, SendListing, SendListingBody, SendOKHeader, SendFile, Busy, HandlerFrame
  <2>2. QED
    BY <2>1, BusyClient
<1>2. ASSUME NEW step, GoTo(w, step) PROVE UNCHANGED Pool!poolVars
  BY <1>1, <1>2 DEF GoTo, bufferVars, mainVars, Pool!poolVars, Taken
<1>3. ASSUME Terminate PROVE Pool!Crash
  BY <1>1, <1>3 DEF Terminate, bufferVars, mainVars, Pool!Crash, Taken
<1>4. CASE ReceiveData(w) \/ CheckExists(w) \/ CheckKind(w)
  BY <1>2, <1>3, <1>4 DEF ReceiveData, CheckExists, CheckKind
<1>5. CASE RespondWith400(w)
  BY <1>1, <1>5, SendDataImplements DEF RespondWith400, AtStep, Steps
<1>6. CASE RespondWith404(w)
  <2> HandlerFrame
    BY <1>6 DEF RespondWith404
  <2>1. CASE at[w] = "missing" /\ SendData(w, "404", "missing_body")
    BY <1>1, <2>1, SendDataImplements DEF AtStep, Steps
  <2>2. CASE at[w] = "missing_body" /\ SendData(w, "body", "close")
    BY <1>1, <2>2, SendDataImplements DEF AtStep, Steps
  <2>3. QED
    BY <1>6, <2>1, <2>2 DEF RespondWith404
<1>7. CASE SendListing(w)
  BY <1>1, <1>3, <1>7, SendDataImplements DEF SendListing, AtStep, Steps
<1>8. CASE SendListingBody(w)
  BY <1>1, <1>8, SendDataImplements DEF SendListingBody, AtStep, Steps
<1>9. CASE SendOKHeader(w)
  BY <1>1, <1>3, <1>9, SendDataImplements DEF SendOKHeader, AtStep, Steps
<1>10. CASE SendFile(w)
  BY <1>1, <1>2, <1>10, SendDataImplements DEF SendFile, AtStep, Steps
<1>11. QED
  BY <1>4, <1>5, <1>6, <1>7, <1>8, <1>9, <1>10 DEF HandleClient

\* Closing the connection ends its service between two answers.
LEMMA CloseImplements ==
  ASSUME IInv, NEW w \in Workers, CloseClient(w)
  PROVE  Pool!Close(w)
<1>1. w \in Busy /\ AtStep("close", client[w]) /\ client[w] # 0
  BY BusyClient, ServerAssumption DEF CloseClient, Busy, Clients
<1>2. sent[client[w]] \in {<<"400">>, <<"404", "body">>, <<"200", "body">>, <<>>}
  BY <1>1 DEF AtStep, Answers
<1>3. sent[client[w]] \notin {<<"200">>, <<"404">>}
  <2>1. /\ <<>> # <<"200">> /\ <<>> # <<"404">> /\ <<"400">> # <<"200">>
        /\ <<"400">> # <<"404">>
    OBVIOUS
  <2>2. ASSUME NEW status \in {"404", "200"}
        PROVE  <<status, "body">> # <<"200">> /\ <<status, "body">> # <<"404">>
    OBVIOUS
  <2>3. QED
    BY <1>2, <2>1, <2>2, Zenon
<1>4. Taken' = Taken
  BY DEF CloseClient, bufferVars, mainVars, Taken
<1>5. QED
  BY <1>1, <1>3, <1>4 DEF CloseClient, mainVars, Pool!Close

\* The server implements the pool: every step of its threads is a step of the pool
\* or none that a client could see.
THEOREM ServerRefinement == Spec => ImplementsWorkerPool
<1>1. Init => Pool!PoolInit
  <2> SUFFICES ASSUME Init PROVE Pool!PoolInit
    OBVIOUS
  <2>1. TypeOK
    BY InitIInv DEF IInv
  <2>2. Taken = accepted - Len(buffer) /\ Len(buffer) = 0
    BY <2>1, TakenFacts DEF Init, BufferInit
  <2>3. Taken = 0
    BY <2>2 DEF Init
  <2>4. QED
    BY <2>3 DEF Init, Pool!PoolInit, Clients
<1>2. IInv /\ IInv' /\ [Next]_vars => [Pool!PoolNext]_(Pool!poolVars)
  <2> SUFFICES ASSUME IInv, IInv', [Next]_vars
               PROVE  Pool!PoolNext \/ UNCHANGED Pool!poolVars
    OBVIOUS
  <2>1. CASE UNCHANGED vars
    BY <2>1, PoolStutters DEF vars, bufferVars, mainVars, workerVars
  <2>2. CASE Arrive \/ \E c \in Clients : SendRequest(c) \/ Break(c)
    BY <2>2, PoolStutters DEF Arrive, SendRequest, Break, bufferVars, mainVars, workerVars
  <2>3. CASE \E r \in present : Remove(r) \/ Forbid(r)
    BY <2>3, PoolStutters DEF Remove, Forbid, bufferVars, mainVars, workerVars
  <2>4. CASE MainNext
    BY <2>4, AcceptImplements, PutImplements DEF MainNext, Pool!PoolNext
  <2>5. ASSUME NEW w \in Workers, GetItem(w)
        PROVE  Pool!PoolNext \/ UNCHANGED Pool!poolVars
    BY <2>5, GetImplements DEF Pool!PoolNext
  <2>6. ASSUME NEW w \in Workers, HandleClient(w)
        PROVE  Pool!PoolNext \/ UNCHANGED Pool!poolVars
    BY <2>1, <2>6, HandlerImplements, CloseImplements DEF Spin, Pool!PoolNext
  <2>7. CASE \E t \in Workers \cup {Main} : Wakeup(t)
    BY <2>7, PoolStutters DEF Wakeup, SpuriousWakeup, mainVars, workerVars
  <2>8. QED
    BY <2>1, <2>2, <2>3, <2>4, <2>5, <2>6, <2>7 DEF Next, Ended
<1>3. QED
  BY <1>1, <1>2, ServerInvariance, PTL DEF Spec, ImplementsWorkerPool, Pool!PoolSpec
=============================================================================
