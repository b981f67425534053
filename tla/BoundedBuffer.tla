--------------------------- MODULE BoundedBuffer ---------------------------
(***************************************************************************)
(* ToreroServe's BoundedBuffer: a queue, a mutex and the two condition     *)
(* variables data_available and space_available.                           *)
(*                                                                         *)
(* A thread holds shared_mutex from the top of getItem or putItem until it *)
(* returns or waits, and a woken thread takes it again before it looks at  *)
(* the size again.  So the code between taking and releasing the mutex is  *)
(* one action, and a thread that is in getItem and in no wait set is about *)
(* to take the mutex.  A wait may also end spuriously.                     *)
(***************************************************************************)
EXTENDS Naturals, Sequences

CONSTANT Capacity  \* BoundedBuffer::capacity; runServer takes 5

ASSUME CapacityAssumption == Capacity \in Nat \ {0}

VARIABLES
  buffer,       \* BoundedBuffer::buffer, the front first
  dataWaiters,  \* the threads that wait on data_available
  spaceWaiters  \* the threads that wait on space_available

bufferVars == <<buffer, dataWaiters, spaceWaiters>>

BufferInit == buffer = <<>> /\ dataWaiters = {} /\ spaceWaiters = {}

\* Mutant: the notification reaches nobody.
NotifyNobody(waiters) == {waiters}

\* The wait sets that notify_one may leave behind: one thread fewer, if any.
NotifyOne(waiters) ==
  IF waiters = {} THEN {waiters} ELSE {waiters \ {t} : t \in waiters}

\* getItem finds the buffer empty.
GetWaits(t) ==
  /\ t \notin dataWaiters
  /\ Len(buffer) = 0
  /\ dataWaiters' = dataWaiters \cup {t}
  /\ UNCHANGED <<buffer, spaceWaiters>>

\* Mutant: the item is read but not popped.
GetLeavesItem(t) ==
  /\ t \notin dataWaiters
  /\ Len(buffer) > 0
  /\ UNCHANGED bufferVars

\* getItem pops the front.  Nobody who waits for space is notified.
GetTakes(t) ==
  /\ t \notin dataWaiters
  /\ Len(buffer) > 0
  /\ buffer' = Tail(buffer)
  /\ UNCHANGED <<dataWaiters, spaceWaiters>>

\* putItem finds the buffer full.
PutWaits(t) ==
  /\ t \notin spaceWaiters
  /\ Len(buffer) = Capacity
  /\ spaceWaiters' = spaceWaiters \cup {t}
  /\ UNCHANGED <<buffer, dataWaiters>>

\* Mutants: the size is not compared; data_available is notified only when the
\* buffer was empty.
PutAddsAlways(t, item) ==
  /\ t \notin spaceWaiters
  /\ buffer' = Append(buffer, item)
  /\ dataWaiters' \in NotifyOne(dataWaiters)
  /\ UNCHANGED spaceWaiters

PutNotifiesWhenEmpty(t, item) ==
  /\ t \notin spaceWaiters
  /\ Len(buffer) # Capacity
  /\ buffer' = Append(buffer, item)
  /\ dataWaiters' \in IF buffer = <<>> THEN NotifyOne(dataWaiters) ELSE {dataWaiters}
  /\ UNCHANGED spaceWaiters

\* putItem adds the item at the back and notifies one thread that waits for data.
PutAdds(t, item) ==
  /\ t \notin spaceWaiters
  /\ Len(buffer) # Capacity
  /\ buffer' = Append(buffer, item)
  /\ dataWaiters' \in NotifyOne(dataWaiters)
  /\ UNCHANGED spaceWaiters

\* A wait on either condition variable returns without a notification.
SpuriousWakeup(t) ==
  /\ t \in dataWaiters \cup spaceWaiters
  /\ dataWaiters' = dataWaiters \ {t}
  /\ spaceWaiters' = spaceWaiters \ {t}
  /\ UNCHANGED buffer
=============================================================================
