---------------------------- MODULE SensorProofs ----------------------------
(***************************************************************************)
(* Proofs about SensorClient, for any number of descriptors.               *)
(*                                                                         *)
(* Two facts are missing from the properties to make them inductive: once  *)
(* a request has begun, a sensor is selected, and while the station's      *)
(* answer is awaited, it was sent some sensor's command.                   *)
(***************************************************************************)
EXTENDS SensorClient, TLAPS

SensorIsSelected == at \notin {"menu", "ended"} => selection \in Sensors

CommandIsSent == at = "recv_reading" => commanded \in Sensors

IInv ==
  /\ TypeOK
  /\ NoSocketLeft
  /\ UsesOpenSocket
  /\ SensorIsSelected
  /\ CommandIsSent

\* None is not a descriptor: closing it closes nothing.
LEMMA NoneIsNoDescriptor == None \notin 0..MaxDescriptor
  BY DescriptorAssumption DEF None

\* When the program starts nothing is open.
LEMMA InitIInv == Init => IInv
  BY DEF Init, IInv, TypeOK, NoSocketLeft, UsesOpenSocket,
         SensorIsSelected, CommandIsSent, WithServer, WithStation, None, Lines

\* Each call of the program, successful or not, keeps the inductive invariant.
LEMMA StepIInv == IInv /\ [Next]_vars => IInv'
<1> SUFFICES ASSUME IInv, [Next]_vars PROVE IInv'
  OBVIOUS
<1> USE NoneIsNoDescriptor
<1> USE DEF IInv, TypeOK, NoSocketLeft, UsesOpenSocket,
            SensorIsSelected, CommandIsSent, WithServer, WithStation, Lines, fds
<1>1. CASE Select
  BY <1>1 DEF Select, connect_to_host, Free, End
<1>2. CASE Quit
  BY <1>2 DEF Quit, End
<1>3. CASE SendAuth
  BY <1>3 DEF SendAuth, SendFails, NoStation, End
<1>4. CASE RecvConnect
  BY <1>4 DEF RecvConnect, RecvFails, NoStation
<1>5. CASE ConnectStation
  BY <1>5 DEF ConnectStation, connect_to_host, Free, End
<1>6. CASE SendStationAuth
  BY <1>6 DEF SendStationAuth, SendFails, NoStation, End
<1>7. CASE RecvStationAuth
  BY <1>7 DEF RecvStationAuth, RecvFails, NoStation
<1>8. CASE SendCommand
  BY <1>8 DEF SendCommand, SendFails, Command, End
<1>9. CASE RecvReading
  BY <1>9 DEF RecvReading, RecvFails
<1>10. CASE SendClose
  BY <1>10 DEF SendClose, SendFails, End
<1>11. CASE UNCHANGED vars
  BY <1>11 DEF vars, fds
<1>12. QED
  BY <1>1, <1>2, <1>3, <1>4, <1>5, <1>6, <1>7, <1>8, <1>9, <1>10, <1>11 DEF Next, Ended

\* In every behaviour the inductive invariant holds throughout.
THEOREM SensorInvariance == Spec => []IInv
<1>1. Init => IInv
  BY InitIInv
<1>2. IInv /\ [Next]_vars => IInv'
  BY StepIInv
<1>3. QED
  BY <1>1, <1>2, PTL DEF Spec

\* Whichever calls of however many requests fail, no connection stays open behind
\* the menu: the program does not run out of descriptors.
THEOREM NoDescriptorLeaks == Spec => []NoSocketLeft
<1>1. IInv => NoSocketLeft
  BY DEF IInv
<1>2. QED
  BY <1>1, SensorInvariance, PTL

\* No send, recv or close gets a descriptor that was closed before, which the
\* system may have given to another connection since.
THEOREM OnlyOpenSockets == Spec => []UsesOpenSocket
<1>1. IInv => UsesOpenSocket
  BY DEF IInv
<1>2. QED
  BY <1>1, SensorInvariance, PTL

\* Selection, step, descriptors and commands stay what they are declared to be.
THEOREM SensorTypeCorrect == Spec => []TypeOK
<1>1. IInv => TypeOK
  BY DEF IInv
<1>2. QED
  BY <1>1, SensorInvariance, PTL
=============================================================================
