---------------------------- MODULE SensorClient ----------------------------
(***************************************************************************)
(* The client of the sensor network.  For each reading the user asks for   *)
(* it connects to the server hopper, which names a weather station and a   *)
(* password, and then to that station, which is sent the command for the   *)
(* sensor and answers with a line.                                         *)
(*                                                                         *)
(* The program is one thread.  A step is one call of send, recv or         *)
(* connect_to_host with what follows it up to the next; every call may     *)
(* fail.  The peers are known by their lines alone: one that the program   *)
(* can parse, or any other, a cut one or none (recv returned 0) included.  *)
(* Descriptors are numbers that the system uses again once they are        *)
(* closed, the lowest first.                                               *)
(*                                                                         *)
(* After a failed recv, recv_line writes a zero into the byte before the   *)
(* caller's buffer; what the byte holds is not modelled.                   *)
(***************************************************************************)
EXTENDS Integers

CONSTANT MaxDescriptor  \* descriptors are 0..MaxDescriptor

ASSUME DescriptorAssumption == MaxDescriptor \in Nat

\* The values of RequestType that are handled, and no descriptor.
Sensors == {"TEMPERATURE", "HUMIDITY", "WIND_SPEED"}
None == -1

VARIABLES
  at,          \* the step the program is at, see TypeOK
  selection,   \* main_loop's selection
  server_fd,   \* the descriptor of the connection to hopper
  station_fd,  \* weather_station_fd
  buffer,      \* the line that recv_line received last
  open,        \* the descriptors that are open
  commanded    \* the sensor the station was sent the command for

fds == <<server_fd, station_fd>>
vars == <<at, selection, fds, buffer, open, commanded>>

\* What a line holds: a CONNECT with three words, the reading of a sensor, or
\* something else.
Lines == {"CONNECT", "other"} \cup Sensors

-----------------------------------------------------------------------------
(* The helpers. *)

\* exit, or a signal: the system closes what is open.
End == at' = "ended" /\ open' = {}

Free == (0..MaxDescriptor) \ open

\* connect_to_host returns a new descriptor, or ends the program.
connect_to_host(fd) ==
  /\ \A other \in Free : fd <= other
  /\ open' = open \cup {fd}

\* send_text on an error; close of None changes nothing.
SendFails(fd) == open' = open \ {fd}

\* Mutant: the error is reported and the descriptor left to the caller.
RecvFailsOpen(fd) == UNCHANGED open

\* recv_line on an error.
RecvFails(fd) == open' = open \ {fd}

\* Mutant: the old descriptor is returned in its place.
StaleStation ==
  /\ at' = "send_command"
  /\ UNCHANGED station_fd

\* Where handle_request goes when connect_to_weather_station returns -1.
NoStation ==
  /\ at' = "send_command"
  /\ station_fd' = None

\* Mutant: no case for the wind speed, whose command is then uninitialised.
CommandMissing(request) == IF request = "WIND_SPEED" THEN "uninitialised" ELSE request

\* choose_sensor_command: the sensor that the command names.
Command(request) == request

-----------------------------------------------------------------------------
(* main_loop. *)

\* One of the sensors is selected.
Select ==
  /\ at = "menu"
  /\ selection' \in Sensors
  /\ \/ /\ \E fd \in Free : connect_to_host(fd) /\ server_fd' = fd
        /\ at' = "send_auth"
     \/ End /\ UNCHANGED server_fd
  /\ UNCHANGED <<station_fd, buffer, commanded>>

\* Quit, or the end of the input.  An invalid selection changes nothing.
Quit ==
  /\ at = "menu"
  /\ End
  /\ UNCHANGED <<selection, fds, buffer, commanded>>

-----------------------------------------------------------------------------
(* connect_to_weather_station. *)

SendAuth ==
  /\ at = "send_auth"
  /\ \/ at' = "recv_connect" /\ UNCHANGED <<station_fd, open>>
     \/ SendFails(server_fd) /\ NoStation
     \/ End /\ UNCHANGED station_fd
  /\ UNCHANGED <<selection, server_fd, buffer, commanded>>

\* hopper's answer.  Its connection is closed before the answer is parsed.
RecvConnect ==
  /\ at = "recv_connect"
  /\ \/ /\ buffer' = "CONNECT"
        /\ open' = open \ {server_fd}
        /\ at' = "connect_station"
        /\ UNCHANGED station_fd
     \/ /\ buffer' = "other"
        /\ open' = open \ {server_fd}
        /\ NoStation
     \/ RecvFails(server_fd) /\ NoStation /\ UNCHANGED buffer
  /\ UNCHANGED <<selection, server_fd, commanded>>

ConnectStation ==
  /\ at = "connect_station"
  /\ \/ /\ \E fd \in Free : connect_to_host(fd) /\ station_fd' = fd
        /\ at' = "send_station_auth"
     \/ End /\ UNCHANGED station_fd
  /\ commanded' = "none"
  /\ UNCHANGED <<selection, server_fd, buffer>>

SendStationAuth ==
  /\ at = "send_station_auth"
  /\ \/ at' = "recv_station_auth" /\ UNCHANGED <<station_fd, open>>
     \/ SendFails(station_fd) /\ NoStation
     \/ End /\ UNCHANGED station_fd
  /\ UNCHANGED <<selection, server_fd, buffer, commanded>>

\* The station's answer is not looked at, be it a success or a failure.
RecvStationAuth ==
  /\ at = "recv_station_auth"
  /\ \/ buffer' = "other" /\ at' = "send_command" /\ UNCHANGED <<station_fd, open>>
     \/ RecvFails(station_fd) /\ NoStation /\ UNCHANGED buffer
  /\ UNCHANGED <<selection, server_fd, commanded>>

-----------------------------------------------------------------------------
(* get_sensor_data, which is called even if there is no station. *)

SendCommand ==
  /\ at = "send_command"
  /\ \/ /\ station_fd # None
        /\ at' = "recv_reading"
        /\ commanded' = Command(selection)
        /\ UNCHANGED open
     \/ /\ SendFails(station_fd)
        /\ at' = "menu"
        /\ UNCHANGED commanded
     \/ station_fd # None /\ End /\ UNCHANGED commanded
  /\ UNCHANGED <<selection, fds, buffer>>

\* A reading is printed; for any other line the station's connection is closed.
RecvReading ==
  /\ at = "recv_reading"
  /\ \/ /\ buffer' = commanded
        /\ at' = "send_close"
        /\ UNCHANGED open
     \/ /\ buffer' = "other"
        /\ open' = open \ {station_fd}
        /\ at' = "menu"
     \/ RecvFails(station_fd) /\ at' = "menu" /\ UNCHANGED buffer
  /\ UNCHANGED <<selection, fds, commanded>>

SendClose ==
  /\ at = "send_close"
  /\ \/ at' = "menu" /\ open' = open \ {station_fd}
     \/ SendFails(station_fd) /\ at' = "menu"
     \/ End
  /\ UNCHANGED <<selection, fds, buffer, commanded>>

Ended == at = "ended" /\ UNCHANGED vars

-----------------------------------------------------------------------------
Init ==
  /\ at = "menu" /\ selection = "none"
  /\ server_fd = None /\ station_fd = None
  /\ buffer = "other" /\ open = {} /\ commanded = "none"

Next ==
  \/ Select \/ Quit
  \/ SendAuth \/ RecvConnect \/ ConnectStation
  \/ SendStationAuth \/ RecvStationAuth
  \/ SendCommand \/ RecvReading \/ SendClose
  \/ Ended

Spec == Init /\ [][Next]_vars

-----------------------------------------------------------------------------
(* Properties. *)

TypeOK ==
  /\ at \in {"menu", "send_auth", "recv_connect", "connect_station",
            "send_station_auth", "recv_station_auth", "send_command",
            "recv_reading", "send_close", "ended"}
  /\ selection \in Sensors \cup {"none"}
  /\ server_fd \in 0..MaxDescriptor \cup {None}
  /\ station_fd \in 0..MaxDescriptor \cup {None}
  /\ buffer \in Lines
  /\ open \subseteq 0..MaxDescriptor
  /\ commanded \in Sensors \cup {"none"}

\* The steps at which the program talks to hopper, and to the station.
WithServer == at \in {"send_auth", "recv_connect"}
WithStation ==
  at \in {"send_station_auth", "recv_station_auth", "recv_reading", "send_close"}

\* However a request ended, no connection is left open when the menu comes back,
\* and there is never more than one: every error path closes what it must.
NoSocketLeft ==
  /\ at \in {"menu", "connect_station"} => open = {}
  /\ WithServer => open \subseteq {server_fd}
  /\ WithStation \/ at = "send_command" => open \subseteq {station_fd}

\* A descriptor that the program passes to send, recv or close is open, or it is
\* None, on which the call fails and changes nothing: it is never one that was
\* closed before and that may by now be another connection's.
UsesOpenSocket ==
  /\ WithServer => server_fd \in open
  /\ WithStation => station_fd \in open
  /\ at = "send_command" /\ station_fd # None => station_fd \in open
=============================================================================
