---------------------------- MODULE FileTransfer ----------------------------
(***************************************************************************)
(* What project 4 promises to whoever runs ./receiver and ./sender: the    *)
(* chunks of the file come out of receive_data one by one and in order,    *)
(* send_data returns once its chunk is out, and the sender finishes only   *)
(* after the receiver has taken its CLOSE, with the whole file written.    *)
(* There is no network, no segment and no retransmission here.             *)
(***************************************************************************)
EXTENDS Integers, Sequences

CONSTANTS
  NumChunks,      \* the number of chunks of the file
  LastChunkEmpty  \* TRUE: the last of them has no bytes

VARIABLES
  out,     \* the chunks receive_data has returned
  acked,   \* how many calls of send_data have returned
  phase,   \* where the receiver is, see Phases
  finished \* TRUE: the sender's close_connection has returned

abstractVars == <<out, acked, phase, finished>>

\* "cut": the receiver left after an empty chunk, without a CLOSE.
Phases == {"open", "closing", "closed", "cut"}

AbstractInit ==
  /\ out = <<>> /\ acked = 0
  /\ phase = "open" /\ finished = FALSE

\* Stop-and-wait: no chunk comes out before send_data returned for the last.
Deliver ==
  /\ phase = "open"
  /\ acked < NumChunks
  /\ Len(out) = acked
  /\ out' = Append(out, acked + 1)
  /\ UNCHANGED <<acked, phase, finished>>

Acknowledge ==
  /\ acked < Len(out)
  /\ acked' = acked + 1
  /\ UNCHANGED <<out, phase, finished>>

TakeClose ==
  /\ phase = "open" /\ acked = NumChunks
  /\ phase' = "closing"
  /\ UNCHANGED <<out, acked, finished>>

StopLingering ==
  /\ phase = "closing"
  /\ phase' = "closed"
  /\ UNCHANGED <<out, acked, finished>>

\* Only a file that ends in an empty chunk lets the receiver leave like this.
CutShort ==
  /\ LastChunkEmpty
  /\ phase = "open" /\ Len(out) = NumChunks
  /\ phase' = "cut"
  /\ UNCHANGED <<out, acked, finished>>

Finish ==
  /\ phase \in {"closing", "closed"}
  /\ ~finished /\ finished' = TRUE
  /\ UNCHANGED <<out, acked, phase>>

AbstractNext ==
  \/ Deliver \/ Acknowledge
  \/ TakeClose \/ StopLingering \/ CutShort
  \/ Finish

AbstractSpec == AbstractInit /\ [][AbstractNext]_abstractVars
=============================================================================
