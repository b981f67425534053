---------------------------- MODULE RttEstimator ----------------------------
(***************************************************************************)
(* The retransmission timer of ReliableSocket: update_rtt's integer        *)
(* estimate, and the loop of send_until_acked that feeds it and depends on *)
(* it.  RDT leaves out the clock and lets a timeout happen at any moment;  *)
(* this module asks whether the timer is there at all.                     *)
(*                                                                         *)
(* The doubles of update_rtt are exact here (multiples of 1/8 far below    *)
(* 2^53), so an assignment to an int is a division that rounds down.       *)
(***************************************************************************)
EXTENDS Integers

CONSTANTS
  Samples,  \* the round-trip times, in ms, that the sender may measure
  Chunks    \* the number of chunks of the file

ASSUME SampleAssumption == Samples \subseteq Nat
ASSUME ChunksAssumption == Chunks \in Nat

VARIABLES
  estimated_rtt,  \* ReliableSocket::estimated_rtt
  dev_rtt,        \* ReliableSocket::dev_rtt
  timeout,        \* UnreliableSocket::timeout_length; 0 waits for ever
  outstanding,    \* what became of the segment in send_until_acked
  acked,          \* the number of chunks that were acknowledged
  measured        \* history: the round-trip times measured so far

rttVars == <<estimated_rtt, dev_rtt, timeout, outstanding, acked, measured>>

Distance(a, b) == IF a < b THEN b - a ELSE a - b

\* Mutants: the weights of the old estimate and of the sample swapped; an
\* alpha of 1/8 computed in integers, which is 0.
EstimateSwapped(est, sample) == (est + 7 * sample) \div 8
EstimateIntegerAlpha(est, sample) == est

Estimate(est, sample) == (7 * est + sample) \div 8

\* Mutant: the difference without abs.
DeviationSigned(dev, est, sample) == (3 * dev + sample - est) \div 4

Deviation(dev, est, sample) == (3 * dev + Distance(sample, est)) \div 4

\* update_rtt: the deviation is taken from the new estimate.
update_rtt(sample) ==
  /\ estimated_rtt' = Estimate(estimated_rtt, sample)
  /\ dev_rtt' = Deviation(dev_rtt, estimated_rtt', sample)
  /\ timeout' = estimated_rtt' + 4 * dev_rtt'

\* send_until_acked with the next DATA segment of the file.
Transmit ==
  /\ outstanding = "none"
  /\ acked < Chunks
  /\ outstanding' = "underway"
  /\ UNCHANGED <<estimated_rtt, dev_rtt, timeout, acked, measured>>

\* Neither the segment nor its ACK will arrive.
Lose ==
  /\ outstanding = "underway"
  /\ outstanding' = "lost"
  /\ UNCHANGED <<estimated_rtt, dev_rtt, timeout, acked, measured>>

\* SocketTimeout in send_until_acked: the loop sends again.
Retransmit ==
  /\ outstanding \in {"underway", "lost"}
  /\ timeout > 0
  /\ outstanding' = "underway"
  /\ UNCHANGED <<estimated_rtt, dev_rtt, timeout, acked, measured>>

\* The expected ACK, before the timer.  The time was taken at the last
\* transmission and the ACK may answer an earlier one, so that any sample is
\* possible after a retransmission.
Acknowledged(sample) ==
  /\ outstanding = "underway"
  /\ timeout = 0 \/ sample <= timeout
  /\ outstanding' = "none"
  /\ acked' = acked + 1
  /\ measured' = measured \cup {sample}
  /\ update_rtt(sample)

\* The constructor, and connect_to_remote's set_timeout_length.
Init ==
  /\ estimated_rtt = 200 /\ dev_rtt = 10
  /\ timeout = 200 + 4 * 10
  /\ outstanding = "none"
  /\ acked = 0
  /\ measured = {}

Next ==
  \/ Transmit \/ Lose \/ Retransmit
  \/ \E sample \in Samples : Acknowledged(sample)

Spec == Init /\ [][Next]_rttVars

-----------------------------------------------------------------------------
(* Properties. *)

RttTypeOK ==
  /\ estimated_rtt \in Nat /\ dev_rtt \in Nat /\ timeout \in Nat
  /\ outstanding \in {"none", "underway", "lost"}
  /\ acked \in 0..Chunks /\ measured \subseteq Samples

\* After so many samples the truncated average of update_rtt keeps nothing of
\* the 200 ms that the constructor starts with.
Forgotten == 29

\* The timer becomes 0, which to the socket means to wait for ever, only after
\* 29 acknowledged chunks: a shorter file has every lost segment sent again,
\* also when all round trips take 0 ms.  In a longer one the timer may be gone,
\* from the 31st chunk on if they all do, and a lost segment is then never resent.
TimerOutlastsShortFile == timeout = 0 => acked >= Forgotten

\* After 29 chunks the estimate lies between the shortest and the longest round
\* trip measured, whatever their order; the truncation may hold it up to 7 ms
\* too low, and round trips above 200 ms may take longer to raise it.
EstimateFollows ==
  acked >= Forgotten =>
    \E low, high \in measured :
      /\ estimated_rtt <= high
      /\ estimated_rtt >= low - 7 \/ estimated_rtt >= 193
=============================================================================
