----------------------------- MODULE RttProofs -----------------------------
(***************************************************************************)
(* update_rtt for every set of round-trip times, 0 ms included, and every  *)
(* length of the file.  The estimate starts at 200 ms and each sample      *)
(* leaves 7/8 of it, rounded down; Remainder tabulates what is left.  It   *)
(* bounds the estimate from below, so that the timer lasts for 29 chunks,  *)
(* and what the estimate is above the longest sample, so that it follows   *)
(* the samples from then on.                                               *)
(***************************************************************************)
EXTENDS RttEstimator, TLAPS

\* What is left of 200 after k samples of 0.
Left == <<200, 175, 153, 133, 116, 101, 88, 77, 67, 58, 50, 43, 37, 32, 28,
          24, 21, 18, 15, 13, 11, 9, 7, 6, 5, 4, 3, 2, 1, 0>>
Remainder(k) == IF k < Forgotten THEN Left[k + 1] ELSE 0

\* Below, the estimate is at least what is left of 200, and within 7 ms of some
\* sample or above 192; above, it exceeds the longest sample by at most what is left.
EstimateInv ==
  /\ RttTypeOK
  /\ outstanding # "none" => acked < Chunks
  /\ timeout = estimated_rtt + 4 * dev_rtt
  /\ estimated_rtt >= Remainder(acked)
  /\ \/ acked = 0 /\ estimated_rtt = 200
     \/ /\ \E high \in measured : estimated_rtt <= high + Remainder(acked)
        /\ estimated_rtt >= 193 \/ \E low \in measured : estimated_rtt >= low - 7

\* Each sample leaves 7/8 of what is left, rounded down.
LEMMA RemainderStep ==
  ASSUME NEW k \in Nat
  PROVE  /\ Remainder(k) \in Nat
         /\ Remainder(k + 1) \in Nat
         /\ Remainder(k + 1) = (7 * Remainder(k)) \div 8
<1>1. CASE k >= Forgotten
  BY <1>1 DEF Remainder, Forgotten
<1>2. CASE k < Forgotten
  <2>1. k \in 0..9 \/ k \in 10..19 \/ k \in 20..28
    BY <1>2 DEF Forgotten
  <2>2. CASE k \in 0..9
    BY <2>2 DEF Remainder, Forgotten, Left
  <2>3. CASE k \in 10..19
    BY <2>3 DEF Remainder, Forgotten, Left
  <2>4. CASE k \in 20..28
    BY <2>4 DEF Remainder, Forgotten, Left
  <2> QED
    BY <2>1, <2>2, <2>3, <2>4
<1> QED
  BY <1>1, <1>2 DEF Forgotten

\* The integer average keeps a lower bound and a bound above a longest sample,
\* both diminished as Remainder is.
LEMMA EstimateBounds ==
  ASSUME NEW est \in Nat, NEW sample \in Nat, NEW left \in Nat
  PROVE  /\ Estimate(est, sample) \in Nat
         /\ est >= left => Estimate(est, sample) >= (7 * left) \div 8
         /\ \A high \in Nat : est <= high + left /\ sample <= high
              => Estimate(est, sample) <= high + (7 * left) \div 8
  BY DEF Estimate

\* It stays above 192 or within 7 ms of the shortest sample.
LEMMA EstimateFloor ==
  ASSUME NEW est \in Nat, NEW sample \in Nat
  PROVE  /\ est >= 193 =>
              Estimate(est, sample) >= 193 \/ Estimate(est, sample) >= sample - 7
         /\ \A low \in Nat : est >= low - 7 =>
              Estimate(est, sample) >= low - 7 \/ Estimate(est, sample) >= sample - 7
  BY DEF Estimate

\* The deviation is never negative: update_rtt takes the absolute value.
LEMMA DeviationNatural ==
  ASSUME NEW dev \in Nat, NEW est \in Nat, NEW sample \in Nat
  PROVE  Deviation(dev, est, sample) \in Nat
<1>1. Distance(sample, est) \in Nat
  BY DEF Distance
<1> QED
  BY <1>1 DEF Deviation

\* The timer itself is then a natural number.
LEMMA TimerNatural ==
  ASSUME NEW est \in Nat, NEW dev \in Nat
  PROVE  est + 4 * dev \in Nat
  OBVIOUS

LEMMA EstimateInit == Init => EstimateInv
  BY SampleAssumption, ChunksAssumption
     DEF Init, EstimateInv, RttTypeOK, Remainder, Forgotten, Left

\* The actions other than Acknowledged change none of the numbers.
LEMMA EstimateFrame ==
  ASSUME EstimateInv,
         outstanding' \in {"none", "underway", "lost"},
         outstanding' # "none" => acked < Chunks,
         UNCHANGED <<estimated_rtt, dev_rtt, timeout, acked, measured>>
  PROVE  EstimateInv'
  BY DEF EstimateInv, RttTypeOK, Remainder

\* An ACK: the numbers stay natural, and each bound follows from the one before.
LEMMA AcknowledgedStep ==
  ASSUME EstimateInv, NEW sample \in Samples, Acknowledged(sample)
  PROVE  EstimateInv'
<1>1. /\ sample \in Nat /\ Chunks \in Nat
      /\ estimated_rtt \in Nat /\ dev_rtt \in Nat
      /\ acked \in 0..Chunks /\ acked < Chunks
      /\ measured \subseteq Samples /\ Samples \subseteq Nat
  BY SampleAssumption, ChunksAssumption DEF EstimateInv, RttTypeOK, Acknowledged
<1>2. /\ estimated_rtt' = Estimate(estimated_rtt, sample)
      /\ dev_rtt' = Deviation(dev_rtt, estimated_rtt', sample)
      /\ timeout' = estimated_rtt' + 4 * dev_rtt'
      /\ outstanding' = "none"
      /\ acked' = acked + 1
      /\ measured' = measured \cup {sample}
  BY DEF Acknowledged, update_rtt
<1>3. estimated_rtt' \in Nat /\ dev_rtt' \in Nat
  <2>1. estimated_rtt' \in Nat
    BY <1>1, <1>2, RemainderStep, EstimateBounds
  <2> QED
    BY <2>1, <1>1, <1>2, DeviationNatural
<1>4. /\ Remainder(acked) \in Nat /\ Remainder(acked') \in Nat
      /\ Remainder(acked') = (7 * Remainder(acked)) \div 8
  BY <1>1, <1>2, RemainderStep
<1>5. timeout' \in Nat
  BY <1>2, <1>3, TimerNatural
<1>6. RttTypeOK'
  BY <1>1, <1>2, <1>3, <1>5 DEF RttTypeOK
<1>7. estimated_rtt' >= Remainder(acked')
  BY <1>1, <1>2, <1>4, EstimateBounds DEF EstimateInv
<1>8. \E high \in measured' : estimated_rtt' <= high + Remainder(acked')
  <2>1. CASE acked = 0 /\ estimated_rtt = 200
    <3>1. Remainder(acked) = 200
      BY <2>1 DEF Remainder, Forgotten, Left
    <3>2. estimated_rtt <= sample + Remainder(acked) /\ sample <= sample
      BY <2>1, <3>1, <1>1
    <3>3. estimated_rtt' <= sample + Remainder(acked')
      BY <3>2, <1>1, <1>2, <1>4, EstimateBounds
    <3> QED
      BY <3>3, <1>2
  <2>2. ASSUME NEW high \in measured, estimated_rtt <= high + Remainder(acked)
        PROVE  \E h \in measured' : estimated_rtt' <= h + Remainder(acked')
    <3>1. high \in Nat
      BY <1>1
    <3>2. PICK h \in {high, sample} : high <= h /\ sample <= h
      BY <3>1, <1>1
    <3>3. h \in Nat /\ estimated_rtt <= h + Remainder(acked)
      BY <3>1, <3>2, <2>2, <1>1, <1>4
    <3>4. estimated_rtt' <= h + Remainder(acked')
      BY <3>2, <3>3, <1>1, <1>2, <1>4, EstimateBounds
    <3> QED
      BY <3>4, <1>2
  <2> QED
    BY <2>1, <2>2 DEF EstimateInv
<1>9. estimated_rtt' >= 193 \/ \E low \in measured' : estimated_rtt' >= low - 7
  <2>1. CASE estimated_rtt >= 193
    BY <2>1, <1>1, <1>2, EstimateFloor
  <2>2. ASSUME NEW low \in measured, estimated_rtt >= low - 7
        PROVE  \E l \in measured' : estimated_rtt' >= l - 7
    <3>1. low \in Nat
      BY <1>1
    <3>2. estimated_rtt' >= low - 7 \/ estimated_rtt' >= sample - 7
      BY <3>1, <2>2, <1>1, <1>2, EstimateFloor
    <3> QED
      BY <3>2, <1>2
  <2> QED
    BY <2>1, <2>2 DEF EstimateInv
<1> QED
  BY <1>2, <1>6, <1>7, <1>8, <1>9 DEF EstimateInv

LEMMA EstimateStep == EstimateInv /\ [Next]_rttVars => EstimateInv'
<1> SUFFICES ASSUME EstimateInv, [Next]_rttVars PROVE EstimateInv'
  OBVIOUS
<1>1. CASE Transmit
  BY <1>1, EstimateFrame DEF Transmit
<1>2. CASE Lose
  BY <1>2, EstimateFrame DEF Lose, EstimateInv
<1>3. CASE Retransmit
  BY <1>3, EstimateFrame DEF Retransmit, EstimateInv
<1>4. ASSUME NEW sample \in Samples, Acknowledged(sample)
      PROVE  EstimateInv'
  BY <1>4, AcknowledgedStep
<1>5. CASE UNCHANGED rttVars
  BY <1>5, EstimateFrame DEF rttVars, EstimateInv, RttTypeOK
<1> QED
  BY <1>1, <1>2, <1>3, <1>4, <1>5 DEF Next

\* Within the first 29 chunks update_rtt never gives the socket a timer of 0,
\* with which send_until_acked would wait for ever for a lost segment.
THEOREM TimerLasts == Spec => []TimerOutlastsShortFile
<1>1. EstimateInv => TimerOutlastsShortFile
  <2> SUFFICES ASSUME EstimateInv, timeout = 0, acked < Forgotten PROVE FALSE
    BY ChunksAssumption
       DEF TimerOutlastsShortFile, EstimateInv, RttTypeOK, Forgotten
  <2>1. acked \in Nat /\ acked \in 0..28
    BY ChunksAssumption DEF EstimateInv, RttTypeOK, Forgotten
  <2>2. Remainder(acked) >= 1
    <3>1. acked \in 0..14 \/ acked \in 15..28
      BY <2>1
    <3>2. CASE acked \in 0..14
      BY <3>2 DEF Remainder, Forgotten, Left
    <3>3. CASE acked \in 15..28
      BY <3>3 DEF Remainder, Forgotten, Left
    <3> QED
      BY <3>1, <3>2, <3>3
  <2>3. Remainder(acked) \in Nat
    BY <2>1, RemainderStep
  <2> QED
    BY <2>2, <2>3 DEF EstimateInv, RttTypeOK
<1> QED
  BY EstimateInit, EstimateStep, <1>1, PTL DEF Spec

\* After 29 chunks the estimate of update_rtt follows the round trips that were
\* measured and keeps nothing of the constructor's 200 ms.
THEOREM EstimateFollowsSamples == Spec => []EstimateFollows
<1>1. EstimateInv => EstimateFollows
  <2> SUFFICES ASSUME EstimateInv, acked >= Forgotten
               PROVE  \E low, high \in measured :
                        /\ estimated_rtt <= high
                        /\ estimated_rtt >= low - 7 \/ estimated_rtt >= 193
    BY DEF EstimateFollows
  <2>1. acked # 0 /\ Remainder(acked) = 0 /\ measured \subseteq Nat
    BY SampleAssumption, ChunksAssumption
       DEF EstimateInv, RttTypeOK, Remainder, Forgotten
  <2>2. PICK high \in measured : estimated_rtt <= high + 0
    BY <2>1 DEF EstimateInv
  <2>3. high \in Nat /\ estimated_rtt <= high
    BY <2>1, <2>2 DEF EstimateInv, RttTypeOK
  <2>4. CASE estimated_rtt >= 193
    BY <2>3, <2>4
  <2>5. CASE \E low \in measured : estimated_rtt >= low - 7
    BY <2>3, <2>5
  <2> QED
    BY <2>1, <2>4, <2>5 DEF EstimateInv
<1> QED
  BY EstimateInit, EstimateStep, <1>1, PTL DEF Spec

\* Estimate, deviation and timer are never negative, whatever round trips are measured.
THEOREM RttTypeCorrect == Spec => []RttTypeOK
<1>1. EstimateInv => RttTypeOK
  BY DEF EstimateInv
<1> QED
  BY EstimateInit, EstimateStep, <1>1, PTL DEF Spec
=============================================================================
