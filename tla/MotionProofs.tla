----------------------------- MODULE MotionProofs -----------------------------
(***************************************************************************)
(* Proofs about MotionService for every calibration length, limit, period  *)
(* and tick width that satisfy MotionAssumption.                           *)
(***************************************************************************)
EXTENDS MotionService, TLAPS

\* What RunningIsCalibrated needs: s_was_calibrated is only set together with
\* a calibrated frame of a complete calibration, and only then is it RUNNING.
MotionInv ==
  /\ MotionTypeOK
  /\ wasCalibrated => hasFrame /\ calibrated /\ calibration = "COMPLETE"
  /\ motionState = "RUNNING" => wasCalibrated
  /\ calibration = "COLLECTING" => accepted < CalibrationSamples /\ rejected < MaxRejected

\* What a sample or a calibration command may change, and the parts of the
\* invariant about it and about everything else.
SampleVars == <<motionState, countVars, calibrationVars, frameVars>>
\* The part about counts, calibration and frame.
SampleInv ==
  /\ motionState \in Feed!MotionStates
  /\ invalid \in 0..MaxInvalid /\ recovered \in 0..MaxInvalid
  /\ calibration \in {"COLLECTING", "COMPLETE", "FAILED"}
  /\ accepted \in 0..CalibrationSamples /\ rejected \in 0..MaxRejected
  /\ wasCalibrated \in BOOLEAN
  /\ hasFrame \in BOOLEAN /\ calibrated \in BOOLEAN /\ attitudeValid \in BOOLEAN
  /\ frameAge \in 0..FrameAgeCap
  /\ wasCalibrated => hasFrame /\ calibrated /\ calibration = "COMPLETE"
  /\ motionState = "RUNNING" => wasCalibrated
  /\ calibration = "COLLECTING" => accepted < CalibrationSamples /\ rejected < MaxRejected

\* The part about the cycle, the scan, the timers and the recovery.
OtherInv ==
  /\ step \in {"pipeline", "recovery", "command"}
  /\ boot \in {"scanning", "ready", "absent"}
  /\ scanLeft \in 0..ScanLength /\ retries \in 0..ScanRetries /\ awake \in BOOLEAN
  /\ period \in Periods /\ sinceSample \in Nat
  /\ overdue \in 0..(TickMod - 1) /\ settled \in BOOLEAN

\* The invariant is the conjunction of its two parts.
LEMMA Split == MotionInv <=> SampleInv /\ OtherInv
BY DEF MotionInv, MotionTypeOK, SampleInv, OtherInv

\* So it is after a step.
LEMMA SplitPrime == MotionInv' <=> SampleInv' /\ OtherInv'
BY DEF MotionInv, MotionTypeOK, SampleInv, OtherInv

\* The scan starts with counts at zero, no frame and nothing calibrated.
LEMMA MotionInitInv == MotionInit => MotionInv
<1> SUFFICES ASSUME MotionInit PROVE MotionInv
  OBVIOUS
<1>1. /\ motionState = "CALIBRATING" /\ hasFrame = FALSE /\ calibrated = FALSE
      /\ attitudeValid = FALSE /\ frameAge = 0 /\ wasCalibrated = FALSE
      /\ calibration = "COLLECTING" /\ accepted = 0 /\ rejected = 0
      /\ invalid = 0 /\ recovered = 0
  BY DEF MotionInit, Feed!FeedInit
<1>2. SampleInv
  <2>1. /\ 0 \in 0..MaxInvalid /\ 0 \in 0..CalibrationSamples
        /\ 0 \in 0..MaxRejected /\ 0 \in 0..FrameAgeCap
        /\ 0 < CalibrationSamples /\ 0 < MaxRejected
        /\ "CALIBRATING" \in Feed!MotionStates
    BY MotionAssumption DEF Feed!MotionStates
  <2>2. QED
    BY <1>1, <2>1, Zenon DEF SampleInv
<1>3. 0 \in 0..(TickMod - 1)
  <2>1. RecoveryPeriod \in 1..(TickMod \div 2) /\ TickMod \in Nat
    BY MotionAssumption
  <2>2. TickMod # 0
    BY <2>1
  <2>3. QED
    BY <2>1, <2>2
<1>4. OtherInv
  <2>1. ScanLength \in 0..ScanLength /\ 0 \in 0..ScanRetries /\ 0 \in Nat
    BY MotionAssumption
  <2>2. QED
    BY <1>3, <2>1, MotionAssumption, Zenon DEF MotionInit, OtherInv
<1>5. QED
  BY <1>2, <1>4, Split

\* The capped counts stay within their cap.
LEMMA CountInRange ==
  ASSUME NEW n \in 0..MaxInvalid
  PROVE  Count(n) \in 0..MaxInvalid
BY MotionAssumption DEF Count

\* The capped age of a frame stays within the cap.
LEMMA GrownInRange ==
  ASSUME MotionTypeOK, NEW d \in CycleTimes
  PROVE  Feed!Grown(d) \in 0..FrameAgeCap
BY MotionAssumption DEF MotionTypeOK, Feed!Grown

\* A sample of whatever kind keeps the calibration counts below their limits
\* for as long as it collects, and completes or fails it at the limit.
LEMMA ProcessSampleKeepsCounts ==
  ASSUME MotionInv, NEW kind, ProcessSample(kind)
  PROVE  /\ calibration' \in {"COLLECTING", "COMPLETE", "FAILED"}
         /\ accepted' \in 0..CalibrationSamples /\ rejected' \in 0..MaxRejected
         /\ calibration' = "COLLECTING"
              => accepted' < CalibrationSamples /\ rejected' < MaxRejected
         /\ calibration # "COLLECTING" => calibration' = calibration
BY MotionAssumption DEF MotionInv, MotionTypeOK, ProcessSample

\* A step that touches none of these variables keeps their part.
LEMMA SampleStutter ==
  ASSUME SampleInv, UNCHANGED SampleVars
  PROVE  SampleInv'
BY DEF SampleInv, SampleVars, countVars, calibrationVars, frameVars

\* A cycle without a due sample.
LEMMA IdleKeepsInv ==
  ASSUME MotionInv, NEW d \in CycleTimes, Idle(d)
  PROVE  SampleInv'
BY GrownInRange DEF MotionInv, MotionTypeOK, SampleInv, Idle, countVars, calibrationVars

\* A sample that fails validation.
LEMMA BadSampleKeepsInv ==
  ASSUME MotionInv, NEW d \in CycleTimes, BadSample(d)
  PROVE  SampleInv'
<1>1. /\ frameAge' \in 0..FrameAgeCap
      /\ invalid' \in 0..MaxInvalid /\ recovered' \in 0..MaxInvalid
  BY GrownInRange, CountInRange, MotionAssumption DEF BadSample, MotionInv, MotionTypeOK
<1> QED
  BY <1>1 DEF MotionInv, MotionTypeOK, SampleInv, BadSample, calibrationVars, Feed!MotionStates

\* A valid sample: a refused one can only be RUNNING on what was calibrated
\* before it, one that is integrated only on a complete calibration.
LEMMA GoodSampleKeepsInv ==
  ASSUME MotionInv, NEW kind \in {"still", "moving"}, NEW d \in CycleTimes,
         GoodSample(kind, d)
  PROVE  SampleInv'
<1> DEFINE complete == calibration' = "COMPLETE"
           refused  == hasFrame /\ Feed!Grown(d) > EstimatorGap
                                /\ ~(complete /\ ~wasCalibrated)
           known    == IF calibration' = "FAILED" THEN "DEGRADED" ELSE StateAfterRecovery
<1>1. /\ invalid' = 0
      /\ recovered' = IF motionState = "DEGRADED" THEN Count(recovered) ELSE recovered
      /\ ProcessSample(kind)
      /\ hasFrame' = TRUE /\ frameAge' = 0
      /\ attitudeValid' = ~refused
      /\ calibrated' = IF refused THEN calibrated ELSE complete
      /\ wasCalibrated' = IF refused THEN wasCalibrated ELSE complete
      /\ motionState' = IF ~refused /\ known # "DEGRADED" /\ complete
                        THEN "RUNNING" ELSE known
  BY DEF GoodSample
<1>2. /\ calibration' \in {"COLLECTING", "COMPLETE", "FAILED"}
      /\ accepted' \in 0..CalibrationSamples /\ rejected' \in 0..MaxRejected
      /\ calibration' = "COLLECTING"
           => accepted' < CalibrationSamples /\ rejected' < MaxRejected
      /\ calibration # "COLLECTING" => calibration' = calibration
  BY <1>1, ProcessSampleKeepsCounts
<1>3. /\ invalid' \in 0..MaxInvalid /\ recovered' \in 0..MaxInvalid
      /\ frameAge' \in 0..FrameAgeCap
  BY <1>1, CountInRange, MotionAssumption DEF MotionInv, MotionTypeOK
<1>4. refused \in BOOLEAN /\ complete \in BOOLEAN
  BY DEF MotionInv, MotionTypeOK
<1>5. known \in Feed!MotionStates
  BY DEF StateAfterRecovery, MotionInv, MotionTypeOK, Feed!MotionStates
<1>6. known = "RUNNING" => complete
  <2>1. SUFFICES ASSUME known = "RUNNING" PROVE complete
    OBVIOUS
  <2>2. calibration # "COLLECTING"
    BY <2>1 DEF StateAfterRecovery, MotionInv, MotionTypeOK
  <2>3. QED
    BY <1>2, <2>1, <2>2
<1>7. refused /\ complete => wasCalibrated
  OBVIOUS
<1>8. wasCalibrated => calibrated /\ complete
  BY <1>2 DEF MotionInv
<1> HIDE DEF refused, complete, known
<1>9. /\ wasCalibrated' \in BOOLEAN /\ calibrated' \in BOOLEAN
      /\ attitudeValid' \in BOOLEAN /\ hasFrame'
  BY <1>1, <1>4, Zenon DEF MotionInv, MotionTypeOK
<1>10. motionState' \in Feed!MotionStates
  BY <1>1, <1>5 DEF Feed!MotionStates
<1>11. wasCalibrated' => calibrated' /\ complete
  BY <1>1, <1>8
<1>12. motionState' = "RUNNING" => wasCalibrated'
  BY <1>1, <1>6, <1>7
<1> QED
  BY <1>1, <1>2, <1>3, <1>9, <1>10, <1>11, <1>12 DEF SampleInv, complete

\* A new calibration takes RUNNING and s_was_calibrated back together.
LEMMA StartCalibrationKeepsInv ==
  ASSUME MotionInv, StartCalibration
  PROVE  SampleInv'
<1>1. /\ calibration' = "COLLECTING" /\ accepted' = 0 /\ rejected' = 0
      /\ motionState' = "CALIBRATING" /\ wasCalibrated' = FALSE
      /\ UNCHANGED <<invalid, recovered, hasFrame, calibrated, attitudeValid, frameAge>>
  BY DEF StartCalibration, Restart, countVars, frameVars
<1>2. SampleInv
  BY Split
<1>3. /\ 0 \in 0..CalibrationSamples /\ 0 \in 0..MaxRejected
      /\ 0 < CalibrationSamples /\ 0 < MaxRejected
      /\ "CALIBRATING" \in Feed!MotionStates
  BY MotionAssumption DEF Feed!MotionStates
<1> QED
  BY <1>1, <1>2, <1>3 DEF SampleInv

\* The scan step or the motion pipeline of one cycle.
LEMMA PipelineKeepsInv ==
  ASSUME MotionInv, Pipeline
  PROVE  MotionInv'
<1>1. PICK d \in CycleTimes :
        /\ overdue' = (overdue + d) % TickMod
        /\ \/ boot = "scanning" /\ Scan /\ Idle(d)
           \/ boot = "absent" /\ Idle(d) /\ UNCHANGED <<bootVars, awake, sinceSample>>
           \/ boot = "ready" /\ RunOnce(d) /\ UNCHANGED <<bootVars, awake>>
  BY DEF Pipeline
<1>2. overdue' \in 0..(TickMod - 1)
  <2>1. overdue + d \in Nat /\ TickMod \in Nat \ {0}
    BY MotionAssumption DEF MotionInv, MotionTypeOK
  <2>2. ASSUME NEW a \in Nat, NEW b \in Nat \ {0} PROVE a % b \in 0..(b - 1)
    BY Z3
  <2>3. QED
    BY <1>1, <2>1, <2>2
<1>3. step' = "recovery" /\ period' \in Periods /\ settled' \in BOOLEAN
  BY DEF Pipeline, MotionInv, MotionTypeOK
<1>4. CASE boot = "scanning" /\ Scan /\ Idle(d)
  <2>1. SampleInv'
    BY <1>4, IdleKeepsInv
  <2>2. /\ boot' \in {"scanning", "ready", "absent"}
        /\ scanLeft' \in 0..ScanLength /\ retries' \in 0..ScanRetries
        /\ sinceSample' \in Nat
    BY <1>4, MotionAssumption
       DEF Scan, ProbeNext, ScanAgain, ScanEnds, MotionInv, MotionTypeOK
  <2>3. awake' \in BOOLEAN
    BY <1>4 DEF Scan, ProbeNext, ScanAgain, ScanEnds, MotionInv, MotionTypeOK
  <2>4. OtherInv'
    BY <1>2, <1>3, <2>2, <2>3 DEF OtherInv
  <2>5. QED
    BY <2>1, <2>4, SplitPrime
<1>5. CASE boot = "absent" /\ Idle(d) /\ UNCHANGED <<bootVars, awake, sinceSample>>
  <2>1. SampleInv'
    BY <1>5, IdleKeepsInv
  <2>2. OtherInv'
    BY <1>2, <1>3, <1>5 DEF OtherInv, MotionInv, MotionTypeOK, bootVars
  <2>3. QED
    BY <2>1, <2>2, SplitPrime
<1>6. CASE boot = "ready" /\ RunOnce(d) /\ UNCHANGED <<bootVars, awake>>
  <2> DEFINE since == sinceSample + d
  <2>1. since \in Nat /\ period \in Nat \ {0}
    BY MotionAssumption DEF MotionInv, MotionTypeOK
  <2>2. since % period \in Nat
    <3> HIDE DEF since
    <3>1. ASSUME NEW a \in Nat, NEW b \in Nat \ {0} PROVE a % b \in Nat
      BY Z3
    <3>2. QED
      BY <2>1, <3>1
  <2>3. sinceSample' \in Nat
    BY <1>6, <2>1, <2>2 DEF RunOnce
  <2>4. Idle(d) \/ Sampled(d)
    BY <1>6 DEF RunOnce
  <2>5. SampleInv'
    BY <2>4, IdleKeepsInv, BadSampleKeepsInv, GoodSampleKeepsInv DEF Sampled
  <2>6. OtherInv'
    BY <1>2, <1>3, <1>6, <2>3 DEF OtherInv, MotionInv, MotionTypeOK, bootVars
  <2>7. QED
    BY <2>5, <2>6, SplitPrime
<1> QED
  BY <1>1, <1>4, <1>5, <1>6

\* Every step of the cycle, and the sensor settling, keep the invariant.
LEMMA MotionStepKeepsInv ==
  ASSUME MotionInv, [MotionNext]_motionVars
  PROVE  MotionInv'
<1>1. CASE Pipeline
  BY <1>1, PipelineKeepsInv
<1>2. CASE Recovery
  <2>1. SampleInv'
    <3>1. CASE UNCHANGED SampleVars
      BY <3>1, SampleStutter, Split
    <3>2. CASE StartCalibration
      BY <3>2, StartCalibrationKeepsInv
    <3>3. QED
      BY <1>2, <3>1, <3>2 DEF Recovery, Recover, ReinitializeSensor, SampleVars
  <2>2. OtherInv'
    <3>1. /\ awake' = awake \/ awake' = FALSE \/ awake' = TRUE
          /\ sinceSample' = sinceSample \/ sinceSample' = 0
      BY <1>2 DEF Recovery, Recover, ReinitializeSensor
    <3>2. overdue' \in 0..(TickMod - 1)
      BY <1>2, MotionAssumption DEF Recovery, Recover, MotionInv, MotionTypeOK
    <3>3. QED
      <4>1. UNCHANGED <<boot, scanLeft, retries, period, settled>> /\ step' = "command"
        BY <1>2 DEF Recovery, bootVars
      <4>2. OtherInv
        BY Split
      <4>3. sinceSample' \in Nat
        BY <3>1, <4>2 DEF OtherInv
      <4>4. awake' \in BOOLEAN
        BY <3>1, <4>2, Zenon DEF OtherInv
      <4>5. QED
        BY <3>2, <4>1, <4>2, <4>3, <4>4 DEF OtherInv
  <2>3. QED
    BY <2>1, <2>2, SplitPrime
<1>3. CASE Command
  <2>1. SampleInv'
    <3>1. CASE UNCHANGED SampleVars
      BY <3>1, SampleStutter, Split
    <3>2. CASE StartCalibration
      BY <3>2, StartCalibrationKeepsInv
    <3>3. QED
      BY <1>3, <3>1, <3>2 DEF Command, CalibrationCommand, PeriodCommand, SampleVars
  <2>2. OtherInv'
    BY <1>3 DEF Command, CalibrationCommand, PeriodCommand, OtherInv, MotionInv,
                MotionTypeOK, bootVars
  <2>3. QED
    BY <2>1, <2>2, SplitPrime
<1>4. CASE Settle \/ UNCHANGED motionVars
  <2>1. SampleInv'
    BY <1>4, SampleStutter, Split DEF Settle, SampleVars, motionVars
  <2>2. OtherInv'
    BY <1>4 DEF Settle, motionVars, bootVars, timerVars, OtherInv, MotionInv, MotionTypeOK
  <2>3. QED
    BY <2>1, <2>2, SplitPrime
<1> QED
  BY <1>1, <1>2, <1>3, <1>4 DEF MotionNext, MotionCycle

\* MotionInv holds in every state of every behaviour of the service.
THEOREM MotionInvHolds == MotionSpec => []MotionInv
BY MotionInitInv, MotionStepKeepsInv, PTL DEF MotionSpec

\* Every variable keeps its type: no count passes its limit, no age its cap.
THEOREM MotionTypeCorrect == MotionSpec => []MotionTypeOK
<1>1. MotionInv => MotionTypeOK
  BY DEF MotionInv
<1> QED
  BY <1>1, MotionInvHolds, PTL

\* RUNNING means calibrated, however samples, recoveries and commands mix.
THEOREM CalibrationHolds == MotionSpec => []RunningIsCalibrated
<1>1. MotionInv => RunningIsCalibrated
  BY DEF MotionInv, RunningIsCalibrated
<1> QED
  BY <1>1, MotionInvHolds, PTL

-------------------------------------------------------------------------------
(* The frames are those the other components rely on, if no cycle is later *)
(* than C and no sample period longer than P.                              *)

\* The age of a RUNNING service's frame is made up of the bad samples since.
Quiet(P, C) ==
  /\ sinceSample < P
  /\ motionState = "RUNNING" =>
       /\ boot = "ready" /\ invalid < MaxInvalid
       /\ frameAge <= invalid * (P - 1 + C) + sinceSample

LEMMA QuietInit ==
  ASSUME NEW P \in Nat, NEW C \in Nat, Timely(P, C), MotionInit
  PROVE  Quiet(P, C)
<1>1. sinceSample = 0 /\ motionState = "CALIBRATING"
  BY DEF MotionInit, Feed!FeedInit
<1>2. P >= 1
  BY MotionAssumption DEF Timely
<1> QED
  BY <1>1, <1>2 DEF Quiet

\* So it never exceeds the bound.
LEMMA QuietIsBounded ==
  ASSUME NEW P \in Nat, NEW C \in Nat, Timely(P, C), MotionInv, Quiet(P, C)
  PROVE  motionState = "RUNNING" => frameAge <= MaxQuietAge
<1> SUFFICES ASSUME motionState = "RUNNING" PROVE frameAge <= MaxQuietAge
  OBVIOUS
<1> DEFINE K == P - 1 + C
<1>1. /\ invalid \in Nat /\ sinceSample \in Nat /\ frameAge \in Nat /\ MaxInvalid \in Nat \ {0}
      /\ MaxQuietAge \in Nat
  BY MotionAssumption DEF MotionInv, MotionTypeOK
<1>2. /\ sinceSample <= P - 1 /\ K \in Nat /\ invalid <= MaxInvalid - 1
      /\ frameAge <= invalid * K + sinceSample
      /\ (MaxInvalid - 1) * K + (P - 1) <= MaxQuietAge
  BY <1>1 DEF Quiet, Timely, QuietBound
<1> HIDE DEF K
<1>3. invalid * K <= (MaxInvalid - 1) * K
  <2>1. PICK m \in Nat : m = MaxInvalid - 1 - invalid
    BY <1>1, <1>2
  <2>2. m * K \in Nat /\ (MaxInvalid - 1) * K = invalid * K + m * K
    BY <1>1, <1>2, <2>1
  <2> QED
    BY <1>1, <1>2, <2>2
<1>4. invalid * K \in Nat /\ (MaxInvalid - 1) * K \in Nat
  BY <1>1, <1>2
<1> QED
  BY <1>1, <1>2, <1>3, <1>4

\* A run of the pipeline: an idle one makes the frame and the sample older by
\* the same, a bad sample moves the wait for it from the one to the other.
LEMMA RunKeepsQuiet ==
  ASSUME NEW P \in Nat, NEW C \in Nat, Timely(P, C), MotionInv, Quiet(P, C),
         NEW d \in CycleTimes, RunOnce(d), boot' = boot, boot = "ready"
  PROVE  Quiet(P, C)'
<1> DEFINE K == P - 1 + C
<1>1. /\ d \in Nat /\ d <= C /\ sinceSample \in Nat /\ period \in Nat \ {0} /\ period <= P
      /\ invalid \in 0..MaxInvalid /\ MaxInvalid \in Nat \ {0} /\ frameAge \in Nat
      /\ sinceSample <= P - 1 /\ K \in Nat
  BY MotionAssumption DEF MotionInv, MotionTypeOK, Timely, Quiet
<1>2. /\ motionState = "RUNNING" => invalid < MaxInvalid /\ frameAge <= invalid * K + sinceSample
      /\ Feed!Grown(d) <= frameAge + d /\ Feed!Grown(d) \in Nat
  BY <1>1, MotionAssumption DEF Quiet, Feed!Grown
<1>3. invalid * K \in Nat
  BY <1>1
<1>4. sinceSample' \in Nat /\ sinceSample' < P
  <2>1. ASSUME NEW a \in Nat PROVE a % period \in 0..(period - 1)
    BY <1>1, Z3
  <2>2. sinceSample + d \in Nat
    BY <1>1
  <2>3. (sinceSample + d) % period \in 0..(period - 1)
    BY <2>1, <2>2
  <2>4. \/ sinceSample' = sinceSample + d /\ sinceSample + d < period
        \/ sinceSample' = (sinceSample + d) % period
    BY DEF RunOnce
  <2> QED
    BY <1>1, <2>2, <2>3, <2>4
<1>5. CASE sinceSample' = sinceSample + d /\ Idle(d)
  <2>1. UNCHANGED <<motionState, invalid>> /\ frameAge' = Feed!Grown(d)
    BY <1>5 DEF Idle, countVars
  <2> HIDE DEF K
  <2>2. motionState' = "RUNNING" => invalid' < MaxInvalid /\ frameAge' <= invalid' * K + sinceSample'
    BY <1>1, <1>2, <1>3, <1>5, <2>1
  <2> QED
    BY <1>4, <2>2 DEF Quiet, K
<1>6. CASE BadSample(d)
  <2>1. /\ invalid' = IF invalid < MaxInvalid THEN invalid + 1 ELSE invalid
        /\ motionState' = IF invalid' = MaxInvalid THEN "DEGRADED" ELSE motionState
        /\ frameAge' = Feed!Grown(d)
    BY <1>6 DEF BadSample, Count
  <2>2. d + sinceSample <= K
    BY <1>1
  <2> HIDE DEF K
  <2>3. motionState' = "RUNNING" => invalid' < MaxInvalid /\ frameAge' <= invalid' * K + sinceSample'
    <3> SUFFICES ASSUME motionState' = "RUNNING"
                 PROVE  invalid' < MaxInvalid /\ frameAge' <= invalid' * K + sinceSample'
      OBVIOUS
    <3>1. motionState = "RUNNING" /\ invalid' = invalid + 1 /\ invalid' < MaxInvalid
      BY <1>1, <1>2, <2>1
    <3>2. (invalid + 1) * K = invalid * K + K
      BY <1>1
    <3> QED
      BY <1>1, <1>2, <1>3, <1>4, <2>1, <2>2, <3>1, <3>2
  <2> QED
    BY <1>4, <2>3 DEF Quiet, K
<1>7. CASE \E kind \in {"still", "moving"} : GoodSample(kind, d)
  <2>1. invalid' = 0 /\ frameAge' = 0
    BY <1>7 DEF GoodSample
  <2>2. invalid' * K = 0
    BY <1>1, <2>1
  <2> HIDE DEF K
  <2>3. invalid' * K + sinceSample' >= 0
    BY <1>4, <2>2
  <2>4. frameAge' <= invalid' * K + sinceSample'
    BY <2>1, <2>3, Zenon
  <2>5. invalid' < MaxInvalid
    BY <1>1, <2>1
  <2> QED
    BY <1>4, <2>4, <2>5 DEF Quiet, K
<1> QED
  BY <1>5, <1>6, <1>7 DEF RunOnce, Sampled

\* Every step keeps the age explained.
LEMMA QuietStep ==
  ASSUME NEW P \in Nat, NEW C \in Nat, Timely(P, C), MotionInv, Quiet(P, C),
         [MotionNext]_motionVars
  PROVE  Quiet(P, C)'
<1>1. P >= 1
  BY MotionAssumption DEF Timely
<1>2. CASE Pipeline
  <2>1. PICK d \in CycleTimes :
          \/ boot = "scanning" /\ Scan /\ Idle(d)
          \/ boot = "absent" /\ Idle(d) /\ UNCHANGED <<bootVars, awake, sinceSample>>
          \/ boot = "ready" /\ RunOnce(d) /\ UNCHANGED <<bootVars, awake>>
    BY <1>2 DEF Pipeline
  <2>2. CASE boot \in {"scanning", "absent"} /\ Idle(d)
             /\ (sinceSample' = sinceSample \/ sinceSample' = 0)
    BY <1>1, <2>2 DEF Idle, Quiet
  <2>3. CASE boot = "ready" /\ RunOnce(d) /\ UNCHANGED <<bootVars, awake>>
    <3>1. boot' = boot
      BY <2>3 DEF bootVars
    <3> QED
      BY <2>3, <3>1, RunKeepsQuiet
  <2> QED
    BY <2>1, <2>2, <2>3 DEF Scan, ProbeNext, ScanAgain, ScanEnds
<1>3. CASE UNCHANGED <<motionState, boot, invalid, frameAge, sinceSample>>
  BY <1>3 DEF Quiet
<1>4. CASE motionState' # "RUNNING" /\ sinceSample' \in {sinceSample, 0}
  BY <1>1, <1>4 DEF Quiet
<1>5. CASE Recovery
  <2>1. CASE RecoveryDue /\ Recover
    <3>1. motionState' # "RUNNING" /\ sinceSample' \in {sinceSample, 0}
      BY <2>1 DEF RecoveryDue, Recover, ReinitializeSensor, StartCalibration
    <3> QED
      BY <1>4, <3>1
  <2>2. CASE ~RecoveryDue
    BY <1>3, <1>5, <2>2 DEF Recovery, bootVars, countVars, frameVars
  <2> QED
    BY <1>5, <2>1, <2>2 DEF Recovery
<1>6. CASE Command
  <2>1. CASE StartCalibration
    BY <1>4, <1>6, <2>1 DEF Command, StartCalibration
  <2>2. CASE PeriodCommand
    BY <1>3, <1>6, <2>2 DEF Command, PeriodCommand, bootVars, countVars, frameVars
  <2> QED
    BY <1>6, <2>1, <2>2 DEF Command, CalibrationCommand
<1>7. CASE Settle \/ UNCHANGED motionVars
  BY <1>3, <1>7 DEF Settle, motionVars, bootVars, timerVars, countVars, frameVars
<1> QED
  BY <1>2, <1>5, <1>6, <1>7 DEF MotionNext, MotionCycle

\* Every step of the service is one of the feed's, or none.
LEMMA StepIsFeedStep ==
  ASSUME MotionInv, MotionInv', motionState' = "RUNNING" => frameAge' <= MaxQuietAge,
         [MotionNext]_motionVars
  PROVE  [Feed!FeedNext]_(Feed!feedVars)
<1>1. ASSUME NEW d \in CycleTimes, Idle(d) \/ BadSample(d) PROVE Feed!FeedNext
  <2>1. /\ frameAge' = Feed!Grown(d) /\ motionState' \in {motionState, "DEGRADED"}
        /\ UNCHANGED <<hasFrame, calibrated, attitudeValid>>
    BY <1>1 DEF Idle, BadSample
  <2> QED
    BY <2>1 DEF Feed!FeedNext, Feed!RunMotion, Feed!NoFrame
<1>2. ASSUME NEW d \in CycleTimes, NEW kind, GoodSample(kind, d) PROVE Feed!FeedNext
  <2>1. /\ hasFrame' = TRUE /\ frameAge' = 0
        /\ ~attitudeValid' => Feed!Grown(d) > EstimatorGap /\ calibrated' = calibrated
    BY <1>2 DEF GoodSample
  <2>2. /\ calibrated' \in BOOLEAN /\ attitudeValid' \in BOOLEAN
        /\ motionState' \in Feed!MotionStates
        /\ motionState' = "RUNNING" => calibrated'
    BY DEF MotionInv, MotionTypeOK
  <2> QED
    BY <2>1, <2>2 DEF Feed!FeedNext, Feed!RunMotion, Feed!NewFrame
<1>3. CASE StartCalibration
  BY <1>3 DEF StartCalibration, frameVars, Feed!FeedNext, Feed!StartCalibration
<1>4. CASE UNCHANGED <<motionState, frameVars>>
  BY <1>4 DEF frameVars, Feed!feedVars
<1>5. CASE Pipeline
  BY <1>1, <1>2, <1>5 DEF Pipeline, RunOnce, Sampled
<1>6. CASE Recovery
  BY <1>3, <1>4, <1>6 DEF Recovery, Recover, ReinitializeSensor
<1>7. CASE Command
  BY <1>3, <1>4, <1>7 DEF Command, CalibrationCommand, PeriodCommand
<1>8. CASE Settle \/ UNCHANGED motionVars
  BY <1>4, <1>8 DEF Settle, motionVars
<1> QED
  BY <1>5, <1>6, <1>7, <1>8 DEF MotionNext, MotionCycle

\* MotionService is the feed its users rely on (motion_service.c,
\* MotionService_RunOnce): no frame is withdrawn, a RUNNING service has a
\* recent one, and only a gap leaves an old attitude in a new frame.
THEOREM FeedIsImplemented ==
  ASSUME NEW P \in Nat, NEW C \in Nat, Timely(P, C)
  PROVE  MotionSpec => ImplementsFeed
<1>1. MotionInit => Feed!FeedInit /\ Quiet(P, C)
  BY QuietInit DEF MotionInit
<1>2. MotionInv /\ Quiet(P, C) /\ [MotionNext]_motionVars => Quiet(P, C)'
  BY QuietStep
<1>3. MotionInv' /\ Quiet(P, C)' => (motionState = "RUNNING" => frameAge <= MaxQuietAge)'
  <2>1. MotionInv /\ Quiet(P, C) => (motionState = "RUNNING" => frameAge <= MaxQuietAge)
    BY QuietIsBounded
  <2> QED
    BY <2>1, PTL
<1>4. /\ MotionInv /\ MotionInv' /\ [MotionNext]_motionVars
      /\ (motionState = "RUNNING" => frameAge <= MaxQuietAge)'
      => [Feed!FeedNext]_(Feed!feedVars)
  BY StepIsFeedStep
<1> QED
  BY <1>1, <1>2, <1>3, <1>4, MotionInvHolds, PTL DEF MotionSpec, ImplementsFeed, Feed!FeedSpec
===============================================================================
