----------------------------- MODULE MotionService -----------------------------
(***************************************************************************)
(* Where the motion frames come from: the I2C scan at boot, the sampling   *)
(* of SensorService, the validation, calibration and estimation of         *)
(* MotionService and CalibrationService, and the recovery of a lost sensor *)
(* by App_RunSensorRecovery, all of them steps of SensorTask.              *)
(*                                                                         *)
(* A sample is "bad" (any validation flag, a failed read among them),      *)
(* "still" or "moving"; the values of a sample, the filter and the angles  *)
(* are left out.  A sample is consumed by the run that takes it, so its    *)
(* sequence number is not kept.  The estimator holds the time stamp of the *)
(* latest frame and is initialized exactly when there is a frame.          *)
(*                                                                         *)
(* The sensor itself is outside the code: its samples and its answers are  *)
(* chosen freely until it has settled, and are those of a sensor lying     *)
(* still from then on, when nobody asks for another calibration either.    *)
(***************************************************************************)
EXTENDS Integers

CONSTANTS
  TickMod,              (* 2^32: the tick counter's modulus                *)
  CycleTimes,           (* time between two SensorTask cycles              *)
  Periods,              (* sample periods SET_CONFIG may choose            *)
  DefaultPeriod,        (* APP_SENSOR_SAMPLE_PERIOD_MS                     *)
  ScanLength,           (* addresses a bus scan probes, one per cycle      *)
  ScanRetries,          (* APP_I2C_SCAN_MAX_RETRIES                        *)
  CalibrationSamples,   (* APP_CALIBRATION_SAMPLE_COUNT                    *)
  MaxRejected,          (* APP_CALIBRATION_MAX_REJECTED_SAMPLES            *)
  MaxInvalid,           (* APP_SENSOR_MAX_CONSECUTIVE_INVALID              *)
  RecoveryPeriod,       (* APP_SENSOR_RECOVERY_PERIOD_MS                   *)
  MaxQuietAge, EstimatorGap, FrameAgeCap        (* as in MotionFeed        *)

ASSUME MotionAssumption ==
  /\ TickMod \in Nat /\ TickMod % 2 = 0
  /\ CycleTimes \subseteq Nat \ {0}
  /\ Periods \subseteq Nat \ {0} /\ DefaultPeriod \in Periods
  /\ ScanLength \in Nat \ {0} /\ ScanRetries \in Nat
  /\ CalibrationSamples \in Nat \ {0} /\ MaxRejected \in Nat \ {0}
  /\ MaxInvalid \in Nat \ {0}
  /\ RecoveryPeriod \in 1..(TickMod \div 2)
  /\ MaxQuietAge \in Nat /\ EstimatorGap \in Nat
  /\ FrameAgeCap \in Nat /\ MaxQuietAge < FrameAgeCap /\ EstimatorGap < FrameAgeCap

VARIABLES
  step,           (* "pipeline", "recovery", "command": where the cycle is *)
  boot,           (* "scanning", "ready" (s_sensor_ready), or "absent"     *)
  scanLeft,       (* addresses the running scan has still to probe         *)
  retries,        (* s_i2c_scan_retry_count                                *)
  awake,          (* s_mpu6500.awake                                       *)
  period,         (* s_sample_timer.period_ms                              *)
  sinceSample,    (* now - s_sample_timer.last_run_ms                      *)
  motionState,    (* s_state, IDLE only before App_Init is through         *)
  invalid,        (* s_invalid_count, counted up to MaxInvalid             *)
  recovered,      (* s_valid_recovery_count, counted up to MaxInvalid      *)
  calibration,    (* CalibrationService's s_state                          *)
  accepted, rejected,   (* its sample counts                               *)
  wasCalibrated,  (* s_was_calibrated                                      *)
  hasFrame, calibrated, attitudeValid, frameAge,  (* as in MotionFeed      *)
  overdue,        (* now - s_next_sensor_recovery_ms, modulo TickMod       *)
  settled         (* the sensor has settled; not a variable of the code    *)

timerVars == <<period, sinceSample>>
bootVars == <<boot, scanLeft, retries>>
calibrationVars == <<calibration, accepted, rejected, wasCalibrated>>
countVars == <<invalid, recovered>>
frameVars == <<hasFrame, calibrated, attitudeValid, frameAge>>
motionVars == <<step, bootVars, awake, timerVars, motionState, countVars,
                calibrationVars, frameVars, overdue, settled>>

Feed == INSTANCE MotionFeed

MotionInit ==
  /\ step = "pipeline"
  /\ boot = "scanning" /\ scanLeft = ScanLength /\ retries = 0 /\ awake = FALSE
  /\ period = DefaultPeriod /\ sinceSample = 0
  /\ invalid = 0 /\ recovered = 0
  /\ calibration = "COLLECTING" /\ accepted = 0 /\ rejected = 0
  /\ wasCalibrated = FALSE
  /\ Feed!FeedInit
  /\ overdue = 0
  /\ settled = FALSE

Count(n) == IF n < MaxInvalid THEN n + 1 ELSE n

-------------------------------------------------------------------------------
(* CalibrationService.                                                     *)

\* Faulty variant: the counts of the calibration before are kept.
RestartKeepingCounts ==
  calibration' = "COLLECTING" /\ UNCHANGED <<accepted, rejected>>

Restart == calibration' = "COLLECTING" /\ accepted' = 0 /\ rejected' = 0

ProcessSample(kind) ==
  \/ /\ calibration = "COLLECTING" /\ kind = "still"
     /\ accepted' = accepted + 1
     /\ calibration' = IF accepted' >= CalibrationSamples THEN "COMPLETE" ELSE calibration
     /\ UNCHANGED rejected
  \/ /\ calibration = "COLLECTING" /\ kind = "moving"
     /\ rejected' = rejected + 1
     /\ calibration' = IF rejected' >= MaxRejected THEN "FAILED" ELSE calibration
     /\ UNCHANGED accepted
  \/ /\ calibration # "COLLECTING"
     /\ UNCHANGED <<calibration, accepted, rejected>>

-------------------------------------------------------------------------------
(* MotionService.                                                          *)

\* MotionService_StartCalibration: the frame and the counts stay.
StartCalibration ==
  /\ Restart
  /\ motionState' = "CALIBRATING" /\ wasCalibrated' = FALSE
  /\ UNCHANGED <<countVars, frameVars>>

Idle(d) ==
  /\ frameAge' = Feed!Grown(d)
  /\ UNCHANGED <<motionState, countVars, calibrationVars,
                 hasFrame, calibrated, attitudeValid>>

\* Faulty variant: the service never gives up on the sensor.
BadSampleIgnored(d) ==
  /\ invalid' = Count(invalid) /\ recovered' = 0
  /\ frameAge' = Feed!Grown(d)
  /\ UNCHANGED <<motionState, calibrationVars, hasFrame, calibrated, attitudeValid>>

\* MotionService_RecordInvalid.
BadSample(d) ==
  /\ invalid' = Count(invalid) /\ recovered' = 0
  /\ motionState' = IF invalid' = MaxInvalid THEN "DEGRADED" ELSE motionState
  /\ frameAge' = Feed!Grown(d)
  /\ UNCHANGED <<calibrationVars, hasFrame, calibrated, attitudeValid>>

\* Faulty variant: a recovered service is RUNNING whatever the calibration.
StateAfterRecoveryAlwaysRunning ==
  IF motionState = "DEGRADED" /\ recovered' = MaxInvalid THEN "RUNNING" ELSE motionState

\* Enough valid samples in a row end DEGRADED, into whatever the calibration
\* had come to before this sample.
StateAfterRecovery ==
  IF motionState # "DEGRADED" \/ recovered' < MaxInvalid THEN motionState
  ELSE IF calibration = "COLLECTING" THEN "CALIBRATING" ELSE "RUNNING"

\* A valid sample always stamps the frame.  The first one of a finished
\* calibration resets the estimator; any other is integrated, or refused when
\* the frame before is too old, which leaves calibrated, wasCalibrated and the
\* angles as they were.
GoodSample(kind, d) ==
  /\ invalid' = 0
  /\ recovered' = IF motionState = "DEGRADED" THEN Count(recovered) ELSE recovered
  /\ ProcessSample(kind)
  /\ LET complete == calibration' = "COMPLETE"
         refused  == hasFrame /\ Feed!Grown(d) > EstimatorGap
                              /\ ~(complete /\ ~wasCalibrated)
         known    == IF calibration' = "FAILED" THEN "DEGRADED" ELSE StateAfterRecovery
     IN  /\ hasFrame' = TRUE /\ frameAge' = 0
         /\ attitudeValid' = ~refused
         /\ calibrated' = IF refused THEN calibrated ELSE complete
         /\ wasCalibrated' = IF refused THEN wasCalibrated ELSE complete
         /\ motionState' = IF ~refused /\ known # "DEGRADED" /\ complete
                           THEN "RUNNING" ELSE known

\* What the sensor may deliver; a device that is not awake is not read.
Sampled(d) ==
  \/ ~(settled /\ awake) /\ BadSample(d)
  \/ awake /\ GoodSample("still", d)
  \/ awake /\ ~settled /\ GoodSample("moving", d)

\* SoftwareTimer_IsDue advances by whole periods.
RunOnce(d) ==
  LET since == sinceSample + d
  IN  \/ /\ since < period
         /\ sinceSample' = since
         /\ Idle(d)
      \/ /\ since >= period
         /\ sinceSample' = since % period
         /\ Sampled(d)

-------------------------------------------------------------------------------
(* App_RunI2cScanStep and App_CompleteI2cScan.                             *)

ProbeNext ==
  /\ scanLeft > 1
  /\ scanLeft' = scanLeft - 1
  /\ UNCHANGED <<boot, retries, awake, sinceSample>>

ScanAgain ==
  /\ scanLeft = 1 /\ retries < ScanRetries
  /\ scanLeft' = ScanLength /\ retries' = retries + 1
  /\ UNCHANGED <<boot, awake, sinceSample>>

\* The sensor is up, or it was not found, or it failed to come up.
ScanEnds ==
  /\ scanLeft = 1 /\ scanLeft' = 0
  /\ boot' \in {"ready", "absent"}
  /\ awake' = (boot' = "ready")
  /\ sinceSample' = 0
  /\ UNCHANGED retries

Scan == ProbeNext \/ ScanAgain \/ ScanEnds

\* The scan and the motion pipeline of one cycle.  The pipeline runs in the
\* cycle the scan ends in too, but no sample can be due yet.
Pipeline ==
  /\ step = "pipeline" /\ step' = "recovery"
  /\ \E d \in CycleTimes :
       /\ overdue' = (overdue + d) % TickMod
       /\ \/ boot = "scanning" /\ Scan /\ Idle(d)
          \/ boot = "absent" /\ Idle(d) /\ UNCHANGED <<bootVars, awake, sinceSample>>
          \/ boot = "ready" /\ RunOnce(d) /\ UNCHANGED <<bootVars, awake>>
  /\ UNCHANGED <<period, settled>>

-------------------------------------------------------------------------------
(* App_RunSensorRecovery.                                                  *)

\* App_IsTimeReached reads the difference as a signed number.
IsTimeReached == overdue < TickMod \div 2

\* Faulty variant: the device is brought up without a new calibration.
ReinitializeWithoutCalibration ==
  /\ UNCHANGED <<motionState, countVars, calibrationVars, frameVars>>
  /\ \/ ~settled /\ awake' \in {awake, FALSE} /\ UNCHANGED sinceSample
     \/ awake' = TRUE /\ sinceSample' = 0

\* The bus or the device does not answer; Mpu6500_Init forgot that it is
\* awake but the device could not be woken; or it is up again.
ReinitializeSensor ==
  \/ ~settled /\ UNCHANGED <<awake, sinceSample, motionState, countVars,
                             calibrationVars, frameVars>>
  \/ /\ ~settled /\ awake' = FALSE
     /\ UNCHANGED <<sinceSample, motionState, countVars, calibrationVars, frameVars>>
  \/ awake' = TRUE /\ sinceSample' = 0 /\ StartCalibration

Recover ==
  /\ overdue' = TickMod - RecoveryPeriod
  /\ ReinitializeSensor

RecoveryDue == motionState = "DEGRADED" /\ IsTimeReached

Recovery ==
  /\ step = "recovery" /\ step' = "command"
  /\ \/ RecoveryDue /\ Recover
     \/ /\ ~RecoveryDue
        /\ UNCHANGED <<awake, sinceSample, motionState, countVars,
                       calibrationVars, frameVars, overdue>>
  /\ UNCHANGED <<bootVars, period, settled>>

-------------------------------------------------------------------------------
(* The command of the cycle: START_CALIBRATION, SET_CONFIG's sample period, *)
(* or one that does not concern the motion services.                       *)

CalibrationCommand == ~settled /\ StartCalibration /\ UNCHANGED period

PeriodCommand ==
  /\ period' \in Periods
  /\ UNCHANGED <<motionState, countVars, calibrationVars, frameVars>>

Command ==
  /\ step = "command" /\ step' = "pipeline"
  /\ CalibrationCommand \/ PeriodCommand
  /\ UNCHANGED <<bootVars, awake, sinceSample, overdue, settled>>

\* Outside the code: from now on the sensor lies still and answers.
Settle == ~settled /\ settled' = TRUE
          /\ UNCHANGED <<step, bootVars, awake, timerVars, motionState, countVars,
                         calibrationVars, frameVars, overdue>>

MotionCycle == Pipeline \/ Recovery \/ Command

MotionNext == MotionCycle \/ Settle

MotionSpec == MotionInit /\ [][MotionNext]_motionVars

\* SensorTask keeps cycling; nothing says that the sensor ever settles.
FairMotionSpec == MotionSpec /\ WF_motionVars(MotionCycle)

-------------------------------------------------------------------------------
(* Properties.                                                             *)

\* Every variable keeps its type and its bound.
MotionTypeOK ==
  /\ step \in {"pipeline", "recovery", "command"}
  /\ boot \in {"scanning", "ready", "absent"}
  /\ scanLeft \in 0..ScanLength /\ retries \in 0..ScanRetries /\ awake \in BOOLEAN
  /\ period \in Periods /\ sinceSample \in Nat
  /\ motionState \in Feed!MotionStates
  /\ invalid \in 0..MaxInvalid /\ recovered \in 0..MaxInvalid
  /\ calibration \in {"COLLECTING", "COMPLETE", "FAILED"}
  /\ accepted \in 0..CalibrationSamples /\ rejected \in 0..MaxRejected
  /\ wasCalibrated \in BOOLEAN
  /\ hasFrame \in BOOLEAN /\ calibrated \in BOOLEAN /\ attitudeValid \in BOOLEAN
  /\ frameAge \in 0..FrameAgeCap
  /\ overdue \in 0..(TickMod - 1) /\ settled \in BOOLEAN

\* The service is RUNNING only on a frame corrected with the bias of the
\* calibration in force, and a calibration that is still collecting or has
\* failed never leaves it RUNNING.
RunningIsCalibrated ==
  motionState = "RUNNING"
    => hasFrame /\ calibrated /\ wasCalibrated /\ calibration = "COMPLETE"

\* The age of a RUNNING service's frame when all but one of the MaxInvalid bad
\* samples that degrade it have come, each as late as it can be, and the next
\* is all but due: sample periods are at most P, cycle times at most C.
QuietBound(P, C) == (MaxInvalid - 1) * (P - 1 + C) + (P - 1)

Timely(P, C) ==
  /\ \A p \in Periods : p <= P
  /\ \A d \in CycleTimes : d <= C
  /\ QuietBound(P, C) <= MaxQuietAge

\* The frames are those the other components rely on: none is withdrawn, a
\* RUNNING service has a recent one, and only a gap leaves an old attitude in
\* a new frame.
ImplementsFeed == Feed!FeedSpec

\* A sensor that settles is RUNNING in the end, wherever the trouble had left
\* the service, unless the boot scan had already given it up.
SettledSensorRuns == settled ~> motionState = "RUNNING" \/ boot = "absent"

\* A degraded sensor whose retry is due is retried (App/app_config.h:40).
RecoveryIsPrompt ==
  [][step = "recovery" /\ step' # step /\ motionState = "DEGRADED"
       => overdue' = TickMod - RecoveryPeriod \/ overdue >= TickMod - RecoveryPeriod]_motionVars
===============================================================================
