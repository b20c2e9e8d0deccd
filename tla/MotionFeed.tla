------------------------------ MODULE MotionFeed ------------------------------
(***************************************************************************)
(* What the users of MotionService may rely on, whatever the sensor does:  *)
(* a service state, and one latest frame that is never withdrawn, only     *)
(* replaced.  A frame carries a fresh time stamp whenever it is replaced,  *)
(* but not always a fresh attitude: after a gap longer than the estimator  *)
(* integrates over, the frame is stamped and the old attitude stays in it, *)
(* marked invalid.                                                         *)
(***************************************************************************)
EXTENDS Integers

CONSTANTS
  CycleTimes,     (* time between two runs of the service                  *)
  MaxQuietAge,    (* longest a RUNNING service goes without a new frame    *)
  EstimatorGap,   (* ATTITUDE_MAX_DT_MS                                    *)
  FrameAgeCap     (* frame ages are told apart up to here                  *)

ASSUME FeedAssumption ==
  /\ CycleTimes \subseteq Nat \ {0}
  /\ MaxQuietAge \in Nat /\ EstimatorGap \in Nat
  /\ FrameAgeCap \in Nat /\ MaxQuietAge < FrameAgeCap /\ EstimatorGap < FrameAgeCap

MotionStates == {"CALIBRATING", "RUNNING", "DEGRADED"}

VARIABLES
  motionState,    (* what MotionService_GetState returns                   *)
  hasFrame,       (* MotionService_GetLatestFrame succeeds                 *)
  calibrated,     (* .calibrated of the latest frame                       *)
  attitudeValid,  (* .attitude.valid of the latest frame                   *)
  frameAge        (* now - .timestamp_ms of the latest frame               *)

feedVars == <<motionState, hasFrame, calibrated, attitudeValid, frameAge>>

FeedInit ==
  /\ motionState = "CALIBRATING"
  /\ hasFrame = FALSE /\ calibrated = FALSE /\ attitudeValid = FALSE
  /\ frameAge = 0

Grown(d) ==
  IF ~hasFrame THEN 0
  ELSE IF frameAge + d > FrameAgeCap THEN FrameAgeCap ELSE frameAge + d

\* No sample, or one that was not usable.
NoFrame(d) ==
  /\ frameAge' = Grown(d)
  /\ motionState' \in {motionState, "DEGRADED"}
  /\ motionState' = "RUNNING" => frameAge' <= MaxQuietAge
  /\ UNCHANGED <<hasFrame, calibrated, attitudeValid>>

\* A usable sample: the service runs only on calibrated data.
NewFrame(d) ==
  /\ hasFrame' = TRUE /\ frameAge' = 0
  /\ calibrated' \in BOOLEAN
  /\ attitudeValid' \in BOOLEAN
  /\ ~attitudeValid' => Grown(d) > EstimatorGap /\ calibrated' = calibrated
  /\ motionState' \in MotionStates
  /\ motionState' = "RUNNING" => calibrated'

RunMotion(d) == NoFrame(d) \/ NewFrame(d)

\* A calibration is started; the latest frame stays what it was.
StartCalibration ==
  motionState' = "CALIBRATING"
    /\ UNCHANGED <<hasFrame, calibrated, attitudeValid, frameAge>>

FeedNext == (\E d \in CycleTimes : RunMotion(d)) \/ StartCalibration

FeedSpec == FeedInit /\ [][FeedNext]_feedVars
===============================================================================
