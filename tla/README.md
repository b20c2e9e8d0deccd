# MotionEdge-F103: a verification project in TLA+

MotionEdge-F103 is STM32F103 firmware under FreeRTOS that samples an MPU6500 at
100 Hz, estimates an attitude, and drives one SG90 servo, either from protocol
commands (serial, or MQTT through a Python gateway) or from a PID loop that
holds an attitude.  This directory holds TLA+ modules translated from the C
source, TLC configurations that check them on small instances, and proofs that
TLAPS checks for every value of the constants.

`PROJECT.json` lists components, runs, mutants, the source lines behind every
definition, findings, hazards and theorems.

## 1. Inventory

| Component | State | Operations | Interacts with |
|---|---|---|---|
| **Actuator**: `Services/actuator_service.c`, `Components/servo_actuator.c`, `BSP/bsp_pwm.c` | mode, owner, armed, timeout latch, last command tick; servo state, current and target pulse, last update tick; PWM running, compare value | arm, disarm, emergency stop, set angle or pulse, centre, hand-over to the control loop, set control pulse, cyclic update | called by the command service, the control loop and the SensorTask cycle |
| **Control loop**: `Services/control_service.c` | enabled, requesting owner, last frame used, warm-up count, zero angle, axis and gains, last fault | enable, disable, set zero, axis, direction, PID, deadband, emergency-stop notice, cyclic update | reads the motion frame and application status, drives the actuator |
| **Motion**: `motion_service.c`, `calibration_service.c`, `sensor_service.c`, `attitude_estimator.c`, `software_timer.c` | sample timer, service state, consecutive valid and invalid counts, calibration counts, latest frame, estimator time stamp | run once, start calibration, set sample period | the frame is read by the control loop, the actuator pass, the commands and the snapshot |
| **Cycle**: `App/app_main.c`, `App/RTOS/rtos_tasks.c`, `App/app_status.c` | scan state, sensor ready, recovery deadline, application state | SensorTask: scan, motion, control, recovery, one command, actuator pass; HealthTask and TelemetryTask degrade the application state | ties the services together |
| **Commands**: `Services/command_service.c` | protocol or development mode | one handler per protocol type | every service above, and the configuration |
| **Configuration**: `config_store.c`, `config_persistence.c`, `config_service.c`, `bsp_flash.c` | two flash slots (erased, partial, committed; generation), RAM copy, save-rate limit | init, load, save (erase, program, verify, commit), factory reset, set | applied to sensor, motion, logger, control services |
| **UART and framing**: `bsp_uart.c`, `byte_ring_buffer.c`, `protocol_parser.c`, `protocol_frame.c` | DMA indices, ring buffer, parser position | poll a byte, error interrupt, push, pop, parse a byte | CommunicationTask, queue of commands |
| **RTOS objects**: `rtos_objects.c`, `rtos_monitor.c`, `communication_service.c`, `logger.c` | command queue of 8, motion snapshot, UART and logger locks, event flags | enqueue, dequeue, publish, read, write under a lock | four tasks |
| **Host gateway**: `host/motionctl/gateway.py`, `device.py` | command queue, result cache, copy of the device configuration, connection | MQTT callback, worker loop, request with sequence numbers and retries | MQTT broker, serial port |

What is hard, and what makes each part correct:

* *Actuator.*  Unsigned tick differences that wrap, a PWM stop that fails, a
  FAULT latch cleared by several origins of a stop.  Correct: nobody drives the
  pin without being armed, no owner is preempted, an abandoned target returns
  to the centre, a running pulse never jumps.
* *Control loop.*  It is left from six places, in two of which the stop may
  fail.  Correct: the servo never holds an attitude unsupervised, on stale
  motion, during the warm-up away from the centre, or from a zero of another
  axis.
* *Cycle.*  The order of the five phases is what keeps these properties: the
  control pass runs before the command, the actuator pass after it, and other
  tasks change the application state in between.
* *Motion.*  State, calibration and frame change at different moments; a
  frame's time stamp may be newer than its attitude; recovery is paced by a
  signed comparison.  Correct: RUNNING means calibrated and recent, and a
  sensor that works again ends up RUNNING.
* *Configuration.*  A reset or a failed step at any point of a save or a
  factory reset; settings that are set but not stored, or stored but not marked.
  Correct: the last committed configuration survives, and a service that calls
  itself clean runs it.
* *UART, parser, queue, locks.*  An interrupt between two statements, full
  buffers, lock time-outs, resynchronisation.
* *Gateway.*  Redelivered commands, late answers, stale copies of the
  configuration, reconnection half way.

## 2. Modules

| Module | Models |
|---|---|
| `SafeOutput` | abstract promise for the servo pin: window, centre at start, bounded change of a running pulse |
| `ActuatorService` | the actuator component, one action per operation; its properties |
| `ControlService` | the control loop, EXTENDS `ActuatorService` |
| `MotionFeed` | abstract motion service: all that its users may rely on |
| `MotionService` | the detailed motion service, calibration, boot scan and recovery; implements `MotionFeed` |
| `SafetyLoop` | the SensorTask cycle over `ControlService` and `MotionFeed` |
| `PersistentCell` | abstract durable configuration: what an acknowledged, failed or interrupted save promises |
| `ConfigStore` | two flash slots, one step per flash operation, failures and power cuts; implements `PersistentCell` |
| `ConfigService` | the configuration in force, its commands, the services it is handed to, the protocol mode; EXTENDS `ConfigStore` |
| `ProtocolParser` | the byte parser as a function of what it has collected |
| `UartLink` | circular DMA, polling reader, error interrupt, parser and command queue together; EXTENDS `ProtocolParser` |
| `DeviceClient` | the host's request: sequence numbers, time-outs, retries, and the serial link |
| `Gateway` | the gateway: queue, result cache, expiry, connection to device and broker; EXTENDS `DeviceClient` |
| `ActuatorProofs`, `LoopProofs`, `MotionProofs`, `ConfigProofs`, `LinkProofs`, `GatewayProofs`, `CacheProofs`, `SessionProofs` | theorems and their proofs, each over the module it is named for; the last three are over `Gateway`, and each EXTENDS the one before |
| `MCActuator`, `MCSafetyLoop`, `MCMotion`, `MCConfig`, `MCUartLink`, `MCGateway` | instances for TLC |

How state and actions correspond to the code:

* Time is never absolute.  The models keep the unsigned differences the code
  forms: `commandAge`, `updateAge` and `overdue` modulo `TickMod` (2^32 in the
  code), `frameAge`, `usedAge` and `sinceSample` as plain differences, frame
  ages capped at `FrameAgeCap`.  Two frames are the same exactly when they are
  equally old, which stands for the sequence number.  In the gateway time is the
  set of commands that have expired and the set of results that have lapsed, in
  any order: `command_dedup_ttl_s` and `maximum_command_age_s` are configured
  independently, and a command stamped in the future is not expired for long.
* Paho's `_on_connect` is two actions, `MqttCounts` and `MqttReturns`, since the
  main loop may come between them.  A `close()` that raises is `PollFails` in the
  loop and a choice of `EndsPublishing` at the end of `run()`.
* A refused request changes nothing and is the absence of a step.  A hardware
  call that may fail is a choice of its result; `SafeStop` and `EnterFault`
  keep the order in which the code reacts.
* An operation of the code that changes state is one action.  The cycle of
  SensorTask is split into the phases between which another task can run; a save
  or a factory reset into its flash operations, between which the power may be
  cut; `BspUart_TryReadByte` into its accesses to what the DMA and the interrupt
  share; `DeviceClient.request` into its attempts and the answers it reads.
* The motion frame never has `valid = FALSE` once it exists, and its STALE flag
  is never set (`motion_service.c` writes status flags only when there are
  none), so those tests of its users are left out.
* PID, filters and estimator are floating-point code; they appear as a choice
  of a pulse in the clamped window, and as "integrated" or "refused".
* A configuration has four parts: the sampling period (with all that
  `ConfigService_Set` hands on before the log level), the stream flag, the
  axis, and the tuning.  The leak factor of the integrator is kept apart from
  the tuning, because the record in flash has no field for it: `SetTuning` sets
  both, `SaveCommand` reads and `Apply` writes only the tuning, and a boot sets
  the leak factor back.  What `SensorService` samples with, `appliedPeriod`, is
  kept apart from `s_config` for the refusals half way.
* A tuning in force is made of floats and is saved in thousandths.
  `Rounded` is what a save keeps of it.  The truncation is not idempotent: 4.003
  is kept as 4.002, and that as 4.001.  A tuning without an image is one the
  store refuses: `CONTROL_SET_PID` takes output limits that
  `ConfigStore_IsConfigValid` does not, and then every save is INVALID.
* A frame on the wire has one byte for each decision of the parser; the CRC
  accepts exactly the bytes of one frame, unchanged.
* `settled` in `MotionService` is the environment's promise that from now on
  samples are good and the bus answers.  `promised`, `settled` and `previous` of
  the store, `due`, `heard`, `quiet` of the link, `answer`, `refused`, `reloaded` and
  `turned` of the configuration, and `live`, `last`, `others`, `written`,
  `missed` and `halfOpen` of the gateway and the mark `own` of a frame are
  history: no guard of the code's steps reads them.
* `DeviceClient.poll` returns all frames that one read has completed.
  `request` passes over those before its answer and drops those behind it, the
  gateway's loop drops them all; how many one read brings is a choice.
* Statistics, logging and wording are left out.

## 3. Runs

| Run | Question | Result |
|---|---|---|
| `actuator` | authority, watchdog, fault latch, ownership, output promise, recentring | holds |
| `safety_loop` | supervision, freshness, zero and axis, warm-up, isolation of manual sessions, fault reports across one cycle, also when the firmware halts anywhere | holds |
| `motion` | RUNNING is calibrated; the service implements `MotionFeed`; a settled sensor runs | holds |
| `config` | the two slots implement `PersistentCell`; clean means stored; mode and stream agree; a configuration is restored whole and applied in part only when refused | holds |
| `uart_link` | the reader delivers every byte once and in order, stays in step with the DMA, the parser hears and finds its place again, every frame is served | holds |
| `gateway` | at most one execution, one answer, no stale command, no foreign answer; the queue is served and a lost port announced | holds |
| `late_recovery` | is a degraded sensor retried when its retry is due? | violated: finding |
| `stale_enable` | does an accepted Enable have fresh motion? | violated: finding |
| `stale_zero` | is the captured zero the current attitude? | violated: finding |
| `fault_output` | does an application FAULT stop the output? | violated: finding |
| `reception` | is reception resumed after any line error? | violated: finding |
| `lost_snapshot` | is the device's state published once the broker is back? | violated: finding |

What the findings say:

* `late_recovery`.  `App_IsTimeReached` reads the deadline difference as signed,
  and only an attempt (or boot) moves the deadline.  A first degradation more
  than 24.8 days after boot is not retried until the tick has wrapped, up to
  24.8 days later.  `SettledSensorRuns` still holds: eventually it is retried.
* `stale_enable`.  `CONTROL_ENABLE` passes the frame's own time stamp as the
  present.  The next control pass leaves the loop again (`HoldIsFresh` holds),
  so the effect is an accepted command and a stopped output.  It takes a sample
  period above 20 ms, because five invalid samples in a row degrade the service.
* `stale_zero`.  The estimator refuses a sample after a gap; the frame is
  already stamped.  It takes a sample period above 40 ms.
* `fault_output`.  The fatal hooks spin with interrupts disabled; the timer
  keeps driving the servo.
* `reception`.  The error interrupt restarts the DMA at the start of the ring and
  zeroes the reader's indices.  When it strikes after `BspUart_TryReadByte` has
  read the DMA position, the reader stores that old position, counts bytes that
  never came and stays out of step: it delivers old bytes in place of new ones
  until the next line error outside of a poll.  The run `uart_link` leaves this
  interleaving out (`NotRaced`); the theorem `ResumedUnlessRaced` says that
  nothing else does this.
* `lost_snapshot`.  `_on_connect` counts the reconnection before it marks the
  client connected.  A loop that reads the count in between publishes its
  snapshot into nothing and has consumed the count.  In the run the device's
  port has failed while the broker was away, and stays announced as online.

What the passing runs showed on the way, each an exception written into a
property or a case left out of one:

* A LOAD or RESET whose `Apply` fails on the logger's lock leaves `dirty` FALSE
  while the configuration in force is not the stored one; hence `answer = "OK"`
  in `CleanMeansStored`, and the disjuncts with `refused` there and in
  `RestoreIsWhole`: of what was refused only the sampling period is in effect.
  LOAD and RESET change `telemetry_enabled` but not the protocol mode; hence
  `reloaded` in `ModeFollowsStream`.
* `CONTROL_ENABLE` writes the axis it is given into the configuration without
  marking it dirty, so that a clean service may run on another axis than the
  stored one; hence `turned` in `CleanMeansStored` and the last disjunct of
  `RestoreIsWhole`.
* `CONTROL_SET_PID` sets `integral_leak_factor` and marks the configuration
  dirty; a SAVE writes a record that has no such field and marks it clean, and
  the next boot has the default factor again.  A LOAD or a factory reset leaves
  the factor in force as it is, marked clean.  `docs/config-persistence.md` says
  that SET commands set `dirty` and that a save commits, and does not list the
  factor among what is never persisted.  The leak factor is therefore a variable
  of its own (`leak`), and not part of what the two properties above compare.
* The comment in `ConfigService_Set` (`config_service.c:82`) promises that no part
  of a configuration takes effect alone.  When the logger's lock times out, the
  sampling period and the filter have been applied and the request is refused.
  `PartialOnlyWhenRefused` says that nothing else does this.
* A factory reset that fails half way can bring back the configuration before
  the last one: the other slot still holds it.  `PersistentCell` says so.
* `_connect_device` installs its client before the handshake.  If the handshake
  fails, `run()` keeps that client, neither announces it nor connects again, and
  as numbering starts from 1 again a late answer of the session before may
  report OK for a command that never ran.  The same happens after a handshake
  that went through, when the device had several frames of the session before
  still to answer: their answers carry the numbers and types of the handshake's
  own requests and are taken for them, the flush at the end of the handshake
  comes too early, and the next command may get an old answer.  Hence
  `halfOpen` in `OkMeansDone`, which says both, and only for an answer that
  really is of an earlier session.
* Rejected and expired commands use up entries of the result cache, and may so
  evict a result that a duplicate will still ask for.  An eviction, a result that
  lapses while its command is still in time, and the end of the process are the
  only ways a side effect is sent again: `AtMostOnce` and `OneAnswer` except
  them.
* `OfflineIsAnnounced` excepts what `lost_snapshot` shows: an announcement that
  was dropped because the count came early (`missed`).  It ends with the
  process: a stop whose `close()` raises ends `run()` before anything is
  announced.
* After a kill the retained device availability stays "online".

`docs/architecture.md` draws two transitions that its neighbours do not:
control disable leading back to Armed, and a command time-out leading to
SafeBoot.  The code, `docs/pid-attitude-control.md` and
`docs/actuator-safety-model.md` agree with each other (disable stops the output,
a time-out only recentres), so the diagram is noted here and not a run.

### Bounds

* `MCActuator`: 12 ticks to a wrap, time-out 4, time steps 0, 1, 3 and 6, so
  ages cross the time-out and the wrap in every phase.  The pulse window is
  7 to 13 around 10 and the timer accepts up to 12, so a compare write can fail;
  requests lie below, inside and above the window.  Two protocol owners.
* `MCSafetyLoop`: one unit is one 10 ms cycle and a cycle may be late by one.
  Frames are stale above 2, a PID step takes frames 1 apart, two warm-up samples;
  the window has three pulses and the servo crosses it in two steps.  Both axes,
  which are symmetric, and two protocol owners.  A RUNNING service may be quiet
  for 3, longer than the
  freshness limit, as five samples at the longest period (5 x 100 ms against
  100 ms) are in the code.  The system really halts there (fatal hook), hence no
  deadlock check; without the hooks there is none.  `fault_output` uses the same
  reason.
* `MCMotion`: two samples complete a calibration and two moving ones fail it,
  two bad samples degrade, two good ones recover, so the counts cross their
  limits in every order; 12 ticks to a wrap with a retry period of 3; sample
  periods 1 and 3 with late cycles; a gap above 4 is refused.  `MaxQuietAge` is
  6, the smallest value for which the refinement holds, and the bound of the
  theorem `FeedIsImplemented`; `InstanceIsTimely` has TLC evaluate its
  hypothesis.
* `MCConfig`: four generations, the fewest for which the wrapping comparison
  tells newer from older, so every save sequence wraps; two periods, the stream
  flag, and two tunings: one a save keeps, and one it rounds.  Nothing bounds
  the number of saves, failures and power cuts.  One axis, one leak factor, and
  no tuning that a save refuses: the product with the other values would take
  too long.  The properties also hold with a third tuning of that kind (1
  million states), and with both axes and one period (1.3 million); the
  proofs cover all of it.
* `MCUartLink`: three frames of five bytes over a ring of six, so the DMA wraps
  twice; one payload byte, enough for a corrupted length to swallow the start of
  the next frame; one line error or changed byte, up to two bytes on top of a
  full ring, a queue of one.  Once all is sent and served nothing happens any
  more, hence no deadlock check.
* `MCGateway`: a side effect, and a read of the same message type as those of
  the handshake, so that an answer can be mistaken; one retry; a device, a queue
  and a cache that hold one each, so each overflows; three disturbances out of
  deliveries, expiries, lapses before the expiry, losses, breaks, stops and
  kills.  The safety properties also hold with a second side effect of the
  first one's type (630 thousand states), and, with all three commands, with
  four disturbances (7 million), with a cache of two, and with a device that
  holds two commands (5 million), where a whole handshake can be answered to
  an earlier session; the proofs cover all of these.  `MCLostSnapshot` needs one
  command and two disturbances: the port, and the broker.

### Fairness

`actuator` assumes that SensorTask's actuator pass keeps coming and time passes
in it (`osDelayUntil` in an endless loop, highest application priority); no
command ever has to arrive.  `motion` and `fault_output` assume the same of the
SensorTask cycle.  `uart_link` assumes it of CommunicationTask's poll and of
SensorTask's one command per cycle.  `gateway` assumes that the main loop goes
on, since every wait in it has a limit (`request` polls until a time-out, the
queue is read without blocking, the port with one), and that Paho connects
again and finishes its callback, as its network loop does; `lost_snapshot`
assumes the same.  The device, the line, the sender and the
sensor promise nothing; `SettledSensorRuns` is conditional on `settled`, and
`EverythingIsServed` on an undisturbed line that does not overrun the ring.

## 4. Proofs

Every theorem holds for all values of the constants that satisfy the named
assumptions of its module, and without the bounds of the runs: tick widths,
time-outs, windows, sets of owners, of configurations, of request ids, and
capacities are arbitrary.

* `ActuatorProofs`: the three invariants (`TypeCorrect`, `AuthorityHolds`,
  `WatchdogHolds`), the two action properties (`FaultLatched`, `OwnerHolds`),
  and `OutputIsSafe`: `ActuatorSpec` implements `SafeOutput`.  The inductive
  invariant is the conjunction of the three invariants.  None suffices alone:
  the watchdog argument needs that a latched manual target was set by the
  watchdog of an armed owner, the bounded change of a running pulse needs that
  the compare register equals the servo position while armed, and both need the
  window.  Refinement maps `on` to `pwmRunning`, `pulse` to the compare value,
  and `MaxJump` to one slew step at the capped interval.
* `LoopProofs`: all invariants and action properties of `SafetyLoop`, and that
  the actuator's authority and watchdog hold inside the cycle, where the control
  loop is one more user of it.  `LoopInv` adds to the properties what each phase
  of the cycle knows (after the control pass an enabled loop holds; at the end
  of a cycle it holds on fresh motion), that a manual session excludes an
  enabled loop, and that FAULT means halted.  The actuator's part is taken
  over from `ActuatorProofs`, action by action.
* `MotionProofs`: types, `RunningIsCalibrated`, and `FeedIsImplemented`:
  `MotionSpec` implements `MotionFeed`.  The invariant adds that a service that
  has been calibrated has a calibrated frame and a completed calibration, and
  that a calibration under way is short of both of its limits.  For the
  refinement `Quiet` adds up the age of a RUNNING service's frame: one longest
  wait for each invalid sample since, and the time since the last one.
* `ConfigProofs`: every property of the run `config`.  `StoreInv` says of each
  slot how it relates to the status in RAM: the slot the status names holds the
  settled configuration in its generation, or an unfinished operation explains
  why not; the other slot, if valid, is one generation older or, after an
  unanswered commit, newer; and how far the operation under way has come.  The
  wrapping comparison is dealt with by three lemmas about remainders.  On top,
  `ServiceInv` says that nothing changes the captured configuration, axis
  included, during a save.  `StoreImplementsCell` maps `durable` to what a boot would load.
* `LinkProofs`: every invariant of the run `uart_link`, and
  `ResumedUnlessRaced`.  `RingInv` follows the
  reader through a poll: between the comparison of the positions and the count,
  the fresh bytes have to be added to the pending ones.  `FifoInv` adds that, as
  long as the ring was never full and no error struck inside a poll, the unread
  bytes lie between reader and DMA in the order of their arrival, and that a
  position the reader has seen is one of theirs; that fewer than a ring full of
  them keep their cells apart is a lemma about remainders.  `ParserInv` needs
  neither condition.  It says what the parser holds of a frame it has heard
  so far, and that after good bytes it is either still swallowing a payload, of
  which no more is left than the bound minus the bytes since, or in phase with
  the line.  In phase it need not have heard the beginning of the present frame,
  if what it swallowed ended inside it; the bound allows for the rest of that
  frame, and from the next one on in phase means heard.
* `GatewayProofs`: `NeverRunsStale`.  Wherever a command is on its way from the
  queue to the device, it has come in time unless it is still to be rejected.
* `CacheProofs`: `AtMostOnce` and `OneAnswer`.  The cache is ordered: whoever
  follows an entry was answered after it.  So an entry that gives way to a new
  one has as many successors as the cache holds, which are distinct
  (`FollowersCount`), and everything due to be remembered and in time is in the
  cache.  A result may be out of time before its command; then the command is
  not due to be remembered, or it is the one that is executed just now.  A
  command that misses the cache was therefore not written before, or is
  forgotten, or has expired and is rejected.
* `SessionProofs`: `OkMeansDone` and the types of the gateway.  The line is a
  pipe in which frames and answers of earlier sessions go before those of this
  one; once an answer of this session has come, nothing older is behind it or
  still with the device.  In one session a number stands for one request, so
  that an answer of this session that matches is to the present request.

Besides the exceptions a property itself states, three conditions limit what is proved, each one that the code's behaviour
needs: `RingIsFifo` and `ReaderStaysInStep` exclude an error inside a poll (the
run `reception` shows what happens then); `ReportedIsDone` excludes old answers
in a half-open session (see section 3); `FeedIsImplemented` assumes bounds on
the sample period and on the time between cycles, as no code bounds the
lateness of a task, and requires `MaxQuietAge` to be the age that follows from
them: a RUNNING service can go without a frame for `MaxInvalid - 1` bad samples,
each a period and a late cycle after the one before, and not quite a period
more.  With the code's 100 ms as the longest period and punctual 10 ms cycles
that is 535 ms.

Only model-checked:

* liveness (`AbandonedServoRecentres`, `SettledSensorRuns`,
  `EverythingIsServed`, `QueueIsServed`, `OfflineIsAnnounced`), out of the
  prover's reach here.

## 5. Not modelled, and why

* Floating-point arithmetic (PID, filters, estimator).
* Telemetry, CSV, health formatting and dashboards, on whose results nothing
  depends, and with them the motion snapshot, the UART transmit lock and
  transmission, which only they use besides the answers.
* The vendored HAL, CMSIS and kernel: their results are choices.
* Host command line tools and validation scripts.
* In `StartRxDma`: the failure of `HAL_UART_Receive_DMA`, which the vendored HAL
  does not return in the state it is called in.
* In the store: the save interval, which only refuses, and the counters.
* In the gateway: the payloads of commands.  `_config` and `_status` are read at
  a connect only, so that a second partial `set_config` reverts the fields of
  the first, and the retained `state` topic stays behind
  (`docs/mqtt-topic-contract.md` says latest).  A time stamp without a zone
  passes the parser but raises when it is compared, outside of the try, and ends
  `run()`.

## 6. Plan

Done: actuator, control loop, cycle, motion, configuration, reception and
parser, gateway and client, with the proofs above.  Left, in this order:

1. The configuration merge of the gateway, against the device's configuration.
2. The motion snapshot and the transmit lock, once something depends on them.
