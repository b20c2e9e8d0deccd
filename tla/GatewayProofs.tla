----------------------------- MODULE GatewayProofs -----------------------------
(***************************************************************************)
(* A command that came too late, or only as a retained copy, never acts:   *)
(* for every set of ids, capacity and number of retries, and without the   *)
(* bound on events that the runs need.                                     *)
(***************************************************************************)
EXTENDS Gateway, TLAPS

Messages == [id : Ids, retained : BOOLEAN]

\* Where a command can be on its way from the queue to the device.
WayTyped ==
  /\ queue \in Seq(Messages) /\ toDevice \in Seq(Frames) /\ sequence \in Nat
  /\ request # NoRequest => request.tag \in Tags

\* Unless it is still to be rejected, it has come in time.
InTime ==
  /\ \A k \in 1..Len(queue) :
       ~queue[k].retained /\ queue[k].id \notin expired => queue[k].id \in live
  /\ request # NoRequest /\ request.tag \in Ids => request.tag \in live
  /\ \A k \in 1..Len(toDevice) : toDevice[k].tag \in Ids => toDevice[k].tag \in live

\* The inductive invariant.
StaleInv == WayTyped /\ InTime /\ NeverRunsStale

wayVars == <<queue, toDevice, sequence, request, expired, live, done>>

\* What concerns no command on its way keeps the invariant.
LEMMA WayUnchanged == StaleInv /\ UNCHANGED wayVars => StaleInv'
BY DEF StaleInv, WayTyped, InTime, NeverRunsStale, wayVars

\* Dropping the head of a sequence leaves its other elements.
LEMMA TailElements ==
  ASSUME NEW S, NEW s \in Seq(S), s # <<>>
  PROVE  /\ Head(s) \in S /\ Head(s) = s[1] /\ 1 \in 1..Len(s)
         /\ Tail(s) \in Seq(S)
         /\ \A k \in 1..Len(Tail(s)) : k + 1 \in 1..Len(s) /\ Tail(s)[k] = s[k + 1]
OBVIOUS

\* Appending adds one element.
LEMMA AppendElements ==
  ASSUME NEW S, NEW s \in Seq(S), NEW e \in S
  PROVE  /\ Append(s, e) \in Seq(S)
         /\ \A k \in 1..Len(Append(s, e)) :
              \/ k \in 1..Len(s) /\ Append(s, e)[k] = s[k]
              \/ Append(s, e)[k] = e
OBVIOUS

\* An attempt for a command that came in time, or for none.
LEMMA SendKeepsInv ==
  ASSUME StaleInv, NEW tag \in Tags, NEW left, Send(tag, left),
         tag \in Ids => tag \in live,
         queue' = queue \/ (queue # <<>> /\ queue' = Tail(queue)),
         UNCHANGED <<expired, live>>
  PROVE  StaleInv'
<1> DEFINE frame == [tag |-> tag, sequence |-> sequence + 1, own |-> TRUE]
<1>1. frame \in Frames /\ frame.tag = tag /\ sequence' \in Nat /\ done' = done
  BY DEF StaleInv, WayTyped, Send, Frames
<1>2. request'.tag = tag
  BY DEF Send
<1>3. toDevice' = toDevice \/ toDevice' = Append(toDevice, frame)
  BY DEF Send
<1> HIDE DEF frame
<1>4. /\ toDevice' \in Seq(Frames)
      /\ \A k \in 1..Len(toDevice') : toDevice'[k].tag \in Ids => toDevice'[k].tag \in live
  <2>1. CASE toDevice' = toDevice
    BY <2>1 DEF StaleInv, WayTyped, InTime
  <2>2. CASE toDevice' = Append(toDevice, frame)
    BY <1>1, <2>2, AppendElements DEF StaleInv, WayTyped, InTime
  <2> QED
    BY <1>3, <2>1, <2>2
<1>5. /\ queue' \in Seq(Messages)
      /\ \A k \in 1..Len(queue') :
           ~queue'[k].retained /\ queue'[k].id \notin expired => queue'[k].id \in live
  <2>1. CASE queue' = queue
    BY <2>1 DEF StaleInv, WayTyped, InTime
  <2>2. CASE queue # <<>> /\ queue' = Tail(queue)
    BY <2>2, TailElements DEF StaleInv, WayTyped, InTime
  <2> QED
    BY <2>1, <2>2
<1> QED
  BY <1>1, <1>2, <1>4, <1>5 DEF StaleInv, WayTyped, InTime, NeverRunsStale

\* Forgetting what is queued, requested or on the line keeps the invariant.
LEMMA LessKeepsInv ==
  ASSUME StaleInv,
         queue' \in {queue, <<>>} \/ (queue # <<>> /\ queue' = Tail(queue)),
         toDevice' = toDevice \/ (toDevice # <<>> /\ toDevice' = Tail(toDevice)),
         request' \in {request, NoRequest},
         sequence' \in {sequence, 0},
         UNCHANGED <<expired, live, done>>
  PROVE  StaleInv'
<1>1. /\ queue' \in Seq(Messages)
      /\ \A k \in 1..Len(queue') :
           ~queue'[k].retained /\ queue'[k].id \notin expired => queue'[k].id \in live
  <2>1. CASE queue' = queue
    BY <2>1 DEF StaleInv, WayTyped, InTime
  <2>2. CASE queue' = <<>>
    BY <2>2
  <2>3. CASE queue # <<>> /\ queue' = Tail(queue)
    BY <2>3, TailElements DEF StaleInv, WayTyped, InTime
  <2> QED
    BY <2>1, <2>2, <2>3
<1>2. /\ toDevice' \in Seq(Frames)
      /\ \A k \in 1..Len(toDevice') : toDevice'[k].tag \in Ids => toDevice'[k].tag \in live
  <2>1. CASE toDevice' = toDevice
    BY <2>1 DEF StaleInv, WayTyped, InTime
  <2>2. CASE toDevice # <<>> /\ toDevice' = Tail(toDevice)
    BY <2>2, TailElements DEF StaleInv, WayTyped, InTime
  <2> QED
    BY <2>1, <2>2
<1> QED
  BY <1>1, <1>2 DEF StaleInv, WayTyped, InTime, NeverRunsStale

\* At first there is no command anywhere.
LEMMA StaleInitInv == GatewayInit => StaleInv
BY DEF GatewayInit, ClientInit, StaleInv, WayTyped, InTime, NeverRunsStale

\* Paho's thread: a copy that is not retained and not late is a live one.
LEMMA DeliverKeepsInv ==
  ASSUME StaleInv, NEW i \in Ids, NEW retained \in BOOLEAN, Deliver(i, retained)
  PROVE  StaleInv'
<1> DEFINE message == [id |-> i, retained |-> retained]
<1>1. /\ message \in Messages /\ message.id = i /\ message.retained = retained
      /\ live \subseteq live'
      /\ retained \/ i \in expired \/ i \in live'
      /\ UNCHANGED <<toDevice, sequence, request, expired, done>>
      /\ queue' = queue \/ queue' = Append(queue, message)
  BY DEF Deliver, Messages, undisturbed
<1> HIDE DEF message
<1>2. /\ queue' \in Seq(Messages)
      /\ \A k \in 1..Len(queue') :
           ~queue'[k].retained /\ queue'[k].id \notin expired => queue'[k].id \in live'
  <2>1. CASE queue' = queue
    BY <1>1, <2>1 DEF StaleInv, WayTyped, InTime
  <2>2. CASE queue' = Append(queue, message)
    BY <1>1, <2>2, AppendElements DEF StaleInv, WayTyped, InTime
  <2> QED
    BY <1>1, <2>1, <2>2
<1> QED
  BY <1>1, <1>2 DEF StaleInv, WayTyped, InTime, NeverRunsStale

\* The clock: the later it is, the fewer commands there are to execute.
LEMMA ExpireKeepsInv ==
  ASSUME StaleInv, NEW i \in Ids, Expire(i)
  PROVE  StaleInv'
BY DEF StaleInv, WayTyped, InTime, NeverRunsStale, Expire, undisturbed

\* What the device executes was on the line to it.
LEMMA DeviceKeepsInv ==
  ASSUME StaleInv, DeviceExecutes, UNCHANGED <<queue, expired, live>>
  PROVE  StaleInv'
<1>1. /\ toDevice # <<>> /\ toDevice' = Tail(toDevice)
      /\ done' \subseteq done \union ({Head(toDevice).tag} \intersect Ids)
      /\ UNCHANGED <<sequence, request>>
  BY DEF DeviceExecutes
<1>2. Head(toDevice).tag \in Ids => Head(toDevice).tag \in live
  BY <1>1, TailElements DEF StaleInv, WayTyped, InTime
<1>3. /\ toDevice' \in Seq(Frames)
      /\ \A k \in 1..Len(toDevice') : toDevice'[k].tag \in Ids => toDevice'[k].tag \in live
  BY <1>1, TailElements DEF StaleInv, WayTyped, InTime
<1> QED
  BY <1>1, <1>2, <1>3 DEF StaleInv, WayTyped, InTime, NeverRunsStale

\* A new session disowns what is on the line, and changes nothing else there.
LEMMA OpenKeepsInv ==
  ASSUME StaleInv, Open, UNCHANGED <<queue, expired, live>>
  PROVE  StaleInv'
<1>1. /\ toDevice' = [k \in DOMAIN toDevice |-> [toDevice[k] EXCEPT !.own = FALSE]]
      /\ sequence' = 0 /\ UNCHANGED <<request, done>>
  BY DEF Open
<1>2. toDevice \in Seq(Frames) /\ \A k \in 1..Len(toDevice) : toDevice[k] \in Frames
  BY DEF StaleInv, WayTyped
<1>3. /\ toDevice' \in Seq(Frames) /\ Len(toDevice') = Len(toDevice)
      /\ \A k \in 1..Len(toDevice) : toDevice'[k].tag = toDevice[k].tag
  <2>1. \A k \in 1..Len(toDevice) :
          /\ [toDevice[k] EXCEPT !.own = FALSE] \in Frames
          /\ [toDevice[k] EXCEPT !.own = FALSE].tag = toDevice[k].tag
    BY <1>2 DEF Frames
  <2>2. DOMAIN toDevice = 1..Len(toDevice) /\ Len(toDevice) \in Nat
    BY <1>2
  <2>3. toDevice' = [k \in 1..Len(toDevice) |-> [toDevice[k] EXCEPT !.own = FALSE]]
    BY <1>1, <2>2
  <2>4. toDevice' \in [1..Len(toDevice) -> Frames]
    BY <2>1, <2>3
  <2>5. toDevice' \in Seq(Frames) /\ Len(toDevice') = Len(toDevice)
    BY <2>2, <2>4
  <2> QED
    BY <2>1, <2>3, <2>5
<1> QED
  BY <1>1, <1>3 DEF StaleInv, WayTyped, InTime, NeverRunsStale

\* The requests of connecting and of stopping are for no command.
LEMMA StepSendKeepsInv ==
  ASSUME StaleInv, NEW tag \in {"read", "stream"}, NEW left, Send(tag, left),
         UNCHANGED <<queue, expired, live>>
  PROVE  StaleInv'
<1>1. tag \in Tags /\ tag \notin Ids
  BY ClientAssumption DEF Tags
<1> QED
  BY <1>1, SendKeepsInv

\* The main loop: a command goes to the device only after Objection let it.
LEMMA LoopKeepsInv == StaleInv /\ GatewayStep => StaleInv'
<1> SUFFICES ASSUME StaleInv, GatewayStep PROVE StaleInv'
  OBVIOUS
<1>1. CASE Start \/ LoopHead
  BY <1>1, LessKeepsInv DEF Start, LoopHead, clientVars, undisturbed, brokerVars
<1>10. CASE Connect
  BY <1>10, OpenKeepsInv DEF Connect, brokerVars
<1>2. CASE Replay \/ Reject \/ Poll
  BY <1>2, LessKeepsInv DEF Replay, Reject, TakenFromQueue, Poll, brokerVars
<1>3. CASE Execute
  <2> DEFINE m == Head(queue)
  <2>1. /\ queue # <<>> /\ queue' = Tail(queue) /\ UNCHANGED <<live, expired>>
        /\ Objection(m) = Nothing
        /\ Send(m.id, Attempts(m.id \notin SideEffects) - 1)
    BY <1>3 DEF Execute, Begin
  <2>2. ~m.retained /\ m.id \notin expired
    BY <2>1 DEF Objection, Nothing
  <2>3. m \in Messages /\ m.id \in live
    BY <2>1, <2>2, TailElements DEF StaleInv, WayTyped, InTime
  <2>4. m.id \in Tags
    BY <2>3 DEF Messages, Tags
  <2> HIDE DEF m
  <2> QED
    BY <2>1, <2>3, <2>4, SendKeepsInv
<1>4. CASE Awaiting
  <2>1. UNCHANGED <<queue, live, expired>>
    BY <1>4 DEF Awaiting, brokerVars
  <2>2. CASE Retry
    <3>1. request # NoRequest /\ Send(request.tag, request.left - 1)
      BY <2>2 DEF Retry
    <3>2. request.tag \in Tags /\ (request.tag \in Ids => request.tag \in live)
      BY <3>1 DEF StaleInv, WayTyped, InTime
    <3> QED
      BY <2>1, <3>1, <3>2, SendKeepsInv
  <2>3. CASE PassOver
    BY <2>1, <2>3, LessKeepsInv DEF PassOver
  <2> QED
    BY <1>4, <2>2, <2>3 DEF Awaiting
<1>5. CASE Executed
  BY <1>5, LessKeepsInv DEF Executed, Answered, Accept, GiveUp, brokerVars
<1>6. CASE Ask
  BY <1>6, StepSendKeepsInv DEF Ask, Begin, brokerVars
<1>7. CASE StepDone
  BY <1>7, LessKeepsInv DEF StepDone, Answered, AnsweredAndFlushed, Accept, brokerVars
<1>8. CASE ConnectFails
  BY <1>8, LessKeepsInv
  DEF ConnectFails, EndProcess, Answered, Accept, GiveUp, clientVars, undisturbed, brokerVars
<1>9. CASE StopStream
  <2>1. CASE Begin("stream", FALSE) /\ UNCHANGED brokerVars
    BY <2>1, StepSendKeepsInv DEF Begin, brokerVars
  <2>2. CASE EndProcess
    BY <2>2, LessKeepsInv DEF EndProcess
  <2> QED
    BY <1>9, <2>1, <2>2 DEF StopStream, EndsPublishing
<1> QED
  BY <1>1, <1>2, <1>3, <1>4, <1>5, <1>6, <1>7, <1>8, <1>9, <1>10
  DEF GatewayStep

\* Every step keeps the invariant.
LEMMA StaleStepInv == StaleInv /\ [GatewayNext]_vars => StaleInv'
<1> SUFFICES ASSUME StaleInv, [GatewayNext]_vars PROVE StaleInv'
  OBVIOUS
<1>1. CASE GatewayStep
  BY <1>1, LoopKeepsInv
<1>2. ASSUME NEW i \in Ids, Expire(i) \/ Lapse(i) \/ \E retained \in BOOLEAN : Deliver(i, retained)
      PROVE  StaleInv'
  <2>1. CASE Lapse(i)
    BY <2>1, WayUnchanged DEF Lapse, wayVars, clientVars, undisturbed, brokerVars
  <2> QED
    BY <1>2, <2>1, ExpireKeepsInv, DeliverKeepsInv
<1>3. CASE MqttBreaks \/ MqttCounts \/ MqttReturns
  BY <1>3, WayUnchanged
  DEF MqttBreaks, MqttCounts, MqttReturns, wayVars, clientVars, undisturbed, brokerVars
<1>4. CASE PollFails \/ Stop \/ Kill
  BY <1>4, LessKeepsInv DEF PollFails, Stop, Kill, EndsPublishing, EndProcess, brokerVars
<1>5. CASE LinkStep /\ UNCHANGED <<loopVars, cacheVars, mqttVars, brokerVars>>
  <2>1. UNCHANGED <<queue, live, expired>>
    BY <1>5 DEF brokerVars
  <2>2. CASE DeviceExecutes
    BY <2>1, <2>2, DeviceKeepsInv
  <2>3. CASE FrameLost \/ LineBreaks \/ LineReturns
    BY <2>1, <2>3, LessKeepsInv DEF FrameLost, LineBreaks, LineReturns
  <2> QED
    BY <1>5, <2>2, <2>3 DEF LinkStep
<1>6. CASE UNCHANGED vars
  BY <1>6, WayUnchanged DEF vars, wayVars, clientVars, undisturbed, brokerVars
<1> QED
  BY <1>1, <1>2, <1>3, <1>4, <1>5, <1>6 DEF GatewayNext

\* A command of which only retained copies came, or only copies that came
\* too late, is never executed (gateway.py, _handle_command), whatever is
\* lost, retried, delivered again or cut off.
THEOREM StaleNeverRuns == GatewaySpec => []NeverRunsStale
<1>1. StaleInv => NeverRunsStale
  BY DEF StaleInv
<1> QED
  BY <1>1, StaleInitInv, StaleStepInv, PTL DEF GatewaySpec
===============================================================================
