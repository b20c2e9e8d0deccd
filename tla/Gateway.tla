-------------------------------- MODULE Gateway --------------------------------
(***************************************************************************)
(* The gateway from MQTT to the serial device.  Paho's thread puts command *)
(* messages into a bounded queue; the one main loop takes them, answers    *)
(* what it remembers from the result cache, rejects what is retained or    *)
(* too old, and passes the rest to the device.  Then it polls the port,    *)
(* and when the port has failed it closes it and connects anew.            *)
(*                                                                         *)
(* The broker may deliver a command several times (QoS 1), and keep a      *)
(* retained copy; the connection to it may break and come back; the whole  *)
(* process may be killed, or stopped, and started again with an empty      *)
(* queue and an empty cache.                                               *)
(*                                                                         *)
(* Time is what has gone by: a command expires, and a cached result        *)
(* outlives its time, in either order: nothing ties command_dedup_ttl_s to *)
(* maximum_command_age_s, and a command stamped in the future is not       *)
(* expired for long.  Commands that do not parse or whose parameters are   *)
(* invalid never reach the device and are left out; so are telemetry, the  *)
(* periodic states, the metrics, and the length of the reconnect delay.    *)
(***************************************************************************)
EXTENDS DeviceClient, SequencesExt

CONSTANTS
  SideEffects,     (* ids whose command is in SIDE_EFFECT_COMMANDS         *)
  QueueCapacity,   (* limits.command_queue_capacity                        *)
  CacheCapacity    (* limits.command_dedup_capacity                        *)

ASSUME GatewayAssumption ==
  /\ SideEffects \subseteq Ids /\ "none" \notin Ids
  /\ QueueCapacity \in Nat \ {0} /\ CacheCapacity \in Nat \ {0}

VARIABLES
  pc,           (* where run() is                                          *)
  starting,     (* it is at its first _connect_device                      *)
  step,         (* the request of _connect_device that is next             *)
  current,      (* the request id _handle_command works on                 *)
  queue,        (* command_queue                                           *)
  cache,        (* CommandResultCache._items, least recently used first    *)
  expired,      (* commands past their time                                *)
  lapsed,       (* ids whose result is past its time, cached or purged     *)
  mqttUp,       (* MqttClient.connected                                    *)
  counted,      (* Paho's thread has counted that it has connected again,  *)
                (* and is not connected yet                                *)
  reconnected,  (* reconnect_count > observed_reconnects                   *)
  available,    (* the retained device availability at the broker          *)
  (* History only: *)
  missed,       (* the loop has seen the count, but was not connected, and *)
                (* has published nothing since                             *)
  halfOpen,     (* the present client's handshake has failed, or the last  *)
                (* answer to it was to a frame of an earlier session       *)
  live,         (* ids of which a live copy came before they expired       *)
  last,         (* the answer given to each, in this run of the process    *)
  others,       (* the ids answered since then                             *)
  written       (* frames written for each side effect that the gateway is *)
                (* due to remember                                         *)

loopVars == <<pc, starting, step, current, halfOpen>>
cacheVars == <<cache, lapsed, last, others, written>>
mqttVars == <<mqttUp, counted, reconnected, available, missed>>
brokerVars == <<queue, live, expired>>
vars == <<clientVars, loopVars, cacheVars, mqttVars, brokerVars>>

Answers == {"OK", "FAILED", "RETAINED_COMMAND_REJECTED", "COMMAND_EXPIRED"}
Nothing == "none"

GatewayInit ==
  /\ ClientInit
  /\ pc = "down" /\ starting = TRUE /\ step = 1 /\ current = Nothing /\ halfOpen = FALSE
  /\ queue = <<>> /\ cache = <<>> /\ expired = {} /\ lapsed = {}
  /\ mqttUp = FALSE /\ counted = FALSE /\ reconnected = FALSE
  /\ available = "offline" /\ missed = FALSE
  /\ live = {} /\ last = [i \in Ids |-> Nothing] /\ others = [i \in Ids |-> {}]
  /\ written = [i \in SideEffects |-> 0]

-------------------------------------------------------------------------------
(* The result cache.                                                       *)

\* purge drops items from the front, and stops at one that is in time.
Purged ==
  LET inTime == SelectInSeq(cache, LAMBDA e : e.id \notin lapsed) IN
  IF inTime = 0 THEN <<>> ELSE SubSeq(cache, inTime, Len(cache))

IdsOf(items) == {e.id : e \in ToSet(items)}

Cached(i) == i \in IdsOf(Purged)
Place(i) == CHOOSE k \in DOMAIN Purged : Purged[k].id = i
AnswerFor(i) == Purged[Place(i)]

\* get: a hit becomes the most recently used, but keeps its time.
AfterGet(i) == Append(RemoveAt(Purged, Place(i)), AnswerFor(i))

\* Faulty variant: only what succeeded is remembered.
AfterPutOfSuccess(i, answer) ==
  IF answer = "OK" THEN Append(Purged, [id |-> i, answer |-> answer]) ELSE Purged

\* Faulty variant: nothing gives way.
AfterPutOnTop(i, answer) == Append(Purged, [id |-> i, answer |-> answer])

\* put, of an id get has just missed: the least recently used gives way.
AfterPut(i, answer) ==
  LET items == Append(Purged, [id |-> i, answer |-> answer]) IN
  IF Len(items) > CacheCapacity THEN Tail(items) ELSE items

\* History: i has been answered.  An id is due to be remembered until as many
\* others as the cache holds have been answered after it.
Remembers(i) ==
  /\ others' = [j \in Ids |-> IF j = i \/ last[j] = Nothing THEN {} ELSE others[j] \union {i}]
  /\ written' = [j \in SideEffects |->
                  IF Cardinality(others'[j]) >= CacheCapacity THEN 0 ELSE written[j]]

\* History: a frame for i is written, if the port can be.
Writes(i) ==
  written' = IF i \in SideEffects /\ handle = "open" THEN [written EXCEPT ![i] = @ + 1]
             ELSE written

-------------------------------------------------------------------------------
(* Paho's thread, the broker, and the clock.                               *)

\* _on_mqtt_message: a full queue refuses, and nobody is told.
Deliver(i, retained) ==
  /\ pc # "down" /\ mqttUp /\ Event
  /\ IF Len(queue) < QueueCapacity
     THEN queue' = Append(queue, [id |-> i, retained |-> retained])
     ELSE UNCHANGED queue
  /\ live' = IF retained \/ i \in expired THEN live ELSE live \union {i}
  /\ UNCHANGED <<undisturbed, loopVars, cacheVars, mqttVars, expired>>

MqttBreaks ==
  /\ pc # "down" /\ mqttUp /\ mqttUp' = FALSE /\ Event
  /\ UNCHANGED <<undisturbed, loopVars, cacheVars, counted, reconnected, available, missed,
                 brokerVars>>

\* _on_connect after a break: it counts first,
MqttCounts ==
  /\ pc # "down" /\ ~mqttUp /\ ~counted
  /\ counted' = TRUE /\ reconnected' = TRUE /\ missed' = FALSE
  /\ UNCHANGED <<clientVars, loopVars, cacheVars, mqttUp, available, brokerVars>>

\* and is connected after that.
MqttReturns ==
  /\ counted /\ counted' = FALSE /\ mqttUp' = TRUE
  /\ UNCHANGED <<clientVars, loopVars, cacheVars, reconnected, available, missed, brokerVars>>

Expire(i) ==
  /\ i \notin expired /\ expired' = expired \union {i} /\ Event
  /\ UNCHANGED <<undisturbed, loopVars, cacheVars, mqttVars, queue, live>>

\* A result outlives its time.  History: its command is due to be remembered
\* no more, unless it is past its own time.
Lapse(i) ==
  /\ i \in IdsOf(cache) /\ i \notin lapsed /\ lapsed' = lapsed \union {i}
  /\ \/ i \in expired /\ UNCHANGED <<events, written>>
     \/ /\ i \notin expired /\ Event
        /\ written' = [j \in SideEffects |-> IF j = i THEN 0 ELSE written[j]]
  /\ UNCHANGED <<undisturbed, loopVars, cache, last, others, mqttVars, brokerVars>>

-------------------------------------------------------------------------------
(* The main loop.                                                          *)

\* Publishing needs the broker; what cannot be published is dropped.
Published(state) == IF mqttUp THEN state ELSE available
Announce(state) == available' = Published(state) /\ missed' = (missed /\ ~mqttUp)
DeviceState == IF handle = "closed" THEN "offline" ELSE "online"

\* A process of its own: run() up to its first _connect_device.
Start ==
  /\ pc = "down" /\ pc' = "connect" /\ starting' = TRUE
  /\ mqttUp' = TRUE /\ reconnected' = FALSE
  /\ UNCHANGED <<clientVars, step, current, halfOpen, cacheVars, counted, available, missed,
                 brokerVars>>

\* Where the loop goes on: at its head, when the broker has been away.
ToLoopHead == pc' = IF reconnected THEN "loop" ELSE "commands"

\* Faulty variant: nothing is published after the broker has come back.
LoopHeadUnannounced ==
  /\ pc = "loop" /\ pc' = "commands" /\ reconnected' = FALSE
  /\ UNCHANGED <<clientVars, starting, step, current, halfOpen, cacheVars, mqttUp, counted,
                 available, missed, brokerVars>>

\* The online snapshot: of what it says only the device's state is kept here.
LoopHead ==
  /\ pc = "loop" /\ pc' = "commands" /\ reconnected' = FALSE
  /\ IF reconnected THEN available' = Published(DeviceState) /\ missed' = counted
     ELSE UNCHANGED <<available, missed>>
  /\ UNCHANGED <<clientVars, starting, step, current, halfOpen, cacheVars, mqttUp, counted,
                 brokerVars>>

\* The response is cached, and published if the broker is there.
Finish(i, answer) ==
  /\ cache' = AfterPut(i, answer) /\ lapsed' = lapsed \ {i}
  /\ last' = [last EXCEPT ![i] = answer] /\ Remembers(i)
  /\ pc' = "commands" /\ current' = Nothing

TakenFromQueue ==
  /\ pc = "commands" /\ queue # <<>> /\ queue' = Tail(queue)
  /\ UNCHANGED <<line, handle, fromDevice, events, done,
                 starting, step, halfOpen, mqttVars, live, expired>>

Replay ==
  /\ TakenFromQueue
  /\ LET i == Head(queue).id IN
       /\ Cached(i)
       /\ cache' = AfterGet(i)
       /\ last' = [last EXCEPT ![i] = AnswerFor(i).answer] /\ Remembers(i)
  /\ UNCHANGED <<pc, current, lapsed, sequence, request, toDevice>>

\* Faulty variant: the age of a command is not checked.
ObjectionToAnyAge(m) ==
  IF m.retained THEN "RETAINED_COMMAND_REJECTED"
  ELSE IF handle = "closed" THEN "FAILED" ELSE Nothing

\* Why a command that is not cached is answered without the device, if it is.
Objection(m) ==
  IF m.retained THEN "RETAINED_COMMAND_REJECTED"
  ELSE IF m.id \in expired THEN "COMMAND_EXPIRED"
  ELSE IF handle = "closed" THEN "FAILED" ELSE Nothing

Reject ==
  /\ TakenFromQueue /\ ~Cached(Head(queue).id)
  /\ Objection(Head(queue)) # Nothing
  /\ Finish(Head(queue).id, Objection(Head(queue)))
  /\ UNCHANGED <<sequence, request, toDevice>>

\* The request to the device begins, and run() waits in it.
Execute ==
  /\ pc = "commands" /\ queue # <<>> /\ queue' = Tail(queue)
  /\ LET i == Head(queue).id IN
       /\ ~Cached(i) /\ Objection(Head(queue)) = Nothing
       /\ Begin(i, i \notin SideEffects) /\ Writes(i) /\ current' = i
       /\ cache' = Purged
  /\ pc' = "executing"
  /\ UNCHANGED <<starting, step, halfOpen, lapsed, last, others, mqttVars, live, expired>>

\* Inside DeviceClient.request; the caller is where it was.
Awaiting ==
  /\ \/ Retry /\ Writes(current)
     \/ PassOver /\ UNCHANGED written
  /\ UNCHANGED <<loopVars, cache, lapsed, last, others, mqttVars, brokerVars>>

Executed ==
  /\ pc = "executing"
  /\ \/ Answered(TRUE) /\ Finish(current, "OK")
     \/ (Answered(FALSE) \/ GiveUp) /\ Finish(current, "FAILED")
  /\ UNCHANGED <<starting, step, halfOpen, mqttVars, brokerVars>>

\* The queue is empty, and the port's turn has come.  Of the late answers one
\* read's worth is dropped; a port that fails is closed.
Poll ==
  /\ pc = "commands" /\ queue = <<>>
  /\ \/ /\ handle = "broken" /\ handle' = "closed"
        /\ Announce("offline") /\ UNCHANGED fromDevice
     \/ /\ handle = "open" /\ \E n \in 0..Len(fromDevice) : fromDevice' = After(n)
        /\ UNCHANGED <<handle, available, missed>>
     \/ handle = "closed" /\ UNCHANGED <<handle, fromDevice, available, missed>>
  /\ IF handle = "open" THEN ToLoopHead ELSE pc' = "connect"
  /\ UNCHANGED <<line, sequence, request, toDevice, events, done, starting, step, current,
                 halfOpen, cacheVars, mqttUp, counted, reconnected, brokerVars>>

-------------------------------------------------------------------------------
(* _connect_device: PING and the reads, which are one step here, then the  *)
(* stream if it is off.  The configuration that is read once more after    *)
(* that is one of the reads.                                               *)

Connect ==
  /\ pc = "connect" /\ Open
  /\ pc' = "handshake" /\ step' = 1 /\ halfOpen' = FALSE
  /\ UNCHANGED <<starting, current, cacheVars, mqttVars, brokerVars>>

Ask ==
  /\ pc = "handshake" /\ request = NoRequest
  /\ IF step = 2 THEN Begin("stream", FALSE) ELSE Begin("read", TRUE)
  /\ UNCHANGED <<loopVars, cacheVars, mqttVars, brokerVars>>

Connected ==
  /\ ToLoopHead /\ step' = 1 /\ starting' = FALSE /\ Announce(DeviceState)

\* Whether the stream is on is in the answer to the first reads.
StepDone ==
  /\ pc = "handshake"
  /\ \/ /\ AnsweredAndFlushed /\ Connected
        /\ halfOpen' = ~Head(fromDevice).own
     \/ /\ step = 1 /\ step' = 2 /\ Answered(TRUE)
        /\ UNCHANGED <<pc, starting, available, missed, halfOpen>>
  /\ UNCHANGED <<current, cacheVars, mqttUp, counted, reconnected, brokerVars>>

\* The process is no more; the device keeps what it has received.
EndProcess ==
  /\ pc' = "down" /\ starting' = TRUE /\ step' = 1 /\ current' = Nothing
  /\ halfOpen' = FALSE /\ handle' = "closed" /\ sequence' = 0
  /\ request' = NoRequest /\ fromDevice' = <<>>
  /\ queue' = <<>> /\ cache' = <<>> /\ lapsed' = {}
  /\ mqttUp' = FALSE /\ counted' = FALSE /\ reconnected' = FALSE /\ missed' = FALSE
  /\ last' = [i \in Ids |-> Nothing] /\ others' = [i \in Ids |-> {}]
  /\ written' = [i \in SideEffects |-> 0]
  /\ UNCHANGED <<line, toDevice, done, live, expired>>

\* The first connection is outside of run()'s try; a later one that fails
\* after the port was opened leaves the client installed.
ConnectFails ==
  \/ /\ pc = "connect" /\ ~line /\ starting /\ EndProcess /\ UNCHANGED <<events, available>>
  \/ /\ pc = "connect" /\ ~line /\ ~starting /\ ToLoopHead
     /\ UNCHANGED <<clientVars, starting, step, current, halfOpen, cacheVars, mqttVars, brokerVars>>
  \/ /\ pc = "handshake" /\ starting /\ (AnswerIs(FALSE) \/ OutOfAttempts)
     /\ EndProcess /\ UNCHANGED <<events, available>>
  \/ /\ pc = "handshake" /\ ~starting /\ (Answered(FALSE) \/ GiveUp)
     /\ ToLoopHead /\ step' = 1 /\ halfOpen' = TRUE
     /\ UNCHANGED <<starting, current, cacheVars, mqttVars, brokerVars>>

\* The end of run(): if the port was still there, its close may raise, and
\* then nothing is published.
EndsPublishing ==
  /\ EndProcess
  /\ \/ available' = Published("offline")
     \/ handle # "closed" /\ UNCHANGED available

\* A failed port cannot be closed: run() ends, and its second close finds
\* nothing left to close.
PollFails ==
  /\ pc = "commands" /\ queue = <<>> /\ handle = "broken"
  /\ EndProcess /\ available' = Published("offline") /\ UNCHANGED events

\* stop(): the stream is switched off again if it was off at first, the port
\* is closed, and the device is announced offline.
Stop ==
  /\ pc \in {"loop", "commands"} /\ Event
  /\ \/ EndsPublishing
     \/ /\ handle # "closed" /\ pc' = "stopping"
        /\ UNCHANGED <<line, handle, sequence, request, toDevice, fromDevice, done,
                       starting, step, current, halfOpen, cacheVars, mqttVars, brokerVars>>

StopStream ==
  \/ /\ pc = "stopping" /\ Begin("stream", FALSE) /\ pc' = "stopped"
     /\ UNCHANGED <<starting, step, current, halfOpen, cacheVars, mqttVars, brokerVars>>
  \/ /\ pc = "stopped" /\ (\E ok \in BOOLEAN : AnswerIs(ok) \/ OutOfAttempts)
     /\ EndsPublishing /\ UNCHANGED events

\* The process is killed; its last will speaks for the gateway, and for the
\* device nobody does.
Kill ==
  /\ pc # "down" /\ Event
  /\ EndProcess /\ UNCHANGED available

GatewayStep ==
  \/ Start \/ LoopHead \/ Replay \/ Reject \/ Execute \/ Awaiting \/ Executed
  \/ Poll \/ Connect \/ Ask \/ StepDone \/ ConnectFails \/ StopStream

GatewayNext ==
  \/ GatewayStep
  \/ \E i \in Ids : Expire(i) \/ Lapse(i) \/ \E retained \in BOOLEAN : Deliver(i, retained)
  \/ MqttBreaks \/ MqttCounts \/ MqttReturns \/ PollFails \/ Stop \/ Kill
  \/ LinkStep /\ UNCHANGED <<loopVars, cacheVars, mqttVars, brokerVars>>

\* The main loop never waits without a limit, and Paho connects again.
GatewaySpec ==
  /\ GatewayInit /\ [][GatewayNext]_vars
  /\ WF_vars(GatewayStep) /\ WF_vars(MqttCounts) /\ WF_vars(MqttReturns)

-------------------------------------------------------------------------------

Frames == [tag : Tags, sequence : Nat, own : BOOLEAN]
Replies == [sequence : Nat, type : Types, ok : BOOLEAN, own : BOOLEAN]

GatewayTypeOK ==
  /\ line \in BOOLEAN /\ handle \in {"closed", "open", "broken"}
  /\ sequence \in Nat
  /\ request = NoRequest \/ request \in [tag : Tags, sequence : 1..sequence, left : 0..Retries]
  /\ ToSet(toDevice) \subseteq Frames /\ Len(toDevice) <= DeviceQueue
  /\ ToSet(fromDevice) \subseteq Replies
  /\ pc \in {"down", "loop", "commands", "executing", "connect", "handshake",
             "stopping", "stopped"}
  /\ step \in 1..2 /\ current \in Ids \union {Nothing} /\ starting \in BOOLEAN
  /\ Len(queue) <= QueueCapacity /\ ToSet(queue) \subseteq [id : Ids, retained : BOOLEAN]
  /\ Len(cache) <= CacheCapacity /\ ToSet(cache) \subseteq [id : Ids, answer : Answers]
  /\ Cardinality(IdsOf(cache)) = Len(cache)
  /\ lapsed \subseteq Ids
  /\ available \in {"online", "offline"} /\ missed \in BOOLEAN
  /\ mqttUp \in BOOLEAN /\ counted \in BOOLEAN /\ reconnected \in BOOLEAN
  /\ events \in 0..MaxEvents
  /\ live \subseteq Ids /\ last \in [Ids -> Answers \union {Nothing}]
  /\ others \in [Ids -> SUBSET Ids]

\* A side effect is put on the line at most once, however often the broker
\* delivers it and however the request ends, until its result is evicted by
\* as many other results as the cache holds, or lapses while the command is
\* still in time, or the process ends.
AtMostOnce == \A i \in SideEffects : written[i] <= 1

\* Every copy of a command gets the answer the first one got: "duplicate
\* UUIDs replay the cached response" (docs/mqtt-topic-contract.md), the same
\* exceptions made, and that of a result that outlived its time.
OneAnswer ==
  [][\A i \in Ids :
       last[i] # Nothing /\ last'[i] \notin {last[i], Nothing}
         => Cardinality(others[i]) >= CacheCapacity \/ i \in lapsed]_vars

\* No answer is taken for that to another command: what is reported as done
\* the device has done, although answers come late and numbering starts anew
\* with each connection.  Only a handshake that failed, or that was answered
\* to an earlier session, lets in an answer to that session.
OkMeansDone ==
  [][\A i \in Ids : current = i /\ current' # i /\ last'[i] = "OK"
       => i \in done \/ (halfOpen /\ ~Head(fromDevice).own)]_vars

\* A command of which only retained copies came, or only copies that came
\* too late, is never executed.
NeverRunsStale == done \subseteq live

\* The loop gets through its queue again and again, whatever becomes of the
\* line and of the broker: no command that got into it waits for ever, and
\* none is waited for for ever.
QueueIsServed ==
  (queue # <<>> \/ pc = "executing") ~> (queue = <<>> /\ pc # "executing")

\* A port that has been closed is announced, also when the broker was away
\* at the time: the announcement is made up for when it is back.  Not so when
\* the loop sees the count before the connection is marked.
OfflineIsAnnounced ==
  (handle = "closed" /\ pc # "down")
    ~> (available = "offline" \/ handle # "closed" \/ pc = "down" \/ missed)

\* "Paho performs bounded reconnect delay, re-subscribes to the command topic,
\* and republishes online/meta/state after recovery"
\* (docs/phase-07-mqtt-gateway.md): once the connection to the broker is back,
\* it comes to say what the device's state is, unless that changes, or the
\* connection breaks again.
RecoveryRepublishes ==
  (pc # "down" /\ mqttUp /\ handle = "closed")
    ~> (available = "offline" \/ handle # "closed" \/ pc = "down" \/ ~mqttUp)
===============================================================================
