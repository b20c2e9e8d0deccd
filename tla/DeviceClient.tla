----------------------------- MODULE DeviceClient -----------------------------
(***************************************************************************)
(* The host's end of the serial link: DeviceClient.request sends a command *)
(* under a fresh sequence number and polls until the answer with that      *)
(* number and that type is there, or until it has waited too long.  Then a *)
(* request that may be retried is sent again under the next number.        *)
(*                                                                         *)
(* The link is a pipe each way and the device answers in order, but late,  *)
(* or not at all: frames are lost, the port is pulled out and put back.  A *)
(* request may time out whenever its answer is not there, so late answers  *)
(* need no fault.  A write or a read that raises, as on a broken port,     *)
(* fails the attempt just as a timeout does, and is not told from it.      *)
(* Telemetry, payloads and the statistics of results are left out; so is   *)
(* the wrap of the 16-bit sequence, which no session here reaches.         *)
(*                                                                         *)
(* The mark "own" of a frame and of its answer is history: it was sent     *)
(* since the port was last opened.                                         *)
(***************************************************************************)
EXTENDS Naturals, Sequences

CONSTANTS
  Ids,         (* MQTT request ids; each stands for one command            *)
  TypeOf,      (* the message type of each request                         *)
  Retries,     (* DeviceClient.retries                                     *)
  DeviceQueue, (* commands the device holds; it drops what comes on top    *)
  MaxEvents    (* bound: frames lost, breaks of any kind, and whatever     *)
               (* else befalls from outside                                *)

ASSUME ClientAssumption ==
  /\ Retries \in Nat /\ DeviceQueue \in Nat \ {0} /\ MaxEvents \in Nat
  /\ Ids \intersect {"read", "stream"} = {}

\* What requests are made for: commands, and the steps of connecting.
Tags == Ids \union {"read", "stream"}

NoRequest == [tag |-> "none"]

VARIABLES
  line,        (* the device is plugged in                                 *)
  handle,      (* the transport: "closed", "open", or "broken", when the   *)
               (* port has gone from under it                              *)
  sequence,    (* DeviceClient.sequence                                    *)
  request,     (* the request being waited for                             *)
  toDevice, fromDevice,    (* frames under way                             *)
  events,      (* how many there have been                                 *)
  (* History only: *)
  done         (* commands the device has executed with success            *)

undisturbed == <<line, handle, sequence, request, toDevice, fromDevice, done>>
clientVars == <<undisturbed, events>>

Types == {TypeOf[t] : t \in Tags}

ClientInit ==
  /\ line = TRUE /\ handle = "closed" /\ sequence = 0 /\ request = NoRequest
  /\ toDevice = <<>> /\ fromDevice = <<>> /\ events = 0
  /\ done = {}

-------------------------------------------------------------------------------

\* One attempt: a fresh number, and a frame if the port can be written.
Send(tag, left) ==
  /\ sequence' = sequence + 1
  /\ request' = [tag |-> tag, sequence |-> sequence + 1, left |-> left]
  /\ IF handle = "open"
     THEN toDevice' = IF Len(toDevice) = DeviceQueue THEN toDevice ELSE
            Append(toDevice, [tag |-> tag, sequence |-> sequence + 1, own |-> TRUE])
     ELSE UNCHANGED toDevice
  /\ UNCHANGED <<line, handle, fromDevice, events, done>>

\* Faulty variant: every command is retried.
AttemptsAlways(retry) == Retries + 1

Attempts(retry) == IF retry THEN Retries + 1 ELSE 1

Begin(tag, retry) == request = NoRequest /\ Send(tag, Attempts(retry) - 1)

\* Faulty variant: any answer of the right type will do.
MatchesType(a) == a.type = TypeOf[request.tag]

Matches(a) == a.sequence = request.sequence /\ a.type = TypeOf[request.tag]

\* Faulty variant: the frame is sent again as it was, and not counted.
RetryUncounted ==
  /\ request # NoRequest /\ request.left > 0
  /\ toDevice' = IF handle # "open" \/ Len(toDevice) = DeviceQueue THEN toDevice ELSE
       Append(toDevice, [tag |-> request.tag, sequence |-> request.sequence, own |-> TRUE])
  /\ UNCHANGED <<line, handle, sequence, request, fromDevice, events, done>>

Retry == request # NoRequest /\ request.left > 0 /\ Send(request.tag, request.left - 1)

\* The last attempt has failed: request raises.
OutOfAttempts == request # NoRequest /\ request.left = 0

GiveUp ==
  /\ OutOfAttempts
  /\ request' = NoRequest
  /\ UNCHANGED <<line, handle, sequence, toDevice, fromDevice, events, done>>

\* An answer is there; a refusal by the device raises, and is not retried.
AnswerIs(ok) ==
  /\ request # NoRequest /\ handle = "open" /\ fromDevice # <<>>
  /\ Matches(Head(fromDevice)) /\ Head(fromDevice).ok = ok

Accept(ok, rest) ==
  /\ AnswerIs(ok)
  /\ request' = NoRequest /\ fromDevice' = rest
  /\ UNCHANGED <<line, handle, sequence, toDevice, events, done>>

\* What is behind the first n frames.
After(n) == SubSeq(fromDevice, n + 1, Len(fromDevice))

\* What was read along with the answer, and came after it, is dropped.
Answered(ok) == \E n \in 1..Len(fromDevice) : Accept(ok, After(n))

\* The last answer of connecting; then flush_input.
AnsweredAndFlushed == Accept(TRUE, <<>>)

\* The answer to another attempt, or to another request, is passed over.
PassOver ==
  /\ request # NoRequest /\ handle = "open" /\ fromDevice # <<>>
  /\ ~Matches(Head(fromDevice))
  /\ fromDevice' = Tail(fromDevice)
  /\ UNCHANGED <<line, handle, sequence, request, toDevice, events, done>>

\* A new client on a port just opened: numbering starts anew, and what the
\* port has received so far is flushed.
Open ==
  /\ line /\ handle = "closed"
  /\ handle' = "open" /\ sequence' = 0 /\ fromDevice' = <<>>
  /\ toDevice' = [k \in DOMAIN toDevice |-> [toDevice[k] EXCEPT !.own = FALSE]]
  /\ UNCHANGED <<line, request, events, done>>

-------------------------------------------------------------------------------

\* The device serves the next frame it has; it may refuse all but reads.
DeviceExecutes ==
  /\ toDevice # <<>> /\ toDevice' = Tail(toDevice)
  /\ \E ok \in BOOLEAN :
       LET f == Head(toDevice) IN
       /\ ok \/ TypeOf[f.tag] # "read"
       /\ done' = IF ok THEN done \union ({f.tag} \intersect Ids) ELSE done
       /\ fromDevice' = IF ~line THEN fromDevice ELSE
            Append(fromDevice,
                   [sequence |-> f.sequence, type |-> TypeOf[f.tag], ok |-> ok, own |-> f.own])
  /\ UNCHANGED <<line, handle, sequence, request, events>>

\* Not from the source: one more of the bounded number of disturbances.
Event == events < MaxEvents /\ events' = events + 1

FrameLost ==
  /\ Event
  /\ \/ toDevice # <<>> /\ toDevice' = Tail(toDevice) /\ UNCHANGED fromDevice
     \/ fromDevice # <<>> /\ fromDevice' = Tail(fromDevice) /\ UNCHANGED toDevice
  /\ UNCHANGED <<line, handle, sequence, request, done>>

\* What the device has already received it will still execute.
LineBreaks ==
  /\ line /\ Event
  /\ line' = FALSE /\ fromDevice' = <<>>
  /\ handle' = IF handle = "open" THEN "broken" ELSE handle
  /\ UNCHANGED <<sequence, request, toDevice, done>>

LineReturns ==
  /\ ~line /\ line' = TRUE
  /\ UNCHANGED <<handle, sequence, request, toDevice, fromDevice, events, done>>

LinkStep == DeviceExecutes \/ FrameLost \/ LineBreaks \/ LineReturns
===============================================================================
