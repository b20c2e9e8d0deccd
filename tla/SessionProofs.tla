----------------------------- MODULE SessionProofs -----------------------------
(***************************************************************************)
(* What the gateway reports as done the device has done, and the types of  *)
(* the gateway's state: for every set of ids, all capacities and any       *)
(* number of disturbances.  The argument is that the line is a pipe: once  *)
(* an answer to a frame of this session has come, all that is behind it is *)
(* of this session as well, and in one session a number stands for one     *)
(* request.                                                                *)
(***************************************************************************)
EXTENDS CacheProofs

Requests == [tag : Tags, sequence : Nat, left : Nat]

\* The types of the session's state.
SessionTyped ==
  /\ handle \in {"closed", "open", "broken"} /\ sequence \in Nat
  /\ toDevice \in Seq(Frames) /\ fromDevice \in Seq(Replies)
  /\ request = NoRequest \/ request \in Requests

\* A request is made by whoever has a port, and under the latest number.
Waiting ==
  /\ pc \in {"down", "connect"} => handle = "closed"
  /\ pc \in {"handshake", "executing", "stopping", "stopped"} => handle # "closed"
  /\ request # NoRequest =>
       /\ pc \in {"handshake", "executing", "stopped"} /\ handle # "closed"
       /\ request.sequence = sequence
       /\ pc = "executing" => request.tag = current

\* On the line, what is of earlier sessions goes before what is of this one.
EarlierFirst(s) == \A k, m \in 1..Len(s) : k < m /\ s[k].own => s[m].own

AllOwn(s) == \A k \in 1..Len(s) : s[k].own

Piped ==
  /\ EarlierFirst(toDevice) /\ EarlierFirst(fromDevice)
  /\ (\E k \in 1..Len(fromDevice) : fromDevice[k].own) => AllOwn(toDevice)

\* Once connected, nothing is left of earlier sessions.
Established ==
  handle # "closed" /\ pc # "handshake" /\ ~halfOpen => AllOwn(toDevice) /\ AllOwn(fromDevice)

\* In a session a number stands for one request.
Asked(f) ==
  f.own => /\ f.sequence <= sequence
           /\ request # NoRequest /\ f.sequence = sequence => f.tag = request.tag

\* What is answered with success to the present request has been done.
Told(a) ==
  a.own => /\ a.sequence <= sequence
           /\ request # NoRequest /\ a.sequence = sequence /\ a.ok /\ request.tag \in Ids
                => request.tag \in done

Numbered ==
  handle # "closed" =>
    /\ \A k \in 1..Len(toDevice) : Asked(toDevice[k])
    /\ \A k \in 1..Len(fromDevice) : Told(fromDevice[k])

\* The inductive invariant.
SessionInv == SessionTyped /\ Waiting /\ Piped /\ Established /\ Numbered

-------------------------------------------------------------------------------
(* Pipes.                                                                  *)

\* What is taken from the front of a pipe, and what remains.
LEMMA TailOfPipe ==
  ASSUME NEW S, NEW s \in Seq(S), s # <<>>
  PROVE  /\ Tail(s) \in Seq(S) /\ Head(s) = s[1] /\ 1 \in 1..Len(s)
         /\ \A k \in 1..Len(Tail(s)) : k + 1 \in 1..Len(s) /\ Tail(s)[k] = s[k + 1]
         /\ EarlierFirst(s) => EarlierFirst(Tail(s)) /\ (Head(s).own => AllOwn(s))
         /\ AllOwn(s) => AllOwn(Tail(s))
<1>1. /\ Tail(s) \in Seq(S) /\ Head(s) = s[1] /\ 1 \in 1..Len(s)
      /\ Len(s) \in Nat /\ Len(Tail(s)) = Len(s) - 1
      /\ \A k \in 1..Len(Tail(s)) : k + 1 \in 1..Len(s) /\ Tail(s)[k] = s[k + 1]
  OBVIOUS
<1>2. ASSUME EarlierFirst(s) PROVE EarlierFirst(Tail(s))
  <2> SUFFICES ASSUME NEW k \in 1..Len(Tail(s)), NEW m \in 1..Len(Tail(s)),
                      k < m, Tail(s)[k].own
               PROVE  Tail(s)[m].own
    BY DEF EarlierFirst
  <2>1. k + 1 \in 1..Len(s) /\ m + 1 \in 1..Len(s) /\ k + 1 < m + 1
    BY <1>1
  <2>2. s[k + 1].own => s[m + 1].own
    BY <1>2, <2>1 DEF EarlierFirst
  <2> QED
    BY <1>1, <2>2
<1>3. ASSUME EarlierFirst(s), s[1].own PROVE AllOwn(s)
  <2> SUFFICES ASSUME NEW m \in 1..Len(s) PROVE s[m].own
    BY DEF AllOwn
  <2>1. m = 1 \/ 1 < m
    OBVIOUS
  <2> QED
    BY <1>1, <1>3, <2>1 DEF EarlierFirst
<1>4. AllOwn(s) => AllOwn(Tail(s))
  BY <1>1 DEF AllOwn
<1> QED
  BY <1>1, <1>2, <1>3, <1>4

\* What remains when several are taken at once.
LEMMA RestOfPipe ==
  ASSUME NEW S, NEW s \in Seq(S), NEW n \in 0..Len(s)
  PROVE  LET t == SubSeq(s, n + 1, Len(s)) IN
         /\ t \in Seq(S)
         /\ \A k \in 1..Len(t) : \E m \in 1..Len(s) : t[k] = s[m]
         /\ EarlierFirst(s) => EarlierFirst(t)
         /\ AllOwn(s) => AllOwn(t)
<1> DEFINE t == SubSeq(s, n + 1, Len(s))
<1>1. /\ t \in Seq(S) /\ Len(s) \in Nat /\ Len(t) = Len(s) - n
      /\ \A k \in 1..Len(t) : k + n \in 1..Len(s) /\ t[k] = s[k + n]
  OBVIOUS
<1> HIDE DEF t
<1>2. ASSUME EarlierFirst(s) PROVE EarlierFirst(t)
  <2> SUFFICES ASSUME NEW k \in 1..Len(t), NEW m \in 1..Len(t), k < m, t[k].own
               PROVE  t[m].own
    BY DEF EarlierFirst
  <2>1. k + n \in 1..Len(s) /\ m + n \in 1..Len(s) /\ k + n < m + n
    BY <1>1
  <2>2. s[k + n].own => s[m + n].own
    BY <1>2, <2>1 DEF EarlierFirst
  <2> QED
    BY <1>1, <2>2
<1>3. AllOwn(s) => AllOwn(t)
  BY <1>1 DEF AllOwn
<1> QED
  BY <1>1, <1>2, <1>3 DEF t

\* What is appended to a pipe comes last.
LEMMA AppendToPipe ==
  ASSUME NEW S, NEW s \in Seq(S), NEW e \in S
  PROVE  /\ Append(s, e) \in Seq(S)
         /\ \A k \in 1..Len(Append(s, e)) :
              \/ k \in 1..Len(s) /\ Append(s, e)[k] = s[k]
              \/ k = Len(s) + 1 /\ Append(s, e)[k] = e
         /\ EarlierFirst(s) /\ ((\E k \in 1..Len(s) : s[k].own) => e.own)
              => EarlierFirst(Append(s, e))
         /\ AllOwn(s) /\ e.own => AllOwn(Append(s, e))
<1> DEFINE t == Append(s, e)
<1>1. /\ t \in Seq(S) /\ Len(s) \in Nat /\ Len(t) = Len(s) + 1
      /\ \A k \in 1..Len(t) :
           \/ k \in 1..Len(s) /\ t[k] = s[k]
           \/ k = Len(s) + 1 /\ t[k] = e
  OBVIOUS
<1> HIDE DEF t
<1>2. ASSUME EarlierFirst(s), (\E k \in 1..Len(s) : s[k].own) => e.own PROVE EarlierFirst(t)
  <2> SUFFICES ASSUME NEW k \in 1..Len(t), NEW m \in 1..Len(t), k < m, t[k].own
               PROVE  t[m].own
    BY DEF EarlierFirst
  <2>1. k \in 1..Len(s) /\ t[k] = s[k]
    BY <1>1
  <2>2. CASE m \in 1..Len(s) /\ t[m] = s[m]
    BY <1>2, <2>1, <2>2 DEF EarlierFirst
  <2>3. CASE t[m] = e
    BY <1>2, <2>1, <2>3
  <2> QED
    BY <1>1, <2>2, <2>3
<1>3. AllOwn(s) /\ e.own => AllOwn(t)
  BY <1>1 DEF AllOwn
<1> QED
  BY <1>1, <1>2, <1>3 DEF t

-------------------------------------------------------------------------------
(* Steps of the client.                                                    *)

\* A step after which the session is established, if it was before.
KeepsEstablished ==
  handle' # "closed" /\ pc' # "handshake" /\ ~halfOpen'
    => handle # "closed" /\ pc # "handshake" /\ ~halfOpen

\* Taking frames from the pipes, and forgetting the request.
LEMMA TakingKeepsSession ==
  ASSUME SessionInv, Waiting',
         toDevice' = toDevice \/ (toDevice # <<>> /\ toDevice' = Tail(toDevice)),
         \/ fromDevice' \in {fromDevice, <<>>}
         \/ fromDevice # <<>> /\ fromDevice' = Tail(fromDevice)
         \/ \E n \in 0..Len(fromDevice) : fromDevice' = After(n),
         request' \in {request, NoRequest},
         sequence' = sequence \/ (handle' = "closed" /\ sequence' = 0),
         handle' \in {"closed", "open", "broken"},
         handle' # "closed" => handle # "closed", done' = done,
         KeepsEstablished \/ (AllOwn(toDevice) /\ fromDevice' = <<>>)
  PROVE  SessionInv'
<1>1. /\ toDevice' \in Seq(Frames) /\ EarlierFirst(toDevice')
      /\ AllOwn(toDevice) => AllOwn(toDevice')
      /\ \A k \in 1..Len(toDevice') : \E m \in 1..Len(toDevice) : toDevice'[k] = toDevice[m]
  <2>1. CASE toDevice' = toDevice
    BY <2>1 DEF SessionInv, SessionTyped, Piped
  <2>2. CASE toDevice # <<>> /\ toDevice' = Tail(toDevice)
    BY <2>2, TailOfPipe DEF SessionInv, SessionTyped, Piped
  <2> QED
    BY <2>1, <2>2
<1>2. /\ fromDevice' \in Seq(Replies) /\ EarlierFirst(fromDevice')
      /\ AllOwn(fromDevice) => AllOwn(fromDevice')
      /\ \A k \in 1..Len(fromDevice') : \E m \in 1..Len(fromDevice) : fromDevice'[k] = fromDevice[m]
  <2>1. CASE fromDevice' = fromDevice
    BY <2>1 DEF SessionInv, SessionTyped, Piped
  <2>2. CASE fromDevice' = <<>>
    BY <2>2 DEF EarlierFirst, AllOwn
  <2>3. CASE fromDevice # <<>> /\ fromDevice' = Tail(fromDevice)
    BY <2>3, TailOfPipe DEF SessionInv, SessionTyped, Piped
  <2>4. CASE \E n \in 0..Len(fromDevice) : fromDevice' = After(n)
    BY <2>4, RestOfPipe DEF SessionInv, SessionTyped, Piped, After
  <2> QED
    BY <2>1, <2>2, <2>3, <2>4
<1>3. SessionTyped'
  BY <1>1, <1>2 DEF SessionInv, SessionTyped
<1>4. Piped'
  BY <1>1, <1>2 DEF SessionInv, Piped
<1>5. Established'
  <2>1. CASE KeepsEstablished
    BY <1>1, <1>2, <2>1 DEF SessionInv, Established, KeepsEstablished
  <2>2. CASE AllOwn(toDevice) /\ fromDevice' = <<>>
    BY <1>1, <2>2 DEF Established, AllOwn
  <2> QED
    BY <2>1, <2>2
<1>6. Numbered'
  <2> SUFFICES ASSUME handle' # "closed"
               PROVE  /\ (\A k \in 1..Len(toDevice) : Asked(toDevice[k]))'
                      /\ (\A k \in 1..Len(fromDevice) : Told(fromDevice[k]))'
    BY DEF Numbered
  <2>1. handle # "closed" /\ sequence' = sequence
    OBVIOUS
  <2>2. /\ \A m \in 1..Len(toDevice) : Asked(toDevice[m])
        /\ \A m \in 1..Len(fromDevice) : Told(fromDevice[m])
    BY <2>1 DEF SessionInv, Numbered
  <2>3. (\A k \in 1..Len(toDevice) : Asked(toDevice[k]))'
    <3> SUFFICES ASSUME NEW k \in 1..Len(toDevice') PROVE Asked(toDevice[k])'
      OBVIOUS
    <3>1. PICK m \in 1..Len(toDevice) : toDevice'[k] = toDevice[m]
      BY <1>1
    <3> QED
      BY <2>1, <2>2, <3>1 DEF Asked
  <2>4. (\A k \in 1..Len(fromDevice) : Told(fromDevice[k]))'
    <3> SUFFICES ASSUME NEW k \in 1..Len(fromDevice') PROVE Told(fromDevice[k])'
      OBVIOUS
    <3>1. PICK m \in 1..Len(fromDevice) : fromDevice'[k] = fromDevice[m]
      BY <1>2
    <3> QED
      BY <2>1, <2>2, <3>1 DEF Told
  <2> QED
    BY <2>3, <2>4
<1> QED
  BY <1>3, <1>4, <1>5, <1>6 DEF SessionInv

\* An attempt: the next number stands for it, and no frame has it yet.
LEMMA SendKeepsSession ==
  ASSUME SessionInv, Waiting', NEW tag \in Tags, NEW left \in Nat, Send(tag, left),
         handle # "closed", KeepsEstablished
  PROVE  SessionInv'
<1> DEFINE frame == [tag |-> tag, sequence |-> sequence + 1, own |-> TRUE]
<1>1. /\ sequence \in Nat /\ sequence' = sequence + 1
      /\ request' = [tag |-> tag, sequence |-> sequence + 1, left |-> left]
      /\ toDevice' = toDevice \/ toDevice' = Append(toDevice, frame)
      /\ UNCHANGED <<handle, fromDevice, done>>
  BY DEF Send, SessionInv, SessionTyped
<1>2. frame \in Frames /\ frame.own = TRUE /\ frame.tag = tag /\ frame.sequence = sequence + 1
  BY <1>1 DEF Frames
<1>3. request' \in Requests /\ request'.tag = tag /\ request'.sequence = sequence + 1
  BY <1>1 DEF Requests
<1> HIDE DEF frame
<1>4. toDevice \in Seq(Frames) /\ EarlierFirst(toDevice)
  BY DEF SessionInv, SessionTyped, Piped
<1>5. /\ toDevice' \in Seq(Frames) /\ EarlierFirst(toDevice')
      /\ AllOwn(toDevice) => AllOwn(toDevice')
      /\ \A k \in 1..Len(toDevice') :
           toDevice'[k] = frame \/ \E m \in 1..Len(toDevice) : toDevice'[k] = toDevice[m]
  <2>1. CASE toDevice' = toDevice
    BY <1>4, <2>1
  <2>2. CASE toDevice' = Append(toDevice, frame)
    BY <1>2, <1>4, <2>2, AppendToPipe
  <2> QED
    BY <1>1, <2>1, <2>2
<1>6. SessionTyped'
  BY <1>1, <1>3, <1>5 DEF SessionInv, SessionTyped
<1>7. Piped'
  BY <1>1, <1>5 DEF SessionInv, Piped
<1>8. Established'
  BY <1>1, <1>5 DEF SessionInv, Established, KeepsEstablished
<1>9. (\A k \in 1..Len(toDevice) : Asked(toDevice[k]))'
  <2> SUFFICES ASSUME NEW k \in 1..Len(toDevice') PROVE Asked(toDevice[k])'
    OBVIOUS
  <2>1. CASE toDevice'[k] = frame
    BY <1>1, <1>2, <1>3, <2>1 DEF Asked
  <2>2. ASSUME NEW m \in 1..Len(toDevice), toDevice'[k] = toDevice[m]
        PROVE  Asked(toDevice[k])'
    <3>1. toDevice[m].own => toDevice[m].sequence <= sequence
      BY DEF SessionInv, Numbered, Asked
    <3>2. toDevice[m] \in Frames
      BY <1>4
    <3>3. toDevice[m].sequence \in Nat
      BY <3>2 DEF Frames
    <3> QED
      BY <1>1, <2>2, <3>1, <3>3 DEF Asked
  <2> QED
    BY <1>5, <2>1, <2>2
<1>10. (\A k \in 1..Len(fromDevice) : Told(fromDevice[k]))'
  <2> SUFFICES ASSUME NEW k \in 1..Len(fromDevice) PROVE Told(fromDevice[k])'
    BY <1>1
  <2>1. fromDevice[k].own => fromDevice[k].sequence <= sequence
    BY DEF SessionInv, Numbered, Told
  <2>2. fromDevice[k] \in Replies
    BY DEF SessionInv, SessionTyped
  <2>3. fromDevice[k].sequence \in Nat
    BY <2>2 DEF Replies
  <2> QED
    BY <1>1, <2>1, <2>3 DEF Told
<1> QED
  BY <1>6, <1>7, <1>8, <1>9, <1>10 DEF SessionInv, Numbered

\* The device answers behind its earlier answers, and under the number that
\* it was asked under.
LEMMA DeviceKeepsSession ==
  ASSUME SessionInv, DeviceExecutes, UNCHANGED <<pc, current, halfOpen>>
  PROVE  SessionInv'
<1>1. /\ toDevice # <<>> /\ toDevice' = Tail(toDevice)
      /\ UNCHANGED <<line, handle, sequence, request>>
  BY DEF DeviceExecutes
<1>2. /\ toDevice \in Seq(Frames) /\ EarlierFirst(toDevice)
      /\ fromDevice \in Seq(Replies) /\ EarlierFirst(fromDevice)
      /\ (\E k \in 1..Len(fromDevice) : fromDevice[k].own) => AllOwn(toDevice)
  BY DEF SessionInv, SessionTyped, Piped
<1>3. PICK f \in Frames : f = Head(toDevice)
  BY <1>1, <1>2, TailOfPipe
<1>4. /\ toDevice' \in Seq(Frames) /\ EarlierFirst(toDevice')
      /\ f = toDevice[1] /\ 1 \in 1..Len(toDevice)
      /\ f.own => AllOwn(toDevice) /\ AllOwn(toDevice')
      /\ AllOwn(toDevice) => AllOwn(toDevice')
      /\ \A k \in 1..Len(toDevice') : \E m \in 1..Len(toDevice) : toDevice'[k] = toDevice[m]
  BY <1>1, <1>2, <1>3, TailOfPipe
<1>5. AllOwn(toDevice) => f.own
  BY <1>4 DEF AllOwn
<1>6. f.own \in BOOLEAN /\ f.sequence \in Nat /\ TypeOf[f.tag] \in Types
  BY <1>3 DEF Frames, Types
<1>7. PICK ok \in BOOLEAN :
        /\ done' = IF ok THEN done \union ({f.tag} \intersect Ids) ELSE done
        /\ fromDevice' = IF ~line THEN fromDevice ELSE
             Append(fromDevice, [sequence |-> f.sequence, type |-> TypeOf[f.tag],
                                 ok |-> ok, own |-> f.own])
  BY <1>3 DEF DeviceExecutes
<1>8. PICK answer \in Replies :
        /\ answer.own = f.own /\ answer.sequence = f.sequence /\ answer.ok = ok
        /\ fromDevice' = fromDevice \/ fromDevice' = Append(fromDevice, answer)
  <2> DEFINE a == [sequence |-> f.sequence, type |-> TypeOf[f.tag], ok |-> ok, own |-> f.own]
  <2>1. /\ a \in Replies /\ a.own = f.own /\ a.sequence = f.sequence /\ a.ok = ok
    BY <1>6 DEF Replies
  <2>2. fromDevice' = fromDevice \/ fromDevice' = Append(fromDevice, a)
    BY <1>7
  <2> QED
    BY <2>1, <2>2
<1>9. done \subseteq done' /\ (ok /\ f.tag \in Ids => f.tag \in done')
  BY <1>7
<1>10. /\ fromDevice' \in Seq(Replies)
       /\ \A k \in 1..Len(fromDevice') :
            fromDevice'[k] = answer \/ \E m \in 1..Len(fromDevice) : fromDevice'[k] = fromDevice[m]
       /\ AllOwn(fromDevice) /\ f.own => AllOwn(fromDevice')
       /\ EarlierFirst(fromDevice')
  <2>1. CASE fromDevice' = fromDevice
    BY <1>2, <2>1
  <2>2. CASE fromDevice' = Append(fromDevice, answer)
    <3>1. (\E k \in 1..Len(fromDevice) : fromDevice[k].own) => answer.own
      BY <1>2, <1>5, <1>8
    <3>2. /\ fromDevice' \in Seq(Replies)
          /\ \A k \in 1..Len(fromDevice') :
               fromDevice'[k] = answer \/ \E m \in 1..Len(fromDevice) : fromDevice'[k] = fromDevice[m]
          /\ AllOwn(fromDevice) /\ f.own => AllOwn(fromDevice')
      BY <1>2, <1>8, <2>2, AppendToPipe
    <3>3. EarlierFirst(fromDevice')
      BY <1>2, <2>2, <3>1, AppendToPipe
    <3> QED
      BY <3>2, <3>3
  <2> QED
    BY <1>8, <2>1, <2>2
<1>11. SessionTyped'
  BY <1>1, <1>4, <1>10 DEF SessionInv, SessionTyped
<1>12. Waiting'
  BY <1>1 DEF SessionInv, Waiting
<1>13. Piped'
  BY <1>2, <1>4, <1>8, <1>10 DEF Piped
<1>14. Established'
  BY <1>1, <1>4, <1>5, <1>10 DEF SessionInv, Established
<1>15. ASSUME handle # "closed"
       PROVE  /\ (\A k \in 1..Len(toDevice) : Asked(toDevice[k]))'
              /\ (\A k \in 1..Len(fromDevice) : Told(fromDevice[k]))'
  <2>1. /\ \A m \in 1..Len(toDevice) : Asked(toDevice[m])
        /\ \A m \in 1..Len(fromDevice) : Told(fromDevice[m])
    BY <1>15 DEF SessionInv, Numbered
  <2>2. (\A k \in 1..Len(toDevice) : Asked(toDevice[k]))'
    BY <1>1, <1>4, <2>1 DEF Asked
  <2>3. ASSUME NEW a \in Replies, Told(a) PROVE Told(a)'
    BY <1>1, <1>9, <2>3 DEF Told
  <2>4. Told(answer)'
    BY <1>1, <1>4, <1>8, <1>9, <2>1 DEF Told, Asked
  <2>5. (\A k \in 1..Len(fromDevice) : Told(fromDevice[k]))'
    <3> SUFFICES ASSUME NEW k \in 1..Len(fromDevice') PROVE Told(fromDevice[k])'
      OBVIOUS
    <3>1. CASE fromDevice'[k] = answer
      BY <2>4, <3>1 DEF Told
    <3>2. ASSUME NEW m \in 1..Len(fromDevice), fromDevice'[k] = fromDevice[m]
          PROVE  Told(fromDevice[k])'
      <4>1. PICK a \in Replies : a = fromDevice[m]
        BY <1>2
      <4>2. Told(a)'
        BY <2>1, <2>3, <4>1
      <4> QED
        BY <3>2, <4>1, <4>2 DEF Told
    <3> QED
      BY <1>10, <3>1, <3>2
  <2> QED
    BY <2>2, <2>5
<1> QED
  BY <1>1, <1>11, <1>12, <1>13, <1>14, <1>15 DEF SessionInv, Numbered

\* A new session: all that is on the line is of earlier ones.
LEMMA OpenKeepsSession ==
  ASSUME SessionInv, Open, request = NoRequest, pc' = "handshake"
  PROVE  SessionInv'
<1>1. /\ toDevice' = [k \in DOMAIN toDevice |-> [toDevice[k] EXCEPT !.own = FALSE]]
      /\ sequence' = 0 /\ handle' = "open" /\ fromDevice' = <<>> /\ request' = NoRequest
  BY DEF Open
<1>2. toDevice \in Seq(Frames) /\ DOMAIN toDevice = 1..Len(toDevice) /\ Len(toDevice) \in Nat
  BY DEF SessionInv, SessionTyped
<1>3. \A k \in 1..Len(toDevice) :
        /\ [toDevice[k] EXCEPT !.own = FALSE] \in Frames
        /\ [toDevice[k] EXCEPT !.own = FALSE].own = FALSE
  <2>1. \A f \in Frames : [f EXCEPT !.own = FALSE] \in Frames /\ [f EXCEPT !.own = FALSE].own = FALSE
    BY DEF Frames
  <2> QED
    BY <1>2, <2>1
<1>4. toDevice' = [k \in 1..Len(toDevice) |-> [toDevice[k] EXCEPT !.own = FALSE]]
  BY <1>1, <1>2
<1>5. toDevice' \in [1..Len(toDevice) -> Frames]
  BY <1>3, <1>4
<1>6. toDevice' \in Seq(Frames) /\ Len(toDevice') = Len(toDevice)
  BY <1>2, <1>5
<1>7. \A k \in 1..Len(toDevice') : toDevice'[k].own = FALSE
  BY <1>3, <1>4, <1>6
<1>8. SessionTyped' /\ Waiting'
  BY <1>1, <1>6 DEF SessionTyped, Waiting
<1>9. Piped'
  BY <1>1, <1>7 DEF Piped, EarlierFirst
<1>10. Established' /\ Numbered'
  BY <1>1, <1>7 DEF Established, Numbered, Asked, Told
<1> QED
  BY <1>8, <1>9, <1>10 DEF SessionInv

-------------------------------------------------------------------------------
(* Steps of the gateway.                                                   *)

\* Outside of a request there is none, and numbers are natural.
LEMMA WaitingFacts ==
  ASSUME SessionInv
  PROVE  /\ pc \in {"down", "loop", "commands", "connect", "stopping"} => request = NoRequest
         /\ request # NoRequest => request.tag \in Tags /\ request.left \in Nat
         /\ Retries \in Nat
BY ClientAssumption DEF SessionInv, SessionTyped, Waiting, Requests

\* The end of the process closes the port.
LEMMA EndKeepsSession == SessionInv /\ EndProcess => SessionInv'
<1> SUFFICES ASSUME SessionInv, EndProcess PROVE SessionInv'
  OBVIOUS
<1>1. Waiting' /\ KeepsEstablished
  BY DEF EndProcess, Waiting, KeepsEstablished, NoRequest
<1> QED
  BY <1>1, TakingKeepsSession DEF EndProcess

\* Between two requests nothing is sent.
LEMMA IdleKeepsSession == SessionInv /\ (Start \/ LoopHead \/ Replay \/ Reject \/ Poll) => SessionInv'
<1> SUFFICES ASSUME SessionInv, Start \/ LoopHead \/ Replay \/ Reject \/ Poll
             PROVE  SessionInv'
  OBVIOUS
<1>1. CASE Start
  <2>1. Waiting' /\ KeepsEstablished
    BY <1>1, WaitingFacts DEF Start, clientVars, undisturbed, SessionInv, Waiting, KeepsEstablished
  <2> QED
    BY <1>1, <2>1, TakingKeepsSession
    DEF Start, clientVars, undisturbed, SessionInv, SessionTyped
<1>2. CASE LoopHead
  <2>1. Waiting' /\ KeepsEstablished
    BY <1>2, WaitingFacts DEF LoopHead, clientVars, undisturbed, Waiting, KeepsEstablished
  <2> QED
    BY <1>2, <2>1, TakingKeepsSession
    DEF LoopHead, clientVars, undisturbed, SessionInv, SessionTyped
<1>3. CASE Replay \/ Reject
  <2>1. /\ pc = "commands" /\ pc' = "commands"
        /\ UNCHANGED <<handle, sequence, request, toDevice, fromDevice, done, halfOpen>>
    BY <1>3 DEF Replay, Reject, TakenFromQueue, Finish
  <2>2. Waiting' /\ KeepsEstablished
    BY <2>1, WaitingFacts DEF Waiting, KeepsEstablished
  <2> QED
    BY <2>1, <2>2, TakingKeepsSession DEF SessionInv, SessionTyped
<1>4. CASE Poll
  <2>1. /\ pc = "commands" /\ UNCHANGED <<sequence, request, toDevice, done, halfOpen>>
        /\ handle' \in {handle, "closed"}
        /\ fromDevice' = fromDevice \/ \E n \in 0..Len(fromDevice) : fromDevice' = After(n)
        /\ pc' \in {"loop", "commands", "connect"}
        /\ pc' = "connect" => handle' = "closed"
    BY <1>4 DEF Poll, ToLoopHead, SessionInv, SessionTyped
  <2>2. Waiting' /\ KeepsEstablished
    BY <2>1, WaitingFacts DEF Waiting, KeepsEstablished
  <2> QED
    BY <2>1, <2>2, TakingKeepsSession DEF SessionInv, SessionTyped
<1> QED
  BY <1>1, <1>2, <1>3, <1>4

\* What begins or repeats a request.
LEMMA AskingKeepsSession ==
  CacheInv /\ SessionInv /\ (Execute \/ Awaiting \/ Ask \/ StopStream) => SessionInv'
<1> SUFFICES ASSUME CacheInv, SessionInv, Execute \/ Awaiting \/ Ask \/ StopStream
             PROVE  SessionInv'
  OBVIOUS
<1>1. ASSUME NEW tag \in Tags, NEW left \in Nat, Send(tag, left), handle # "closed",
             pc' \in {"handshake", "executing", "stopped"}, pc' = "executing" => tag = current',
             UNCHANGED halfOpen, pc # "handshake" \/ pc' = "handshake"
      PROVE  SessionInv'
  <2>1. Waiting' /\ KeepsEstablished
    BY <1>1 DEF Send, Waiting, KeepsEstablished
  <2> QED
    BY <1>1, <2>1, SendKeepsSession
<1>2. CASE Execute
  <2>1. /\ queue # <<>> /\ Objection(Head(queue)) = Nothing
        /\ Send(Head(queue).id, Attempts(Head(queue).id \notin SideEffects) - 1)
        /\ current' = Head(queue).id /\ pc = "commands" /\ pc' = "executing" /\ halfOpen' = halfOpen
    BY <1>2 DEF Execute, Begin
  <2>2. handle # "closed"
    BY <2>1 DEF Objection, Nothing
  <2>3. Head(queue) \in Messages
    BY <2>1 DEF CacheInv, HistoryTyped
  <2>4. Head(queue).id \in Tags
    BY <2>3 DEF Messages, Tags
  <2>5. Attempts(Head(queue).id \notin SideEffects) - 1 \in Nat
    BY ClientAssumption DEF Attempts
  <2> QED
    BY <1>1, <2>1, <2>2, <2>4, <2>5
<1>3. CASE Awaiting
  <2>1. UNCHANGED <<pc, current, halfOpen>>
    BY <1>3 DEF Awaiting, loopVars
  <2>2. CASE Retry
    <3>1. request # NoRequest /\ request.left > 0 /\ Send(request.tag, request.left - 1)
      BY <2>2 DEF Retry
    <3>2. request.tag \in Tags /\ request.left - 1 \in Nat
      BY <3>1, WaitingFacts
    <3>3. /\ handle # "closed" /\ pc \in {"handshake", "executing", "stopped"}
          /\ pc = "executing" => request.tag = current
      BY <3>1 DEF SessionInv, Waiting
    <3> QED
      BY <1>1, <2>1, <3>1, <3>2, <3>3
  <2>3. CASE PassOver
    <3>1. Waiting' /\ KeepsEstablished
      BY <2>1, <2>3 DEF PassOver, SessionInv, Waiting, KeepsEstablished
    <3> QED
      BY <2>1, <2>3, <3>1, TakingKeepsSession DEF PassOver
  <2> QED
    BY <1>3, <2>2, <2>3 DEF Awaiting
<1>4. CASE Ask
  <2>1. /\ pc = "handshake" /\ UNCHANGED <<pc, halfOpen>>
        /\ \E tag \in {"read", "stream"}, left \in {0, Retries} : Send(tag, left)
    BY <1>4, WaitingFacts DEF Ask, Begin, Attempts, loopVars
  <2>2. handle # "closed"
    BY <2>1 DEF SessionInv, Waiting
  <2> QED
    BY <1>1, <2>1, <2>2, WaitingFacts DEF Tags
<1>5. CASE StopStream
  <2>1. CASE pc = "stopping" /\ Begin("stream", FALSE) /\ pc' = "stopped" /\ halfOpen' = halfOpen
    <3>1. Send("stream", 0) /\ handle # "closed"
      BY <2>1 DEF Begin, Attempts, SessionInv, Waiting
    <3> QED
      BY <1>1, <2>1, <3>1 DEF Tags
  <2>2. CASE EndProcess
    BY <2>2, EndKeepsSession
  <2> QED
    BY <1>5, <2>1, <2>2 DEF StopStream, EndsPublishing
<1> QED
  BY <1>2, <1>3, <1>4, <1>5

\* The answer to a command: in an established session it is one to a frame of
\* this session, and then to the command itself.
LEMMA ExecutedKeepsSession ==
  ASSUME CacheInv, SessionInv, Executed
  PROVE  /\ SessionInv'
         /\ \A i \in Ids : last'[i] = "OK" /\ current = i
              => i \in done \/ (halfOpen /\ ~Head(fromDevice).own)
<1>1. /\ pc = "executing" /\ pc' = "commands" /\ UNCHANGED <<handle, sequence, toDevice, done, halfOpen>>
      /\ request' = NoRequest
      /\ fromDevice' = fromDevice \/ \E n \in 0..Len(fromDevice) : fromDevice' = After(n)
  BY DEF Executed, Answered, Accept, AnswerIs, GiveUp, Finish
<1>2. SessionInv'
  <2>1. Waiting' /\ KeepsEstablished
    BY <1>1 DEF SessionInv, Waiting, KeepsEstablished
  <2> QED
    BY <1>1, <2>1, TakingKeepsSession DEF SessionInv, SessionTyped
<1>3. ASSUME NEW i \in Ids, last'[i] = "OK", current = i
      PROVE  i \in done \/ (halfOpen /\ ~Head(fromDevice).own)
  <2>1. CASE (Answered(FALSE) \/ GiveUp) /\ Finish(current, "FAILED")
    <3>1. last'[i] = "FAILED"
      BY <1>3, <2>1 DEF Finish, CacheInv, HistoryTyped
    <3> QED
      BY <1>3, <3>1
  <2>2. CASE Answered(TRUE)
    <3> DEFINE a == Head(fromDevice)
    <3>1. /\ request # NoRequest /\ fromDevice # <<>> /\ handle = "open"
          /\ a.sequence = request.sequence /\ a.ok
      BY <2>2 DEF Answered, Accept, AnswerIs, Matches
    <3>2. a = fromDevice[1] /\ 1 \in 1..Len(fromDevice)
      BY <3>1, TailOfPipe DEF SessionInv, SessionTyped
    <3>3. request.sequence = sequence /\ request.tag = i
      BY <1>1, <1>3, <3>1 DEF SessionInv, Waiting
    <3>4. Told(a)
      BY <3>1, <3>2 DEF SessionInv, Numbered
    <3>5. a.own => i \in done
      BY <3>1, <3>3, <3>4 DEF Told
    <3>6. ~halfOpen => a.own
      BY <1>1, <3>1, <3>2 DEF SessionInv, Established, AllOwn
    <3> QED
      BY <3>5, <3>6
  <2> QED
    BY <2>1, <2>2 DEF Executed
<1> QED
  BY <1>2, <1>3

\* Connecting: it ends with the session established, or with halfOpen set.
LEMMA ConnectingKeepsSession ==
  SessionInv /\ (Connect \/ StepDone \/ ConnectFails) => SessionInv'
<1> SUFFICES ASSUME SessionInv, Connect \/ StepDone \/ ConnectFails
             PROVE  SessionInv'
  OBVIOUS
<1>1. CASE Connect
  BY <1>1, OpenKeepsSession, WaitingFacts DEF Connect
<1>2. CASE StepDone
  <2>1. CASE AnsweredAndFlushed /\ Connected /\ halfOpen' = ~Head(fromDevice).own
    <3>1. /\ pc = "handshake" /\ pc' \in {"loop", "commands"} /\ request' = NoRequest
          /\ fromDevice # <<>> /\ fromDevice' = <<>>
          /\ UNCHANGED <<handle, sequence, toDevice, done>>
      BY <1>2, <2>1 DEF StepDone, AnsweredAndFlushed, Accept, AnswerIs, Connected, ToLoopHead
    <3>2. Waiting'
      BY <3>1 DEF SessionInv, Waiting
    <3>3. Head(fromDevice).own => AllOwn(toDevice)
      BY <3>1, TailOfPipe DEF SessionInv, SessionTyped, Piped
    <3>4. CASE Head(fromDevice).own
      BY <3>1, <3>2, <3>3, <3>4, TakingKeepsSession DEF SessionInv, SessionTyped
    <3>5. CASE ~Head(fromDevice).own
      <4>1. KeepsEstablished
        BY <2>1, <3>5 DEF KeepsEstablished
      <4> QED
        BY <3>1, <3>2, <4>1, TakingKeepsSession DEF SessionInv, SessionTyped
    <3> QED
      BY <3>4, <3>5
  <2>2. CASE Answered(TRUE) /\ UNCHANGED <<pc, halfOpen>>
    <3>1. /\ pc = "handshake" /\ pc' = "handshake" /\ request' = NoRequest
          /\ \E n \in 0..Len(fromDevice) : fromDevice' = After(n)
          /\ UNCHANGED <<handle, sequence, toDevice, done>>
      BY <1>2, <2>2 DEF StepDone, Answered, Accept, AnswerIs
    <3>2. Waiting' /\ KeepsEstablished
      BY <3>1 DEF SessionInv, Waiting, KeepsEstablished
    <3> QED
      BY <3>1, <3>2, TakingKeepsSession DEF SessionInv, SessionTyped
  <2> QED
    BY <1>2, <2>1, <2>2 DEF StepDone
<1>3. CASE ConnectFails
  <2>1. CASE EndProcess
    BY <2>1, EndKeepsSession
  <2>2. CASE pc = "connect" /\ ToLoopHead /\ UNCHANGED <<clientVars, halfOpen>>
    <3>1. Waiting' /\ KeepsEstablished
      BY <2>2, WaitingFacts
      DEF ToLoopHead, clientVars, undisturbed, SessionInv, Waiting, KeepsEstablished
    <3> QED
      BY <2>2, <3>1, TakingKeepsSession DEF clientVars, undisturbed, SessionInv, SessionTyped
  <2>3. CASE (Answered(FALSE) \/ GiveUp) /\ ToLoopHead /\ halfOpen' = TRUE
    <3>1. /\ UNCHANGED <<handle, sequence, toDevice, done>> /\ request' = NoRequest
          /\ fromDevice' = fromDevice \/ \E n \in 0..Len(fromDevice) : fromDevice' = After(n)
      BY <2>3 DEF Answered, Accept, AnswerIs, GiveUp
    <3>2. Waiting' /\ KeepsEstablished
      BY <2>3, <3>1 DEF ToLoopHead, Waiting, KeepsEstablished
    <3> QED
      BY <3>1, <3>2, TakingKeepsSession DEF SessionInv, SessionTyped
  <2> QED
    BY <1>3, <2>1, <2>2, <2>3 DEF ConnectFails
<1> QED
  BY <1>1, <1>2, <1>3

\* Everything outside of the main loop.
LEMMA OutsideKeepsSession ==
  ASSUME SessionInv,
         \/ \E i \in Ids : Expire(i) \/ Lapse(i) \/ \E retained \in BOOLEAN : Deliver(i, retained)
         \/ MqttBreaks \/ MqttCounts \/ MqttReturns \/ PollFails \/ Stop \/ Kill
         \/ LinkStep /\ UNCHANGED <<loopVars, cacheVars, mqttVars, brokerVars>>
         \/ UNCHANGED vars
  PROVE  SessionInv'
<1>1. ASSUME UNCHANGED <<undisturbed, pc, current, halfOpen>> PROVE SessionInv'
  BY <1>1
  DEF undisturbed, SessionInv, SessionTyped, Waiting, Piped, EarlierFirst, Established, AllOwn,
      Numbered, Asked, Told
<1>2. CASE \/ \E i \in Ids : Expire(i) \/ Lapse(i) \/ \E retained \in BOOLEAN : Deliver(i, retained)
           \/ MqttBreaks \/ MqttCounts \/ MqttReturns \/ UNCHANGED vars
  BY <1>1, <1>2
  DEF Expire, Lapse, Deliver, MqttBreaks, MqttCounts, MqttReturns, vars, clientVars, loopVars
<1>3. CASE PollFails \/ Stop \/ Kill
  <2>1. CASE EndProcess
    BY <2>1, EndKeepsSession
  <2>2. CASE /\ pc \in {"loop", "commands"} /\ handle # "closed" /\ pc' = "stopping"
             /\ UNCHANGED <<handle, sequence, request, toDevice, fromDevice, done, halfOpen>>
    <3>1. Waiting' /\ KeepsEstablished
      BY <2>2, WaitingFacts DEF Waiting, KeepsEstablished
    <3> QED
      BY <2>2, <3>1, TakingKeepsSession DEF SessionInv, SessionTyped
  <2> QED
    BY <1>3, <2>1, <2>2 DEF PollFails, Stop, EndsPublishing, Kill
<1>4. CASE LinkStep /\ UNCHANGED loopVars
  <2>1. UNCHANGED <<pc, current, halfOpen>>
    BY <1>4 DEF loopVars
  <2>2. CASE DeviceExecutes
    BY <2>1, <2>2, DeviceKeepsSession
  <2>3. CASE FrameLost \/ LineBreaks \/ LineReturns
    <3>1. Waiting' /\ KeepsEstablished
      BY <2>1, <2>3
      DEF FrameLost, LineBreaks, LineReturns, SessionInv, Waiting, KeepsEstablished
    <3> QED
      BY <2>3, <3>1, TakingKeepsSession
      DEF FrameLost, LineBreaks, LineReturns, SessionInv, SessionTyped
  <2> QED
    BY <1>4, <2>2, <2>3 DEF LinkStep
<1> QED
  BY <1>2, <1>3, <1>4

\* At first there is no session.
LEMMA SessionInitInv == GatewayInit => SessionInv
BY DEF GatewayInit, ClientInit, SessionInv, SessionTyped, Waiting, Piped, EarlierFirst,
       Established, AllOwn, Numbered

\* The answer taken for a command is that to it.
AnswerIsTrue ==
  \A i \in Ids : current = i /\ current' # i /\ last'[i] = "OK"
    => i \in done \/ (halfOpen /\ ~Head(fromDevice).own)

\* Every step keeps the invariant, and only a command that ends is answered.
LEMMA SessionStepInv ==
  CacheInv /\ SessionInv /\ [GatewayNext]_vars => SessionInv' /\ AnswerIsTrue
<1> SUFFICES ASSUME CacheInv, SessionInv, [GatewayNext]_vars PROVE SessionInv' /\ AnswerIsTrue
  OBVIOUS
<1>1. SessionInv'
  <2>1. CASE GatewayStep
    BY <2>1, IdleKeepsSession, AskingKeepsSession, ExecutedKeepsSession, ConnectingKeepsSession
    DEF GatewayStep
  <2> QED
    BY <2>1, OutsideKeepsSession DEF GatewayNext
<1>2. AnswerIsTrue
  <2> SUFFICES ASSUME NEW i \in Ids, current = i, current' # i, last'[i] = "OK"
               PROVE  i \in done \/ (halfOpen /\ ~Head(fromDevice).own)
    BY DEF AnswerIsTrue
  <2>1. pc = "executing"
    BY GatewayAssumption DEF CacheInv, Serving, Nothing
  <2>2. ~EndProcess
    BY GatewayAssumption DEF EndProcess, Nothing
  <2>3. Executed
    <3>1. GatewayStep
      BY <2>2 DEF GatewayNext, vars, loopVars, Expire, Lapse, Deliver, MqttBreaks, MqttCounts, MqttReturns,
        PollFails, Stop, EndsPublishing, Kill
    <3> QED
      BY <2>1, <2>2, <3>1
      DEF GatewayStep, Start, LoopHead, Replay, Reject, TakenFromQueue, Execute, Awaiting, loopVars,
          Poll, Connect, Ask, StepDone, ConnectFails, StopStream, EndsPublishing
  <2> QED
    BY <2>3, ExecutedKeepsSession
<1> QED
  BY <1>1, <1>2

\* What is reported as done the device has done, although answers come late
\* and every session numbers anew; except in a session whose handshake failed
\* or was answered to an earlier session, and then only by an answer to such
\* (device.py, request; gateway.py, _connect_device and _handle_command).
THEOREM ReportedIsDone == GatewaySpec => OkMeansDone
<1>1. CacheInv /\ SessionInv /\ [GatewayNext]_vars =>
        [\A i \in Ids : current = i /\ current' # i /\ last'[i] = "OK"
           => i \in done \/ (halfOpen /\ ~Head(fromDevice).own)]_vars
  BY SessionStepInv DEF AnswerIsTrue
<1> QED
  BY <1>1, CacheInitInv, CacheStepInv, SessionInitInv, SessionStepInv, PTL
  DEF GatewaySpec, OkMeansDone

-------------------------------------------------------------------------------
(* Types.                                                                  *)

\* The types that neither invariant above states.
Switches ==
  /\ line \in BOOLEAN /\ starting \in BOOLEAN /\ mqttUp \in BOOLEAN
  /\ counted \in BOOLEAN /\ reconnected \in BOOLEAN /\ missed \in BOOLEAN

Flags ==
  /\ step \in 1..2 /\ available \in {"online", "offline"}
  /\ pc \in {"down", "loop", "commands", "executing", "connect", "handshake",
             "stopping", "stopped"}

Bounds ==
  /\ Len(toDevice) <= DeviceQueue /\ Len(queue) <= QueueCapacity
  /\ events \in 0..MaxEvents /\ live \subseteq Ids
  /\ request # NoRequest => sequence >= 1 /\ request.left <= Retries

\* A sequence without duplicates has as many elements as positions.
LEMMA DistinctIds ==
  ASSUME NEW c \in Seq(Entries), \A k, m \in 1..Len(c) : k < m => c[k].id # c[m].id
  PROVE  Cardinality(IdsOf(c)) = Len(c)
<1> DEFINE f == [k \in 1..Len(c) |-> c[k].id]
<1>1. Len(c) \in Nat /\ DOMAIN c = 1..Len(c)
  OBVIOUS
<1>2. IdsOf(c) = {c[k].id : k \in 1..Len(c)}
  BY <1>1 DEF IdsOf, ToSet
<1>3. f \in Bijection(1..Len(c), IdsOf(c))
  <2>1. f \in [1..Len(c) -> IdsOf(c)] /\ \A t \in IdsOf(c) : \E k \in 1..Len(c) : f[k] = t
    BY <1>2
  <2>2. \A k, m \in 1..Len(c) : k # m => f[k] # f[m]
    <3> SUFFICES ASSUME NEW k \in 1..Len(c), NEW m \in 1..Len(c), k # m PROVE f[k] # f[m]
      OBVIOUS
    <3>1. k < m \/ m < k
      BY <1>1
    <3> QED
      BY <3>1
  <2> QED
    BY <2>1, <2>2 DEF Bijection, Injection, Surjection, IsInjective
<1> QED
  BY <1>1, <1>3, FS_CountingElements DEF ExistsBijection

\* The invariants together give every type.
LEMMA TypesFollow == CacheInv /\ SessionInv /\ Switches /\ Flags /\ Bounds => GatewayTypeOK
<1> SUFFICES ASSUME CacheInv, SessionInv, Switches, Flags, Bounds PROVE GatewayTypeOK
  OBVIOUS
<1>1. request = NoRequest \/ request \in [tag : Tags, sequence : 1..sequence, left : 0..Retries]
  <2> SUFFICES ASSUME request # NoRequest
               PROVE  request \in [tag : Tags, sequence : 1..sequence, left : 0..Retries]
    OBVIOUS
  <2>1. request \in Requests /\ sequence \in Nat /\ request.sequence = sequence
    BY DEF SessionInv, SessionTyped, Waiting
  <2>2. sequence \in 1..sequence /\ request.left \in 0..Retries
    BY <2>1, ClientAssumption DEF Bounds, Requests
  <2> QED
    BY <2>1, <2>2 DEF Requests
<1>2. /\ ToSet(toDevice) \subseteq Frames /\ ToSet(fromDevice) \subseteq Replies
  BY DEF SessionInv, SessionTyped, ToSet
<1>3. ToSet(queue) \subseteq [id : Ids, retained : BOOLEAN]
  <2>1. \A k \in DOMAIN queue : queue[k] \in Messages
    BY DEF CacheInv, HistoryTyped
  <2> QED
    BY <2>1 DEF Messages, ToSet
<1>4. current \in Ids \union {Nothing}
  BY DEF CacheInv, Serving
<1>5. /\ Len(cache) <= CacheCapacity /\ ToSet(cache) \subseteq [id : Ids, answer : Answers]
      /\ Cardinality(IdsOf(cache)) = Len(cache)
  <2>1. cache \in Seq(Entries) /\ \A k, m \in 1..Len(cache) : k < m => cache[k].id # cache[m].id
    BY DEF CacheInv, Ordered
  <2>2. \A k \in DOMAIN cache : cache[k] \in Entries
    BY <2>1
  <2>3. ToSet(cache) \subseteq [id : Ids, answer : Answers]
    BY <2>2 DEF Entries, ToSet
  <2> QED
    BY <2>1, <2>3, DistinctIds DEF CacheInv
<1> QED
  BY <1>1, <1>2, <1>3, <1>4, <1>5
  DEF GatewayTypeOK, Switches, Flags, Bounds, CacheInv, HistoryTyped, SessionInv, SessionTyped

\* Every step leaves each switch as it is, or turns it on or off.
LEMMA SwitchesStep == Switches /\ [GatewayNext]_vars => Switches'
<1> SUFFICES ASSUME Switches, [GatewayNext]_vars PROVE Switches'
  OBVIOUS
<1>1. CASE EndProcess
  BY <1>1, Zenon DEF EndProcess, Switches
<1>7. \A state : Announce(state) => missed' \in BOOLEAN
  BY Zenon DEF Announce, Switches
<1>8. CASE LoopHead
  <2>1. missed' \in BOOLEAN
    BY <1>8, Zenon DEF LoopHead, Switches
  <2> QED
    BY <1>8, <2>1, Zenon DEF LoopHead, clientVars, undisturbed, Switches
<1>2. CASE Start \/ Replay \/ Reject \/ Execute \/ Awaiting \/ Executed
  BY <1>2, Zenon
  DEF Start, Replay, Reject, TakenFromQueue, Execute, Begin, Send, Awaiting, Retry,
      PassOver, Executed, Answered, Accept, GiveUp, clientVars, undisturbed, loopVars, mqttVars,
      Switches
<1>3. CASE Poll \/ Connect \/ Ask \/ StepDone
  BY <1>3, <1>7, Zenon
  DEF Poll, Connect, Open, Ask, Begin, Send, StepDone, AnsweredAndFlushed, Answered, Accept,
      Connected, loopVars, mqttVars, Switches
<1>4. CASE ConnectFails \/ StopStream \/ PollFails \/ Stop \/ Kill
  BY <1>1, <1>4, Zenon
  DEF ConnectFails, StopStream, PollFails, Stop, EndsPublishing, Kill, Begin, Send, Answered, Accept, GiveUp,
      clientVars, undisturbed, mqttVars, Switches
<1>5. CASE \/ \E i \in Ids : Expire(i) \/ Lapse(i) \/ \E retained \in BOOLEAN : Deliver(i, retained)
           \/ MqttBreaks \/ MqttCounts \/ MqttReturns \/ UNCHANGED vars
  BY <1>5, Zenon
  DEF Expire, Lapse, Deliver, MqttBreaks, MqttCounts, MqttReturns, vars, clientVars, undisturbed, loopVars,
      mqttVars, Switches
<1>6. CASE LinkStep /\ UNCHANGED <<loopVars, cacheVars, mqttVars, brokerVars>>
  BY <1>6, Zenon
  DEF LinkStep, DeviceExecutes, FrameLost, LineBreaks, LineReturns, loopVars, mqttVars, Switches
<1> QED
  BY <1>2, <1>3, <1>4, <1>5, <1>6, <1>8 DEF GatewayNext, GatewayStep

\* Every step goes on to a place there is.
LEMMA FlagsStep == Flags /\ [GatewayNext]_vars => Flags'
<1> SUFFICES ASSUME Flags, [GatewayNext]_vars PROVE Flags'
  OBVIOUS
<1>1. CASE EndProcess /\ available' \in {Published("offline"), available}
  BY <1>1 DEF EndProcess, Published, Flags
<1>2. ToLoopHead => pc' \in {"loop", "commands"}
  BY DEF ToLoopHead
<1>3. \A state \in {"online", "offline"} : Published(state) \in {state, available}
  BY DEF Published
<1>4. /\ Published(DeviceState) \in {"online", "offline", available}
      /\ Announce(DeviceState) => available' \in {"online", "offline", available}
  BY <1>3 DEF DeviceState, Announce
<1>5. CASE Start \/ LoopHead \/ Replay \/ Reject \/ Execute \/ Awaiting \/ Executed
  BY <1>4, <1>5
  DEF Start, LoopHead, Replay, Reject, TakenFromQueue, Execute, Awaiting, Executed, Finish,
      loopVars, mqttVars, Flags
<1>6. CASE Poll \/ Connect \/ Ask \/ StepDone
  <2>1. CASE Poll
    BY <1>2, <1>3, <2>1 DEF Poll, Announce, Flags
  <2>2. CASE Connect
    BY <2>2 DEF Connect, mqttVars, Flags
  <2>3. CASE Ask
    BY <2>3 DEF Ask, loopVars, mqttVars, Flags
  <2>4. CASE StepDone
    <3>1. \/ ToLoopHead /\ step' = 1 /\ Announce(DeviceState)
          \/ step' = 2 /\ UNCHANGED <<pc, available>>
      BY <2>4, Zenon DEF StepDone, Connected
    <3> QED
      BY <1>2, <1>4, <3>1 DEF Flags
  <2> QED
    BY <1>6, <2>1, <2>2, <2>3, <2>4
<1>7. CASE ConnectFails \/ StopStream \/ PollFails \/ Stop \/ Kill
  <2>1. CASE EndProcess
    <3>1. available' = Published("offline") \/ UNCHANGED available
      BY <1>7, <2>1, Zenon
      DEF ConnectFails, StopStream, PollFails, Stop, EndsPublishing, Kill, mqttVars
    <3> QED
      BY <1>1, <2>1, <3>1
  <2>2. CASE ~EndProcess
    <3>1. \/ ToLoopHead /\ UNCHANGED <<step, available>>
          \/ ToLoopHead /\ step' = 1 /\ UNCHANGED available
          \/ pc' \in {"stopping", "stopped"} /\ UNCHANGED <<step, available>>
      BY <1>7, <2>2, Zenon
      DEF ConnectFails, StopStream, PollFails, Stop, EndsPublishing, Kill, mqttVars
    <3> QED
      BY <1>2, <3>1 DEF Flags
  <2> QED
    BY <2>1, <2>2
<1>8. CASE \/ \E i \in Ids : Expire(i) \/ Lapse(i) \/ \E retained \in BOOLEAN : Deliver(i, retained)
           \/ MqttBreaks \/ MqttCounts \/ MqttReturns \/ UNCHANGED vars
  BY <1>8 DEF Expire, Lapse, Deliver, MqttBreaks, MqttCounts, MqttReturns, vars, loopVars, mqttVars, Flags
<1>9. CASE UNCHANGED <<loopVars, mqttVars>>
  BY <1>9 DEF loopVars, mqttVars, Flags
<1> QED
  BY <1>5, <1>6, <1>7, <1>8, <1>9 DEF GatewayNext, GatewayStep

\* Nothing exceeds its bound.
LEMMA BoundsStep == CacheInv /\ SessionInv /\ Bounds /\ [GatewayNext]_vars => Bounds'
<1> SUFFICES ASSUME CacheInv, SessionInv, Bounds, [GatewayNext]_vars PROVE Bounds'
  OBVIOUS
<1> USE ClientAssumption, GatewayAssumption
<1>1. /\ toDevice \in Seq(Frames) /\ queue \in Seq(Messages) /\ sequence \in Nat
      /\ request # NoRequest => request.left \in Nat
  BY DEF CacheInv, HistoryTyped, SessionInv, SessionTyped, Requests
<1>2. /\ Len(<<>>) = 0
      /\ toDevice # <<>> => Len(Tail(toDevice)) <= Len(toDevice)
      /\ queue # <<>> => Len(Tail(queue)) <= Len(queue)
  BY <1>1
<1>3. (events' = events \/ Event) => events' \in 0..MaxEvents
  BY DEF Event, Bounds
<1>4. ASSUME NEW tag \in Tags, NEW left, left \in Nat, left <= Retries, Send(tag, left)
      PROVE  /\ Len(toDevice') <= DeviceQueue
             /\ request' # NoRequest => sequence' >= 1 /\ request'.left <= Retries
  <2>1. Len(toDevice') <= DeviceQueue
    <3>1. \A f \in Frames : Len(Append(toDevice, f)) = Len(toDevice) + 1 /\ Len(toDevice) \in Nat
      BY <1>1
    <3>2. [tag |-> tag, sequence |-> sequence + 1, own |-> TRUE] \in Frames
      BY <1>1 DEF Frames
    <3> QED
      BY <1>4, <3>1, <3>2 DEF Send, Bounds
  <2> QED
    BY <1>1, <1>4, <2>1 DEF Send
<1>5. ASSUME Len(toDevice') <= DeviceQueue, Len(queue') <= QueueCapacity,
             events' = events \/ Event, live' = live,
             request' # NoRequest => sequence' >= 1 /\ request'.left <= Retries
      PROVE  Bounds'
  BY <1>3, <1>5 DEF Bounds
<1>6. CASE EndProcess /\ (UNCHANGED events \/ Event)
  BY <1>2, <1>5, <1>6 DEF EndProcess, Bounds
<1>7. CASE Start \/ LoopHead \/ Replay \/ Reject
  BY <1>2, <1>5, <1>7
  DEF Start, LoopHead, Replay, Reject, TakenFromQueue, clientVars, undisturbed, brokerVars, Bounds
<1>8. CASE Execute
  <2>1. /\ Send(Head(queue).id, Attempts(Head(queue).id \notin SideEffects) - 1)
        /\ queue # <<>> /\ queue' = Tail(queue) /\ live' = live
    BY <1>8 DEF Execute, Begin
  <2>2. Head(queue) \in Messages
    BY <1>1, <2>1
  <2>3. Head(queue).id \in Tags
    BY <2>2 DEF Messages, Tags
  <2>4. events' = events
    BY <2>1 DEF Send
  <2> QED
    BY <1>2, <1>4, <1>5, <2>1, <2>3, <2>4 DEF Attempts, Bounds
<1>9. CASE Awaiting
  <2>1. UNCHANGED <<queue, live>>
    BY <1>9 DEF Awaiting, brokerVars
  <2>2. CASE Retry
    <3>1. request # NoRequest /\ request.left > 0 /\ Send(request.tag, request.left - 1)
      BY <2>2 DEF Retry
    <3>2. request.tag \in Tags /\ request.left - 1 \in Nat /\ request.left - 1 <= Retries
      BY <1>1, <3>1, WaitingFacts DEF Bounds
    <3>3. events' = events
      BY <3>1 DEF Send
    <3> QED
      BY <1>4, <1>5, <2>1, <3>1, <3>2, <3>3 DEF Bounds
  <2>3. CASE PassOver
    BY <1>5, <2>1, <2>3 DEF PassOver, Bounds
  <2> QED
    BY <1>9, <2>2, <2>3 DEF Awaiting
<1>10. CASE Executed \/ Poll \/ Connect \/ StepDone
  <2>1. CASE Executed \/ Poll \/ StepDone
    BY <1>5, <2>1
    DEF Executed, Poll, StepDone, AnsweredAndFlushed, Answered, Accept, GiveUp, brokerVars, Bounds
  <2>2. CASE Connect
    <3>1. request = NoRequest
      BY <2>2, WaitingFacts DEF Connect
    <3>2. Len(toDevice') = Len(toDevice)
      BY <1>1, <2>2 DEF Connect, Open
    <3> QED
      BY <1>5, <2>2, <3>1, <3>2 DEF Connect, Open, brokerVars, Bounds
  <2> QED
    BY <1>10, <2>1, <2>2
<1>11. ASSUME NEW tag \in {"read", "stream"}, NEW retry \in BOOLEAN, Begin(tag, retry), UNCHANGED brokerVars
       PROVE  Bounds'
  <2>1. Attempts(retry) - 1 \in Nat /\ Attempts(retry) - 1 <= Retries /\ tag \in Tags
    BY DEF Attempts, Tags
  <2>2. Send(tag, Attempts(retry) - 1)
    BY <1>11 DEF Begin
  <2>3. events' = events
    BY <2>2 DEF Send
  <2> QED
    BY <1>4, <1>5, <1>11, <2>1, <2>2, <2>3 DEF brokerVars, Bounds
<1>12. CASE Ask
  BY <1>11, <1>12 DEF Ask
<1>13. CASE ConnectFails \/ StopStream \/ PollFails \/ Stop \/ Kill
  <2>1. CASE EndProcess
    <3>1. UNCHANGED events \/ Event
      BY <1>13, <2>1, Zenon
      DEF ConnectFails, StopStream, PollFails, Stop, EndsPublishing, Kill, clientVars, Begin, Send,
          Answered, Accept, GiveUp
    <3> QED
      BY <1>6, <2>1, <3>1
  <2>2. CASE ~EndProcess
    <3>1. CASE Begin("stream", FALSE) /\ UNCHANGED brokerVars
      BY <1>11, <3>1
    <3>2. CASE /\ UNCHANGED <<sequence, toDevice, queue, live>> /\ request' \in {request, NoRequest}
               /\ UNCHANGED events \/ Event
      BY <1>5, <3>2 DEF Bounds
    <3> QED
      BY <1>13, <2>2, <3>1, <3>2
      DEF ConnectFails, StopStream, PollFails, Stop, EndsPublishing, Kill, Answered, Accept, GiveUp, clientVars, undisturbed, brokerVars
  <2> QED
    BY <2>1, <2>2
<1>14. ASSUME NEW i \in Ids, NEW retained \in BOOLEAN, Deliver(i, retained)
       PROVE  Bounds'
  <2>1. Len(queue') <= QueueCapacity
    <3>1. \A m \in Messages : Len(Append(queue, m)) = Len(queue) + 1 /\ Len(queue) \in Nat
      BY <1>1
    <3>2. [id |-> i, retained |-> retained] \in Messages
      BY DEF Messages
    <3> QED
      BY <1>14, <3>1, <3>2 DEF Deliver, Bounds
  <2>2. live' \subseteq Ids
    BY <1>14 DEF Deliver, Bounds
  <2> QED
    BY <1>3, <1>14, <2>1, <2>2 DEF Deliver, undisturbed, Bounds
<1>15. CASE \/ \E i \in Ids : Expire(i) \/ Lapse(i)
            \/ MqttBreaks \/ MqttCounts \/ MqttReturns \/ UNCHANGED vars
  BY <1>5, <1>15
  DEF Expire, Lapse, MqttBreaks, MqttCounts, MqttReturns, vars, clientVars, undisturbed, brokerVars, Bounds
<1>16. CASE LinkStep /\ UNCHANGED <<loopVars, cacheVars, mqttVars, brokerVars>>
  BY <1>2, <1>5, <1>16
  DEF LinkStep, DeviceExecutes, FrameLost, LineBreaks, LineReturns, brokerVars, Bounds
<1> QED
  BY <1>7, <1>8, <1>9, <1>10, <1>12, <1>13, <1>14, <1>15, <1>16 DEF GatewayNext, GatewayStep

\* The state of the gateway has its types: the pipes and the queue keep to
\* their capacities, and the cache holds no id twice and no more than it may
\* (device.py; gateway.py).
THEOREM GatewayTyped == GatewaySpec => []GatewayTypeOK
<1>1. GatewayInit => Switches
  BY Zenon DEF GatewayInit, ClientInit, Switches
<1>2. GatewayInit => Flags
  BY DEF GatewayInit, Flags
<1>3. GatewayInit => Bounds
  BY ClientAssumption, GatewayAssumption DEF GatewayInit, ClientInit, Bounds
<1> QED
  BY <1>1, <1>2, <1>3, CacheInitInv, CacheStepInv, SessionInitInv, SessionStepInv, SwitchesStep,
     FlagsStep, BoundsStep, TypesFollow, PTL DEF GatewaySpec
===============================================================================
