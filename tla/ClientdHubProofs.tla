-------------------------- MODULE ClientdHubProofs --------------------------
(***************************************************************************)
(* Theorems about ClientdHub, for any requests, number of connections and  *)
(* capacity of the buffers, with broken links, reboots and restarts.       *)
(***************************************************************************)
EXTENDS ClientdHub, TLAPS

(* In the initial state every variable has its type.                                       *)
LEMMA InitTyped == HubInit => HubTypeOK
BY DEF HubInit, HubTypeOK, SrvStages, Req, Answers

(* A connection's step keeps the types and moves no message but those a reboot loses.      *)
LEMMA ConnectionStep ==
    ASSUME HubTypeOK, NEW c \in Conns, Connection(c)
    PROVE  HubTypeOK' /\ nodeq' \subseteq nodeq /\ UNCHANGED <<sendq, wire, req, applied>>
<1>1. CASE Dials(c)
  BY <1>1 DEF Dials, HubTypeOK, SrvStages
<1>2. CASE RegisterConn(c)
  BY <1>2 DEF RegisterConn, HubTypeOK, SrvStages
<1>3. CASE LinkBreaks(c) \/ ReadFails(c) \/ Unregister(c) \/ NodeNotices(c)
  BY <1>3 DEF LinkBreaks, ReadFails, Unregister, NodeNotices, HubTypeOK, SrvStages
<1>4. CASE AgentReboots(c)
  BY <1>4 DEF AgentReboots, HubTypeOK
<1> QED
  BY <1>1, <1>2, <1>3, <1>4 DEF Connection

(* A change to one request's entry that keeps its type leaves the others as they are.      *)
LEMMA OneEntry ==
    ASSUME HubTypeOK, NEW m \in Msgs, NEW r \in Req, req' = [req EXCEPT ![m] = r]
    PROVE  req' \in [Msgs -> Req] /\ \A k \in Msgs \ {m} : req'[k] = req[k]
BY DEF HubTypeOK

(* So does an answer.                                                                      *)
LEMMA AnswerTyped ==
    ASSUME HubTypeOK, NEW m \in Msgs, NEW a \in Answers, Answer(m, a)
    PROVE  req' \in [Msgs -> Req] /\ \A k \in Msgs \ {m} : req'[k] = req[k]
BY DEF HubTypeOK, Answer, Req

(* A request's handler keeps the types and touches its own entry only.                     *)
LEMMA RequestTyped ==
    ASSUME HubTypeOK, NEW m \in Msgs, Request(m)
    PROVE  /\ HubTypeOK'
           /\ UNCHANGED <<registered, srv, link, wire, up, nodeq, applied>>
           /\ \A k \in Msgs \ {m} : req'[k] = req[k]
<1>1. CASE Asks(m)
  <2>1. /\ [req[m] EXCEPT !.at = "done", !.answer = "offline"] \in Req
        /\ [req[m] EXCEPT !.at = "listening", !.listening = TRUE] \in Req
    BY DEF HubTypeOK, Req, Answers
  <2>2. PICK r \in Req : req' = [req EXCEPT ![m] = r]
    BY <1>1, <2>1 DEF Asks, HubTypeOK
  <2> QED
    BY <1>1, <2>2, OneEntry DEF Asks, HubTypeOK
<1>2. CASE Aims(m)
  <2>1. CASE registered = NoConn
    BY <1>2, <2>1, AnswerTyped DEF Aims, Answers, HubTypeOK
  <2>2. CASE registered # NoConn
    <3>1. [req[m] EXCEPT !.at = "aimed", !.target = registered] \in Req
      BY DEF HubTypeOK, Req
    <3> QED
      BY <1>2, <2>2, <3>1 DEF Aims, HubTypeOK, Req
  <2> QED
    BY <2>1, <2>2
<1>3. CASE Pushes(m)
  <2>1. sendq' \in [Conns -> SUBSET Msgs]
    BY <1>3 DEF Pushes, HubTypeOK
  <2>2. req' \in [Msgs -> Req] /\ \A k \in Msgs \ {m} : req'[k] = req[k]
    <3>1. CASE Answer(m, "refused")
      BY <3>1, AnswerTyped DEF Answers
    <3>2. CASE req' = [req EXCEPT ![m].at = "waiting"]
      BY <3>2 DEF HubTypeOK, Req
    <3> QED
      BY <1>3, <3>1, <3>2 DEF Pushes
  <2> QED
    BY <1>3, <2>1, <2>2 DEF Pushes, HubTypeOK
<1>4. CASE Hears(m)
  <2>1. req[m].heard \in Answers
    BY DEF HubTypeOK, Req, Answers
  <2> QED
    BY <1>4, <2>1, AnswerTyped DEF Hears, HubTypeOK
<1>5. CASE TimesOut(m)
  BY <1>5, AnswerTyped DEF TimesOut, HubTypeOK, Answers
<1>6. CASE UnregisterAck(m)
  <2>1. req' \in [Msgs -> Req] /\ \A k \in Msgs \ {m} : req'[k] = req[k]
    BY <1>6 DEF UnregisterAck, HubTypeOK, Req
  <2> QED
    BY <1>6, <2>1 DEF UnregisterAck, HubTypeOK
<1> QED
  BY <1>1, <1>2, <1>3, <1>4, <1>5, <1>6 DEF Request

(* A message on its way keeps the types.                                                   *)
LEMMA MessageTyped ==
    ASSUME HubTypeOK, NEW c \in Conns, Message(c)
    PROVE  HubTypeOK' /\ UNCHANGED <<registered, srv, link, up>>
<1>1. ASSUME NEW m \in Msgs, ServerWrites(c, m)
      PROVE  HubTypeOK' /\ UNCHANGED <<registered, srv, link, up>>
  BY <1>1 DEF ServerWrites, HubTypeOK
<1>2. ASSUME NEW m \in Msgs, NEW ok \in BOOLEAN, NodeHandles(c, m, ok)
      PROVE  HubTypeOK' /\ UNCHANGED <<registered, srv, link, up>>
  <2>1. applied' \in [Msgs -> Nat]
    BY <1>2 DEF NodeHandles, HubTypeOK
  <2>2. nodeq' \in SUBSET Acks
    BY <1>2 DEF NodeHandles, HubTypeOK, Acks
  <2> QED
    BY <1>2, <2>1, <2>2 DEF NodeHandles, HubTypeOK
<1>3. ASSUME NEW a \in nodeq, AckArrives(c, a)
      PROVE  HubTypeOK' /\ UNCHANGED <<registered, srv, link, up>>
  <2>1. req' \in [Msgs -> Req]
    <3>1. a.of \in Msgs
      BY DEF HubTypeOK, Acks
    <3>2. req' = req \/ \E h \in {"ok", "failed"} : req' = [req EXCEPT ![a.of].heard = h]
      BY <1>3 DEF AckArrives, DeliverAck
    <3> QED
      BY <3>1, <3>2 DEF HubTypeOK, Req
  <2> QED
    BY <1>3, <2>1 DEF AckArrives, HubTypeOK
<1>4. ASSUME NEW a \in nodeq, AckLost(c, a)
      PROVE  HubTypeOK' /\ UNCHANGED <<registered, srv, link, up>>
  BY <1>4 DEF AckLost, HubTypeOK
<1> QED
  BY <1>1, <1>2, <1>3, <1>4 DEF Message

(* A restart of the server keeps the types.                                                *)
LEMMA RestartTyped ==
    ASSUME HubTypeOK, HubRestarts
    PROVE  HubTypeOK'
<1>1. ASSUME NEW m \in Msgs
      PROVE  [req[m] EXCEPT !.at = "done", !.listening = FALSE,
                            !.answer = IF @ = "none" THEN "lost" ELSE @] \in Req
  <2>1. req[m] \in Req
    BY DEF HubTypeOK
  <2> QED
    BY <2>1 DEF Req, Answers
<1>2. req' \in [Msgs -> Req]
  BY <1>1 DEF HubRestarts, HubTypeOK
<1> QED
  BY <1>2 DEF HubRestarts, HubTypeOK, SrvStages

(* Every step keeps the types.                                                             *)
LEMMA NextTyped == HubTypeOK /\ [HubNext]_hubVars => HubTypeOK'
<1>1. HubTypeOK /\ UNCHANGED hubVars => HubTypeOK'
  BY DEF HubTypeOK, hubVars
<1> QED
  BY <1>1, ConnectionStep, RequestTyped, MessageTyped, RestartTyped DEF HubNext

(* Every variable keeps its type.                                                          *)
THEOREM TypeCorrect == HubSpec => []HubTypeOK
<1> QED
  BY InitTyped, NextTyped, PTL DEF HubSpec
-----------------------------------------------------------------------------
(* The hub offers a connection from its registration until its handler's cleanup at most.  *)
THEOREM NoConnectionIsStale == HubSpec => []NoStaleConnection
<1>1. HubInit => NoStaleConnection
  BY DEF HubInit, NoStaleConnection
<1>2. HubTypeOK /\ NoStaleConnection /\ [HubNext]_hubVars => NoStaleConnection'
  <2> SUFFICES ASSUME HubTypeOK, NoStaleConnection, [HubNext]_hubVars PROVE NoStaleConnection'
    OBVIOUS
  <2>1. ASSUME NEW c \in Conns, Connection(c) PROVE NoStaleConnection'
    BY <2>1 DEF Connection, Dials, RegisterConn, LinkBreaks, ReadFails, Unregister, NodeNotices,
       AgentReboots, NoStaleConnection, HubTypeOK
  <2>2. ASSUME UNCHANGED <<registered, srv>> PROVE NoStaleConnection'
    BY <2>2 DEF NoStaleConnection
  <2>3. CASE HubRestarts
    BY <2>3 DEF HubRestarts, NoStaleConnection
  <2> QED
    BY <2>1, <2>2, <2>3, RequestTyped, MessageTyped DEF HubNext, hubVars
<1> QED
  BY <1>1, <1>2, TypeCorrect, PTL DEF HubSpec
-----------------------------------------------------------------------------
(* Each request is in one place at a time: in a send channel, on the wire, or answered and *)
(* in the agent's channel; and what is known of it fits where it is.                       *)
Moved(m)  == \E c \in Conns : m \in sendq[c] \cup wire[c]
Fresh(m)  == applied[m] = 0 /\ req[m].heard = "none" /\ ~UnderWay(m)
Single(m) ==
    /\ \A c, d \in Conns : m \in sendq[c] => m \notin wire[d] /\ (m \in sendq[d] => c = d)
    /\ \A c, d \in Conns : m \in wire[c] /\ m \in wire[d] => c = d
    /\ Moved(m) => applied[m] = 0 /\ req[m].heard = "none" /\ \A a \in nodeq : a.of # m
    /\ \A a, b \in nodeq : a.of = m /\ b.of = m => a = b
    /\ \A a \in nodeq : a.of = m => applied[m] = (IF a.ok THEN 1 ELSE 0) /\ req[m].heard = "none"
Known(m) ==
    /\ req[m].heard = "ok" => applied[m] = 1 /\ ~UnderWay(m)
    /\ req[m].heard = "failed" => applied[m] = 0 /\ ~UnderWay(m)
    /\ req[m].answer = "ok" => req[m].heard = "ok"
    /\ req[m].answer = "failed" => req[m].heard = "failed"
    /\ req[m].at \in {"idle", "listening", "aimed"} => Fresh(m)
    /\ req[m].answer \in {"offline", "refused"} => Fresh(m)
    /\ req[m].answer # "none" <=> req[m].at \in {"answered", "done"}
    /\ req[m].at \in {"listening", "aimed", "waiting"} => req[m].listening
    /\ req[m].at = "aimed" => req[m].target \in Conns
RequestInv == \A m \in Msgs : Single(m) /\ Known(m)

(* A request nobody touches keeps its place.                                               *)
LEMMA Untouched ==
    ASSUME NEW m \in Msgs, Single(m), Known(m), req'[m] = req[m], applied'[m] = applied[m],
           \A c \in Conns : (m \in sendq'[c] => m \in sendq[c]) /\ (m \in wire'[c] => m \in wire[c]),
           \A a \in nodeq' : a.of = m => a \in nodeq
    PROVE  Single(m)' /\ Known(m)'
<1>1. UnderWay(m)' => UnderWay(m)
  BY DEF UnderWay
<1>2. Moved(m)' => Moved(m)
  BY DEF Moved
<1>3. Single(m)'
  BY <1>2 DEF Single
<1>4. Known(m)'
  BY <1>1 DEF Known, Fresh
<1> QED
  BY <1>3, <1>4

(* A request's handler keeps it in one place.                                              *)
LEMMA RequestStep ==
    ASSUME HubTypeOK, RequestInv, NEW m \in Msgs, Request(m)
    PROVE  RequestInv'
<1> USE RequestTyped
<1>1. ASSUME NEW k \in Msgs \ {m} PROVE Single(k)' /\ Known(k)'
  <2>1. \A c \in Conns : k \in sendq'[c] => k \in sendq[c]
    <3>1. sendq' = sendq \/ sendq' = [sendq EXCEPT ![req[m].target] = @ \cup {m}]
      BY DEF Request, Asks, Aims, Pushes, Hears, TimesOut, UnregisterAck
    <3> QED
      BY <3>1 DEF HubTypeOK
  <2> QED
    BY <2>1, Untouched DEF RequestInv
<1>2. Single(m) /\ Known(m) /\ req[m] \in Req
  BY DEF RequestInv, HubTypeOK
<1>3. ASSUME Pushes(m), sendq' = [sendq EXCEPT ![req[m].target] = @ \cup {m}],
             req' = [req EXCEPT ![m].at = "waiting"]
      PROVE  Single(m)' /\ Known(m)'
  <2>1. /\ req[m].at = "aimed" /\ req[m].target \in Conns
        /\ Fresh(m) /\ req[m].answer = "none" /\ req[m].listening
    BY <1>2, <1>3 DEF Pushes, Known
  <2>2. \A c \in Conns : m \in sendq'[c] => c = req[m].target
    BY <1>3, <2>1 DEF HubTypeOK, Fresh, UnderWay
  <2>3. /\ req'[m].at = "waiting" /\ req'[m].heard = "none"
        /\ req'[m].answer = "none" /\ req'[m].listening
    BY <1>2, <1>3, <2>1 DEF Req, HubTypeOK, Fresh
  <2>4. Single(m)'
    BY <2>1, <2>2, <2>3 DEF Single, Moved, Fresh, UnderWay
  <2>5. Known(m)'
    BY <2>3 DEF Known
  <2> QED
    BY <2>4, <2>5
<1>4. ASSUME \/ Asks(m) \/ Aims(m) \/ Hears(m) \/ TimesOut(m) \/ UnregisterAck(m)
             \/ Pushes(m) /\ Answer(m, "refused") /\ UNCHANGED sendq
      PROVE  Single(m)' /\ Known(m)'
  <2>1. UNCHANGED sendq /\ req'[m].heard = req[m].heard
    <3>1. CASE Asks(m)
      BY <1>2, <3>1 DEF Asks, HubTypeOK, Req
    <3>2. CASE Aims(m)
      BY <1>2, <3>2 DEF Aims, Answer, HubTypeOK, Req
    <3>3. ASSUME NEW a, Answer(m, a) PROVE req'[m].heard = req[m].heard
      BY <1>2, <3>3 DEF Answer, HubTypeOK, Req
    <3>4. CASE Hears(m) \/ TimesOut(m)
      BY <3>3, <3>4 DEF Hears, TimesOut
    <3>5. CASE Pushes(m) /\ Answer(m, "refused") /\ UNCHANGED sendq
      BY <3>3, <3>5
    <3>6. CASE UnregisterAck(m)
      BY <1>2, <3>6 DEF UnregisterAck, HubTypeOK, Req
    <3> QED
      BY <1>4, <3>1, <3>2, <3>4, <3>5, <3>6
  <2>2. Single(m)'
    BY <1>2, <2>1 DEF Single, Moved
  <2>3. UnderWay(m)' = UnderWay(m)
    BY <2>1 DEF UnderWay
  <2>4. Known(m)'
    <3> USE <1>2, <2>1, <2>3 DEF Known, Fresh, Req, HubTypeOK
    <3>1. CASE Asks(m)
      BY <3>1 DEF Asks
    <3>2. CASE Aims(m)
      BY <3>2 DEF Aims, Answer
    <3>3. CASE Pushes(m) /\ Answer(m, "refused")
      BY <3>3 DEF Pushes, Answer
    <3>4. CASE Hears(m)
      BY <3>4 DEF Hears, Answer
    <3>5. CASE TimesOut(m)
      BY <3>5 DEF TimesOut, Answer
    <3>6. CASE UnregisterAck(m)
      BY <3>6 DEF UnregisterAck
    <3> QED
      BY <1>4, <3>1, <3>2, <3>3, <3>4, <3>5, <3>6
  <2> QED
    BY <2>2, <2>4
<1> QED
  BY <1>1, <1>3, <1>4 DEF RequestInv, Request, Pushes

(* A message goes from one place to the next.                                              *)
LEMMA MessageStep ==
    ASSUME HubTypeOK, RequestInv, NEW c \in Conns, Message(c)
    PROVE  RequestInv'
<1>1. ASSUME NEW m \in Msgs, ServerWrites(c, m) PROVE RequestInv'
  <2>1. ASSUME NEW k \in Msgs \ {m} PROVE Single(k)' /\ Known(k)'
    BY <1>1, Untouched DEF RequestInv, ServerWrites, HubTypeOK
  <2>2. Single(m) /\ Known(m) /\ m \in sendq[c]
    BY <1>1 DEF RequestInv, ServerWrites
  <2>3. /\ \A d \in Conns : m \notin sendq'[d]
        /\ \A d \in Conns : m \in wire'[d] => d = c
    BY <1>1, <2>2 DEF ServerWrites, HubTypeOK, Single
  <2>4. Moved(m) /\ UnderWay(m)
    BY <2>2 DEF Moved, UnderWay
  <2>5. UNCHANGED <<req, applied, nodeq>>
    BY <1>1 DEF ServerWrites
  <2>6. Single(m)' /\ Known(m)'
    BY <2>2, <2>3, <2>4, <2>5 DEF Single, Known, Fresh
  <2> QED
    BY <2>1, <2>6 DEF RequestInv
<1>2. ASSUME NEW m \in Msgs, NEW ok \in BOOLEAN, NodeHandles(c, m, ok) PROVE RequestInv'
  <2>1. ASSUME NEW k \in Msgs \ {m} PROVE Single(k)' /\ Known(k)'
    BY <1>2, Untouched DEF RequestInv, NodeHandles, HubTypeOK
  <2>2. Single(m) /\ Known(m) /\ m \in wire[c]
    BY <1>2 DEF RequestInv, NodeHandles
  <2>3. Moved(m) /\ UnderWay(m)
    BY <2>2 DEF Moved, UnderWay
  <2>4. /\ \A d \in Conns : m \notin sendq'[d]
        /\ \A d \in Conns : m \notin wire'[d]
    BY <1>2, <2>2 DEF NodeHandles, HubTypeOK, Single
  <2>5. UNCHANGED req /\ applied'[m] = (IF ok THEN 1 ELSE 0)
    BY <1>2, <2>2, <2>3 DEF NodeHandles, HubTypeOK, Single
  <2>6. \A a \in nodeq' : a.of = m => a.ok = ok /\ a = [of |-> m, ok |-> ok]
    BY <1>2, <2>2, <2>3 DEF NodeHandles, Single
  <2>7. Single(m)' /\ Known(m)'
    BY <2>2, <2>3, <2>4, <2>5, <2>6 DEF Single, Known, Fresh, Moved
  <2> QED
    BY <2>1, <2>7 DEF RequestInv
<1>3. ASSUME NEW a \in nodeq, AckArrives(c, a) PROVE RequestInv'
  <2> DEFINE m == a.of
  <2>0. m \in Msgs /\ a.ok \in BOOLEAN
    BY DEF HubTypeOK, Acks
  <2>1. ASSUME NEW k \in Msgs \ {m} PROVE Single(k)' /\ Known(k)'
    BY <1>3, <2>0, Untouched DEF RequestInv, AckArrives, DeliverAck, HubTypeOK
  <2>2. Single(m) /\ Known(m) /\ req[m] \in Req
    BY <2>0 DEF RequestInv, HubTypeOK
  <2>3. UnderWay(m) /\ ~Moved(m)
    BY <2>0, <2>2 DEF UnderWay, Single
  <2>4. UNCHANGED <<sendq, wire, applied>> /\ \A b \in nodeq' : b.of # m
    BY <1>3, <2>0, <2>2 DEF AckArrives, Single
  <2>5. ~UnderWay(m)' /\ ~Moved(m)'
    BY <2>3, <2>4 DEF UnderWay, Moved
  <2>6. /\ req'[m].at = req[m].at /\ req'[m].answer = req[m].answer /\ req'[m].target = req[m].target
        /\ req'[m].listening = req[m].listening
        /\ req'[m].heard \in {"none", IF a.ok THEN "ok" ELSE "failed"}
    BY <1>3, <2>0, <2>2 DEF AckArrives, DeliverAck, HubTypeOK, Req, Single
  <2>7. Single(m)'
    BY <2>2, <2>4, <2>5 DEF Single, Moved
  <2>8. /\ req[m].heard = "none" /\ applied[m] = (IF a.ok THEN 1 ELSE 0)
        /\ req[m].answer \notin {"ok", "failed", "offline", "refused"}
        /\ req[m].at \notin {"idle", "listening", "aimed"}
    BY <2>2, <2>3 DEF Single, Known, Fresh
  <2>9. Known(m)'
    BY <2>2, <2>4, <2>5, <2>6, <2>8 DEF Known
  <2> QED
    BY <2>1, <2>7, <2>9 DEF RequestInv
<1>4. ASSUME NEW a \in nodeq, AckLost(c, a) PROVE RequestInv'
  BY <1>4, Untouched DEF RequestInv, AckLost
<1> QED
  BY <1>1, <1>2, <1>3, <1>4 DEF Message

(* A restart forgets requests without telling anything untrue of them.                     *)
LEMMA RestartStep ==
    ASSUME HubTypeOK, RequestInv, HubRestarts
    PROVE  RequestInv'
<1> SUFFICES ASSUME NEW m \in Msgs PROVE Single(m)' /\ Known(m)'
  BY DEF RequestInv
<1>1. Single(m) /\ Known(m) /\ req[m] \in Req
  BY DEF RequestInv, HubTypeOK
<1>2. /\ UNCHANGED <<wire, nodeq, applied>> /\ \A c \in Conns : sendq'[c] = {}
      /\ req'[m].heard = req[m].heard
      /\ \/ req'[m] = req[m]
         \/ /\ req'[m].at = "done"
            /\ req'[m].answer = IF req[m].answer = "none" THEN "lost" ELSE req[m].answer
  BY <1>1 DEF HubRestarts, HubTypeOK, Req
<1>3. UnderWay(m)' => UnderWay(m)
  BY <1>2 DEF UnderWay
<1>4. Moved(m)' => Moved(m)
  BY <1>2 DEF Moved
<1>5. Single(m)'
  BY <1>1, <1>2, <1>4 DEF Single
<1>6. Known(m)'
  BY <1>1, <1>2, <1>3 DEF Known, Fresh
<1> QED
  BY <1>5, <1>6

(* Every step keeps each request in one place.                                             *)
LEMMA NextInv == HubTypeOK /\ RequestInv /\ [HubNext]_hubVars => RequestInv'
<1>1. ASSUME HubTypeOK, RequestInv, NEW c \in Conns, Connection(c) PROVE RequestInv'
  BY <1>1, ConnectionStep, Untouched DEF RequestInv
<1>2. ASSUME RequestInv, UNCHANGED hubVars PROVE RequestInv'
  BY <1>2, Untouched DEF RequestInv, hubVars
<1> QED
  BY <1>1, <1>2, RequestStep, MessageStep, RestartStep DEF HubNext

(* At first no request is anywhere.                                                        *)
LEMMA InitInv == HubInit => RequestInv
BY DEF HubInit, RequestInv, Single, Known, Fresh, Moved, UnderWay

(* What an operator is told of his request is true of it.                                  *)
THEOREM AnswersAreTrue == HubSpec => []AnswerIsTrue
<1>1. RequestInv => AnswerIsTrue
  BY DEF RequestInv, Known, Fresh, AnswerIsTrue
<1> QED
  BY <1>1, InitInv, NextInv, TypeCorrect, PTL DEF HubSpec

(* No answer comes before its handler listens.                                             *)
THEOREM AnswersAreHeard == HubSpec => []ListensBeforeAnswer
<1>1. HubTypeOK /\ RequestInv => ListensBeforeAnswer
  BY DEF RequestInv, Known, Fresh, ListensBeforeAnswer, HubTypeOK, Req
<1> QED
  BY <1>1, InitInv, NextInv, TypeCorrect, PTL DEF HubSpec
-----------------------------------------------------------------------------
(* The hub implements NodeRequests.  Abstractly a request is pending while MayArrive, and  *)
(* these are the three values the mapping gives it.                                        *)
Pending == {m \in Msgs : MayArrive(m)}
Applied == {m \in Msgs : applied[m] > 0}
Told    == [m \in Msgs |-> req[m].answer]

(* At first every request may arrive, none is applied and none is answered.                *)
LEMMA RefinesInit == HubInit => Requests!Init
BY DEF HubInit, MayArrive, Requests!Init

(* A step that moves no request and leaves every handler's answer is a stutter.            *)
LEMMA RefinesStutter ==
    ASSUME \A m \in Msgs : MayArrive(m)' = MayArrive(m) /\ req'[m].answer = req[m].answer,
           applied' = applied
    PROVE  UNCHANGED Requests!vars
BY DEF Requests!vars

(* A handler's step is a stutter, unless it answers; it answers what the node has settled, *)
(* or withdraws the request, or says that it does not know.                                *)
LEMMA RefinesRequest ==
    ASSUME HubTypeOK, RequestInv, NEW m \in Msgs, Request(m)
    PROVE  Requests!Next \/ UNCHANGED Requests!vars
<1>1. /\ UNCHANGED <<wire, applied>>
      /\ \A k \in Msgs \ {m} : req'[k] = req[k]
      /\ req[m] \in Req /\ Known(m) /\ Single(m)
  BY RequestTyped DEF RequestInv, HubTypeOK
<1>2. ASSUME UNCHANGED sendq PROVE \A k \in Msgs \ {m} : MayArrive(k)' = MayArrive(k)
  BY <1>1, <1>2 DEF MayArrive
<1>3. ASSUME UNCHANGED sendq, MayArrive(m)' = MayArrive(m), req'[m].answer = req[m].answer
      PROVE  UNCHANGED Requests!vars
  BY <1>1, <1>2, <1>3, RefinesStutter
<1>4. ASSUME NEW a \in Answers, Answer(m, a), UNCHANGED sendq
      PROVE  /\ Told' = [Told EXCEPT ![m] = a]
             /\ MayArrive(m)' <=> Moved(m)
  <2>1. req'[m].answer = a /\ req'[m].at = "answered"
    BY <1>1, <1>4 DEF Answer, HubTypeOK, Req
  <2> QED
    BY <1>1, <1>4, <2>1 DEF Told, MayArrive, Moved
<1>5. ASSUME NEW a \in {"offline", "refused"}, req[m].at \in {"idle", "listening", "aimed"},
             UNCHANGED sendq, Told' = [Told EXCEPT ![m] = a], ~MayArrive(m)'
      PROVE  Requests!Next
  <2>1. req[m].answer = "none" /\ MayArrive(m)
    BY <1>1, <1>5 DEF Known, MayArrive
  <2>2. Pending' = Pending \ {m} /\ Applied' = Applied
    BY <1>1, <1>2, <1>5 DEF Pending, Applied
  <2> QED
    BY <1>5, <2>1, <2>2 DEF Requests!Next, Requests!Refuse, Requests!Tell, Requests!Unanswered,
       Pending, Applied, Told
<1>6. CASE Asks(m)
  <2>1. req[m].at = "idle" /\ ~Moved(m) /\ UNCHANGED sendq
    BY <1>1, <1>6 DEF Asks, Known, Fresh, UnderWay, Moved
  <2>2. CASE registered = NoConn
    <3>1. req'[m].at = "done" /\ req'[m].answer = "offline"
      BY <1>1, <1>6, <2>2 DEF Asks, HubTypeOK, Req
    <3>2. Told' = [Told EXCEPT ![m] = "offline"] /\ ~MayArrive(m)'
      BY <1>1, <2>1, <3>1 DEF Told, MayArrive, Moved
    <3> QED
      BY <1>5, <2>1, <3>2
  <2>3. CASE registered # NoConn
    <3>1. req'[m].at = "listening" /\ req'[m].answer = req[m].answer
      BY <1>1, <1>6, <2>3 DEF Asks, HubTypeOK, Req
    <3> QED
      BY <1>3, <2>1, <3>1 DEF MayArrive
  <2> QED
    BY <2>2, <2>3
<1>7. CASE Aims(m)
  <2>1. req[m].at = "listening" /\ ~Moved(m) /\ UNCHANGED sendq
    BY <1>1, <1>7 DEF Aims, Known, Fresh, UnderWay, Moved
  <2>2. CASE registered = NoConn
    BY <1>4, <1>5, <1>7, <2>1, <2>2 DEF Aims, Answers
  <2>3. CASE registered # NoConn
    <3>1. req'[m].at = "aimed" /\ req'[m].answer = req[m].answer
      BY <1>1, <1>7, <2>3 DEF Aims, HubTypeOK, Req
    <3> QED
      BY <1>3, <2>1, <3>1 DEF MayArrive
  <2> QED
    BY <2>2, <2>3
<1>8. CASE Pushes(m)
  <2>1. req[m].at = "aimed" /\ ~Moved(m) /\ req[m].target \in Conns
    BY <1>1, <1>8 DEF Pushes, Known, Fresh, UnderWay, Moved
  <2>2. CASE Answer(m, "refused") /\ UNCHANGED sendq
    BY <1>4, <1>5, <2>1, <2>2 DEF Answers
  <2>3. CASE /\ sendq' = [sendq EXCEPT ![req[m].target] = @ \cup {m}]
             /\ req' = [req EXCEPT ![m].at = "waiting"]
    <3>1. req'[m].answer = req[m].answer
      BY <1>1, <2>3 DEF HubTypeOK, Req
    <3>2. MayArrive(m)' = MayArrive(m)
      BY <2>1, <2>3 DEF MayArrive, HubTypeOK
    <3>3. \A k \in Msgs \ {m} : MayArrive(k)' = MayArrive(k)
      BY <1>1, <2>1, <2>3 DEF MayArrive, HubTypeOK
    <3>4. \A k \in Msgs : MayArrive(k)' = MayArrive(k) /\ req'[k].answer = req[k].answer
      BY <1>1, <3>1, <3>2, <3>3
    <3> QED
      BY <1>1, <3>4, RefinesStutter
  <2> QED
    BY <1>8, <2>2, <2>3 DEF Pushes
<1>9. CASE Hears(m)
  <2> DEFINE a == req[m].heard
  <2>1. /\ req[m].at = "waiting" /\ req[m].answer = "none" /\ UNCHANGED sendq
        /\ a \in {"ok", "failed"} /\ Answer(m, a)
    BY <1>1, <1>9 DEF Hears, Known, Req
  <2>2. ~Moved(m) /\ ~MayArrive(m) /\ (a = "ok" => applied[m] = 1) /\ (a = "failed" => applied[m] = 0)
    BY <1>1, <2>1 DEF Known, UnderWay, Moved, MayArrive
  <2>3. Told' = [Told EXCEPT ![m] = a] /\ ~MayArrive(m)'
    BY <1>4, <2>1, <2>2 DEF Answers
  <2>4. Pending' = Pending /\ Applied' = Applied
    BY <1>1, <1>2, <2>1, <2>2, <2>3 DEF Pending, Applied
  <2>5. CASE a = "ok"
    <3>1. m \in Applied
      BY <2>2, <2>5 DEF Applied
    <3> QED
      BY <2>1, <2>3, <2>4, <2>5, <3>1 DEF Requests!Next, Requests!Succeed, Requests!Tell,
         Requests!Unanswered, Pending, Applied, Told
  <2>6. CASE a = "failed"
    <3>1. m \notin Applied /\ m \notin Pending
      BY <2>2, <2>6 DEF Applied, Pending
    <3> QED
      BY <2>1, <2>3, <2>4, <2>6, <3>1 DEF Requests!Next, Requests!Fail, Requests!Tell,
         Requests!Unanswered, Pending, Applied, Told
  <2> QED
    BY <2>1, <2>5, <2>6
<1>10. CASE TimesOut(m)
  <2>1. req[m].at = "waiting" /\ req[m].answer = "none" /\ UNCHANGED sendq /\ Answer(m, "timeout")
    BY <1>1, <1>10 DEF TimesOut, Known
  <2>2. Told' = [Told EXCEPT ![m] = "timeout"] /\ MayArrive(m)' = MayArrive(m)
    BY <1>4, <2>1 DEF Answers, MayArrive, Moved
  <2>3. Pending' = Pending /\ Applied' = Applied
    BY <1>1, <1>2, <2>1, <2>2 DEF Pending, Applied
  <2> QED
    BY <2>1, <2>2, <2>3 DEF Requests!Next, Requests!GiveUp, Requests!Tell, Requests!Unanswered,
       Pending, Applied, Told
<1>11. CASE UnregisterAck(m)
  <2>1. /\ req[m].at = "answered" /\ req'[m].at = "done" /\ UNCHANGED sendq
        /\ req'[m].answer = req[m].answer
    BY <1>1, <1>11 DEF UnregisterAck, HubTypeOK, Req
  <2> QED
    BY <1>1, <1>3, <2>1 DEF MayArrive
<1> QED
  BY <1>6, <1>7, <1>8, <1>9, <1>10, <1>11 DEF Request

(* What happens to a message is that it goes on, is lost, or is handled; what happens to   *)
(* an acknowledgement concerns nobody but the handler that hears it.                       *)
LEMMA RefinesMessage ==
    ASSUME HubTypeOK, RequestInv, NEW c \in Conns, Message(c)
    PROVE  Requests!Next \/ UNCHANGED Requests!vars
<1>1. ASSUME NEW m \in Msgs, ServerWrites(c, m) PROVE Requests!Next \/ UNCHANGED Requests!vars
  <2>1. /\ m \in sendq[c] /\ MayArrive(m) /\ UNCHANGED <<req, applied>> /\ Told' = Told
        /\ \A k \in Msgs \ {m} : MayArrive(k)' = MayArrive(k)
    BY <1>1 DEF ServerWrites, MayArrive, HubTypeOK, Told
  <2>2. CASE MayArrive(m)' = MayArrive(m)
    BY <2>1, <2>2, RefinesStutter
  <2>3. CASE ~MayArrive(m)'
    <3>1. Pending' = Pending \ {m} /\ Applied' = Applied
      BY <2>1, <2>3 DEF Pending, Applied
    <3> QED
      BY <2>1, <3>1 DEF Requests!Next, Requests!Lose, Pending, Applied, Told
  <2>4. MayArrive(m)' \in BOOLEAN /\ MayArrive(m) \in BOOLEAN
    BY DEF MayArrive
  <2> QED
    BY <2>1, <2>2, <2>3, <2>4
<1>2. ASSUME NEW m \in Msgs, NEW ok \in BOOLEAN, NodeHandles(c, m, ok) PROVE Requests!Next
  <2>1. Single(m) /\ Known(m) /\ m \in wire[c] /\ UNCHANGED <<sendq, req>> /\ Told' = Told
    BY <1>2 DEF RequestInv, NodeHandles, Told
  <2>2. Moved(m) /\ UnderWay(m) /\ MayArrive(m)
    BY <2>1 DEF Moved, UnderWay, MayArrive
  <2>3. applied[m] = 0 /\ req[m].at \notin {"idle", "listening", "aimed"}
    BY <2>1, <2>2 DEF Single, Known, Fresh
  <2>4. ~MayArrive(m)'
    BY <1>2, <2>1, <2>3 DEF NodeHandles, Single, MayArrive, HubTypeOK
  <2>5. \A k \in Msgs \ {m} : MayArrive(k)' = MayArrive(k) /\ applied'[k] = applied[k]
    BY <1>2, <2>1 DEF NodeHandles, MayArrive, HubTypeOK
  <2>6. applied'[m] = (IF ok THEN 1 ELSE 0)
    BY <1>2, <2>3 DEF NodeHandles, HubTypeOK
  <2>7. Pending' = Pending \ {m} /\ Applied' = IF ok THEN Applied \cup {m} ELSE Applied
    BY <2>3, <2>4, <2>5, <2>6 DEF Pending, Applied
  <2> QED
    BY <2>1, <2>2, <2>7 DEF Requests!Next, Requests!Handle, Pending, Applied, Told
<1>3. ASSUME NEW a \in nodeq, AckArrives(c, a) \/ AckLost(c, a) PROVE UNCHANGED Requests!vars
  <2>1. UNCHANGED <<sendq, wire, applied>>
    BY <1>3 DEF AckArrives, AckLost
  <2>2. \A m \in Msgs : req'[m].at = req[m].at /\ req'[m].answer = req[m].answer
    <3>1. a.of \in Msgs /\ \A m \in Msgs : req[m] \in Req
      BY DEF HubTypeOK, Acks
    <3>2. req' = req \/ \E h \in {"ok", "failed"} : req' = [req EXCEPT ![a.of].heard = h]
      BY <1>3 DEF AckArrives, AckLost, DeliverAck
    <3> QED
      BY <3>1, <3>2 DEF HubTypeOK, Req
  <2>3. \A m \in Msgs : MayArrive(m)' = MayArrive(m)
    BY <2>1, <2>2 DEF MayArrive
  <2> QED
    BY <2>1, <2>2, <2>3, RefinesStutter
<1> QED
  BY <1>1, <1>2, <1>3 DEF Message

(* A restart loses what has not left the server, and tells nobody.                         *)
LEMMA RefinesRestart ==
    ASSUME HubTypeOK, RequestInv, HubRestarts
    PROVE  Requests!Next
<1> DEFINE L == {m \in Msgs : MayArrive(m) /\ ~MayArrive(m)'}
           S == {m \in Msgs : req[m].answer = "none" /\ req[m].at # "idle"}
<1>1. ASSUME NEW m \in Msgs
      PROVE  /\ MayArrive(m)' => MayArrive(m)
             /\ req'[m].answer = IF m \in S THEN "lost" ELSE req[m].answer
  <2>1. req[m] \in Req /\ Known(m)
    BY DEF HubTypeOK, RequestInv
  <2>2. /\ req'[m].at \in {"idle", "listening", "aimed"} => req[m].at = "idle"
        /\ req'[m].answer = IF m \in S THEN "lost" ELSE req[m].answer
    BY <2>1 DEF HubRestarts, HubTypeOK, Req, Known
  <2>3. UNCHANGED wire /\ \A c \in Conns : sendq'[c] = {}
    BY DEF HubRestarts
  <2> QED
    BY <2>2, <2>3 DEF MayArrive
<1>2. Pending' = Pending \ L /\ L \subseteq Pending
  BY <1>1 DEF Pending
<1>3. Applied' = Applied
  BY DEF HubRestarts, Applied
<1>4. Told' = [m \in Msgs |-> IF m \in S THEN "lost" ELSE Told[m]]
  BY <1>1 DEF Told
<1>5. S \subseteq {m \in Msgs : Told[m] = "none"}
  BY DEF Told
<1>6. L \in SUBSET Msgs /\ S \in SUBSET Msgs
  OBVIOUS
<1> HIDE DEF L, S
<1> QED
  BY <1>2, <1>3, <1>4, <1>5, <1>6 DEF Requests!Next, Requests!Crash, Requests!Unanswered,
     Pending, Applied, Told

(* For any requests, connections and buffers, with broken links, reboots and restarts, the *)
(* hub and the agent handle a request at most once, never one they refused, and an answer, *)
(* once given, stays true.                                                                 *)
THEOREM KeepsPromises == HubSpec => RequestsSpec
<1>1. ASSUME HubTypeOK, RequestInv, [HubNext]_hubVars
      PROVE  Requests!Next \/ UNCHANGED Requests!vars
  <2>1. ASSUME NEW c \in Conns, Connection(c) PROVE UNCHANGED Requests!vars
    BY <1>1, <2>1, ConnectionStep, RefinesStutter DEF MayArrive
  <2>2. CASE UNCHANGED hubVars
    BY <2>2, RefinesStutter DEF hubVars, MayArrive
  <2> QED
    BY <1>1, <2>1, <2>2, RefinesRequest, RefinesMessage, RefinesRestart DEF HubNext
<1>2. HubTypeOK /\ RequestInv /\ [HubNext]_hubVars => [Requests!Next]_(Requests!vars)
  BY <1>1
<1> QED
  BY <1>2, RefinesInit, InitInv, NextInv, TypeCorrect, PTL DEF HubSpec, RequestsSpec, Requests!Spec
=============================================================================
