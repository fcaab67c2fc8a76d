----------------------------- MODULE ClientdHub -----------------------------
(***************************************************************************)
(* The websocket between clustr-serverd and the agent of one node          *)
(* (internal/server/clientdhub.go, handlers/clientd.go, internal/clientd): *)
(* connections that replace each other in ClientdHub.conns, and requests   *)
(* that wait for the node's answer.                                        *)
(*                                                                         *)
(* config_push stands for every kind of request: they differ in payload    *)
(* and registry only.  Handlers queue them in any order, and the node runs *)
(* several kinds in goroutines of their own, so buffers are sets.          *)
(***************************************************************************)
EXTENDS Integers, FiniteSets

CONSTANTS
    Msgs,      \* requests, each with a msg_id of its own
    MaxConns,  \* bound: connections the node may make
    BufLen     \* the capacity of both send channels, 64

ASSUME HubAssumption == MaxConns \in Nat /\ BufLen \in Nat /\ IsFiniteSet(Msgs)

Conns  == 1..MaxConns
NoConn == 0

VARIABLES
    registered, \* ClientdHub.conns[node]
    srv,        \* [Conns -> SrvStages], HandleClientdWS
    link,       \* [Conns -> {"up", "broken", "closed"}], the TCP connection
    sendq,      \* [Conns -> SUBSET Msgs], the send channel of a connection
    wire,       \* [Conns -> SUBSET Msgs], written but not read
    up,         \* the connection the agent uses
    nodeq,      \* SUBSET Acks, Client.send: it outlives connections
    req,        \* [Msgs -> Req], the HTTP handlers that wait
    applied     \* [Msgs -> Nat], how often the node applied a request

hubVars == <<registered, srv, link, sendq, wire, up, nodeq, req, applied>>

SrvStages == {"none", "upgraded", "open", "leaving", "gone"}
Acks == [of : Msgs, ok : BOOLEAN]
Answers == {"none", "offline", "refused", "ok", "failed", "timeout", "lost"}
\* listening: the registry has an entry for the message; heard: what its channel holds.
Req == [at : {"idle", "listening", "aimed", "waiting", "answered", "done"}, target : Conns \cup {NoConn},
        listening : BOOLEAN, heard : {"none", "ok", "failed"}, answer : Answers]

Answer(m, a) == req' = [req EXCEPT ![m].at = "answered", ![m].answer = a]

HubInit ==
    /\ registered = NoConn
    /\ srv = [c \in Conns |-> "none"]
    /\ link = [c \in Conns |-> "up"]
    /\ sendq = [c \in Conns |-> {}]
    /\ wire = [c \in Conns |-> {}]
    /\ up = NoConn
    /\ nodeq = {}
    /\ req = [m \in Msgs |-> [at |-> "idle", target |-> NoConn, listening |-> FALSE,
                              heard |-> "none", answer |-> "none"]]
    /\ applied = [m \in Msgs |-> 0]
-----------------------------------------------------------------------------
(* Connections.                                                            *)

\* The agent's connect, up to the upgrade on the server.
Dials(c) ==
    /\ up = NoConn
    /\ srv[c] = "none"
    /\ \A d \in Conns : d < c => srv[d] # "none"
    /\ up' = c
    /\ srv' = [srv EXCEPT ![c] = "upgraded"]
    /\ UNCHANGED <<registered, link, sendq, wire, nodeq, req, applied>>

\* A connection the hub has for the node is canceled and closed: its handler will notice.
RegisterConn(c) ==
    /\ srv[c] = "upgraded"
    /\ registered' = c
    /\ link' = IF registered = NoConn THEN link ELSE [link EXCEPT ![registered] = "closed"]
    /\ srv' = [srv EXCEPT ![c] = "open"]
    /\ UNCHANGED <<sendq, wire, up, nodeq, req, applied>>

LinkBreaks(c) ==
    /\ srv[c] # "none"
    /\ link[c] = "up"
    /\ link' = [link EXCEPT ![c] = "broken"]
    /\ UNCHANGED <<registered, srv, sendq, wire, up, nodeq, req, applied>>

\* Mutant: without a read deadline only a connection somebody closed is noticed.
ReadFails_NoDeadline(c) ==
    /\ srv[c] = "open"
    /\ link[c] = "closed"
    /\ srv' = [srv EXCEPT ![c] = "leaving"]
    /\ UNCHANGED <<registered, link, sendq, wire, up, nodeq, req, applied>>
\* The server's read fails, by its pong deadline at the latest, and its send loop ends.
ReadFails(c) ==
    /\ srv[c] = "open"
    /\ link[c] # "up"
    /\ srv' = [srv EXCEPT ![c] = "leaving"]
    /\ UNCHANGED <<registered, link, sendq, wire, up, nodeq, req, applied>>

\* Mutant: a handler that ends after its connection was replaced leaves without its cleanup.
Unregister_UnlessClosed(c) ==
    /\ srv[c] = "leaving"
    /\ registered' = IF link[c] = "closed" THEN registered ELSE NoConn
    /\ link' = [link EXCEPT ![c] = "closed"]
    /\ srv' = [srv EXCEPT ![c] = "gone"]
    /\ UNCHANGED <<sendq, wire, up, nodeq, req, applied>>
\* The deferred Unregister deletes what the hub has for the node, whichever connection that is.
Unregister(c) ==
    /\ srv[c] = "leaving"
    /\ registered' = NoConn
    /\ link' = [link EXCEPT ![c] = "closed"]
    /\ srv' = [srv EXCEPT ![c] = "gone"]
    /\ UNCHANGED <<sendq, wire, up, nodeq, req, applied>>

\* The agent's read or write fails, and it drops the connection.
NodeNotices(c) ==
    /\ up = c
    /\ link[c] # "up"
    /\ up' = NoConn
    /\ link' = [link EXCEPT ![c] = "closed"]
    /\ UNCHANGED <<registered, srv, sendq, wire, nodeq, req, applied>>

\* The node loses power: what it has applied stays, what it had to say is lost.
AgentReboots(c) ==
    /\ up = c
    /\ up' = NoConn
    /\ nodeq' = {}
    /\ link' = IF link[c] = "up" THEN [link EXCEPT ![c] = "broken"] ELSE link
    /\ UNCHANGED <<registered, srv, sendq, wire, req, applied>>

\* clustr-serverd restarts: every connection and every waiting handler is gone.
HubRestarts ==
    /\ registered' = NoConn
    /\ srv' = [c \in Conns |-> IF srv[c] = "none" THEN "none" ELSE "gone"]
    /\ link' = [c \in Conns |-> IF srv[c] = "none" THEN link[c] ELSE "closed"]
    /\ sendq' = [c \in Conns |-> {}]
    /\ req' = [m \in Msgs |-> IF req[m].at \in {"idle", "done"} THEN req[m]
                              ELSE [req[m] EXCEPT !.at = "done", !.listening = FALSE,
                                    !.answer = IF @ = "none" THEN "lost" ELSE @]]
    /\ UNCHANGED <<wire, up, nodeq, applied>>
-----------------------------------------------------------------------------
(* ConfigPush: look for the node, listen, send, wait.                      *)

\* Mutant: the answer is listened for only after the message has been sent.
Asks_Deaf(m) ==
    /\ req[m].at = "idle"
    /\ req' = [req EXCEPT ![m] = IF registered = NoConn
                                 THEN [@ EXCEPT !.at = "done", !.answer = "offline"]
                                 ELSE [@ EXCEPT !.at = "listening"]]
    /\ UNCHANGED <<registered, srv, link, sendq, wire, up, nodeq, applied>>
\* IsConnected, then RegisterAck.
Asks(m) ==
    /\ req[m].at = "idle"
    /\ req' = [req EXCEPT ![m] = IF registered = NoConn
                                 THEN [@ EXCEPT !.at = "done", !.answer = "offline"]
                                 ELSE [@ EXCEPT !.at = "listening", !.listening = TRUE]]
    /\ UNCHANGED <<registered, srv, link, sendq, wire, up, nodeq, applied>>

\* Send looks the connection up under the lock ...
Aims(m) ==
    /\ req[m].at = "listening"
    /\ IF registered = NoConn
       THEN Answer(m, "refused")
       ELSE req' = [req EXCEPT ![m].at = "aimed", ![m].target = registered]
    /\ UNCHANGED <<registered, srv, link, sendq, wire, up, nodeq, applied>>

\* ... and puts the message on its channel without it: the connection may be gone by then.
Pushes(m) ==
    LET c == req[m].target
    IN  /\ req[m].at = "aimed"
        /\ \/ /\ Cardinality(sendq[c]) < BufLen
              /\ sendq' = [sendq EXCEPT ![c] = @ \cup {m}]
              /\ req' = [req EXCEPT ![m].at = "waiting"]
           \/ /\ Cardinality(sendq[c]) >= BufLen
              /\ Answer(m, "refused")
              /\ UNCHANGED sendq
        /\ UNCHANGED <<registered, srv, link, wire, up, nodeq, applied>>

Hears(m) ==
    /\ req[m].at = "waiting"
    /\ req[m].heard # "none"
    /\ Answer(m, req[m].heard)
    /\ UNCHANGED <<registered, srv, link, sendq, wire, up, nodeq, applied>>

\* 30 s, or the operator hangs up.
TimesOut(m) ==
    /\ req[m].at = "waiting"
    /\ Answer(m, "timeout")
    /\ UNCHANGED <<registered, srv, link, sendq, wire, up, nodeq, applied>>

UnregisterAck(m) ==
    /\ req[m].at = "answered"
    /\ req' = [req EXCEPT ![m].at = "done", ![m].listening = FALSE]
    /\ UNCHANGED <<registered, srv, link, sendq, wire, up, nodeq, applied>>
-----------------------------------------------------------------------------
(* Messages.                                                               *)

\* The send loop of a connection writes; what a dead link swallows is not sent again.
ServerWrites(c, m) ==
    /\ srv[c] = "open"
    /\ m \in sendq[c]
    /\ sendq' = [sendq EXCEPT ![c] = @ \ {m}]
    /\ wire' = IF link[c] = "up" THEN [wire EXCEPT ![c] = @ \cup {m}] ELSE wire
    /\ UNCHANGED <<registered, srv, link, up, nodeq, req, applied>>

\* The node handles a request, successfully or not, and queues its answer if there is room.
NodeHandles(c, m, ok) ==
    /\ up = c
    /\ m \in wire[c]
    /\ wire' = [wire EXCEPT ![c] = @ \ {m}]
    /\ applied' = [applied EXCEPT ![m] = IF ok THEN @ + 1 ELSE @]
    /\ nodeq' = IF Cardinality(nodeq) < BufLen THEN nodeq \cup {[of |-> m, ok |-> ok]} ELSE nodeq
    /\ UNCHANGED <<registered, srv, link, sendq, up, req>>

\* Mutant: whoever waits for the node takes the answer.
DeliverAck_ByNode(a) ==
    req' = [m \in Msgs |-> IF req[m].listening /\ req[m].heard = "none"
                           THEN [req[m] EXCEPT !.heard = IF a.ok THEN "ok" ELSE "failed"]
                           ELSE req[m]]
\* An answer nobody listens for any more, or a second one, is dropped.
DeliverAck(a) ==
    req' = IF req[a.of].listening /\ req[a.of].heard = "none"
           THEN [req EXCEPT ![a.of].heard = IF a.ok THEN "ok" ELSE "failed"]
           ELSE req

\* The agent's write loop sends an answer, and the server's read loop takes it.
AckArrives(c, a) ==
    /\ up = c
    /\ a \in nodeq
    /\ link[c] = "up"
    /\ srv[c] = "open"
    /\ nodeq' = nodeq \ {a}
    /\ DeliverAck(a)
    /\ UNCHANGED <<registered, srv, link, sendq, wire, up, applied>>

\* The answer is written to a connection that is dead already: it is lost.
AckLost(c, a) ==
    /\ up = c
    /\ a \in nodeq
    /\ link[c] # "up"
    /\ nodeq' = nodeq \ {a}
    /\ UNCHANGED <<registered, srv, link, sendq, wire, up, req, applied>>
-----------------------------------------------------------------------------
Connection(c) == \/ Dials(c) \/ RegisterConn(c) \/ LinkBreaks(c) \/ ReadFails(c) \/ Unregister(c)
                 \/ NodeNotices(c) \/ AgentReboots(c)
Request(m) == Asks(m) \/ Aims(m) \/ Pushes(m) \/ Hears(m) \/ TimesOut(m) \/ UnregisterAck(m)
Message(c) == \/ \E m \in Msgs : ServerWrites(c, m) \/ \E ok \in BOOLEAN : NodeHandles(c, m, ok)
              \/ \E a \in nodeq : AckArrives(c, a) \/ AckLost(c, a)

HubNext == \/ \E c \in Conns : Connection(c) \/ Message(c)
           \/ \E m \in Msgs : Request(m)
           \/ HubRestarts

HubSpec == HubInit /\ [][HubNext]_hubVars

\* Handlers and read loops go on, and a dead link is noticed by its deadline.
HubFair ==
    /\ \A c \in Conns : WF_hubVars(RegisterConn(c)) /\ WF_hubVars(ReadFails(c)) /\ WF_hubVars(Unregister(c))
    /\ \A m \in Msgs : WF_hubVars(Aims(m)) /\ WF_hubVars(Pushes(m)) /\ WF_hubVars(Hears(m) \/ TimesOut(m))
-----------------------------------------------------------------------------
HubTypeOK ==
    /\ registered \in Conns \cup {NoConn}
    /\ srv \in [Conns -> SrvStages]
    /\ link \in [Conns -> {"up", "broken", "closed"}]
    /\ sendq \in [Conns -> SUBSET Msgs]
    /\ wire \in [Conns -> SUBSET Msgs]
    /\ up \in Conns \cup {NoConn}
    /\ nodeq \in SUBSET Acks
    /\ req \in [Msgs -> Req]
    /\ applied \in [Msgs -> Nat]

UnderWay(m) ==
    \/ \E c \in Conns : m \in sendq[c] \cup wire[c]
    \/ \E a \in nodeq : a.of = m

\* The answer an operator gets is true of his own request: 200 when the node applied it, an
\* error from the node when it did not, and after a 502 the node never gets to see it, however
\* connections and late answers of other requests come and go (ConfigPush, DeliverAck, Send).
AnswerIsTrue ==
    \A m \in Msgs :
        /\ req[m].answer = "ok" => applied[m] = 1
        /\ req[m].answer = "failed" => applied[m] = 0
        /\ req[m].answer \in {"offline", "refused"} => applied[m] = 0 /\ ~UnderWay(m)

\* While a request is on its way, its handler listens or has given its answer: no answer comes
\* too early to be heard (ConfigPush registers before it sends "to avoid a race where the node
\* replies faster than we register").
ListensBeforeAnswer ==
    \A m \in Msgs : UnderWay(m) => req[m].listening \/ req[m].answer # "none"

\* The hub never keeps a connection whose handler is gone, which would swallow every request
\* for the node (Unregister against the connection that replaces it).
NoStaleConnection == registered # NoConn => srv[registered] \in {"open", "leaving"}

\* A connection that is replaced, broken or closed stays open on the server for a while only,
\* and what the hub offers is usable again or gone (ReadFails' deadline, RegisterConn's Close).
DeadLinksGo == \A c \in Conns : srv[c] = "open" /\ link[c] # "up" ~> srv[c] = "gone" /\ registered # c

\* What operators may rely on (NodeRequests): however connections replace each other, links
\* break, the node reboots and serverd restarts, a request that is queued, in the network or
\* not yet sent is handled once at most, and a refused one never.
MayArrive(m) == req[m].at \in {"idle", "listening", "aimed"}
                \/ \E c \in Conns : m \in sendq[c] \cup wire[c]
Requests == INSTANCE NodeRequests WITH
    pending <- {m \in Msgs : MayArrive(m)},
    applied <- {m \in Msgs : applied[m] > 0},
    answer  <- [m \in Msgs |-> req[m].answer]
RequestsSpec == Requests!Spec
-----------------------------------------------------------------------------
\* What a comment of the repository says and the code does not do.

\* clientdhub.go 81: the hub "tracks all active clustr-clientd WebSocket connections, keyed by
\* node ID", so a connection that nobody replaced, closed or broke is the one it has.
TracksActive == \A c \in Conns : srv[c] = "open" /\ link[c] = "up" => registered = c
=============================================================================
