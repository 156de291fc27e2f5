---------------------------- MODULE AgentControl ----------------------------
(***************************************************************************)
(* The agent's control connection (client/agent): Run dials one control    *)
(* session after the other with a backoff between them; runSession starts  *)
(* a heartbeat goroutine and a read loop, waits for the first of them to   *)
(* end and takes the session down; queuedControlConn gives each session a  *)
(* write queue with its writer goroutine, in which at most one heartbeat   *)
(* is queued at a time.                                                    *)
(*                                                                         *)
(* Sessions are numbered in the order runSession is called.  An action is  *)
(* what one goroutine does between two acquisitions of queuedControlConn.mu,*)
(* controlMu or heartbeatMu, or between two channel or socket operations.  *)
(* The server and the network are external: they acknowledge heartbeats in *)
(* order, send tunnel snapshots, break or fall silent.                     *)
(***************************************************************************)
EXTENDS Integers, Sequences, FiniteSets

CONSTANTS
    UseQUIC,         \* Config.Transport = "quic"
    ReconnectMin, ReconnectMax,
    AckCapacity,     \* capacity of heartbeatAcks, 4 in the code
    UrgentLimit,     \* urgentBudget limit, 32 in the code
    MaxQueue,        \* maxAgentControlQueueMessages
    MaxSessions,     \* bound: calls of runSession
    MaxBeats,        \* bound: heartbeats sent over all sessions
    MaxOthers,       \* bound: messages other workers write
    MaxPushes,       \* bound: snapshots the server sends by itself
    MaxTraffic       \* bound: all of these together

ASSUME AgentAssumption ==
    /\ UseQUIC \in BOOLEAN
    /\ ReconnectMin \in Nat \ {0} /\ ReconnectMax \in Nat
    /\ ReconnectMin <= ReconnectMax
    /\ AckCapacity \in Nat \ {0} /\ UrgentLimit \in Nat \ {0} /\ MaxQueue \in Nat \ {0}
    /\ MaxSessions \in Nat /\ MaxBeats \in Nat /\ MaxOthers \in Nat /\ MaxPushes \in Nat
    /\ MaxTraffic \in Nat

VARIABLES
    \* the goroutine of Run and runSession, its locals, the context of Run
    run, session, backoff, stopped,
    \* Agent.sessionEstablished, sessionReady, webSocketFallback
    established, ready, fallback,
    \* Agent.heartbeatAcks: the session that owns the channel (0: nil), its
    \* content, heartbeatAckEnabled
    acksOf, acks, ackEnabled,
    \* each session's context, transport, write queue and goroutines
    cancelled, transport, link, q, writer, item, hb, hbId, reader, readId,
    \* heartbeatSequence
    beats,
    \* the network: what the server has yet to read, what the agent has
    wire, inbox,
    \* bounds, and history: SessionStarted calls since the last SessionEnded,
    \* heartbeats sent before the first acknowledgement, acknowledgements that
    \* found the channel full
    others, pushes, started, unguarded, dropped

runVars == <<run, session, backoff>>
flagVars == <<established, ready, fallback>>
ackVars == <<acksOf, acks, ackEnabled>>
queueVars == <<q, writer, item>>
hbVars == <<hb, hbId, beats>>
readVars == <<reader, readId>>
netVars == <<wire, inbox>>
connVars == <<cancelled, transport>>
history == <<others, pushes, started, unguarded, dropped>>
vars == <<run, session, backoff, stopped, established, ready, fallback, acksOf,
          acks, ackEnabled, cancelled, transport, link, q, writer, item, hb,
          hbId, reader, readId, beats, wire, inbox, others, pushes, started,
          unguarded, dropped>>

Sessions == 1 .. MaxSessions
NoMessage == [type |-> "none", id |-> 0]

EmptyQueue == [critical |-> <<>>, urgent |-> <<>>, normal |-> <<>>,
               queuedCount |-> 0, urgentBudget |-> 0,
               heartbeatQueued |-> FALSE, closed |-> FALSE]

Init ==
    /\ run = "loop" /\ session = 0 /\ backoff = ReconnectMin /\ stopped = FALSE
    /\ established = FALSE /\ ready = FALSE /\ fallback = FALSE
    /\ acksOf = 0 /\ acks = <<>> /\ ackEnabled = FALSE
    /\ cancelled = [s \in Sessions |-> FALSE]
    /\ transport = [s \in Sessions |-> "none"]
    /\ link = [s \in Sessions |-> "none"]
    /\ q = [s \in Sessions |-> EmptyQueue]
    /\ writer = [s \in Sessions |-> "none"]
    /\ item = [s \in Sessions |-> NoMessage]
    /\ hb = [s \in Sessions |-> "none"] /\ hbId = [s \in Sessions |-> 0]
    /\ reader = [s \in Sessions |-> "none"] /\ readId = [s \in Sessions |-> 0]
    /\ beats = 0
    /\ wire = [s \in Sessions |-> <<>>] /\ inbox = [s \in Sessions |-> <<>>]
    /\ others = 0 /\ pushes = 0 /\ started = 0
    /\ unguarded = [s \in Sessions |-> 0] /\ dropped = {}

(* The bounds leave room for another heartbeat, message or snapshot.       *)
Room == beats + others + pushes < MaxTraffic

(* sessionCtx is a child of the context of Run.                            *)
Cancelled(s) == stopped \/ cancelled[s]

----------------------------------------------------------------------------
(* queuedControlConn.                                                      *)

isCriticalAgentMessage(m) == m.type = "heartbeat"
isUrgentControlMessage(m) == m.type \in {"hello", "connection_failed"}

Lane(m) == IF isCriticalAgentMessage(m) THEN "critical"
           ELSE IF isUrgentControlMessage(m) THEN "urgent" ELSE "normal"

(* `large': the message is more than the bytes that are left of            *)
(* maxAgentControlQueueBytes, which are not counted here.                  *)
queueFull(s, large) == q[s].queuedCount >= MaxQueue \/ large

Coalesced(s, m) == m.type = "heartbeat" /\ q[s].heartbeatQueued

Refused(s, m, large) == q[s].closed \/ (~isCriticalAgentMessage(m) /\ queueFull(s, large))

Wake(w) == IF w = "waiting" THEN "next" ELSE w

(* writeJSON after its early returns: a second heartbeat is dropped and    *)
(* reported as written.                                                    *)
writeJSON(s, m) ==
    IF Coalesced(s, m)
    THEN UNCHANGED <<q, writer>>
    ELSE /\ q' = [q EXCEPT ![s][Lane(m)] = Append(@, m),
                           ![s].queuedCount = @ + 1,
                           ![s].heartbeatQueued = @ \/ m.type = "heartbeat"]
         /\ writer' = [writer EXCEPT ![s] = Wake(@)]

Closed(s) == [EmptyQueue EXCEPT !.urgentBudget = q[s].urgentBudget, !.closed = TRUE]

closeQueue(s) ==
    /\ q' = [q EXCEPT ![s] = Closed(s)]
    /\ writer' = [writer EXCEPT ![s] = Wake(@)]

nextWaits(s) ==
    /\ writer[s] = "next" /\ ~q[s].closed /\ q[s].queuedCount = 0
    /\ writer' = [writer EXCEPT ![s] = "waiting"]
    /\ UNCHANGED <<runVars, stopped, flagVars, ackVars, connVars, link, q, item, hbVars,
                   readVars, netVars, history>>

nextStops(s) ==
    /\ writer[s] = "next" /\ q[s].closed
    /\ writer' = [writer EXCEPT ![s] = "exited"]
    /\ UNCHANGED <<runVars, stopped, flagVars, ackVars, connVars, link, q, item, hbVars,
                   readVars, netVars, history>>

NextLane(s) ==
    IF q[s].critical # <<>> THEN "critical"
    ELSE IF q[s].urgent # <<>> /\ (q[s].urgentBudget < UrgentLimit \/ q[s].normal = <<>>)
    THEN "urgent" ELSE "normal"

NextBudget(s) == CASE NextLane(s) = "critical" -> q[s].urgentBudget
                   [] NextLane(s) = "urgent"   -> q[s].urgentBudget + 1
                   [] NextLane(s) = "normal"   -> 0

(* Seeded fault: the flag stays set when the heartbeat leaves the queue.   *)
completeDequeueKeepsFlag(s, m) ==
    [q[s] EXCEPT ![NextLane(s)] = Tail(@), !.queuedCount = @ - 1,
                 !.urgentBudget = NextBudget(s)]

completeDequeue(s, m) ==
    [q[s] EXCEPT ![NextLane(s)] = Tail(@), !.queuedCount = @ - 1,
                 !.urgentBudget = NextBudget(s),
                 !.heartbeatQueued = @ /\ m.type # "heartbeat"]

nextTakes(s) ==
    /\ writer[s] = "next" /\ ~q[s].closed /\ q[s].queuedCount > 0
    /\ item' = [item EXCEPT ![s] = Head(q[s][NextLane(s)])]
    /\ q' = [q EXCEPT ![s] = completeDequeue(s, item'[s])]
    /\ writer' = [writer EXCEPT ![s] = "writing"]
    /\ UNCHANGED <<runVars, stopped, flagVars, ackVars, connVars, link, hbVars, readVars,
                   netVars, history>>

(* base.writeJSON: a silent peer swallows bytes; any write may fail.       *)
baseWrites(s) ==
    /\ writer[s] = "writing"
    /\ \/ /\ link[s] = "up"
          /\ wire' = [wire EXCEPT ![s] = Append(@, item[s])]
          /\ writer' = [writer EXCEPT ![s] = "next"]
       \/ /\ link[s] = "silent"
          /\ writer' = [writer EXCEPT ![s] = "next"]
          /\ UNCHANGED wire
       \/ writer' = [writer EXCEPT ![s] = "failing"] /\ UNCHANGED wire
    /\ item' = [item EXCEPT ![s] = NoMessage]
    /\ UNCHANGED <<runVars, stopped, flagVars, ackVars, connVars, link, q, hbVars, readVars,
                   inbox, history>>

fail(s) ==
    /\ writer[s] = "failing"
    /\ IF q[s].closed THEN UNCHANGED q /\ writer' = [writer EXCEPT ![s] = "exited"]
       ELSE /\ q' = [q EXCEPT ![s] = Closed(s)]
            /\ writer' = [writer EXCEPT ![s] = "closing"]
    /\ UNCHANGED <<runVars, stopped, flagVars, ackVars, connVars, link, item, hbVars,
                   readVars, netVars, history>>

(* base.close(): what is still on its way is lost.                         *)
Disconnected(s) == /\ link' = [link EXCEPT ![s] = "down"]
                   /\ wire' = [wire EXCEPT ![s] = <<>>]

failCloses(s) ==
    /\ writer[s] = "closing"
    /\ Disconnected(s)
    /\ writer' = [writer EXCEPT ![s] = "exited"]
    /\ UNCHANGED <<runVars, stopped, flagVars, ackVars, connVars, q, item, hbVars, readVars,
                   inbox, history>>

(* Workers of any session report failures and send packets, of any size.   *)
workerWrites(s, type) ==
    /\ reader[s] # "none" /\ others < MaxOthers /\ Room
    /\ others' = others + 1
    /\ \E large \in BOOLEAN :
         LET m == [type |-> type, id |-> 0]
         IN  IF Refused(s, m, large) THEN UNCHANGED <<q, writer>> ELSE writeJSON(s, m)
    /\ UNCHANGED <<runVars, stopped, flagVars, ackVars, connVars, link, item, hbVars,
                   readVars, netVars, pushes, started, unguarded, dropped>>

----------------------------------------------------------------------------
(* Run and runSession.                                                     *)

nextBackoff(b) == IF b * 2 > ReconnectMax THEN ReconnectMax ELSE b * 2

beginSession ==
    /\ run = "loop" /\ ~stopped
    /\ session < MaxSessions /\ beats < MaxBeats /\ Room
    /\ session' = session + 1
    /\ established' = FALSE /\ ready' = FALSE
    /\ run' = "dial"
    /\ UNCHANGED <<backoff, stopped, fallback, ackVars, connVars, link, queueVars, hbVars,
                   readVars, netVars, history>>

(* webSocketFallbackEnabled: the fallback may have run out.                *)
dialControl ==
    /\ run = "dial"
    /\ fallback' \in IF fallback /\ UseQUIC THEN BOOLEAN ELSE {fallback}
    /\ run' = IF ~UseQUIC \/ fallback' THEN "websocket" ELSE "quic"
    /\ UNCHANGED <<session, backoff, stopped, established, ready, ackVars, connVars, link,
                   queueVars, hbVars, readVars, netVars, history>>

Connect(s, kind) ==
    /\ transport' = [transport EXCEPT ![s] = kind]
    /\ link' = [link EXCEPT ![s] = "up"]
    /\ writer' = [writer EXCEPT ![s] = "next"]
    /\ run' = "hello"
    /\ UNCHANGED <<session, backoff, stopped, established, ready, ackVars, cancelled, q,
                   item, hbVars, readVars, netVars, history>>

(* notifySessionEnded.                                                     *)
SessionEnded == started' = 0

(* runSession returns without a session.                                   *)
DialFails ==
    /\ SessionEnded
    /\ run' = "ended"
    /\ UNCHANGED <<session, backoff, stopped, established, ready, ackVars, connVars, link,
                   queueVars, hbVars, readVars, netVars, others, pushes, unguarded, dropped>>

dialQUICControl ==
    /\ run = "quic"
    /\ \/ fallback' = FALSE /\ Connect(session, "quic")
       \/ stopped /\ DialFails /\ UNCHANGED fallback
       \/ /\ ~stopped /\ fallback' = TRUE /\ run' = "websocket"
          /\ UNCHANGED <<session, backoff, stopped, established, ready, ackVars, connVars,
                         link, queueVars, hbVars, readVars, netVars, history>>

dialWebSocketControl ==
    /\ run = "websocket"
    /\ Connect(session, "websocket") \/ DialFails
    /\ UNCHANGED fallback

(* sendHello, markSessionEstablished, setHeartbeatAcks, and the two        *)
(* goroutines.  The queue is new, so the hello is accepted.                *)
sendHello ==
    /\ run = "hello"
    /\ writeJSON(session, [type |-> "hello", id |-> 0])
    /\ established' = TRUE
    /\ acksOf' = session /\ acks' = <<>> /\ ackEnabled' = FALSE
    /\ hb' = [hb EXCEPT ![session] = "send"]
    /\ reader' = [reader EXCEPT ![session] = "top"]
    /\ run' = "running"
    /\ UNCHANGED <<session, backoff, stopped, ready, fallback, connVars, link, item, hbId,
                   beats, readId, netVars, history>>

(* errCh delivers the first result; cancel().                              *)
workerEnded ==
    /\ run = "running"
    /\ hb[session] = "done" \/ reader[session] = "done"
    /\ cancelled' = [cancelled EXCEPT ![session] = TRUE]
    /\ run' = "cancelled"
    /\ UNCHANGED <<session, backoff, stopped, flagVars, ackVars, transport, link, queueVars,
                   hbVars, readVars, netVars, history>>

closeControl ==
    /\ run = "cancelled"
    /\ closeQueue(session)
    /\ run' = "closing"
    /\ UNCHANGED <<session, backoff, stopped, flagVars, ackVars, connVars, link, item,
                   hbVars, readVars, netVars, history>>

(* Seeded fault: the base connection stays open.                           *)
closeBaseNot ==
    /\ run = "closing"
    /\ run' = "joining"
    /\ UNCHANGED <<session, backoff, stopped, flagVars, ackVars, connVars, link, queueVars,
                   hbVars, readVars, netVars, history>>

closeBase ==
    /\ run = "closing"
    /\ Disconnected(session)
    /\ run' = "joining"
    /\ UNCHANGED <<session, backoff, stopped, flagVars, ackVars, connVars, queueVars, hbVars,
                   readVars, inbox, history>>

clearHeartbeatAcks ==
    IF acksOf = session THEN acksOf' = 0 /\ acks' = <<>> /\ ackEnabled' = FALSE
                        ELSE UNCHANGED ackVars

(* Seeded fault: the goroutines are not waited for.                        *)
joinNobody ==
    /\ run = "joining"
    /\ SessionEnded /\ clearHeartbeatAcks
    /\ fallback' = (fallback \/ (transport[session] = "quic" /\ ~stopped))
    /\ run' = "ended"
    /\ UNCHANGED <<session, backoff, stopped, established, ready, connVars, link, queueVars,
                   hbVars, readVars, netVars, others, pushes, unguarded, dropped>>

(* workers.Wait, flushTransfers, notifySessionEnded, and the deferred calls *)
(* clearHeartbeatAcks and markWebSocketFallback.  Nobody reads what is left *)
(* of the session.                                                         *)
joinWorkers ==
    /\ run = "joining"
    /\ hb[session] = "done" /\ reader[session] = "done"
    /\ SessionEnded /\ clearHeartbeatAcks
    /\ fallback' = (fallback \/ (transport[session] = "quic" /\ ~stopped))
    /\ run' = "ended"
    /\ inbox' = [inbox EXCEPT ![session] = <<>>] /\ hbId' = [hbId EXCEPT ![session] = 0]
    /\ unguarded' = [unguarded EXCEPT ![session] = 0] /\ dropped' = {}
    /\ UNCHANGED <<session, backoff, stopped, established, ready, connVars, link, queueVars,
                   hb, beats, readVars, wire, others, pushes>>

(* Run after runSession: consumeSessionEstablished and the choice of the   *)
(* sleep.                                                                  *)
sessionReturned ==
    /\ run = "ended"
    /\ established' = FALSE
    /\ backoff' = IF established THEN ReconnectMin ELSE backoff
    /\ run' = IF stopped THEN "returned" ELSE IF established THEN "resume" ELSE "retry"
    /\ UNCHANGED <<session, stopped, ready, fallback, ackVars, connVars, link, queueVars,
                   hbVars, readVars, netVars, history>>

(* sleep ends, by its timer or with the context.                           *)
sleepEnds ==
    /\ run \in {"resume", "retry"}
    /\ backoff' = IF run = "retry" THEN nextBackoff(backoff) ELSE backoff
    /\ run' = "loop"
    /\ UNCHANGED <<session, stopped, flagVars, ackVars, connVars, link, queueVars, hbVars,
                   readVars, netVars, history>>

runReturns ==
    /\ run = "loop" /\ stopped
    /\ run' = "returned"
    /\ UNCHANGED <<session, backoff, stopped, flagVars, ackVars, connVars, link, queueVars,
                   hbVars, readVars, netVars, history>>

stop ==
    /\ ~stopped /\ stopped' = TRUE
    /\ UNCHANGED <<runVars, flagVars, ackVars, connVars, link, queueVars, hbVars, readVars,
                   netVars, history>>

----------------------------------------------------------------------------
(* heartbeat(s).                                                           *)

(* sendHeartbeatRequest: a new identifier, then writeJSON.                 *)
sendHeartbeat(s) ==
    /\ hb[s] = "send"
    /\ beats' = beats + 1
    /\ hbId' = [hbId EXCEPT ![s] = beats + 1]
    /\ IF q[s].closed
       THEN hb' = [hb EXCEPT ![s] = "done"] /\ UNCHANGED <<q, writer>>
       ELSE /\ writeJSON(s, [type |-> "heartbeat", id |-> beats + 1])
            /\ hb' = [hb EXCEPT ![s] = "ping"]
    /\ unguarded' = [unguarded EXCEPT ![s] = IF ackEnabled THEN @ ELSE @ + 1]
    /\ UNCHANGED <<runVars, stopped, flagVars, ackVars, connVars, link, item, readVars,
                   netVars, others, pushes, started, dropped>>

(* A WebSocket ping takes the mutex of the transport; QUIC has no ping.    *)
ping(s) ==
    /\ hb[s] = "ping"
    /\ transport[s] = "websocket" => writer[s] # "writing"
    /\ \/ /\ transport[s] = "quic" \/ link[s] # "down"
          /\ hb' = [hb EXCEPT ![s] = "check"]
       \/ transport[s] = "websocket" /\ hb' = [hb EXCEPT ![s] = "done"]
    /\ UNCHANGED <<runVars, stopped, flagVars, ackVars, connVars, link, queueVars, hbId,
                   beats, readVars, netVars, history>>

heartbeatAckRequired == ackEnabled /\ acksOf # 0

checkAckRequired(s) ==
    /\ hb[s] = "check"
    /\ hb' = [hb EXCEPT ![s] = IF heartbeatAckRequired THEN "wait" ELSE "idle"]
    /\ UNCHANGED <<runVars, stopped, flagVars, ackVars, connVars, link, queueVars, hbId,
                   beats, readVars, netVars, history>>

(* waitHeartbeatAck: an acknowledgement of another request is discarded.   *)
receiveAck(s) ==
    /\ hb[s] = "wait" /\ acksOf = s /\ acks # <<>>
    /\ acks' = Tail(acks)
    /\ hb' = [hb EXCEPT ![s] = IF Head(acks) = hbId[s] THEN "idle" ELSE "wait"]
    /\ UNCHANGED <<runVars, stopped, flagVars, acksOf, ackEnabled, connVars, link,
                   queueVars, hbId, beats, readVars, netVars, history>>

(* Seeded fault: nothing ends the wait but the acknowledgement.            *)
ackNeverLate(s) ==
    /\ hb[s] = "wait" /\ Cancelled(s)
    /\ hb' = [hb EXCEPT ![s] = "done"]
    /\ UNCHANGED <<runVars, stopped, flagVars, ackVars, connVars, link, queueVars, hbId,
                   beats, readVars, netVars, history>>

(* The timer, or the context.                                              *)
ackTimeout(s) ==
    /\ hb[s] = "wait"
    /\ hb' = [hb EXCEPT ![s] = "done"]
    /\ UNCHANGED <<runVars, stopped, flagVars, ackVars, connVars, link, queueVars, hbId,
                   beats, readVars, netVars, history>>

tick(s) ==
    /\ hb[s] = "idle" /\ beats < MaxBeats /\ Room
    /\ hb' = [hb EXCEPT ![s] = "send"]
    /\ UNCHANGED <<runVars, stopped, flagVars, ackVars, connVars, link, queueVars, hbId,
                   beats, readVars, netVars, history>>

heartbeatStops(s) ==
    /\ hb[s] = "idle" /\ Cancelled(s)
    /\ hb' = [hb EXCEPT ![s] = "done"]
    /\ UNCHANGED <<runVars, stopped, flagVars, ackVars, connVars, link, queueVars, hbId,
                   beats, readVars, netVars, history>>

----------------------------------------------------------------------------
(* readLoop(s) and handleControlMessage.                                   *)

readLoop(s) ==
    /\ reader[s] = "top"
    /\ reader' = [reader EXCEPT ![s] = IF Cancelled(s) THEN "done" ELSE "read"]
    /\ UNCHANGED <<runVars, stopped, flagVars, ackVars, connVars, link, queueVars, hbVars,
                   readId, netVars, history>>

readError(s) ==
    /\ reader[s] = "read" /\ link[s] = "down"
    /\ reader' = [reader EXCEPT ![s] = "done"]
    /\ UNCHANGED <<runVars, stopped, flagVars, ackVars, connVars, link, queueVars, hbVars,
                   readId, netVars, history>>

(* The message read: enableHeartbeatAck for an acknowledgement,            *)
(* handleTunnelSnapshot for a snapshot; others start workers or are        *)
(* ignored.                                                                *)
readMessage(s) ==
    /\ reader[s] = "read" /\ inbox[s] # <<>>
    /\ inbox' = [inbox EXCEPT ![s] = Tail(@)]
    /\ LET m == Head(inbox[s])
       IN  IF m.type = "heartbeat_ack"
           THEN /\ ackEnabled' = (acksOf # 0 \/ ackEnabled)
                /\ readId' = [readId EXCEPT ![s] = m.id]
                /\ reader' = [reader EXCEPT ![s] = "signal"]
                /\ UNCHANGED <<ready, started>>
           ELSE /\ reader' = [reader EXCEPT ![s] = IF ready THEN "top" ELSE "starting"]
                /\ ready' = TRUE
                /\ UNCHANGED <<ackEnabled, readId, started>>
    /\ UNCHANGED <<runVars, stopped, established, fallback, acksOf, acks, connVars, link,
                   queueVars, hbVars, wire, others, pushes, unguarded, dropped>>

(* notifySessionReady after the unlock: SessionStarted.                    *)
notifySessionStarted(s) ==
    /\ reader[s] = "starting"
    /\ started' = started + 1
    /\ reader' = [reader EXCEPT ![s] = "top"]
    /\ UNCHANGED <<runVars, stopped, flagVars, ackVars, connVars, link, queueVars, hbVars,
                   readId, netVars, others, pushes, unguarded, dropped>>

(* A full channel loses the acknowledgement.                               *)
signalHeartbeatAck(s) ==
    /\ reader[s] = "signal"
    /\ IF acksOf # 0 /\ Len(acks) < AckCapacity
       THEN acks' = Append(acks, readId[s]) /\ UNCHANGED dropped
       ELSE UNCHANGED acks /\ dropped' = dropped \cup {readId[s]}
    /\ reader' = [reader EXCEPT ![s] = "top"] /\ readId' = [readId EXCEPT ![s] = 0]
    /\ UNCHANGED <<runVars, stopped, flagVars, acksOf, ackEnabled, connVars, link, queueVars,
                   hbVars, netVars, others, pushes, started, unguarded>>

----------------------------------------------------------------------------
(* The server and the network (external).                                  *)

Reply(m) == IF m.type = "heartbeat" THEN <<[type |-> "heartbeat_ack", id |-> m.id]>>
            ELSE IF m.type = "hello" THEN <<[type |-> "tunnel_snapshot", id |-> 0]>>
            ELSE <<>>

serverReads(s) ==
    /\ link[s] = "up" /\ wire[s] # <<>>
    /\ wire' = [wire EXCEPT ![s] = Tail(@)]
    /\ inbox' = [inbox EXCEPT ![s] = @ \o Reply(Head(wire[s]))]
    /\ UNCHANGED <<runVars, stopped, flagVars, ackVars, connVars, link, queueVars, hbVars,
                   readVars, history>>

serverPushes(s) ==
    /\ link[s] = "up" /\ pushes < MaxPushes /\ Room
    /\ pushes' = pushes + 1
    /\ inbox' = [inbox EXCEPT ![s] = Append(@, [type |-> "tunnel_snapshot", id |-> 0])]
    /\ UNCHANGED <<runVars, stopped, flagVars, ackVars, connVars, link, queueVars, hbVars,
                   readVars, wire, others, started, unguarded, dropped>>

linkBreaks(s) ==
    /\ link[s] \in {"up", "silent"}
    /\ link' \in {[link EXCEPT ![s] = "down"], [link EXCEPT ![s] = "silent"]}
    /\ wire' = [wire EXCEPT ![s] = <<>>]
    /\ UNCHANGED <<runVars, stopped, flagVars, ackVars, connVars, queueVars, hbVars,
                   readVars, inbox, history>>

----------------------------------------------------------------------------
Run == \/ beginSession \/ dialControl \/ dialQUICControl \/ dialWebSocketControl
       \/ sendHello \/ workerEnded \/ closeControl \/ closeBase \/ joinWorkers
       \/ sessionReturned \/ sleepEnds \/ runReturns

Writer(s) == \/ nextWaits(s) \/ nextStops(s) \/ nextTakes(s) \/ baseWrites(s)
             \/ fail(s) \/ failCloses(s)

Heartbeat(s) == \/ sendHeartbeat(s) \/ ping(s) \/ checkAckRequired(s) \/ receiveAck(s)
                \/ ackTimeout(s) \/ tick(s) \/ heartbeatStops(s)

Reader(s) == \/ readLoop(s) \/ readError(s) \/ readMessage(s)
             \/ notifySessionStarted(s) \/ signalHeartbeatAck(s)

Next == \/ Run \/ stop
        \/ \E s \in Sessions :
              \/ Writer(s) \/ Heartbeat(s) \/ Reader(s)
              \/ \E type \in {"connection_failed", "udp_packet"} : workerWrites(s, type)
              \/ serverReads(s) \/ serverPushes(s) \/ linkBreaks(s)

Spec == Init /\ [][Next]_vars

(* Goroutines are scheduled; dials, pings and writes have deadlines; the   *)
(* sleep, the ticker and the acknowledgement timer fire.  The server is    *)
(* not obliged to answer, nor the network to fail or to recover.           *)
Fairness == /\ WF_vars(Run)
            /\ \A s \in Sessions : /\ WF_vars(Writer(s)) /\ WF_vars(Heartbeat(s))
                                   /\ WF_vars(Reader(s))

FairSpec == Spec /\ Fairness

----------------------------------------------------------------------------
Message == [type : {"none", "hello", "heartbeat", "connection_failed", "udp_packet",
                    "heartbeat_ack", "tunnel_snapshot"}, id : Nat]

(* Every variable keeps its type.                                          *)
TypeOK ==
    /\ run \in {"loop", "dial", "quic", "websocket", "hello", "running", "cancelled",
                "closing", "joining", "ended", "resume", "retry", "returned"}
    /\ session \in 0 .. MaxSessions /\ backoff \in Nat /\ stopped \in BOOLEAN
    /\ established \in BOOLEAN /\ ready \in BOOLEAN /\ fallback \in BOOLEAN
    /\ acksOf \in 0 .. MaxSessions /\ acks \in Seq(Nat) /\ ackEnabled \in BOOLEAN
    /\ cancelled \in [Sessions -> BOOLEAN]
    /\ transport \in [Sessions -> {"none", "quic", "websocket"}]
    /\ link \in [Sessions -> {"none", "up", "silent", "down"}]
    /\ q \in [Sessions -> [critical : Seq(Message), urgent : Seq(Message),
                           normal : Seq(Message), queuedCount : Nat,
                           urgentBudget : Nat, heartbeatQueued : BOOLEAN,
                           closed : BOOLEAN]]
    /\ writer \in [Sessions -> {"none", "next", "waiting", "writing", "failing",
                                "closing", "exited"}]
    /\ item \in [Sessions -> Message]
    /\ hb \in [Sessions -> {"none", "send", "ping", "check", "wait", "idle", "done"}]
    /\ reader \in [Sessions -> {"none", "top", "read", "starting", "signal", "done"}]
    /\ hbId \in [Sessions -> Nat] /\ readId \in [Sessions -> Nat] /\ beats \in Nat
    /\ wire \in [Sessions -> Seq(Message)] /\ inbox \in [Sessions -> Seq(Message)]
    /\ others \in Nat /\ pushes \in Nat /\ started \in Nat
    /\ unguarded \in [Sessions -> Nat] /\ dropped \subseteq Nat

(* The heartbeat flag tells the truth: it is set exactly when one          *)
(* heartbeat is queued, whatever mix of writes, dequeues, failures and     *)
(* closes ran.  Were it stuck, heartbeats would stop without an error and  *)
(* the server would drop a healthy session.                                *)
HeartbeatFlagTrue ==
    \A s \in Sessions :
        /\ Len(q[s].critical) = IF q[s].heartbeatQueued THEN 1 ELSE 0
        /\ q[s].queuedCount = Len(q[s].critical) + Len(q[s].urgent) + Len(q[s].normal)
        /\ q[s].closed => q[s].queuedCount = 0

(* Sessions do not overlap: the heartbeat and the read loop of a session   *)
(* are gone before Run dials the next one, so two of them never share the  *)
(* acknowledgement channel, and what they report to the observer (the      *)
(* desktop application) alternates: a session starts at most once before   *)
(* it ends, and none is started while Run sleeps, dials or has returned.   *)
SessionsDoNotOverlap ==
    /\ \A s \in Sessions :
          hb[s] \notin {"none", "done"} \/ reader[s] \notin {"none", "done"} =>
              s = session /\ run \in {"running", "cancelled", "closing", "joining"}
    /\ started <= 1
    /\ run \in {"loop", "dial", "quic", "websocket", "ended", "resume", "retry",
                "returned"} => started = 0

(* The acknowledgement a heartbeat waits for is lost to a full channel     *)
(* only if as many heartbeats as the channel holds went out before the     *)
(* server's first acknowledgement; in a session the server acknowledges    *)
(* from the start a healthy heartbeat never times out for it.              *)
AckLossNeedsBacklog ==
    \A s \in Sessions :
        hb[s] = "wait" /\ hbId[s] \in dropped => unguarded[s] >= AckCapacity

(* Consecutive failed dials wait longer and longer, up to ReconnectMax,    *)
(* and the agent is back at ReconnectMin after a session: the wait only    *)
(* shrinks by consuming an established session.                            *)
BackoffShrinksOnlyAfterSession ==
    [][/\ backoff' < backoff => established /\ ~established'
       /\ run' = "resume" => backoff' = ReconnectMin
       /\ backoff' \in ReconnectMin .. ReconnectMax]_vars

(* The agent stops: once its context is cancelled, Run returns, whatever   *)
(* its goroutines are blocked in.                                          *)
RunStops == stopped ~> run = "returned"

(* A session whose transport broke is taken down, so the agent redials.    *)
BrokenSessionEnds ==
    \A s \in Sessions : run = "running" /\ session = s /\ link[s] = "down" ~> run = "ended"

(* A server that fell silent without closing the transport is noticed by   *)
(* an unanswered heartbeat, once the server has acknowledged one.          *)
SilentServerNoticed ==
    \A s \in Sessions :
        hb[s] = "wait" /\ link[s] = "silent" /\ acks = <<>> /\ inbox[s] = <<>>
            /\ reader[s] # "signal" ~> run = "ended" \/ run = "returned"

(* A slow write does not break the heartbeat: the heartbeat whose          *)
(* acknowledgement is waited for was sent, or waits in the queue.          *)
AwaitedIsSent ==
    \A s \in Sessions :
        hb[s] = "wait" /\ link[s] = "up" /\ ~q[s].closed /\ dropped = {} =>
            \/ \E i \in 1 .. Len(q[s].critical) : q[s].critical[i].id = hbId[s]
            \/ item[s].id = hbId[s]
            \/ \E i \in 1 .. Len(wire[s]) : wire[s][i].id = hbId[s]
            \/ \E i \in 1 .. Len(inbox[s]) : inbox[s][i].id = hbId[s]
            \/ \E i \in 1 .. Len(acks) : acks[i] = hbId[s]
            \/ reader[s] = "signal" /\ readId[s] = hbId[s]
=============================================================================
