------------------------ MODULE AgentControlProofs ------------------------
(***************************************************************************)
(* Proofs about AgentControl, for any number of sessions, heartbeats,      *)
(* messages and snapshots, any queue and channel limits and any backoff.   *)
(***************************************************************************)
EXTENDS AgentControl, TLAPS

NoHeartbeat(lane) == \A i \in 1 .. Len(lane) : lane[i].type # "heartbeat"
OnlyHeartbeats(lane) == \A i \in 1 .. Len(lane) : lane[i].type = "heartbeat"

QueueType == [critical : Seq(Message), urgent : Seq(Message), normal : Seq(Message),
              queuedCount : Nat, urgentBudget : Nat, heartbeatQueued : BOOLEAN,
              closed : BOOLEAN]

(* The parts of TypeOK.                                                    *)
TypeRun ==
    /\ run \in {"loop", "dial", "quic", "websocket", "hello", "running", "cancelled",
                "closing", "joining", "ended", "resume", "retry", "returned"}
    /\ session \in 0 .. MaxSessions /\ backoff \in Nat /\ acksOf \in 0 .. MaxSessions

TypeFlags ==
    /\ stopped \in BOOLEAN /\ established \in BOOLEAN /\ ready \in BOOLEAN
    /\ fallback \in BOOLEAN /\ ackEnabled \in BOOLEAN

WriterType == {"none", "next", "waiting", "writing", "failing", "closing", "exited"}

TypePlaces ==
    /\ cancelled \in [Sessions -> BOOLEAN]
    /\ transport \in [Sessions -> {"none", "quic", "websocket"}]
    /\ link \in [Sessions -> {"none", "up", "silent", "down"}]
    /\ writer \in [Sessions -> WriterType]
    /\ hb \in [Sessions -> {"none", "send", "ping", "check", "wait", "idle", "done"}]
    /\ reader \in [Sessions -> {"none", "top", "read", "starting", "signal", "done"}]

TypeMessages ==
    /\ item \in [Sessions -> Message]
    /\ wire \in [Sessions -> Seq(Message)] /\ inbox \in [Sessions -> Seq(Message)]

TypeCounts ==
    /\ hbId \in [Sessions -> Nat] /\ readId \in [Sessions -> Nat]
    /\ beats \in Nat /\ others \in Nat /\ pushes \in Nat /\ started \in Nat
    /\ unguarded \in [Sessions -> Nat] /\ dropped \subseteq Nat

TypeAcks == acks \in Seq(Nat)

TypeQueues == q \in [Sessions -> QueueType]

(* Each lane holds messages of its own kind, at most one heartbeat among    *)
(* them, and the counter and the flag of the queue agree with the lanes.    *)
LanesOK(cr, ur, no, count) ==
    /\ Len(cr) <= 1 /\ count = Len(cr) + Len(ur) + Len(no)
    /\ OnlyHeartbeats(cr) /\ NoHeartbeat(ur) /\ NoHeartbeat(no)

QueueOK(c) ==
    /\ LanesOK(c.critical, c.urgent, c.normal, c.queuedCount)
    /\ c.heartbeatQueued <=> c.critical # <<>>
    /\ c.closed => c.queuedCount = 0

QueuesOK == \A s \in Sessions : QueueOK(q[s])

(* Nothing of a session exists before its transport is dialled, and its    *)
(* queue stays empty and open until the hello.                             *)
Undialled(s) == s > session \/ (s = session /\ run \in {"dial", "quic", "websocket"})

FreshInv ==
    /\ run \notin {"loop", "resume", "retry", "returned"} => session \in Sessions
    /\ \A s \in Sessions :
          Undialled(s) \/ (s = session /\ run = "hello") =>
              q[s] = EmptyQueue /\ hb[s] = "none" /\ reader[s] = "none"
    /\ \A s \in Sessions : Undialled(s) => writer[s] = "none"
    /\ run = "hello" => writer[session] \in {"next", "waiting"}

(* The workers of a session live only while runSession runs for it.        *)
WorkersInv ==
    \A s \in Sessions :
        hb[s] \notin {"none", "done"} \/ reader[s] \notin {"none", "done"} =>
            s = session /\ run \in {"running", "cancelled", "closing", "joining"}

(* The observer is told of a session once, by the reader that set          *)
(* sessionReady, and not after runSession told it of the end.              *)
ReadyInv ==
    /\ started <= 1
    /\ started = 1 => ready
    /\ \A s \in Sessions : reader[s] = "starting" => started = 0 /\ ready
    /\ run \notin {"running", "cancelled", "closing", "joining"} => started = 0

(* The wait between two sessions is between its limits, and the shortest    *)
(* one after an established session.                                       *)
BackoffInv == /\ backoff \in ReconnectMin .. ReconnectMax
              /\ run = "resume" => backoff = ReconnectMin

Types == /\ TypeRun /\ TypeFlags /\ TypePlaces /\ TypeMessages /\ TypeCounts
         /\ TypeAcks /\ TypeQueues

IInv == Types /\ QueuesOK /\ FreshInv /\ WorkersInv /\ ReadyInv /\ BackoffInv

LEMMA TypeParts == Types <=> TypeOK
  BY DEF Types, TypeOK, TypeRun, TypeFlags, TypePlaces, WriterType, TypeMessages,
         TypeCounts, TypeAcks, TypeQueues, QueueType

----------------------------------------------------------------------------
(* What the operations of queuedControlConn do to one queue.               *)

LEMMA EmptyLane == \A S : <<>> \in Seq(S) /\ Len(<<>>) = 0
  OBVIOUS

LEMMA LaneLength ==
    ASSUME NEW lane \in Seq(Message)
    PROVE  Len(lane) \in Nat /\ (Len(lane) = 0 <=> lane = <<>>)
  OBVIOUS

LEMMA FlagsTrue == TypeOK /\ QueuesOK => HeartbeatFlagTrue
<1> SUFFICES ASSUME TypeOK, QueuesOK, NEW s \in Sessions
             PROVE  /\ Len(q[s].critical) = IF q[s].heartbeatQueued THEN 1 ELSE 0
                    /\ q[s].queuedCount = Len(q[s].critical) + Len(q[s].urgent)
                                                              + Len(q[s].normal)
                    /\ q[s].closed => q[s].queuedCount = 0
  BY DEF HeartbeatFlagTrue
<1>1. q[s].critical \in Seq(Message)
  BY DEF TypeOK
<1> DEFINE x == Len(q[s].critical)
<1>2. x \in Nat /\ (x = 0 <=> q[s].critical = <<>>) /\ x <= 1
  BY <1>1, LaneLength DEF QueuesOK, QueueOK, LanesOK
<1> HIDE DEF x
<1>3. x = IF q[s].heartbeatQueued THEN 1 ELSE 0
  BY <1>2 DEF QueuesOK, QueueOK
<1> QED BY <1>3 DEF QueuesOK, QueueOK, LanesOK, x

LEMMA EmptyQueueOK == EmptyQueue \in QueueType /\ QueueOK(EmptyQueue)
  BY EmptyLane DEF EmptyQueue, QueueType, QueueOK, LanesOK, OnlyHeartbeats, NoHeartbeat

LEMMA ClosedOK ==
    ASSUME NEW s \in Sessions, q[s] \in QueueType
    PROVE  Closed(s) \in QueueType /\ QueueOK(Closed(s)) /\ Closed(s).closed
<1>1. q[s].urgentBudget \in Nat
  BY DEF QueueType
<1>2. /\ Closed(s) \in QueueType
      /\ Closed(s).critical = EmptyQueue.critical /\ Closed(s).urgent = EmptyQueue.urgent
      /\ Closed(s).normal = EmptyQueue.normal
      /\ Closed(s).queuedCount = EmptyQueue.queuedCount
      /\ Closed(s).heartbeatQueued = EmptyQueue.heartbeatQueued /\ Closed(s).closed
  BY <1>1, EmptyQueueOK DEF Closed, QueueType
<1>3. LanesOK(<<>>, <<>>, <<>>, 0)
  BY EmptyLane DEF LanesOK, OnlyHeartbeats, NoHeartbeat
<1>4. Closed(s).closed = TRUE /\ Closed(s).heartbeatQueued = FALSE
  BY <1>2 DEF QueueType, EmptyQueue
<1> QED BY <1>2, <1>3, <1>4 DEF EmptyQueue, QueueOK

LEMMA AppendFacts ==
    ASSUME NEW lane \in Seq(Message), NEW m \in Message
    PROVE  /\ Append(lane, m) \in Seq(Message)
           /\ Len(Append(lane, m)) = Len(lane) + 1 /\ Len(lane) \in Nat
           /\ OnlyHeartbeats(lane) /\ m.type = "heartbeat" => OnlyHeartbeats(Append(lane, m))
           /\ NoHeartbeat(lane) /\ m.type # "heartbeat" => NoHeartbeat(Append(lane, m))
<1>1. /\ Append(lane, m) \in Seq(Message)
      /\ Len(Append(lane, m)) = Len(lane) + 1 /\ Len(lane) \in Nat
      /\ \A i \in 1 .. Len(lane) : Append(lane, m)[i] = lane[i]
      /\ Append(lane, m)[Len(lane) + 1] = m
  OBVIOUS
<1>2. \A i \in 1 .. Len(lane) + 1 : i \in 1 .. Len(lane) \/ i = Len(lane) + 1
  BY <1>1
<1> QED BY <1>1, <1>2 DEF OnlyHeartbeats, NoHeartbeat

LEMMA TailFacts ==
    ASSUME NEW lane \in Seq(Message), lane # <<>>
    PROVE  /\ Tail(lane) \in Seq(Message) /\ Head(lane) \in Message
           /\ Len(Tail(lane)) = Len(lane) - 1 /\ Len(lane) \in Nat /\ Len(lane) > 0
           /\ OnlyHeartbeats(lane) => OnlyHeartbeats(Tail(lane)) /\ Head(lane).type = "heartbeat"
           /\ NoHeartbeat(lane) => NoHeartbeat(Tail(lane)) /\ Head(lane).type # "heartbeat"
<1>1. /\ Tail(lane) \in Seq(Message) /\ Head(lane) \in Message /\ Head(lane) = lane[1]
      /\ Len(Tail(lane)) = Len(lane) - 1 /\ Len(lane) \in Nat /\ Len(lane) > 0
      /\ \A i \in 1 .. Len(lane) - 1 : Tail(lane)[i] = lane[i + 1]
  OBVIOUS
<1> QED BY <1>1 DEF OnlyHeartbeats, NoHeartbeat

(* A message goes to the end of a lane of its own kind.                    *)
LEMMA PushOK ==
    ASSUME NEW cr \in Seq(Message), NEW ur \in Seq(Message), NEW no \in Seq(Message),
           NEW count \in Nat, LanesOK(cr, ur, no, count),
           NEW m \in Message
    PROVE  /\ m.type = "heartbeat" /\ cr = <<>> => LanesOK(Append(cr, m), ur, no, count + 1)
           /\ m.type # "heartbeat" => /\ LanesOK(cr, Append(ur, m), no, count + 1)
                                      /\ LanesOK(cr, ur, Append(no, m), count + 1)
<1>1. /\ Len(Append(cr, m)) = Len(cr) + 1 /\ Len(Append(ur, m)) = Len(ur) + 1
      /\ Len(Append(no, m)) = Len(no) + 1
      /\ Len(cr) \in Nat /\ Len(ur) \in Nat /\ Len(no) \in Nat
      /\ cr = <<>> => Len(cr) = 0
  BY AppendFacts, LaneLength
<1>2. /\ OnlyHeartbeats(cr) /\ m.type = "heartbeat" => OnlyHeartbeats(Append(cr, m))
      /\ NoHeartbeat(ur) /\ m.type # "heartbeat" => NoHeartbeat(Append(ur, m))
      /\ NoHeartbeat(no) /\ m.type # "heartbeat" => NoHeartbeat(Append(no, m))
  BY AppendFacts
<1>3. /\ count = Len(cr) + Len(ur) + Len(no) /\ Len(cr) <= 1
      /\ OnlyHeartbeats(cr) /\ NoHeartbeat(ur) /\ NoHeartbeat(no)
  BY DEF LanesOK
<1> DEFINE x == Len(cr)
           y == Len(ur)
           z == Len(no)
<1>4. x \in Nat /\ y \in Nat /\ z \in Nat /\ count = x + y + z
  BY <1>1, <1>3
<1> HIDE DEF x, y, z
<1>5. /\ count + 1 = (x + 1) + y + z /\ count + 1 = x + (y + 1) + z
      /\ count + 1 = x + y + (z + 1)
  BY <1>4
<1>6. ASSUME m.type = "heartbeat", cr = <<>>
      PROVE  LanesOK(Append(cr, m), ur, no, count + 1)
  <2>1. Len(Append(cr, m)) = 1
    BY <1>1, <1>6
  <2>2. Len(Append(cr, m)) <= 1
    BY <2>1
  <2>3. count + 1 = Len(Append(cr, m)) + Len(ur) + Len(no)
    BY <1>1, <1>5 DEF x, y, z
  <2> QED BY <1>2, <1>3, <1>6, <2>2, <2>3 DEF LanesOK
<1>7. ASSUME m.type # "heartbeat"
      PROVE  LanesOK(cr, Append(ur, m), no, count + 1)
  <2>1. count + 1 = Len(cr) + Len(Append(ur, m)) + Len(no)
    BY <1>1, <1>5 DEF x, y, z
  <2> QED BY <1>2, <1>3, <1>7, <2>1 DEF LanesOK
<1>8. ASSUME m.type # "heartbeat"
      PROVE  LanesOK(cr, ur, Append(no, m), count + 1)
  <2>1. count + 1 = Len(cr) + Len(ur) + Len(Append(no, m))
    BY <1>1, <1>5 DEF x, y, z
  <2> QED BY <1>2, <1>3, <1>8, <2>1 DEF LanesOK
<1> QED BY <1>6, <1>7, <1>8

(* The first message of a lane is taken out.                               *)
LEMMA TakeCritical ==
    ASSUME NEW cr \in Seq(Message), NEW ur \in Seq(Message), NEW no \in Seq(Message),
           NEW count \in Nat, LanesOK(cr, ur, no, count), cr # <<>>
    PROVE  /\ LanesOK(Tail(cr), ur, no, count - 1)
           /\ Head(cr).type = "heartbeat"
           /\ Tail(cr) = <<>>
<1>1. /\ count = Len(cr) + Len(ur) + Len(no) /\ Len(cr) <= 1
      /\ OnlyHeartbeats(cr) /\ NoHeartbeat(ur) /\ NoHeartbeat(no)
  BY DEF LanesOK
<1>2. /\ Len(Tail(cr)) = Len(cr) - 1 /\ Len(cr) > 0 /\ Tail(cr) \in Seq(Message)
      /\ OnlyHeartbeats(Tail(cr)) /\ Head(cr).type = "heartbeat"
  BY <1>1, TailFacts
<1> DEFINE x == Len(cr)
           y == Len(ur)
           z == Len(no)
<1>3. x \in Nat /\ y \in Nat /\ z \in Nat /\ count = x + y + z /\ x <= 1
  BY <1>1, LaneLength
<1>4. x > 0
  BY <1>2
<1> HIDE DEF x, y, z
<1>5. count - 1 = (x - 1) + y + z
  BY <1>3
<1>6. count - 1 = Len(Tail(cr)) + Len(ur) + Len(no)
  BY <1>2, <1>5 DEF x, y, z
<1>7. x - 1 = 0 /\ x - 1 <= 1
  BY <1>3, <1>4
<1>8. Len(Tail(cr)) = 0
  BY <1>2, <1>7 DEF x
<1>9. Tail(cr) = <<>>
  BY <1>2, <1>8, LaneLength
<1>10. Len(Tail(cr)) <= 1
  BY <1>2, <1>7 DEF x
<1> QED BY <1>1, <1>2, <1>6, <1>9, <1>10 DEF LanesOK

LEMMA TakeUrgent ==
    ASSUME NEW cr \in Seq(Message), NEW ur \in Seq(Message), NEW no \in Seq(Message),
           NEW count \in Nat, LanesOK(cr, ur, no, count), ur # <<>>
    PROVE  /\ LanesOK(cr, Tail(ur), no, count - 1)
           /\ Head(ur).type # "heartbeat"
<1>1. /\ count = Len(cr) + Len(ur) + Len(no) /\ Len(cr) <= 1
      /\ OnlyHeartbeats(cr) /\ NoHeartbeat(ur) /\ NoHeartbeat(no)
  BY DEF LanesOK
<1>2. /\ Len(Tail(ur)) = Len(ur) - 1 /\ Len(ur) > 0 /\ Tail(ur) \in Seq(Message)
      /\ NoHeartbeat(Tail(ur)) /\ Head(ur).type # "heartbeat"
  BY <1>1, TailFacts
<1> DEFINE x == Len(cr)
           y == Len(ur)
           z == Len(no)
<1>3. x \in Nat /\ y \in Nat /\ z \in Nat /\ count = x + y + z /\ x <= 1
  BY <1>1, LaneLength
<1>4. y > 0
  BY <1>2
<1> HIDE DEF x, y, z
<1>5. count - 1 = x + (y - 1) + z
  BY <1>3
<1>6. count - 1 = Len(cr) + Len(Tail(ur)) + Len(no)
  BY <1>2, <1>5 DEF x, y, z
<1> QED BY <1>1, <1>2, <1>6 DEF LanesOK

LEMMA TakeNormal ==
    ASSUME NEW cr \in Seq(Message), NEW ur \in Seq(Message), NEW no \in Seq(Message),
           NEW count \in Nat, LanesOK(cr, ur, no, count), no # <<>>
    PROVE  /\ LanesOK(cr, ur, Tail(no), count - 1)
           /\ Head(no).type # "heartbeat"
<1>1. /\ count = Len(cr) + Len(ur) + Len(no) /\ Len(cr) <= 1
      /\ OnlyHeartbeats(cr) /\ NoHeartbeat(ur) /\ NoHeartbeat(no)
  BY DEF LanesOK
<1>2. /\ Len(Tail(no)) = Len(no) - 1 /\ Len(no) > 0 /\ Tail(no) \in Seq(Message)
      /\ NoHeartbeat(Tail(no)) /\ Head(no).type # "heartbeat"
  BY <1>1, TailFacts
<1> DEFINE x == Len(cr)
           y == Len(ur)
           z == Len(no)
<1>3. x \in Nat /\ y \in Nat /\ z \in Nat /\ count = x + y + z /\ x <= 1
  BY <1>1, LaneLength
<1>4. z > 0
  BY <1>2
<1> HIDE DEF x, y, z
<1>5. count - 1 = x + y + (z - 1)
  BY <1>3
<1>6. count - 1 = Len(cr) + Len(ur) + Len(Tail(no))
  BY <1>2, <1>5 DEF x, y, z
<1> QED BY <1>1, <1>2, <1>6 DEF LanesOK

LEMMA NonEmptyLane ==
    ASSUME NEW cr \in Seq(Message), NEW ur \in Seq(Message), NEW no \in Seq(Message),
           NEW count \in Nat, LanesOK(cr, ur, no, count), count > 0
    PROVE  cr # <<>> \/ ur # <<>> \/ no # <<>>
<1>1. Len(<<>>) = 0
  BY EmptyLane
<1> QED BY <1>1 DEF LanesOK

(* writeJSON accepts or coalesces a message on an open queue.              *)
LEMMA WriteFacts ==
    ASSUME Types, QueuesOK, NEW s \in Sessions, NEW m \in Message, ~q[s].closed,
           writeJSON(s, m)
    PROVE  /\ q' \in [Sessions -> QueueType] /\ QueueOK(q'[s])
           /\ \A x \in Sessions \ {s} : q'[x] = q[x]
           /\ q'[s].closed = q[s].closed
           /\ \/ UNCHANGED writer
              \/ writer' = [writer EXCEPT ![s] = Wake(@)]
<1>1. /\ q \in [Sessions -> QueueType] /\ QueueOK(q[s])
      /\ q[s].critical \in Seq(Message) /\ q[s].urgent \in Seq(Message)
      /\ q[s].normal \in Seq(Message)
      /\ q[s].queuedCount \in Nat /\ q[s].heartbeatQueued \in BOOLEAN
      /\ q[s].closed \in BOOLEAN
  BY DEF Types, TypeQueues, QueueType, QueuesOK
<1>2. CASE Coalesced(s, m)
  BY <1>1, <1>2 DEF writeJSON
<1>3. CASE ~Coalesced(s, m)
  <2> DEFINE flag == q[s].heartbeatQueued \/ m.type = "heartbeat"
  <2>0. /\ flag \in BOOLEAN
        /\ m.type = "heartbeat" => flag = TRUE
        /\ m.type # "heartbeat" => flag = q[s].heartbeatQueued
    BY <1>1
  <2>1. Lane(m) \in {"critical", "urgent", "normal"}
    BY DEF Lane
  <2> HIDE DEF flag
  <2>2. CASE Lane(m) = "critical"
    <3>1. m.type = "heartbeat"
      BY <2>2 DEF Lane, isCriticalAgentMessage
    <3>2. q' = [q EXCEPT ![s] = [q[s] EXCEPT !.critical = Append(@, m), !.queuedCount = @ + 1,
                                 !.heartbeatQueued = flag]]
      BY <1>1, <1>3, <2>2 DEF writeJSON, QueueType, flag
    <3> DEFINE c == Append(q[s].critical, m)
               n == q[s].queuedCount + 1
    <3>3. c \in Seq(Message) /\ n \in Nat /\ c # <<>>
      BY <1>1, AppendFacts, LaneLength
    <3>4. q' = [q EXCEPT ![s] = [q[s] EXCEPT !.critical = c, !.queuedCount = n,
                                             !.heartbeatQueued = flag]]
      BY <3>2
    <3>5. q[s].critical = <<>> /\ flag = TRUE
      BY <1>1, <1>3, <2>0, <3>1 DEF Coalesced, QueueOK
    <3>6. LanesOK(c, q[s].urgent, q[s].normal, n)
      BY <1>1, <3>1, <3>5, PushOK DEF QueueOK
    <3> HIDE DEF c, n
    <3>7. /\ q'[s] \in QueueType
          /\ q'[s].critical = c /\ q'[s].queuedCount = n
          /\ q'[s].urgent = q[s].urgent /\ q'[s].normal = q[s].normal
          /\ q'[s].heartbeatQueued = flag /\ q'[s].closed = q[s].closed
      BY <1>1, <2>0, <3>3, <3>4 DEF QueueType
    <3>8. QueueOK(q'[s])
      BY <3>3, <3>5, <3>6, <3>7 DEF QueueOK
    <3> QED BY <1>1, <1>3, <3>4, <3>7, <3>8 DEF writeJSON
  <2>3. CASE Lane(m) = "urgent"
    <3>1. m.type # "heartbeat"
      BY <2>3 DEF Lane, isCriticalAgentMessage
    <3>2. q' = [q EXCEPT ![s] = [q[s] EXCEPT !.urgent = Append(@, m), !.queuedCount = @ + 1,
                                 !.heartbeatQueued = flag]]
      BY <1>1, <1>3, <2>3 DEF writeJSON, QueueType, flag
    <3> DEFINE c == Append(q[s].urgent, m)
               n == q[s].queuedCount + 1
    <3>3. c \in Seq(Message) /\ n \in Nat /\ c # <<>>
      BY <1>1, AppendFacts, LaneLength
    <3>4. q' = [q EXCEPT ![s] = [q[s] EXCEPT !.urgent = c, !.queuedCount = n,
                                             !.heartbeatQueued = flag]]
      BY <3>2
    <3>5. flag <=> q[s].critical # <<>>
      BY <1>1, <2>0, <3>1 DEF QueueOK
    <3>6. LanesOK(q[s].critical, c, q[s].normal, n)
      BY <1>1, <3>1, PushOK DEF QueueOK
    <3> HIDE DEF c, n
    <3>7. /\ q'[s] \in QueueType
          /\ q'[s].urgent = c /\ q'[s].queuedCount = n
          /\ q'[s].critical = q[s].critical /\ q'[s].normal = q[s].normal
          /\ q'[s].heartbeatQueued = flag /\ q'[s].closed = q[s].closed
      BY <1>1, <2>0, <3>3, <3>4 DEF QueueType
    <3>8. QueueOK(q'[s])
      BY <3>3, <3>5, <3>6, <3>7 DEF QueueOK
    <3> QED BY <1>1, <1>3, <3>4, <3>7, <3>8 DEF writeJSON
  <2>4. CASE Lane(m) = "normal"
    <3>1. m.type # "heartbeat"
      BY <2>4 DEF Lane, isCriticalAgentMessage
    <3>2. q' = [q EXCEPT ![s] = [q[s] EXCEPT !.normal = Append(@, m), !.queuedCount = @ + 1,
                                 !.heartbeatQueued = flag]]
      BY <1>1, <1>3, <2>4 DEF writeJSON, QueueType, flag
    <3> DEFINE c == Append(q[s].normal, m)
               n == q[s].queuedCount + 1
    <3>3. c \in Seq(Message) /\ n \in Nat /\ c # <<>>
      BY <1>1, AppendFacts, LaneLength
    <3>4. q' = [q EXCEPT ![s] = [q[s] EXCEPT !.normal = c, !.queuedCount = n,
                                             !.heartbeatQueued = flag]]
      BY <3>2
    <3>5. flag <=> q[s].critical # <<>>
      BY <1>1, <2>0, <3>1 DEF QueueOK
    <3>6. LanesOK(q[s].critical, q[s].urgent, c, n)
      BY <1>1, <3>1, PushOK DEF QueueOK
    <3> HIDE DEF c, n
    <3>7. /\ q'[s] \in QueueType
          /\ q'[s].normal = c /\ q'[s].queuedCount = n
          /\ q'[s].critical = q[s].critical /\ q'[s].urgent = q[s].urgent
          /\ q'[s].heartbeatQueued = flag /\ q'[s].closed = q[s].closed
      BY <1>1, <2>0, <3>3, <3>4 DEF QueueType
    <3>8. QueueOK(q'[s])
      BY <3>3, <3>5, <3>6, <3>7 DEF QueueOK
    <3> QED BY <1>1, <1>3, <3>4, <3>7, <3>8 DEF writeJSON
  <2> QED BY <2>1, <2>2, <2>3, <2>4
<1> QED BY <1>2, <1>3

(* completeDequeue takes out the message that next returns.                *)
LEMMA TakeFacts ==
    ASSUME Types, QueuesOK, NEW s \in Sessions, nextTakes(s)
    PROVE  /\ q' \in [Sessions -> QueueType] /\ QueueOK(q'[s])
           /\ \A x \in Sessions \ {s} : q'[x] = q[x]
           /\ q'[s].closed = q[s].closed
           /\ item' \in [Sessions -> Message]
<1> DEFINE c == q[s]
           cr == q[s].critical
           ur == q[s].urgent
           no == q[s].normal
           count == q[s].queuedCount
           n == q[s].queuedCount - 1
           b == NextBudget(s)
           m == Head(q[s][NextLane(s)])
           flag == q[s].heartbeatQueued /\ m.type # "heartbeat"
<1>1. /\ q \in [Sessions -> QueueType] /\ c \in QueueType
      /\ cr \in Seq(Message) /\ ur \in Seq(Message) /\ no \in Seq(Message)
      /\ count \in Nat /\ c.heartbeatQueued \in BOOLEAN
      /\ q[s].urgentBudget \in Nat /\ ~c.closed /\ count > 0 /\ n = count - 1
  BY DEF Types, TypeQueues, QueueType, nextTakes
<1>2. LanesOK(cr, ur, no, count) /\ (c.heartbeatQueued <=> cr # <<>>)
  BY DEF QueuesOK, QueueOK
<1>3. n \in Nat /\ b \in Nat
  BY <1>1 DEF NextBudget, NextLane
<1>4. q' = [q EXCEPT ![s] = completeDequeue(s, m)] /\ item' = [item EXCEPT ![s] = m]
  BY <1>1 DEF nextTakes, Types, TypeMessages
<1>5. /\ NextLane(s) = "critical" <=> cr # <<>>
      /\ NextLane(s) = "urgent" => ur # <<>>
      /\ NextLane(s) = "normal" => ur = <<>> \/ no # <<>>
  BY DEF NextLane
<1>6. /\ NextLane(s) = "critical" => m = Head(cr)
      /\ NextLane(s) = "urgent" => m = Head(ur)
      /\ NextLane(s) = "normal" => m = Head(no)
  OBVIOUS
<1>7. /\ NextLane(s) = "critical" =>
            completeDequeue(s, m) = [c EXCEPT !.critical = Tail(cr), !.queuedCount = n,
                !.urgentBudget = b, !.heartbeatQueued = flag]
      /\ NextLane(s) = "urgent" =>
            completeDequeue(s, m) = [c EXCEPT !.urgent = Tail(ur), !.queuedCount = n,
                !.urgentBudget = b, !.heartbeatQueued = flag]
      /\ NextLane(s) = "normal" =>
            completeDequeue(s, m) = [c EXCEPT !.normal = Tail(no), !.queuedCount = n,
                !.urgentBudget = b, !.heartbeatQueued = flag]
  BY DEF completeDequeue
<1>8. flag \in BOOLEAN /\ (flag <=> cr # <<>> /\ m.type # "heartbeat")
  BY <1>2
<1>9. SUFFICES /\ completeDequeue(s, m) \in QueueType /\ QueueOK(completeDequeue(s, m))
               /\ completeDequeue(s, m).closed = c.closed
               /\ m \in Message
  BY <1>1, <1>4 DEF Types, TypeMessages
<1>10. cr = c.critical /\ ur = c.urgent /\ no = c.normal
  OBVIOUS
<1> HIDE DEF c, cr, ur, no, count, flag, n, b, m
<1>11. CASE NextLane(s) = "critical"
  <2>1. cr # <<>>
    BY <1>5, <1>11
  <2>2. Tail(cr) \in Seq(Message) /\ m \in Message
    BY <1>1, <1>6, <1>11, <2>1, TailFacts
  <2>3. LanesOK(Tail(cr), ur, no, n) /\ Head(cr).type = "heartbeat" /\ Tail(cr) = <<>>
    BY <1>1, <1>2, <2>1, TakeCritical
  <2>4. flag <=> Tail(cr) # <<>>
    BY <1>6, <1>8, <1>11, <2>3
  <2> DEFINE lane == Tail(cr)
             d == completeDequeue(s, m)
  <2>5. lane \in Seq(Message) /\ LanesOK(lane, c.urgent, c.normal, n) /\ (flag <=> lane # <<>>)
    BY <1>10, <2>2, <2>3, <2>4
  <2>6. d = [c EXCEPT !.critical = lane, !.queuedCount = n, !.urgentBudget = b,
                      !.heartbeatQueued = flag]
    BY <1>7, <1>11
  <2> HIDE DEF lane, d
  <2>7. /\ d \in QueueType /\ d.critical = lane /\ d.queuedCount = n
        /\ d.urgent = c.urgent /\ d.normal = c.normal
        /\ d.heartbeatQueued = flag /\ d.closed = c.closed
    BY <1>1, <1>3, <1>8, <2>5, <2>6 DEF QueueType
  <2>8. QueueOK(d)
    BY <1>1, <2>5, <2>7 DEF QueueOK
  <2> QED BY <2>2, <2>7, <2>8 DEF d
<1>12. CASE NextLane(s) = "urgent"
  <2>1. ur # <<>>
    BY <1>5, <1>12
  <2>2. Tail(ur) \in Seq(Message) /\ m \in Message
    BY <1>1, <1>6, <1>12, <2>1, TailFacts
  <2>3. LanesOK(cr, Tail(ur), no, n) /\ Head(ur).type # "heartbeat"
    BY <1>1, <1>2, <2>1, TakeUrgent
  <2>4. flag <=> cr # <<>>
    BY <1>6, <1>8, <1>12, <2>3
  <2> DEFINE lane == Tail(ur)
             d == completeDequeue(s, m)
  <2>5. lane \in Seq(Message) /\ LanesOK(c.critical, lane, c.normal, n) /\ (flag <=> c.critical # <<>>)
    BY <1>10, <2>2, <2>3, <2>4
  <2>6. d = [c EXCEPT !.urgent = lane, !.queuedCount = n, !.urgentBudget = b,
                      !.heartbeatQueued = flag]
    BY <1>7, <1>12
  <2> HIDE DEF lane, d
  <2>7. /\ d \in QueueType /\ d.urgent = lane /\ d.queuedCount = n
        /\ d.critical = c.critical /\ d.normal = c.normal
        /\ d.heartbeatQueued = flag /\ d.closed = c.closed
    BY <1>1, <1>3, <1>8, <2>5, <2>6 DEF QueueType
  <2>8. QueueOK(d)
    BY <1>1, <2>5, <2>7 DEF QueueOK
  <2> QED BY <2>2, <2>7, <2>8 DEF d
<1>13. CASE NextLane(s) = "normal"
  <2>1. no # <<>>
    BY <1>1, <1>2, <1>5, <1>13, NonEmptyLane
  <2>2. Tail(no) \in Seq(Message) /\ m \in Message
    BY <1>1, <1>6, <1>13, <2>1, TailFacts
  <2>3. LanesOK(cr, ur, Tail(no), n) /\ Head(no).type # "heartbeat"
    BY <1>1, <1>2, <2>1, TakeNormal
  <2>4. flag <=> cr # <<>>
    BY <1>6, <1>8, <1>13, <2>3
  <2> DEFINE lane == Tail(no)
             d == completeDequeue(s, m)
  <2>5. lane \in Seq(Message) /\ LanesOK(c.critical, c.urgent, lane, n) /\ (flag <=> c.critical # <<>>)
    BY <1>10, <2>2, <2>3, <2>4
  <2>6. d = [c EXCEPT !.normal = lane, !.queuedCount = n, !.urgentBudget = b,
                      !.heartbeatQueued = flag]
    BY <1>7, <1>13
  <2> HIDE DEF lane, d
  <2>7. /\ d \in QueueType /\ d.normal = lane /\ d.queuedCount = n
        /\ d.critical = c.critical /\ d.urgent = c.urgent
        /\ d.heartbeatQueued = flag /\ d.closed = c.closed
    BY <1>1, <1>3, <1>8, <2>5, <2>6 DEF QueueType
  <2>8. QueueOK(d)
    BY <1>1, <2>5, <2>7 DEF QueueOK
  <2> QED BY <2>2, <2>7, <2>8 DEF d
<1> QED BY <1>11, <1>12, <1>13 DEF NextLane

----------------------------------------------------------------------------
LEMMA InitInv == Init => IInv
<1> SUFFICES ASSUME Init PROVE IInv
  OBVIOUS
<1>1. TypeQueues /\ QueuesOK
  BY EmptyQueueOK DEF Init, TypeQueues, QueuesOK
<1>2. NoMessage \in Message
  BY DEF NoMessage, Message
<1>3. TypeMessages
  BY <1>2, EmptyLane DEF Init, TypeMessages
<1>4. TypeRun
  BY AgentAssumption DEF Init, TypeRun
<1>4a. TypeFlags
  BY DEF Init, TypeFlags
<1>5. TypePlaces /\ TypeCounts /\ TypeAcks
  BY EmptyLane DEF Init, TypePlaces, WriterType, TypeCounts, TypeAcks
<1>6. FreshInv /\ WorkersInv
  BY AgentAssumption DEF Init, FreshInv, Undialled, WorkersInv, Sessions
<1>7. ReadyInv /\ BackoffInv
  BY AgentAssumption DEF Init, ReadyInv, BackoffInv
<1> QED BY <1>1, <1>3, <1>4, <1>4a, <1>5, <1>6, <1>7 DEF IInv, Types

----------------------------------------------------------------------------
(* Run and runSession.                                                     *)

LEMMA BeginInv == ASSUME IInv, beginSession PROVE IInv'
<1> USE AgentAssumption DEF IInv, Types, Sessions, beginSession, ackVars, queueVars,
        hbVars, readVars, netVars, connVars, history
<1>1. TypeRun'
  BY DEF TypeRun
<1>2. TypeFlags'
  BY DEF TypeFlags
<1>3. FreshInv'
  BY DEF FreshInv, Undialled, TypeRun, TypePlaces
<1>4. WorkersInv'
  BY DEF WorkersInv, TypeRun, TypePlaces
<1>5. ReadyInv'
  <2>1. started = 0 /\ \A s \in 1 .. MaxSessions : reader[s] # "starting"
    BY DEF ReadyInv, WorkersInv
  <2>2. UNCHANGED <<started, reader>> /\ run' = "dial"
    OBVIOUS
  <2> QED BY <2>1, <2>2 DEF ReadyInv
<1>6. BackoffInv'
  BY DEF BackoffInv, TypeRun
<1>7. TypePlaces' /\ TypeMessages' /\ TypeCounts' /\ TypeAcks' /\ TypeQueues'
  BY DEF TypePlaces, TypeMessages, TypeCounts, TypeAcks, TypeQueues
<1>8. QueuesOK'
  BY DEF QueuesOK
<1> QED BY <1>1, <1>2, <1>3, <1>4, <1>5, <1>6, <1>7, <1>8

LEMMA DialInv == ASSUME IInv, dialControl PROVE IInv'
<1> USE AgentAssumption DEF IInv, Types, Sessions, dialControl, ackVars, queueVars,
        hbVars, readVars, netVars, connVars, history
<1>1. TypeRun'
  BY DEF TypeRun
<1>2. TypeFlags'
  BY DEF TypeFlags
<1>3. FreshInv'
  BY DEF FreshInv, Undialled, TypeRun, TypePlaces
<1>4. WorkersInv'
  BY DEF WorkersInv, TypeRun, TypePlaces
<1>5. ReadyInv'
  BY DEF ReadyInv, WorkersInv, TypeRun, TypeFlags, TypePlaces, TypeCounts
<1>6. BackoffInv'
  BY DEF BackoffInv, TypeRun
<1>7. TypePlaces' /\ TypeMessages' /\ TypeCounts' /\ TypeAcks' /\ TypeQueues'
  BY DEF TypePlaces, TypeMessages, TypeCounts, TypeAcks, TypeQueues
<1>8. QueuesOK'
  BY DEF QueuesOK
<1> QED BY <1>1, <1>2, <1>3, <1>4, <1>5, <1>6, <1>7, <1>8

LEMMA QuicInv == ASSUME IInv, dialQUICControl PROVE IInv'
<1> USE AgentAssumption DEF IInv, Types, Sessions, dialQUICControl, Connect,
        DialFails, ackVars, queueVars, hbVars, readVars, netVars, connVars, history,
        SessionEnded
<1>1. TypeRun'
  BY DEF TypeRun
<1>2. TypeFlags'
  BY DEF TypeFlags
<1>3. TypePlaces'
  BY DEF TypePlaces, WriterType
<1>4. TypeCounts'
  <2>1. started' \in {0, started}
    BY DEF TypeCounts
  <2>2. UNCHANGED <<hbId, readId, beats, others, pushes, unguarded, dropped>>
    OBVIOUS
  <2> HIDE DEF dialQUICControl, DialFails
  <2> QED BY <2>1, <2>2 DEF TypeCounts
<1>5. FreshInv'
  BY DEF FreshInv, Undialled, TypeRun, TypePlaces
<1>6. WorkersInv'
  BY DEF WorkersInv, TypeRun, TypePlaces
<1>7. ReadyInv'
  BY DEF ReadyInv, WorkersInv, TypeRun, TypeFlags, TypePlaces, TypeCounts
<1>8. BackoffInv'
  BY DEF BackoffInv, TypeRun
<1>9. TypeMessages' /\ TypeAcks' /\ TypeQueues'
  BY DEF TypeMessages, TypeAcks, TypeQueues
<1>10. QueuesOK'
  BY DEF QueuesOK
<1> QED BY <1>1, <1>2, <1>3, <1>4, <1>5, <1>6, <1>7, <1>8, <1>9, <1>10

LEMMA WebSocketInv == ASSUME IInv, dialWebSocketControl PROVE IInv'
<1> USE AgentAssumption DEF IInv, Types, Sessions, dialWebSocketControl, Connect,
        DialFails, SessionEnded, ackVars, queueVars, hbVars, readVars, netVars,
        connVars, history
<1>1. TypeRun'
  BY DEF TypeRun
<1>2. TypePlaces'
  BY DEF TypePlaces, WriterType
<1>3. TypeCounts'
  <2>1. started' \in {0, started}
    BY DEF TypeCounts
  <2>2. UNCHANGED <<hbId, readId, beats, others, pushes, unguarded, dropped>>
    OBVIOUS
  <2> HIDE DEF dialWebSocketControl, DialFails
  <2> QED BY <2>1, <2>2 DEF TypeCounts
<1>4. FreshInv'
  BY DEF FreshInv, Undialled, TypeRun, TypePlaces
<1>5. WorkersInv'
  BY DEF WorkersInv, TypeRun, TypePlaces
<1>6. ReadyInv'
  BY DEF ReadyInv, WorkersInv, TypeRun, TypeFlags, TypePlaces, TypeCounts
<1>7. BackoffInv'
  BY DEF BackoffInv, TypeRun
<1>8. TypeFlags' /\ TypeMessages' /\ TypeAcks' /\ TypeQueues'
  BY DEF TypeFlags, TypeMessages, TypeAcks, TypeQueues
<1>9. QueuesOK'
  BY DEF QueuesOK
<1> QED BY <1>1, <1>2, <1>3, <1>4, <1>5, <1>6, <1>7, <1>8, <1>9

LEMMA WorkerEndedInv == ASSUME IInv, workerEnded PROVE IInv'
<1> USE AgentAssumption DEF IInv, Types, Sessions, workerEnded, flagVars, ackVars,
        queueVars, hbVars, readVars, netVars, history
<1>1. TypeRun'
  BY DEF TypeRun
<1>2. TypePlaces'
  BY DEF TypePlaces, WriterType
<1>3. FreshInv'
  BY DEF FreshInv, Undialled, TypeRun, TypePlaces
<1>4. WorkersInv'
  BY DEF WorkersInv, TypeRun, TypePlaces
<1>5. ReadyInv'
  BY DEF ReadyInv, WorkersInv, TypeRun, TypeFlags, TypePlaces, TypeCounts
<1>6. BackoffInv'
  BY DEF BackoffInv, TypeRun
<1>7. TypeFlags' /\ TypeMessages' /\ TypeCounts' /\ TypeAcks' /\ TypeQueues'
  BY DEF TypeFlags, TypeMessages, TypeCounts, TypeAcks, TypeQueues
<1>8. QueuesOK'
  BY DEF QueuesOK
<1> QED BY <1>1, <1>2, <1>3, <1>4, <1>5, <1>6, <1>7, <1>8

LEMMA CloseBaseInv == ASSUME IInv, closeBase PROVE IInv'
<1> USE AgentAssumption DEF IInv, Types, Sessions, closeBase, Disconnected,
        flagVars, ackVars, queueVars, hbVars, readVars, connVars, history
<1>1. TypeRun'
  BY DEF TypeRun
<1>2. TypePlaces'
  BY DEF TypePlaces, WriterType
<1>3. TypeMessages'
  BY EmptyLane DEF TypeMessages
<1>4. FreshInv'
  BY DEF FreshInv, Undialled, TypeRun, TypePlaces
<1>5. WorkersInv'
  BY DEF WorkersInv, TypeRun, TypePlaces
<1>6. ReadyInv'
  BY DEF ReadyInv, WorkersInv, TypeRun, TypeFlags, TypePlaces, TypeCounts
<1>7. BackoffInv'
  BY DEF BackoffInv, TypeRun
<1>8. TypeFlags' /\ TypeCounts' /\ TypeAcks' /\ TypeQueues'
  BY DEF TypeFlags, TypeCounts, TypeAcks, TypeQueues
<1>9. QueuesOK'
  BY DEF QueuesOK
<1> QED BY <1>1, <1>2, <1>3, <1>4, <1>5, <1>6, <1>7, <1>8, <1>9

LEMMA JoinInv == ASSUME IInv, joinWorkers PROVE IInv'
<1> USE AgentAssumption DEF IInv, Types, Sessions, joinWorkers, SessionEnded,
        clearHeartbeatAcks, queueVars, readVars, connVars, ackVars
<1>1. TypeRun'
  BY DEF TypeRun
<1>2. TypeFlags'
  BY DEF TypeFlags
<1>3. TypeMessages'
  BY EmptyLane DEF TypeMessages
<1>4. TypeCounts'
  BY DEF TypeCounts
<1>5. TypeAcks'
  BY EmptyLane DEF TypeAcks
<1>6. FreshInv'
  BY DEF FreshInv, Undialled, TypeRun, TypePlaces
<1>7. WorkersInv'
  BY DEF WorkersInv, TypeRun, TypePlaces
<1>8. ReadyInv'
  BY DEF ReadyInv, WorkersInv, TypeRun, TypeFlags, TypePlaces, TypeCounts
<1>9. BackoffInv'
  BY DEF BackoffInv, TypeRun
<1>10. TypePlaces' /\ TypeQueues'
  BY DEF TypePlaces, TypeQueues
<1>11. QueuesOK'
  BY DEF QueuesOK
<1> QED BY <1>1, <1>2, <1>3, <1>4, <1>5, <1>6, <1>7, <1>8, <1>9, <1>10, <1>11

LEMMA ReturnedInv == ASSUME IInv, sessionReturned PROVE IInv'
<1> USE AgentAssumption DEF IInv, Types, Sessions, sessionReturned, ackVars,
        queueVars, hbVars, readVars, netVars, connVars, history
<1>1. TypeRun'
  BY DEF TypeRun
<1>2. TypeFlags'
  BY DEF TypeFlags
<1>3. FreshInv'
  BY DEF FreshInv, Undialled, TypeRun, TypePlaces
<1>4. WorkersInv'
  BY DEF WorkersInv, TypeRun, TypePlaces
<1>5. ReadyInv'
  BY DEF ReadyInv, WorkersInv, TypeRun, TypeFlags, TypePlaces, TypeCounts
<1>6. BackoffInv'
  BY DEF BackoffInv, TypeRun
<1>7. TypePlaces' /\ TypeMessages' /\ TypeCounts' /\ TypeAcks' /\ TypeQueues'
  BY DEF TypePlaces, TypeMessages, TypeCounts, TypeAcks, TypeQueues
<1>8. QueuesOK'
  BY DEF QueuesOK
<1> QED BY <1>1, <1>2, <1>3, <1>4, <1>5, <1>6, <1>7, <1>8

LEMMA SleepInv == ASSUME IInv, sleepEnds PROVE IInv'
<1> USE AgentAssumption DEF IInv, Types, Sessions, sleepEnds, nextBackoff, flagVars,
        ackVars, queueVars, hbVars, readVars, netVars, connVars, history
<1>1. TypeRun'
  BY DEF TypeRun
<1>2. FreshInv'
  BY DEF FreshInv, Undialled, TypeRun, TypePlaces
<1>3. WorkersInv'
  BY DEF WorkersInv, TypeRun, TypePlaces
<1>4. ReadyInv'
  BY DEF ReadyInv, WorkersInv, TypeRun, TypeFlags, TypePlaces, TypeCounts
<1>5. BackoffInv'
  BY DEF BackoffInv, TypeRun
<1>6. TypeFlags' /\ TypePlaces' /\ TypeMessages' /\ TypeCounts' /\ TypeAcks'
        /\ TypeQueues'
  BY DEF TypeFlags, TypePlaces, TypeMessages, TypeCounts, TypeAcks, TypeQueues
<1>7. QueuesOK'
  BY DEF QueuesOK
<1> QED BY <1>1, <1>2, <1>3, <1>4, <1>5, <1>6, <1>7

LEMMA RunReturnsInv == ASSUME IInv, runReturns PROVE IInv'
<1> USE AgentAssumption DEF IInv, Types, Sessions, runReturns, flagVars, ackVars,
        queueVars, hbVars, readVars, netVars, connVars, history
<1>1. TypeRun'
  BY DEF TypeRun
<1>2. FreshInv'
  BY DEF FreshInv, Undialled, TypeRun, TypePlaces
<1>3. WorkersInv'
  BY DEF WorkersInv, TypeRun, TypePlaces
<1>4. ReadyInv'
  BY DEF ReadyInv, WorkersInv, TypeRun, TypeFlags, TypePlaces, TypeCounts
<1>5. BackoffInv'
  BY DEF BackoffInv, TypeRun
<1>6. TypeFlags' /\ TypePlaces' /\ TypeMessages' /\ TypeCounts' /\ TypeAcks'
        /\ TypeQueues'
  BY DEF TypeFlags, TypePlaces, TypeMessages, TypeCounts, TypeAcks, TypeQueues
<1>7. QueuesOK'
  BY DEF QueuesOK
<1> QED BY <1>1, <1>2, <1>3, <1>4, <1>5, <1>6, <1>7

LEMMA StopInv == ASSUME IInv, stop PROVE IInv'
<1> USE AgentAssumption DEF IInv, Types, Sessions, stop, runVars, flagVars, ackVars,
        queueVars, hbVars, readVars, netVars, connVars, history
<1>1. TypeFlags'
  BY DEF TypeFlags
<1>2. TypeRun' /\ TypePlaces' /\ TypeMessages' /\ TypeCounts' /\ TypeAcks' /\ TypeQueues'
  BY DEF TypeRun, TypePlaces, TypeMessages, TypeCounts, TypeAcks, TypeQueues
<1>3. QueuesOK' /\ FreshInv' /\ WorkersInv' /\ ReadyInv' /\ BackoffInv'
  BY DEF QueuesOK, FreshInv, WorkersInv, ReadyInv, BackoffInv, Undialled
<1> QED BY <1>1, <1>2, <1>3

----------------------------------------------------------------------------
(* The writer of a session.                                                *)

LEMMA WaitsInv == ASSUME IInv, NEW s \in Sessions, nextWaits(s) PROVE IInv'
<1> USE AgentAssumption DEF IInv, Types, Sessions, nextWaits, runVars, flagVars,
        ackVars, hbVars, readVars, netVars, connVars, history
<1>1. TypePlaces'
  BY DEF TypePlaces, WriterType
<1>2. FreshInv'
  BY DEF FreshInv, Undialled, TypeRun, TypePlaces
<1>3. TypeRun' /\ TypeFlags' /\ TypeMessages' /\ TypeCounts' /\ TypeAcks' /\ TypeQueues'
  BY DEF TypeRun, TypeFlags, TypeMessages, TypeCounts, TypeAcks, TypeQueues
<1>4. QueuesOK' /\ WorkersInv' /\ ReadyInv' /\ BackoffInv'
  BY DEF QueuesOK, WorkersInv, ReadyInv, BackoffInv
<1> QED BY <1>1, <1>2, <1>3, <1>4

LEMMA StopsInv == ASSUME IInv, NEW s \in Sessions, nextStops(s) PROVE IInv'
<1> USE AgentAssumption DEF IInv, Types, Sessions, nextStops, runVars, flagVars,
        ackVars, hbVars, readVars, netVars, connVars, history
<1>1. TypePlaces'
  BY DEF TypePlaces, WriterType
<1>2. FreshInv'
  <2>1. ~Undialled(s) /\ ~(s = session /\ run = "hello")
    BY DEF FreshInv, EmptyQueue
  <2> QED BY <2>1 DEF FreshInv, Undialled, TypeRun, TypePlaces
<1>3. TypeRun' /\ TypeFlags' /\ TypeMessages' /\ TypeCounts' /\ TypeAcks' /\ TypeQueues'
  BY DEF TypeRun, TypeFlags, TypeMessages, TypeCounts, TypeAcks, TypeQueues
<1>4. QueuesOK' /\ WorkersInv' /\ ReadyInv' /\ BackoffInv'
  BY DEF QueuesOK, WorkersInv, ReadyInv, BackoffInv
<1> QED BY <1>1, <1>2, <1>3, <1>4

LEMMA BaseWritesInv == ASSUME IInv, NEW s \in Sessions, baseWrites(s) PROVE IInv'
<1> USE AgentAssumption DEF IInv, Types, Sessions, baseWrites, runVars, flagVars,
        ackVars, hbVars, readVars, connVars, history
<1>1. TypePlaces'
  BY DEF TypePlaces, WriterType
<1>2. TypeMessages'
  <2>1. item[s] \in Message /\ wire[s] \in Seq(Message) /\ NoMessage \in Message
    BY DEF TypeMessages, NoMessage, Message
  <2>2. Append(wire[s], item[s]) \in Seq(Message)
    BY <2>1, AppendFacts
  <2> QED BY <2>1, <2>2 DEF TypeMessages
<1>3. FreshInv'
  BY DEF FreshInv, Undialled, TypeRun, TypePlaces
<1>4. TypeRun' /\ TypeFlags' /\ TypeCounts' /\ TypeAcks' /\ TypeQueues'
  BY DEF TypeRun, TypeFlags, TypeCounts, TypeAcks, TypeQueues
<1>5. QueuesOK' /\ WorkersInv' /\ ReadyInv' /\ BackoffInv'
  BY DEF QueuesOK, WorkersInv, ReadyInv, BackoffInv
<1> QED BY <1>1, <1>2, <1>3, <1>4, <1>5

LEMMA FailClosesInv == ASSUME IInv, NEW s \in Sessions, failCloses(s) PROVE IInv'
<1> USE AgentAssumption DEF IInv, Types, Sessions, failCloses, Disconnected,
        runVars, flagVars, ackVars, hbVars, readVars, connVars, history
<1>1. TypePlaces'
  BY DEF TypePlaces, WriterType
<1>2. TypeMessages'
  BY EmptyLane DEF TypeMessages
<1>3. FreshInv'
  BY DEF FreshInv, Undialled, TypeRun, TypePlaces
<1>4. TypeRun' /\ TypeFlags' /\ TypeCounts' /\ TypeAcks' /\ TypeQueues'
  BY DEF TypeRun, TypeFlags, TypeCounts, TypeAcks, TypeQueues
<1>5. QueuesOK' /\ WorkersInv' /\ ReadyInv' /\ BackoffInv'
  BY DEF QueuesOK, WorkersInv, ReadyInv, BackoffInv
<1> QED BY <1>1, <1>2, <1>3, <1>4, <1>5

----------------------------------------------------------------------------
(* heartbeat.                                                              *)

LEMMA PingInv == ASSUME IInv, NEW s \in Sessions, ping(s) PROVE IInv'
<1> USE AgentAssumption DEF IInv, Types, Sessions, ping, runVars, flagVars, ackVars,
        queueVars, readVars, netVars, connVars, history
<1>1. TypePlaces'
  BY DEF TypePlaces, WriterType
<1>2. FreshInv'
  BY DEF FreshInv, Undialled, TypeRun, TypePlaces
<1>3. WorkersInv'
  BY DEF WorkersInv, TypeRun, TypePlaces
<1>4. TypeRun' /\ TypeFlags' /\ TypeMessages' /\ TypeCounts' /\ TypeAcks' /\ TypeQueues'
  BY DEF TypeRun, TypeFlags, TypeMessages, TypeCounts, TypeAcks, TypeQueues
<1>5. QueuesOK' /\ ReadyInv' /\ BackoffInv'
  BY DEF QueuesOK, ReadyInv, BackoffInv
<1> QED BY <1>1, <1>2, <1>3, <1>4, <1>5

LEMMA CheckInv == ASSUME IInv, NEW s \in Sessions, checkAckRequired(s) PROVE IInv'
<1> USE AgentAssumption DEF IInv, Types, Sessions, checkAckRequired,
        heartbeatAckRequired, runVars, flagVars, ackVars, queueVars, readVars,
        netVars, connVars, history
<1>1. TypePlaces'
  BY DEF TypePlaces, WriterType
<1>2. FreshInv'
  BY DEF FreshInv, Undialled, TypeRun, TypePlaces
<1>3. WorkersInv'
  BY DEF WorkersInv, TypeRun, TypePlaces
<1>4. TypeRun' /\ TypeFlags' /\ TypeMessages' /\ TypeCounts' /\ TypeAcks' /\ TypeQueues'
  BY DEF TypeRun, TypeFlags, TypeMessages, TypeCounts, TypeAcks, TypeQueues
<1>5. QueuesOK' /\ ReadyInv' /\ BackoffInv'
  BY DEF QueuesOK, ReadyInv, BackoffInv
<1> QED BY <1>1, <1>2, <1>3, <1>4, <1>5

LEMMA ReceiveInv == ASSUME IInv, NEW s \in Sessions, receiveAck(s) PROVE IInv'
<1> USE AgentAssumption DEF IInv, Types, Sessions, receiveAck, runVars, flagVars,
        queueVars, readVars, netVars, connVars, history
<1>1. TypePlaces'
  BY DEF TypePlaces, WriterType
<1>2. TypeAcks'
  BY DEF TypeAcks
<1>3. FreshInv'
  BY DEF FreshInv, Undialled, TypeRun, TypePlaces
<1>4. WorkersInv'
  BY DEF WorkersInv, TypeRun, TypePlaces
<1>5. TypeRun' /\ TypeFlags' /\ TypeMessages' /\ TypeCounts' /\ TypeQueues'
  BY DEF TypeRun, TypeFlags, TypeMessages, TypeCounts, TypeQueues
<1>6. QueuesOK' /\ ReadyInv' /\ BackoffInv'
  BY DEF QueuesOK, ReadyInv, BackoffInv
<1> QED BY <1>1, <1>2, <1>3, <1>4, <1>5, <1>6

LEMMA AckTimeoutInv == ASSUME IInv, NEW s \in Sessions, ackTimeout(s) PROVE IInv'
<1> USE AgentAssumption DEF IInv, Types, Sessions, ackTimeout, runVars, flagVars,
        ackVars, queueVars, readVars, netVars, connVars, history
<1>1. TypePlaces'
  BY DEF TypePlaces, WriterType
<1>2. FreshInv'
  BY DEF FreshInv, Undialled, TypeRun, TypePlaces
<1>3. WorkersInv'
  BY DEF WorkersInv, TypeRun, TypePlaces
<1>4. TypeRun' /\ TypeFlags' /\ TypeMessages' /\ TypeCounts' /\ TypeAcks' /\ TypeQueues'
  BY DEF TypeRun, TypeFlags, TypeMessages, TypeCounts, TypeAcks, TypeQueues
<1>5. QueuesOK' /\ ReadyInv' /\ BackoffInv'
  BY DEF QueuesOK, ReadyInv, BackoffInv
<1> QED BY <1>1, <1>2, <1>3, <1>4, <1>5

LEMMA TickInv == ASSUME IInv, NEW s \in Sessions, tick(s) PROVE IInv'
<1> USE AgentAssumption DEF IInv, Types, Sessions, tick, runVars, flagVars, ackVars,
        queueVars, readVars, netVars, connVars, history
<1>1. TypePlaces'
  BY DEF TypePlaces, WriterType
<1>2. FreshInv'
  BY DEF FreshInv, Undialled, TypeRun, TypePlaces
<1>3. WorkersInv'
  BY DEF WorkersInv, TypeRun, TypePlaces
<1>4. TypeRun' /\ TypeFlags' /\ TypeMessages' /\ TypeCounts' /\ TypeAcks' /\ TypeQueues'
  BY DEF TypeRun, TypeFlags, TypeMessages, TypeCounts, TypeAcks, TypeQueues
<1>5. QueuesOK' /\ ReadyInv' /\ BackoffInv'
  BY DEF QueuesOK, ReadyInv, BackoffInv
<1> QED BY <1>1, <1>2, <1>3, <1>4, <1>5

LEMMA HeartbeatStopsInv ==
    ASSUME IInv, NEW s \in Sessions, heartbeatStops(s)
    PROVE  IInv'
<1> USE AgentAssumption DEF IInv, Types, Sessions, heartbeatStops, Cancelled,
        runVars, flagVars, ackVars, queueVars, readVars, netVars, connVars, history
<1>1. TypePlaces'
  BY DEF TypePlaces, WriterType
<1>2. FreshInv'
  BY DEF FreshInv, Undialled, TypeRun, TypePlaces
<1>3. WorkersInv'
  BY DEF WorkersInv, TypeRun, TypePlaces
<1>4. TypeRun' /\ TypeFlags' /\ TypeMessages' /\ TypeCounts' /\ TypeAcks' /\ TypeQueues'
  BY DEF TypeRun, TypeFlags, TypeMessages, TypeCounts, TypeAcks, TypeQueues
<1>5. QueuesOK' /\ ReadyInv' /\ BackoffInv'
  BY DEF QueuesOK, ReadyInv, BackoffInv
<1> QED BY <1>1, <1>2, <1>3, <1>4, <1>5

----------------------------------------------------------------------------
(* readLoop.                                                               *)

LEMMA ReadLoopInv == ASSUME IInv, NEW s \in Sessions, readLoop(s) PROVE IInv'
<1> USE AgentAssumption DEF IInv, Types, Sessions, readLoop, Cancelled, runVars,
        flagVars, ackVars, queueVars, hbVars, netVars, connVars, history
<1>1. TypePlaces'
  BY DEF TypePlaces, WriterType
<1>2. FreshInv'
  BY DEF FreshInv, Undialled, TypeRun, TypePlaces
<1>3. WorkersInv'
  BY DEF WorkersInv, TypeRun, TypePlaces
<1>4. ReadyInv'
  BY DEF ReadyInv, WorkersInv, TypeRun, TypeFlags, TypePlaces, TypeCounts
<1>5. TypeRun' /\ TypeFlags' /\ TypeMessages' /\ TypeCounts' /\ TypeAcks' /\ TypeQueues'
  BY DEF TypeRun, TypeFlags, TypeMessages, TypeCounts, TypeAcks, TypeQueues
<1>6. QueuesOK' /\ BackoffInv'
  BY DEF QueuesOK, BackoffInv
<1> QED BY <1>1, <1>2, <1>3, <1>4, <1>5, <1>6

LEMMA ReadErrorInv == ASSUME IInv, NEW s \in Sessions, readError(s) PROVE IInv'
<1> USE AgentAssumption DEF IInv, Types, Sessions, readError, runVars, flagVars,
        ackVars, queueVars, hbVars, netVars, connVars, history
<1>1. TypePlaces'
  BY DEF TypePlaces, WriterType
<1>2. FreshInv'
  BY DEF FreshInv, Undialled, TypeRun, TypePlaces
<1>3. WorkersInv'
  BY DEF WorkersInv, TypeRun, TypePlaces
<1>4. ReadyInv'
  BY DEF ReadyInv, WorkersInv, TypeRun, TypeFlags, TypePlaces, TypeCounts
<1>5. TypeRun' /\ TypeFlags' /\ TypeMessages' /\ TypeCounts' /\ TypeAcks' /\ TypeQueues'
  BY DEF TypeRun, TypeFlags, TypeMessages, TypeCounts, TypeAcks, TypeQueues
<1>6. QueuesOK' /\ BackoffInv'
  BY DEF QueuesOK, BackoffInv
<1> QED BY <1>1, <1>2, <1>3, <1>4, <1>5, <1>6

LEMMA ReadMessageInv == ASSUME IInv, NEW s \in Sessions, readMessage(s) PROVE IInv'
<1> USE AgentAssumption DEF IInv, Types, Sessions, readMessage, runVars, queueVars,
        hbVars, connVars
<1>1. TypeFlags'
  BY DEF TypeFlags
<1>2. TypePlaces'
  BY DEF TypePlaces, WriterType
<1>3. TypeMessages'
  <2>1. Tail(inbox[s]) \in Seq(Message)
    BY TailFacts DEF TypeMessages
  <2> QED BY <2>1 DEF TypeMessages
<1>4. TypeCounts'
  <2>1. Head(inbox[s]) \in Message
    BY TailFacts DEF TypeMessages
  <2>2. Head(inbox[s]).id \in Nat
    BY <2>1 DEF Message
  <2> QED BY <2>2 DEF TypeCounts
<1>5. FreshInv'
  BY DEF FreshInv, Undialled, TypeRun, TypePlaces
<1>6. WorkersInv'
  BY DEF WorkersInv, TypeRun, TypePlaces
<1>7. ReadyInv'
  <2>1. /\ UNCHANGED <<started, run>>
        /\ \/ UNCHANGED ready /\ reader' = [reader EXCEPT ![s] = "signal"]
           \/ ready = TRUE /\ ready' = TRUE /\ reader' = [reader EXCEPT ![s] = "top"]
           \/ ready = FALSE /\ ready' = TRUE /\ reader' = [reader EXCEPT ![s] = "starting"]
    BY DEF TypeFlags
  <2>2. s = session /\ \A x \in 1 .. MaxSessions : reader[x] = "starting" => x = session
    BY DEF WorkersInv
  <2>3. ready = FALSE => started = 0
    BY DEF ReadyInv, TypeCounts
  <2> HIDE DEF readMessage
  <2>4. ASSUME NEW x \in 1 .. MaxSessions, reader'[x] = "starting"
        PROVE  started = 0 /\ ready'
    <3>1. CASE x = s
      BY <2>1, <2>3, <2>4, <3>1 DEF TypePlaces
    <3>2. CASE x # s
      BY <2>2, <2>4, <2>1, <3>2, reader[s] = "read" DEF TypePlaces
    <3> QED BY <3>1, <3>2
  <2> QED BY <2>1, <2>4 DEF ReadyInv
<1>8. TypeRun' /\ TypeAcks' /\ TypeQueues'
  BY DEF TypeRun, TypeAcks, TypeQueues
<1>9. QueuesOK' /\ BackoffInv'
  BY DEF QueuesOK, BackoffInv
<1> QED BY <1>1, <1>2, <1>3, <1>4, <1>5, <1>6, <1>7, <1>8, <1>9

LEMMA StartedInv ==
    ASSUME IInv, NEW s \in Sessions, notifySessionStarted(s)
    PROVE  IInv'
<1> USE AgentAssumption DEF IInv, Types, Sessions, notifySessionStarted, runVars,
        flagVars, ackVars, queueVars, hbVars, netVars, connVars
<1>1. TypePlaces'
  BY DEF TypePlaces, WriterType
<1>2. TypeCounts'
  BY DEF TypeCounts
<1>3. FreshInv'
  BY DEF FreshInv, Undialled, TypeRun, TypePlaces
<1>4. WorkersInv'
  BY DEF WorkersInv, TypeRun, TypePlaces
<1>5. ReadyInv'
  BY DEF ReadyInv, WorkersInv, TypeRun, TypeFlags, TypePlaces, TypeCounts
<1>6. TypeRun' /\ TypeFlags' /\ TypeMessages' /\ TypeAcks' /\ TypeQueues'
  BY DEF TypeRun, TypeFlags, TypeMessages, TypeAcks, TypeQueues
<1>7. QueuesOK' /\ BackoffInv'
  BY DEF QueuesOK, BackoffInv
<1> QED BY <1>1, <1>2, <1>3, <1>4, <1>5, <1>6, <1>7

LEMMA SignalInv ==
    ASSUME IInv, NEW s \in Sessions, signalHeartbeatAck(s)
    PROVE  IInv'
<1> USE AgentAssumption DEF IInv, Types, Sessions, signalHeartbeatAck, runVars,
        flagVars, queueVars, hbVars, netVars, connVars
<1>1. TypePlaces'
  BY DEF TypePlaces, WriterType
<1>2. TypeCounts'
  <2>1. readId[s] \in Nat
    BY DEF TypeCounts
  <2>2. UNCHANGED dropped \/ dropped' = dropped \cup {readId[s]}
    OBVIOUS
  <2>3. dropped' \subseteq Nat
    BY <2>1, <2>2 DEF TypeCounts
  <2>4. /\ readId' = [readId EXCEPT ![s] = 0]
        /\ UNCHANGED <<hbId, beats, others, pushes, started, unguarded>>
    OBVIOUS
  <2> HIDE DEF signalHeartbeatAck
  <2> QED BY <2>3, <2>4 DEF TypeCounts
<1>3. TypeAcks'
  <2>1. readId[s] \in Nat /\ acks \in Seq(Nat)
    BY DEF TypeCounts, TypeAcks
  <2>2. UNCHANGED acks \/ acks' = Append(acks, readId[s])
    OBVIOUS
  <2> HIDE DEF signalHeartbeatAck
  <2> QED BY <2>1, <2>2 DEF TypeAcks
<1>4. FreshInv'
  BY DEF FreshInv, Undialled, TypeRun, TypePlaces
<1>5. WorkersInv'
  BY DEF WorkersInv, TypeRun, TypePlaces
<1>6. ReadyInv'
  BY DEF ReadyInv, WorkersInv, TypeRun, TypeFlags, TypePlaces, TypeCounts
<1>7. TypeRun' /\ TypeFlags' /\ TypeMessages' /\ TypeQueues'
  BY DEF TypeRun, TypeFlags, TypeMessages, TypeQueues
<1>8. QueuesOK' /\ BackoffInv'
  BY DEF QueuesOK, BackoffInv
<1> QED BY <1>1, <1>2, <1>3, <1>4, <1>5, <1>6, <1>7, <1>8

----------------------------------------------------------------------------
(* The server and the network.                                             *)

LEMMA ServerReadsInv == ASSUME IInv, NEW s \in Sessions, serverReads(s) PROVE IInv'
<1> USE AgentAssumption DEF IInv, Types, Sessions, serverReads, runVars, flagVars,
        ackVars, queueVars, hbVars, readVars, connVars, history
<1>1. TypeMessages'
  <2>1. wire[s] \in Seq(Message) /\ inbox[s] \in Seq(Message)
    BY DEF TypeMessages
  <2>2. Tail(wire[s]) \in Seq(Message) /\ Head(wire[s]) \in Message
    BY <2>1, TailFacts
  <2>3. Reply(Head(wire[s])) \in Seq(Message)
    <3> DEFINE m == Head(wire[s])
               ack == [type |-> "heartbeat_ack", id |-> m.id]
               snapshot == [type |-> "tunnel_snapshot", id |-> 0]
    <3>1. ack \in Message /\ snapshot \in Message
      BY <2>2 DEF Message
    <3>2. Reply(m) \in {<<ack>>, <<snapshot>>, <<>>}
      BY DEF Reply
    <3> HIDE DEF ack, snapshot
    <3>3. <<ack>> \in Seq(Message) /\ <<snapshot>> \in Seq(Message)
      BY <3>1
    <3> QED BY <3>2, <3>3, EmptyLane
  <2> DEFINE r == Reply(Head(wire[s]))
  <2> HIDE DEF r
  <2>4. inbox[s] \o r \in Seq(Message)
    BY <2>1, <2>3 DEF r
  <2> QED BY <2>2, <2>4 DEF TypeMessages, r
<1>2. TypeRun' /\ TypeFlags' /\ TypePlaces' /\ TypeCounts' /\ TypeAcks' /\ TypeQueues'
  BY DEF TypeRun, TypeFlags, TypePlaces, TypeCounts, TypeAcks, TypeQueues
<1>3. QueuesOK' /\ FreshInv' /\ WorkersInv' /\ ReadyInv' /\ BackoffInv'
  BY DEF QueuesOK, FreshInv, WorkersInv, ReadyInv, BackoffInv, Undialled
<1> QED BY <1>1, <1>2, <1>3

LEMMA ServerPushesInv ==
    ASSUME IInv, NEW s \in Sessions, serverPushes(s)
    PROVE  IInv'
<1> USE AgentAssumption DEF IInv, Types, Sessions, serverPushes, runVars, flagVars,
        ackVars, queueVars, hbVars, readVars, connVars
<1>1. TypeMessages'
  <2>1. [type |-> "tunnel_snapshot", id |-> 0] \in Message
    BY DEF Message
  <2>2. Append(inbox[s], [type |-> "tunnel_snapshot", id |-> 0]) \in Seq(Message)
    BY <2>1, AppendFacts DEF TypeMessages
  <2> QED BY <2>2 DEF TypeMessages
<1>2. TypeCounts'
  BY DEF TypeCounts
<1>3. TypeRun' /\ TypeFlags' /\ TypePlaces' /\ TypeAcks' /\ TypeQueues'
  BY DEF TypeRun, TypeFlags, TypePlaces, TypeAcks, TypeQueues
<1>4. QueuesOK' /\ FreshInv' /\ WorkersInv' /\ ReadyInv' /\ BackoffInv'
  BY DEF QueuesOK, FreshInv, WorkersInv, ReadyInv, BackoffInv, Undialled
<1> QED BY <1>1, <1>2, <1>3, <1>4

LEMMA LinkBreaksInv == ASSUME IInv, NEW s \in Sessions, linkBreaks(s) PROVE IInv'
<1> USE AgentAssumption DEF IInv, Types, Sessions, linkBreaks, runVars, flagVars,
        ackVars, queueVars, hbVars, readVars, connVars, history
<1>1. TypePlaces'
  BY DEF TypePlaces, WriterType
<1>2. TypeMessages'
  BY EmptyLane DEF TypeMessages
<1>3. TypeRun' /\ TypeFlags' /\ TypeCounts' /\ TypeAcks' /\ TypeQueues'
  BY DEF TypeRun, TypeFlags, TypeCounts, TypeAcks, TypeQueues
<1>4. QueuesOK' /\ FreshInv' /\ WorkersInv' /\ ReadyInv' /\ BackoffInv'
  BY DEF QueuesOK, FreshInv, WorkersInv, ReadyInv, BackoffInv, Undialled
<1> QED BY <1>1, <1>2, <1>3, <1>4

----------------------------------------------------------------------------
(* The operations that change a queue.                                     *)

(* Nothing is written to, or taken from, the queue of a session before its *)
(* hello.                                                                  *)
LEMMA QueueStep ==
    ASSUME IInv, NEW s \in Sessions,
           q' \in [Sessions -> QueueType], QueueOK(q'[s]),
           \A x \in Sessions \ {s} : q'[x] = q[x]
    PROVE  QueuesOK'
  BY DEF IInv, QueuesOK

LEMMA WakeType ==
    ASSUME Types, NEW s \in Sessions,
           UNCHANGED writer \/ writer' = [writer EXCEPT ![s] = Wake(@)]
    PROVE  /\ writer' \in [Sessions -> WriterType]
           /\ \A x \in Sessions : writer[x] = "none" <=> writer'[x] = "none"
  BY DEF Types, TypePlaces, WriterType, Wake

LEMMA SendHelloInv == ASSUME IInv, sendHello PROVE IInv'
<1> USE AgentAssumption DEF IInv, Types, sendHello
<1> DEFINE m == [type |-> "hello", id |-> 0]
<1>1. Types /\ QueuesOK /\ session \in Sessions /\ m \in Message
  BY DEF FreshInv, Message
<1>2. ~q[session].closed /\ writeJSON(session, m)
  BY <1>1 DEF FreshInv, EmptyQueue
<1> HIDE DEF m
<1>3. /\ q' \in [Sessions -> QueueType] /\ QueueOK(q'[session])
      /\ \A x \in Sessions \ {session} : q'[x] = q[x]
      /\ UNCHANGED writer \/ writer' = [writer EXCEPT ![session] = Wake(@)]
  BY <1>1, <1>2, WriteFacts
<1>4. /\ writer' \in [Sessions -> WriterType]
      /\ \A x \in Sessions : writer[x] = "none" <=> writer'[x] = "none"
  BY <1>1, <1>3, WakeType
<1>5. QueuesOK'
  BY <1>1, <1>3, QueueStep
<1> USE <1>1, <1>3, <1>4 DEF flagVars, connVars, netVars, history, Sessions
<1>6. TypeRun' /\ TypePlaces'
  BY DEF TypeRun, TypePlaces, WriterType
<1>6a. TypeMessages' /\ TypeQueues' /\ TypeAcks'
  BY EmptyLane DEF TypeMessages, TypeQueues, TypeAcks
<1>6b. TypeFlags' /\ TypeCounts'
  BY DEF TypeFlags, TypeCounts
<1>7. FreshInv'
  <2>1. /\ run' = "running" /\ UNCHANGED session
        /\ hb' = [hb EXCEPT ![session] = "send"]
        /\ reader' = [reader EXCEPT ![session] = "top"]
    OBVIOUS
  <2> HIDE DEF sendHello
  <2>2. \A x \in Sessions : Undialled(x)' => Undialled(x) /\ x # session
    BY <2>1 DEF Undialled, TypeRun
  <2> QED BY <2>1, <2>2 DEF FreshInv, TypePlaces
<1>8. WorkersInv'
  BY DEF WorkersInv, TypeRun, TypePlaces
<1>9. ReadyInv' /\ BackoffInv'
  BY DEF ReadyInv, BackoffInv, TypeRun, TypeFlags, TypePlaces, TypeCounts
<1> QED BY <1>5, <1>6, <1>6a, <1>6b, <1>7, <1>8, <1>9

LEMMA CloseControlInv == ASSUME IInv, closeControl PROVE IInv'
<1> USE AgentAssumption DEF IInv, Types, closeControl
<1>1. Types /\ QueuesOK /\ session \in Sessions /\ q \in [Sessions -> QueueType]
  BY DEF FreshInv, TypeQueues
<1>2. /\ q' = [q EXCEPT ![session] = Closed(session)]
      /\ writer' = [writer EXCEPT ![session] = Wake(@)]
  BY DEF closeQueue
<1>3. /\ q' \in [Sessions -> QueueType] /\ QueueOK(q'[session])
      /\ \A x \in Sessions \ {session} : q'[x] = q[x]
  BY <1>1, <1>2, ClosedOK
<1>4. /\ writer' \in [Sessions -> WriterType]
      /\ \A x \in Sessions : writer[x] = "none" <=> writer'[x] = "none"
  BY <1>1, <1>2, WakeType
<1>5. QueuesOK'
  BY <1>1, <1>3, QueueStep
<1> USE <1>1, <1>3, <1>4 DEF flagVars, ackVars, connVars, hbVars, readVars, netVars,
        history, Sessions
<1>6. TypeRun' /\ TypePlaces'
  BY DEF TypeRun, TypePlaces, WriterType
<1>6a. TypeMessages' /\ TypeQueues' /\ TypeAcks'
  BY EmptyLane DEF TypeMessages, TypeQueues, TypeAcks
<1>6b. TypeFlags' /\ TypeCounts'
  BY DEF TypeFlags, TypeCounts
<1>7. FreshInv'
  <2>1. run = "cancelled" /\ run' = "closing" /\ UNCHANGED <<session, hb, reader>>
    OBVIOUS
  <2> HIDE DEF closeControl
  <2>2. \A x \in Sessions : Undialled(x)' => Undialled(x) /\ x # session
    BY <2>1 DEF Undialled, TypeRun
  <2> QED BY <2>1, <2>2 DEF FreshInv
<1>8. WorkersInv'
  BY DEF WorkersInv, TypeRun, TypePlaces
<1>9. ReadyInv' /\ BackoffInv'
  BY DEF ReadyInv, BackoffInv, TypeRun, TypeFlags, TypePlaces, TypeCounts
<1> QED BY <1>5, <1>6, <1>6a, <1>6b, <1>7, <1>8, <1>9

LEMMA TakesInv == ASSUME IInv, NEW s \in Sessions, nextTakes(s) PROVE IInv'
<1> USE AgentAssumption DEF IInv, Types
<1>1. Types /\ QueuesOK
  OBVIOUS
<1>2. /\ q' \in [Sessions -> QueueType] /\ QueueOK(q'[s])
      /\ \A x \in Sessions \ {s} : q'[x] = q[x]
      /\ item' \in [Sessions -> Message]
  BY <1>1, TakeFacts
<1>3. ~Undialled(s) /\ ~(s = session /\ run = "hello")
  BY DEF nextTakes, FreshInv, EmptyQueue
<1>4. /\ writer[s] = "next" /\ writer' = [writer EXCEPT ![s] = "writing"]
      /\ UNCHANGED <<runVars, stopped, flagVars, ackVars, connVars, link, hbVars, readVars,
                     netVars, history>>
  BY DEF nextTakes
<1>5. QueuesOK'
  BY <1>2, QueueStep
<1> USE <1>2, <1>4 DEF runVars, flagVars, ackVars, connVars, hbVars, readVars, netVars,
        history, Sessions
<1>6. TypeRun' /\ TypePlaces'
  BY DEF TypeRun, TypePlaces, WriterType
<1>6a. TypeMessages' /\ TypeQueues' /\ TypeAcks'
  BY EmptyLane DEF TypeMessages, TypeQueues, TypeAcks
<1>6b. TypeFlags' /\ TypeCounts'
  BY DEF TypeFlags, TypeCounts
<1>7. FreshInv'
  BY <1>3 DEF FreshInv, Undialled, TypeRun, TypePlaces
<1>8. WorkersInv'
  BY DEF WorkersInv, TypeRun, TypePlaces
<1>9. ReadyInv' /\ BackoffInv'
  BY DEF ReadyInv, BackoffInv, TypeRun, TypeFlags, TypePlaces, TypeCounts
<1> QED BY <1>5, <1>6, <1>6a, <1>6b, <1>7, <1>8, <1>9

LEMMA FailInv == ASSUME IInv, NEW s \in Sessions, fail(s) PROVE IInv'
<1> USE AgentAssumption DEF IInv, Types, fail
<1>1. q \in [Sessions -> QueueType] /\ QueueOK(q[s])
  BY DEF TypeQueues, QueuesOK
<1>2. UNCHANGED q \/ q' = [q EXCEPT ![s] = Closed(s)]
  OBVIOUS
<1>3. /\ q' \in [Sessions -> QueueType] /\ QueueOK(q'[s])
      /\ \A x \in Sessions \ {s} : q'[x] = q[x]
  BY <1>1, <1>2, ClosedOK
<1>4. ~Undialled(s) /\ ~(s = session /\ run = "hello")
  BY DEF FreshInv
<1>5. QueuesOK'
  BY <1>3, QueueStep
<1> USE <1>3 DEF runVars, flagVars, ackVars, connVars, hbVars, readVars, netVars,
        history, Sessions
<1>6. TypeRun' /\ TypePlaces'
  BY DEF TypeRun, TypePlaces, WriterType
<1>6a. TypeMessages' /\ TypeQueues' /\ TypeAcks'
  BY EmptyLane DEF TypeMessages, TypeQueues, TypeAcks
<1>6b. TypeFlags' /\ TypeCounts'
  BY DEF TypeFlags, TypeCounts
<1>7. FreshInv'
  BY <1>4 DEF FreshInv, Undialled, TypeRun, TypePlaces
<1>8. WorkersInv'
  BY DEF WorkersInv, TypeRun, TypePlaces
<1>9. ReadyInv' /\ BackoffInv'
  BY DEF ReadyInv, BackoffInv, TypeRun, TypeFlags, TypePlaces, TypeCounts
<1> QED BY <1>5, <1>6, <1>6a, <1>6b, <1>7, <1>8, <1>9

LEMMA SendHeartbeatInv == ASSUME IInv, NEW s \in Sessions, sendHeartbeat(s) PROVE IInv'
<1> USE AgentAssumption DEF IInv, Types, sendHeartbeat
<1> DEFINE m == [type |-> "heartbeat", id |-> beats + 1]
<1>1. /\ Types /\ QueuesOK /\ m \in Message
      /\ q \in [Sessions -> QueueType] /\ QueueOK(q[s])
  BY DEF Message, TypeCounts, TypeQueues, QueuesOK
<1>2. \/ q[s].closed /\ UNCHANGED <<q, writer>>
      \/ ~q[s].closed /\ writeJSON(s, m)
  OBVIOUS
<1> HIDE DEF m
<1>3. /\ q' \in [Sessions -> QueueType] /\ QueueOK(q'[s])
      /\ \A x \in Sessions \ {s} : q'[x] = q[x]
      /\ UNCHANGED writer \/ writer' = [writer EXCEPT ![s] = Wake(@)]
  BY <1>1, <1>2, WriteFacts
<1>4. /\ writer' \in [Sessions -> WriterType]
      /\ \A x \in Sessions : writer[x] = "none" <=> writer'[x] = "none"
  BY <1>1, <1>3, WakeType
<1>5. ~Undialled(s) /\ s = session /\ run \in {"running", "cancelled", "closing", "joining"}
  BY DEF FreshInv, WorkersInv
<1>6. QueuesOK'
  BY <1>3, QueueStep
<1> USE <1>3, <1>4 DEF runVars, flagVars, ackVars, connVars, readVars, netVars, Sessions
<1>7. TypeRun' /\ TypePlaces'
  <2>1. \/ hb' = [hb EXCEPT ![s] = "done"]
        \/ hb' = [hb EXCEPT ![s] = "ping"]
    OBVIOUS
  <2>2. UNCHANGED <<run, session, backoff, acksOf, cancelled, transport, link, reader>>
    OBVIOUS
  <2> HIDE DEF sendHeartbeat
  <2> QED BY <2>1, <2>2 DEF TypeRun, TypePlaces
<1>7a. TypeMessages' /\ TypeQueues' /\ TypeAcks'
  BY EmptyLane DEF TypeMessages, TypeQueues, TypeAcks
<1>7b. TypeFlags' /\ TypeCounts'
  <2>1. /\ UNCHANGED <<stopped, flagVars, ackEnabled, readId, others, pushes, started, dropped>>
        /\ beats' = beats + 1 /\ hbId' = [hbId EXCEPT ![s] = beats + 1]
        /\ UNCHANGED unguarded \/ unguarded' = [unguarded EXCEPT ![s] = @ + 1]
    BY DEF TypeCounts
  <2> HIDE DEF sendHeartbeat
  <2>2. TypeFlags'
    BY <2>1 DEF TypeFlags
  <2> DEFINE n == unguarded[s] + 1
  <2>2a. n \in Nat /\ beats + 1 \in Nat
    BY DEF TypeCounts
  <2>2b. UNCHANGED unguarded \/ unguarded' = [unguarded EXCEPT ![s] = n]
    BY <2>1
  <2> HIDE DEF n
  <2>3. unguarded' \in [Sessions -> Nat] /\ beats' \in Nat
    BY <2>1, <2>2a, <2>2b DEF TypeCounts
  <2>4. TypeCounts'
    BY <2>1, <2>3 DEF TypeCounts
  <2> QED BY <2>2, <2>4
<1>8. FreshInv'
  BY <1>5 DEF FreshInv, Undialled, TypeRun, TypePlaces
<1>9. WorkersInv'
  BY <1>5 DEF WorkersInv, TypeRun, TypePlaces
<1>10. ReadyInv' /\ BackoffInv'
  BY DEF ReadyInv, BackoffInv, TypeRun, TypeFlags, TypePlaces, TypeCounts
<1> QED BY <1>6, <1>7, <1>7a, <1>7b, <1>8, <1>9, <1>10

LEMMA WorkerWritesInv ==
    ASSUME IInv, NEW s \in Sessions, NEW type \in {"connection_failed", "udp_packet"},
           workerWrites(s, type)
    PROVE  IInv'
<1> USE AgentAssumption DEF IInv, Types, workerWrites
<1> DEFINE m == [type |-> type, id |-> 0]
<1>1. /\ Types /\ QueuesOK /\ m \in Message
      /\ q \in [Sessions -> QueueType] /\ QueueOK(q[s])
  BY DEF Message, TypeCounts, TypeQueues, QueuesOK
<1>2. \/ UNCHANGED <<q, writer>>
      \/ ~q[s].closed /\ writeJSON(s, m)
  BY DEF Refused
<1> HIDE DEF m
<1>3. /\ q' \in [Sessions -> QueueType] /\ QueueOK(q'[s])
      /\ \A x \in Sessions \ {s} : q'[x] = q[x]
      /\ UNCHANGED writer \/ writer' = [writer EXCEPT ![s] = Wake(@)]
  BY <1>1, <1>2, WriteFacts
<1>4. /\ writer' \in [Sessions -> WriterType]
      /\ \A x \in Sessions : writer[x] = "none" <=> writer'[x] = "none"
  BY <1>1, <1>3, WakeType
<1>5. ~Undialled(s) /\ ~(s = session /\ run = "hello")
  BY DEF FreshInv
<1>6. QueuesOK'
  BY <1>3, QueueStep
<1> USE <1>3, <1>4 DEF runVars, flagVars, ackVars, connVars, hbVars, readVars, netVars,
        Sessions
<1>7. TypeRun' /\ TypePlaces'
  BY DEF TypeRun, TypePlaces, WriterType
<1>7a. TypeMessages' /\ TypeQueues' /\ TypeAcks'
  BY EmptyLane DEF TypeMessages, TypeQueues, TypeAcks
<1>7b. TypeFlags' /\ TypeCounts'
  BY DEF TypeFlags, TypeCounts
<1>8. FreshInv'
  BY <1>5 DEF FreshInv, Undialled, TypeRun, TypePlaces
<1>9. WorkersInv'
  BY DEF WorkersInv, TypeRun, TypePlaces
<1>10. ReadyInv' /\ BackoffInv'
  BY DEF ReadyInv, BackoffInv, TypeRun, TypeFlags, TypePlaces, TypeCounts
<1> QED BY <1>6, <1>7, <1>7a, <1>7b, <1>8, <1>9, <1>10

----------------------------------------------------------------------------
LEMMA NextInv == IInv /\ [Next]_vars => IInv'
<1> SUFFICES ASSUME IInv, [Next]_vars PROVE IInv'
  OBVIOUS
<1>1. CASE Run \/ stop
  BY <1>1, BeginInv, DialInv, QuicInv, WebSocketInv, SendHelloInv, WorkerEndedInv,
     CloseControlInv, CloseBaseInv, JoinInv, ReturnedInv, SleepInv, RunReturnsInv,
     StopInv DEF Run
<1>2. ASSUME NEW s \in Sessions, Writer(s) PROVE IInv'
  BY <1>2, WaitsInv, StopsInv, TakesInv, BaseWritesInv, FailInv, FailClosesInv DEF Writer
<1>3. ASSUME NEW s \in Sessions, Heartbeat(s) PROVE IInv'
  BY <1>3, SendHeartbeatInv, PingInv, CheckInv, ReceiveInv, AckTimeoutInv, TickInv,
     HeartbeatStopsInv DEF Heartbeat
<1>4. ASSUME NEW s \in Sessions, Reader(s) PROVE IInv'
  BY <1>4, ReadLoopInv, ReadErrorInv, ReadMessageInv, StartedInv, SignalInv DEF Reader
<1>5. ASSUME NEW s \in Sessions, NEW type \in {"connection_failed", "udp_packet"},
             workerWrites(s, type)
      PROVE  IInv'
  BY <1>5, WorkerWritesInv
<1>6. ASSUME NEW s \in Sessions, serverReads(s) \/ serverPushes(s) \/ linkBreaks(s)
      PROVE  IInv'
  BY <1>6, ServerReadsInv, ServerPushesInv, LinkBreaksInv
<1>7. CASE UNCHANGED vars
  <2>1. Types'
    BY <1>7 DEF vars, IInv, Types, TypeRun, TypeFlags, TypePlaces, TypeMessages,
           TypeCounts, TypeAcks, TypeQueues
  <2>2. QueuesOK' /\ FreshInv'
    BY <1>7 DEF vars, IInv, QueuesOK, FreshInv, Undialled
  <2>3. WorkersInv' /\ ReadyInv' /\ BackoffInv'
    BY <1>7 DEF vars, IInv, WorkersInv, ReadyInv, BackoffInv
  <2> QED BY <2>1, <2>2, <2>3 DEF IInv
<1> QED BY <1>1, <1>2, <1>3, <1>4, <1>5, <1>6, <1>7 DEF Next

(* The inductive invariant holds in every reachable state.                 *)
THEOREM Invariance == Spec => []IInv
<1>1. Init => IInv
  BY InitInv
<1>2. IInv /\ [Next]_vars => IInv'
  BY NextInv
<1> QED BY <1>1, <1>2, PTL DEF Spec

(* The positions of the goroutines, the queues, the acknowledgement        *)
(* channel and the network keep their types.                               *)
THEOREM TypeCorrect == Spec => []TypeOK
<1>1. IInv => TypeOK
  BY TypeParts DEF IInv
<1> QED BY <1>1, Invariance, PTL

(* heartbeatQueued is set exactly while one heartbeat is queued and        *)
(* queuedCount is the length of the three lanes, whatever mix of writes,   *)
(* dequeues, write failures and closes ran.                                *)
THEOREM HeartbeatFlag == Spec => []HeartbeatFlagTrue
<1>1. IInv => HeartbeatFlagTrue
  BY FlagsTrue, TypeParts DEF IInv
<1> QED BY <1>1, Invariance, PTL

(* The heartbeat and the read loop of a session are gone before Run dials  *)
(* the next one, and SessionStarted and SessionEnded alternate.            *)
THEOREM NoOverlap == Spec => []SessionsDoNotOverlap
<1>1. IInv => SessionsDoNotOverlap
  BY DEF IInv, WorkersInv, ReadyInv, SessionsDoNotOverlap
<1> QED BY <1>1, Invariance, PTL

(* The wait before the next dial is never shortened but by consuming an    *)
(* established session, and is ReconnectMin after one.                     *)
THEOREM BackoffShrinks == Spec => BackoffShrinksOnlyAfterSession
<1> DEFINE Step == /\ backoff' < backoff => established /\ ~established'
                   /\ run' = "resume" => backoff' = ReconnectMin
                   /\ backoff' \in ReconnectMin .. ReconnectMax
<1>1. IInv /\ IInv' /\ [Next]_vars => [Step]_vars
  <2> SUFFICES ASSUME IInv, IInv', Next PROVE Step
    OBVIOUS
  <2>1. backoff \in Nat /\ backoff' \in ReconnectMin .. ReconnectMax
    BY AgentAssumption DEF IInv, Types, TypeRun, TypeFlags, BackoffInv
  <2>2. CASE sessionReturned
    BY <2>1, <2>2, AgentAssumption DEF IInv, Types, TypeRun, TypeFlags, BackoffInv, sessionReturned
  <2>3. CASE sleepEnds
    BY <2>1, <2>3, AgentAssumption DEF IInv, Types, TypeRun, TypeFlags, BackoffInv, sleepEnds, nextBackoff
  <2>4. CASE Run /\ ~sessionReturned /\ ~sleepEnds
    <3>1. UNCHANGED backoff /\ run' # "resume"
      BY <2>4 DEF Run, beginSession, dialControl, dialQUICControl, dialWebSocketControl,
             Connect, DialFails, sendHello, workerEnded, closeControl, closeBase,
             joinWorkers, runReturns
    <3> QED BY <2>1, <3>1
  <2>5. CASE stop \/ \E s \in Sessions :
               \/ Writer(s) \/ Heartbeat(s) \/ Reader(s)
               \/ \E type \in {"connection_failed", "udp_packet"} : workerWrites(s, type)
               \/ serverReads(s) \/ serverPushes(s) \/ linkBreaks(s)
    <3>1. UNCHANGED <<run, backoff>>
      BY <2>5 DEF stop, Writer, nextWaits, nextStops, nextTakes, baseWrites, fail,
             failCloses, Heartbeat, sendHeartbeat, ping, checkAckRequired, receiveAck,
             ackTimeout, tick, heartbeatStops, Reader, readLoop, readError, readMessage,
             notifySessionStarted, signalHeartbeatAck, workerWrites, serverReads,
             serverPushes, linkBreaks, runVars
    <3> QED BY <2>1, <3>1 DEF IInv, BackoffInv
  <2> QED BY <2>2, <2>3, <2>4, <2>5 DEF Next
<1> QED BY <1>1, Invariance, PTL DEF Spec, BackoffShrinksOnlyAfterSession
=============================================================================
