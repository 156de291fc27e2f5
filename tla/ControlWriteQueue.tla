------------------------- MODULE ControlWriteQueue -------------------------
(***************************************************************************)
(* The per-session write queue of the server's control channel             *)
(* (server/client/control_write_queue.go).                                 *)
(*                                                                         *)
(* Any goroutine may enqueue a message, any goroutine may close the queue, *)
(* and one writer goroutine takes messages out and writes them to the      *)
(* transport outside the lock.  A caller of enqueueWait additionally waits *)
(* for the answer on a channel of capacity one, or for its context.        *)
(*                                                                         *)
(* A member of Messages stands for one call of enqueue (or enqueueWait, if *)
(* it is in Waits) with the message it carries.  An action is what one     *)
(* goroutine does between two points where it takes or releases q.mu,      *)
(* sends on a channel or calls the transport.                              *)
(***************************************************************************)
EXTENDS Integers, Sequences, FiniteSets

CONSTANTS
    Messages,                 \* the calls that may happen
    Type,                     \* protocol.ControlMessage.Type of each
    Size,                     \* controlMessageSize of each
    Waits,                    \* the calls made with enqueueWait
    MaxControlQueueMessages,
    MaxControlQueueBytes,
    UrgentLimit,              \* the 32 of next(): urgent messages in a row
    NoMessage

MessageTypes == {"heartbeat", "heartbeat_ack", "hello", "open_connection",
                 "request_work_connection", "p2p_connect", "tunnel_snapshot",
                 "visitor_webrtc", "connection_failed",
                 "udp_packet", "tunnel_path", "error"}

ASSUME QueueAssumption ==
    /\ Type \in [Messages -> MessageTypes]
    /\ Size \in [Messages -> Nat]
    /\ Waits \subseteq Messages
    /\ MaxControlQueueMessages \in Nat
    /\ MaxControlQueueBytes \in Nat
    /\ UrgentLimit \in Nat \ {0}   \* 32 in next()
    /\ NoMessage \notin Messages

VARIABLES
    critical, urgent, normal, \* the three lanes, sequences of messages
    queuedCount, queuedBytes, urgentBudget, closed,
    writer,                   \* where the goroutine of run() is
    item, writeErr,           \* its local variables message and err
    pending,                  \* drained by close/fail, not yet completed
    done,                     \* content of each waiter's done channel
    call,                     \* what each caller knows
    wire,                     \* messages the transport delivered, in order
    accepted                  \* history: accepted messages, in order, each
                              \* with the length of the wire at that time

lanes == <<critical, urgent, normal>>
counters == <<queuedCount, queuedBytes, urgentBudget>>
vars == <<critical, urgent, normal, queuedCount, queuedBytes, urgentBudget,
          closed, writer, item, writeErr, pending, done, call, wire, accepted>>

Errors == {"nil", "broken", "closed"}
Failures == {"broken", "closed"}
Outcomes == {"nil", "broken", "closed", "full", "timeout", "accepted"}

----------------------------------------------------------------------------
isCriticalControlMessage(m) == Type[m] \in {"heartbeat", "heartbeat_ack"}

isUrgentControlMessage(m) ==
    Type[m] \in {"heartbeat", "hello", "open_connection",
                 "request_work_connection", "p2p_connect", "tunnel_snapshot",
                 "visitor_webrtc", "connection_failed", "heartbeat_ack"}

queueFull(m) == \/ queuedCount >= MaxControlQueueMessages
                \/ queuedBytes + Size[m] > MaxControlQueueBytes

InCritical(m) == isCriticalControlMessage(m)
InUrgent(m) == ~isCriticalControlMessage(m) /\ isUrgentControlMessage(m)
InNormal(m) == ~isCriticalControlMessage(m) /\ ~isUrgentControlMessage(m)

Init ==
    /\ critical = <<>> /\ urgent = <<>> /\ normal = <<>>
    /\ queuedCount = 0 /\ queuedBytes = 0 /\ urgentBudget = 0
    /\ closed = FALSE
    /\ writer = "next" /\ item = NoMessage /\ writeErr = "nil"
    /\ pending = <<>>
    /\ done = [m \in Messages |-> "none"]
    /\ call = [m \in Messages |-> "new"]
    /\ wire = <<>> /\ accepted = <<>>

(* condition.Signal and condition.Broadcast: only the writer ever waits.   *)
WakeWriter == writer' = IF writer = "waiting" THEN "next" ELSE writer

----------------------------------------------------------------------------
(* Callers.                                                                *)

RefuseClosed(m) ==
    /\ call[m] = "new"
    /\ closed
    /\ call' = [call EXCEPT ![m] = "closed"]
    /\ UNCHANGED <<lanes, counters, closed, writer, item, writeErr, pending,
                   done, wire, accepted>>

RefuseFull(m) ==
    /\ call[m] = "new"
    /\ ~closed
    /\ ~isCriticalControlMessage(m) /\ queueFull(m)
    /\ call' = [call EXCEPT ![m] = "full"]
    /\ UNCHANGED <<lanes, counters, closed, writer, item, writeErr, pending,
                   done, wire, accepted>>

AppendIf(lane, m, here) == IF here THEN Append(lane, m) ELSE lane

Admit(m) ==
    /\ queuedCount' = queuedCount + 1
    /\ queuedBytes' = queuedBytes + Size[m]

enqueueItem(m) ==
    /\ call[m] = "new"
    /\ ~closed
    /\ isCriticalControlMessage(m) \/ ~queueFull(m)
    /\ critical' = AppendIf(critical, m, InCritical(m))
    /\ urgent' = AppendIf(urgent, m, InUrgent(m))
    /\ normal' = AppendIf(normal, m, InNormal(m))
    /\ Admit(m)
    /\ WakeWriter
    /\ call' = [call EXCEPT ![m] = IF m \in Waits THEN "waiting" ELSE "accepted"]
    /\ accepted' = Append(accepted, [msg |-> m, at |-> Len(wire)])
    /\ UNCHANGED <<urgentBudget, closed, item, writeErr, pending, done, wire>>

(* The select of enqueueWait: its two cases race.                          *)
ReceiveDone(m) ==
    /\ call[m] = "waiting" /\ done[m] # "none"
    /\ call' = [call EXCEPT ![m] = done[m]]
    /\ done' = [done EXCEPT ![m] = "none"]
    /\ UNCHANGED <<lanes, counters, closed, writer, item, writeErr, pending,
                   wire, accepted>>

ContextDone(m) ==
    /\ call[m] = "waiting"
    /\ call' = [call EXCEPT ![m] = "timeout"]
    /\ UNCHANGED <<lanes, counters, closed, writer, item, writeErr, pending,
                   done, wire, accepted>>

----------------------------------------------------------------------------
(* Closing.  The lanes are emptied under the lock; their messages are      *)
(* completed after it is released, while other goroutines run.             *)

Queued == critical \o urgent \o normal

Failed(s, cause) == [i \in 1 .. Len(s) |-> [msg |-> s[i], err |-> cause]]

(* Seeded faults: the counters are not reset; one lane is not emptied; the *)
(* drained messages are not completed.                                     *)
DrainUncounted(cause) ==
    /\ pending' = pending \o Failed(Queued, cause)
    /\ closed' = TRUE
    /\ critical' = <<>> /\ urgent' = <<>> /\ normal' = <<>>
    /\ UNCHANGED <<queuedCount, queuedBytes>>

DrainPartly(cause) ==
    /\ pending' = pending \o Failed(Queued, cause)
    /\ closed' = TRUE
    /\ critical' = <<>> /\ normal' = <<>> /\ UNCHANGED urgent
    /\ queuedCount' = Len(urgent) /\ queuedBytes' = 0

DrainSilently(cause) ==
    /\ UNCHANGED pending
    /\ closed' = TRUE
    /\ critical' = <<>> /\ urgent' = <<>> /\ normal' = <<>>
    /\ queuedCount' = 0 /\ queuedBytes' = 0

Drain(cause) ==
    /\ pending' = pending \o Failed(Queued, cause)
    /\ closed' = TRUE
    /\ critical' = <<>> /\ urgent' = <<>> /\ normal' = <<>>
    /\ queuedCount' = 0 /\ queuedBytes' = 0

close ==
    /\ Drain("closed")
    /\ WakeWriter
    /\ UNCHANGED <<urgentBudget, item, writeErr, done, call, wire, accepted>>

(* message.done <- err: a full channel blocks the sender.                  *)
completeQueuedMessage(m, err) ==
    IF m \in Waits
    THEN done[m] = "none" /\ done' = [done EXCEPT ![m] = err]
    ELSE UNCHANGED done

completeQueuedMessages ==
    /\ pending # <<>>
    /\ completeQueuedMessage(Head(pending).msg, Head(pending).err)
    /\ pending' = Tail(pending)
    /\ UNCHANGED <<lanes, counters, closed, writer, item, writeErr, call, wire,
                   accepted>>

----------------------------------------------------------------------------
(* The writer: run(), next() and fail().                                   *)

nextWaits ==
    /\ writer = "next"
    /\ critical = <<>> /\ urgent = <<>> /\ normal = <<>> /\ ~closed
    /\ writer' = "waiting"
    /\ UNCHANGED <<lanes, counters, closed, item, writeErr, pending, done,
                   call, wire, accepted>>

nextStops ==
    /\ writer = "next" /\ closed
    /\ writer' = "stopped"
    /\ UNCHANGED <<lanes, counters, closed, item, writeErr, pending, done,
                   call, wire, accepted>>

Take(m) ==
    /\ item' = m
    /\ writer' = "writing"
    /\ queuedCount' = queuedCount - 1
    /\ queuedBytes' = queuedBytes - Size[m]
    /\ UNCHANGED <<closed, writeErr, pending, done, call, wire, accepted>>

nextCritical ==
    /\ writer = "next" /\ ~closed
    /\ critical # <<>>
    /\ critical' = Tail(critical)
    /\ Take(Head(critical))
    /\ UNCHANGED <<urgent, normal, urgentBudget>>

(* Seeded fault: the budget is never consulted.                            *)
nextUrgentAlways ==
    /\ writer = "next" /\ ~closed
    /\ critical = <<>> /\ urgent # <<>>
    /\ urgent' = Tail(urgent)
    /\ urgentBudget' = urgentBudget + 1
    /\ Take(Head(urgent))
    /\ UNCHANGED <<critical, normal>>

nextUrgent ==
    /\ writer = "next" /\ ~closed
    /\ critical = <<>> /\ urgent # <<>>
    /\ urgentBudget < UrgentLimit \/ normal = <<>>
    /\ urgent' = Tail(urgent)
    /\ urgentBudget' = urgentBudget + 1
    /\ Take(Head(urgent))
    /\ UNCHANGED <<critical, normal>>

nextNormal ==
    /\ writer = "next" /\ ~closed
    /\ critical = <<>> /\ normal # <<>>
    /\ urgent = <<>> \/ urgentBudget >= UrgentLimit
    /\ normal' = Tail(normal)
    /\ urgentBudget' = 0
    /\ Take(Head(normal))
    /\ UNCHANGED <<critical, urgent>>

(* conn.WriteJSON: when it fails the bytes may or may not have left.       *)
WriteJSON ==
    /\ writer = "writing"
    /\ \/ writeErr' = "nil" /\ wire' = Append(wire, item)
       \/ writeErr' = "broken" /\ wire' \in {wire, Append(wire, item)}
    /\ writer' = "completing"
    /\ UNCHANGED <<lanes, counters, closed, item, pending, done, call, accepted>>

(* Seeded faults: the error of the write is not passed on; the writer goes *)
(* on after a failed write.                                                *)
CompleteWithoutError ==
    /\ writer = "completing"
    /\ completeQueuedMessage(item, "nil")
    /\ writer' = IF writeErr = "nil" THEN "next" ELSE "failing"
    /\ item' = NoMessage
    /\ UNCHANGED <<lanes, counters, closed, writeErr, pending, call, wire, accepted>>

CompleteAndGoOn ==
    /\ writer = "completing"
    /\ completeQueuedMessage(item, writeErr)
    /\ writer' = "next"
    /\ item' = NoMessage
    /\ UNCHANGED <<lanes, counters, closed, writeErr, pending, call, wire, accepted>>

CompleteWritten ==
    /\ writer = "completing"
    /\ completeQueuedMessage(item, writeErr)
    /\ writer' = IF writeErr = "nil" THEN "next" ELSE "failing"
    /\ item' = NoMessage
    /\ UNCHANGED <<lanes, counters, closed, writeErr, pending, call, wire, accepted>>

failClosed ==
    /\ writer = "failing" /\ closed
    /\ writer' = "stopped"
    /\ UNCHANGED <<lanes, counters, closed, item, writeErr, pending, done,
                   call, wire, accepted>>

fail ==
    /\ writer = "failing" /\ ~closed
    /\ Drain(writeErr)
    /\ writer' = "reporting"
    /\ UNCHANGED <<urgentBudget, item, writeErr, done, call, wire, accepted>>

(* onError(), after this goroutine completed what it drained.              *)
onError ==
    /\ writer = "reporting" /\ pending = <<>>
    /\ writer' = "reported"
    /\ UNCHANGED <<lanes, counters, closed, item, writeErr, pending, done,
                   call, wire, accepted>>

----------------------------------------------------------------------------
Writer == \/ nextWaits \/ nextStops \/ nextCritical \/ nextUrgent \/ nextNormal
          \/ WriteJSON \/ CompleteWritten \/ failClosed \/ fail \/ onError

Next == \/ \E m \in Messages : \/ RefuseClosed(m) \/ RefuseFull(m) \/ enqueueItem(m)
                               \/ ReceiveDone(m) \/ ContextDone(m)
        \/ close \/ completeQueuedMessages
        \/ Writer

Spec == Init /\ [][Next]_vars

(* Runnable goroutines are scheduled, and a transport write returns: it    *)
(* has a deadline, or its connection is closed.  Nobody is obliged to      *)
(* enqueue or to close, and no timer is obliged to rescue a waiter.        *)
Fairness == /\ WF_vars(Writer)
            /\ WF_vars(completeQueuedMessages)
            /\ \A m \in Messages : WF_vars(ReceiveDone(m))

FairSpec == Spec /\ Fairness

----------------------------------------------------------------------------
(* Properties.                                                             *)

Contains(s, m) == \E i \in 1 .. Len(s) : s[i] = m
InLanes(m) == Contains(critical, m) \/ Contains(urgent, m) \/ Contains(normal, m)
InPending(m) == \E i \in 1 .. Len(pending) : pending[i].msg = m
InFlight(m) == item = m

(* Every variable of the queue keeps its type; in particular the count of  *)
(* queued messages never goes negative.                                    *)
TypeOK ==
    /\ critical \in Seq(Messages) /\ urgent \in Seq(Messages)
    /\ normal \in Seq(Messages)
    /\ queuedCount \in Nat /\ queuedBytes \in Int /\ urgentBudget \in Nat
    /\ closed \in BOOLEAN
    /\ writer \in {"next", "waiting", "writing", "completing", "failing",
                   "reporting", "reported", "stopped"}
    /\ item \in Messages \cup {NoMessage}
    /\ writeErr \in {"nil", "broken"}
    /\ pending \in Seq([msg : Messages, err : Failures])
    /\ done \in [Messages -> Errors \cup {"none"}]
    /\ call \in [Messages -> Outcomes \cup {"new", "waiting"}]
    /\ wire \in Seq(Messages)
    /\ accepted \in Seq([msg : Messages, at : Nat])

(* queuedCount, which admission control relies on, is the number of        *)
(* messages in the lanes through every enqueue, dequeue, close and fail,   *)
(* and a closed queue holds nothing that no goroutine would ever complete. *)
QueueAccounting ==
    /\ queuedCount = Len(critical) + Len(urgent) + Len(normal)
    /\ closed => queuedCount = 0

(* A message has one owner: a lane, the writer, or a drain, and none once  *)
(* its answer is in the channel or was received.  So no waiter is answered *)
(* twice and the send on a done channel never blocks the writer or close() *)
(* even when the waiter has given up.                                      *)
AnsweredOnce ==
    \A m \in Messages :
        /\ ~(InLanes(m) /\ InFlight(m))
        /\ ~(InLanes(m) /\ InPending(m))
        /\ ~(InFlight(m) /\ InPending(m))
        /\ done[m] # "none" \/ call[m] \in {"new", "nil", "broken", "closed", "full"}
             => ~InLanes(m) /\ ~InFlight(m) /\ ~InPending(m)

(* What enqueueWait returns is true: nil means the transport took the      *)
(* message; "closed" and "full", the errors after which                    *)
(* sendOpenConnection issues the message again, mean it never will.        *)
TruthfulAnswer ==
    \A m \in Messages :
        /\ call[m] = "nil" => Contains(wire, m)
        /\ call[m] \in {"closed", "full"} => ~Contains(wire, m)

SameLane(m, n) == \/ InCritical(m) /\ InCritical(n)
                  \/ InUrgent(m) /\ InUrgent(n)
                  \/ InNormal(m) /\ InNormal(n)

(* Within a lane the agent receives messages in the order they were        *)
(* accepted, without gaps: if m was accepted before n and n is on the wire *)
(* then so is m, before it.                                                *)
LaneOrder ==
    \A i, j \in 1 .. Len(accepted) :
        (i < j /\ SameLane(accepted[i].msg, accepted[j].msg)) =>
            \A b \in 1 .. Len(wire) :
                wire[b] = accepted[j].msg =>
                    \E a \in 1 .. (b - 1) : wire[a] = accepted[i].msg

(* Messages of kind P delivered since the i-th accepted one was accepted.  *)
PassedBy(i, P(_)) ==
    {b \in (accepted[i].at + 1) .. Len(wire) : P(wire[b])}

(* A heartbeat waits for at most one other message: the one being written  *)
(* when it arrives, however long the other lanes are.                      *)
HeartbeatFirst ==
    \A i \in 1 .. Len(accepted) :
        LET m == accepted[i].msg
        IN  isCriticalControlMessage(m) /\ InLanes(m) =>
              \A a, b \in PassedBy(i, LAMBDA n : ~isCriticalControlMessage(n)) : a = b

(* The urgent lane cannot starve the normal one: while the k-th normal      *)
(* message waits, at most k * UrgentLimit urgent messages pass it.         *)
NormalNotStarved ==
    \A i \in 1 .. Len(accepted) :
        InNormal(accepted[i].msg) /\ InLanes(accepted[i].msg) =>
            Cardinality(PassedBy(i, InUrgent)) <=
                UrgentLimit * Cardinality({j \in 1 .. i : InNormal(accepted[j].msg)})

(* Every waiter is answered although nothing but the writer and close()    *)
(* runs: no wake-up of the writer is lost and no drained message is        *)
(* forgotten.                                                              *)
WaiterAnswered == \A m \in Messages : call[m] = "waiting" ~> call[m] # "waiting"

(* The writer goroutine does not outlive its queue.                        *)
WriterExits == closed ~> writer \in {"stopped", "reported"}

----------------------------------------------------------------------------
(* The queue implements ControlDelivery: the message being written is      *)
(* still the head of its lane there.                                       *)

BeingWritten(In(_)) == IF writer = "writing" /\ In(item) THEN <<item>> ELSE <<>>

Delivery == INSTANCE ControlDelivery WITH
    waiting <- [critical |-> BeingWritten(InCritical) \o critical,
                urgent |-> BeingWritten(InUrgent) \o urgent,
                normal |-> BeingWritten(InNormal) \o normal],
    taken <- {accepted[i].msg : i \in 1 .. Len(accepted)},
    sent <- wire,
    open <- ~closed,
    intact <- writeErr = "nil",
    LaneOf <- [m \in Messages |-> IF InCritical(m) THEN "critical"
                                  ELSE IF InUrgent(m) THEN "urgent" ELSE "normal"]

(* The queue keeps the promise of ControlDelivery: at most once, in lane   *)
(* order, without gaps, nothing after a transport failure, and at most the *)
(* message already being written after it was closed.                      *)
ImplementsDelivery == Delivery!Spec
=============================================================================
