------------------------ MODULE MCControlWriteQueue ------------------------
(***************************************************************************)
(* The control write queue with one heartbeat acknowledgement, two urgent  *)
(* messages (one fire-and-forget) and a normal one, room for two           *)
(* messages and one urgent message in a row: every lane can be overtaken,  *)
(* and the queue can be full of what is not a heartbeat, by count and by   *)
(* bytes.                                                                  *)
(***************************************************************************)
EXTENDS ControlWriteQueue, FiniteSetsExt

CONSTANTS ack, open1, work, udp1

MCMessages == {ack, open1, work, udp1}
MCType == [m \in Messages |-> CASE m = ack -> "heartbeat_ack"
                                [] m = open1 -> "open_connection"
                                [] m = work -> "request_work_connection"
                                [] m = udp1 -> "udp_packet"]
MCSize == [m \in Messages |-> CASE m = ack -> 3 [] m = udp1 -> 2 [] OTHER -> 1]
MCWaits == {ack, open1}

BytesOf(S) == MapThenSumSet(LAMBDA m : Size[m], S)

(* Admission control bounds what is not a heartbeat, in messages and in    *)
(* bytes, whatever heartbeats bypass it and are counted; the byte counter  *)
(* it decides on is what the lanes hold.                                   *)
BoundedBacklog ==
    LET queued == {m \in Messages : InLanes(m)}
        bounded == {m \in queued : ~isCriticalControlMessage(m)}
    IN  /\ queuedBytes = BytesOf(queued)
        /\ Cardinality(bounded) <= MaxControlQueueMessages
        /\ BytesOf(bounded) <= MaxControlQueueBytes
=============================================================================
