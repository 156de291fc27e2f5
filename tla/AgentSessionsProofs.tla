------------------------ MODULE AgentSessionsProofs ------------------------
(***************************************************************************)
(* Proofs about AgentSessions, for any number of sessions, streams,        *)
(* clean-ups and requests of the administrator.                            *)
(***************************************************************************)
EXTENDS AgentSessions, TLAPS

(* Who is between the check and the write of the status holds statusMu.    *)
MutexInv ==
    \A s \in Sessions :
        /\ pc[s] = "writing" \/ teardown[s] = "writing" => statusMu = s
        /\ ~(pc[s] = "writing" /\ teardown[s] = "writing")

(* A session that is being torn down is not the current one, and a request *)
(* of the administrator that unregisters has a session to unregister.      *)
CurrentInv ==
    /\ \A s \in Sessions : pc[s] \in {"unregistering", "leaving", "ended"} => conn # s
    /\ admin \in {"unregister", "unregistering"} => adminConn \in Sessions

(* While the client has no session but is shown as online, somebody is on  *)
(* the way to register or to write 'offline'; while one session writes     *)
(* 'online', the teardown that outlives it has not passed its check yet.   *)
OnlineInv ==
    /\ conn = None /\ status = "online" =>
          \E s \in Sessions : \/ pc[s] \in {"accepted", "disabled"}
                              \/ teardown[s] \in {"handler", "marking", "writing"}
    /\ conn = None /\ (\E s \in Sessions : pc[s] = "writing") =>
          \E s \in Sessions : teardown[s] \in {"handler", "marking"}

(* While the client has a session but is shown as offline, that session    *)
(* has yet to write 'online', or the hello of another one was refused;     *)
(* while a teardown writes 'offline', a new session has not passed its     *)
(* check yet.                                                              *)
OfflineInv ==
    /\ conn # None /\ status = "offline" =>
          \/ pc[conn] \in {"replacing", "marking", "writing"}
          \/ \E s \in Sessions : pc[s] = "refused"
    /\ conn # None /\ (\E s \in Sessions : teardown[s] = "writing") =>
          pc[conn] \in {"replacing", "marking"}

(* No clean-up is from the future.                                         *)
EpochInv ==
    /\ \A e \in DOMAIN expiry : e <= epoch
    /\ OneLiveCleanup
    /\ CleanupSparesServed

IInv == /\ TypeOK /\ QueueOfCurrent /\ MutexInv /\ CurrentInv
        /\ OnlineInv /\ OfflineInv /\ EpochInv

----------------------------------------------------------------------------
LEMMA InitInv == Init => IInv
<1> SUFFICES ASSUME Init PROVE IInv
  OBVIOUS
<1>1. TypeOK /\ QueueOfCurrent
  BY DEF Init, TypeOK, QueueOfCurrent
<1>2. MutexInv /\ CurrentInv /\ OnlineInv /\ OfflineInv
  BY DEF Init, MutexInv, CurrentInv, OnlineInv, OfflineInv
<1>3. EpochInv
  BY DEF Init, EpochInv, OneLiveCleanup, CleanupSparesServed
<1> QED BY <1>1, <1>2, <1>3 DEF IInv

----------------------------------------------------------------------------
(* serveTransport, one lemma per step.                                     *)

LEMMA AcceptHelloInv == ASSUME IInv, NEW s \in Sessions, acceptHello(s) PROVE IInv'
<1> USE SessionsAssumption DEF IInv, TypeOK, acceptHello, Goto, cleanupVars,
        adminVars
<1>1. TypeOK'
  OBVIOUS
<1>2. QueueOfCurrent'
  BY DEF QueueOfCurrent
<1>3. MutexInv'
  BY DEF MutexInv
<1>4. CurrentInv'
  BY DEF CurrentInv
<1>5. OnlineInv'
  BY DEF OnlineInv
<1>6. OfflineInv'
  BY DEF OfflineInv
<1>7. EpochInv'
  BY DEF EpochInv, OneLiveCleanup, CleanupSparesServed
<1> QED BY <1>1, <1>2, <1>3, <1>4, <1>5, <1>6, <1>7

LEMMA RefuseInv == ASSUME IInv, NEW s \in Sessions, RefuseDisabled(s) PROVE IInv'
<1> USE SessionsAssumption DEF IInv, TypeOK, RefuseDisabled, Goto, cleanupVars,
        adminVars
<1>1. TypeOK'
  OBVIOUS
<1>2. QueueOfCurrent'
  BY DEF QueueOfCurrent
<1>3. MutexInv'
  BY DEF MutexInv
<1>4. CurrentInv'
  BY DEF CurrentInv
<1>5. OnlineInv'
  BY DEF OnlineInv
<1>6. OfflineInv'
  BY DEF OfflineInv
<1>7. EpochInv'
  BY DEF EpochInv, OneLiveCleanup, CleanupSparesServed
<1> QED BY <1>1, <1>2, <1>3, <1>4, <1>5, <1>6, <1>7

LEMMA RegisterInv == ASSUME IInv, NEW s \in Sessions, register(s) PROVE IInv'
<1> USE SessionsAssumption DEF IInv, TypeOK, register, Goto, statusVars,
        cleanupVars, adminVars
<1>1. TypeOK'
  OBVIOUS
<1>2. QueueOfCurrent'
  BY DEF QueueOfCurrent
<1>3. MutexInv'
  BY DEF MutexInv
<1>4. CurrentInv'
  BY DEF CurrentInv
<1>5. OnlineInv'
  BY DEF OnlineInv
<1>6. OfflineInv'
  BY DEF OfflineInv
<1>7. EpochInv'
  BY DEF EpochInv, OneLiveCleanup, CleanupSparesServed
<1> QED BY <1>1, <1>2, <1>3, <1>4, <1>5, <1>6, <1>7

LEMMA ReplaceInv == ASSUME IInv, NEW s \in Sessions, ReplaceOld(s) PROVE IInv'
<1> USE SessionsAssumption DEF IInv, TypeOK, ReplaceOld, Goto,
        scheduleReconnectCleanup, statusVars, adminVars
<1>1. TypeOK'
  OBVIOUS
<1>2. QueueOfCurrent'
  BY DEF QueueOfCurrent
<1>3. MutexInv'
  BY DEF MutexInv
<1>4. CurrentInv'
  BY DEF CurrentInv
<1>5. OnlineInv'
  BY DEF OnlineInv
<1>6. OfflineInv'
  BY DEF OfflineInv
<1>7. EpochInv'
  BY DEF EpochInv, OneLiveCleanup, CleanupSparesServed
<1> QED BY <1>1, <1>2, <1>3, <1>4, <1>5, <1>6, <1>7

LEMMA CheckOnlineInv == ASSUME IInv, NEW s \in Sessions, CheckOnline(s) PROVE IInv'
<1> USE SessionsAssumption DEF IInv, TypeOK, CheckOnline, Goto, cleanupVars,
        adminVars
<1>1. TypeOK'
  OBVIOUS
<1>2. QueueOfCurrent'
  BY DEF QueueOfCurrent
<1>3. MutexInv'
  BY DEF MutexInv
<1>4. CurrentInv'
  BY DEF CurrentInv
<1>5. OnlineInv'
  BY DEF OnlineInv
<1>6. OfflineInv'
  BY DEF OfflineInv, MutexInv
<1>7. EpochInv'
  BY DEF EpochInv, OneLiveCleanup, CleanupSparesServed
<1> QED BY <1>1, <1>2, <1>3, <1>4, <1>5, <1>6, <1>7

LEMMA WriteOnlineInv == ASSUME IInv, NEW s \in Sessions, WriteOnline(s) PROVE IInv'
<1> USE SessionsAssumption DEF IInv, TypeOK, WriteOnline, Goto, cleanupVars,
        adminVars
<1>1. TypeOK'
  OBVIOUS
<1>2. QueueOfCurrent'
  BY DEF QueueOfCurrent
<1>3. MutexInv'
  BY DEF MutexInv
<1>4. CurrentInv'
  BY DEF CurrentInv
<1>5. OnlineInv'
  BY DEF OnlineInv
<1>6. OfflineInv'
  BY DEF OfflineInv
<1>7. EpochInv'
  BY DEF EpochInv, OneLiveCleanup, CleanupSparesServed
<1> QED BY <1>1, <1>2, <1>3, <1>4, <1>5, <1>6, <1>7

LEMMA ConnectedInv ==
    ASSUME IInv, NEW s \in Sessions, handleClientConnected(s)
    PROVE  IInv'
<1> USE SessionsAssumption DEF IInv, TypeOK, handleClientConnected, Goto,
        cancelReconnectCleanup, statusVars, adminVars
<1>1. TypeOK'
  OBVIOUS
<1>2. QueueOfCurrent'
  BY DEF QueueOfCurrent
<1>3. MutexInv'
  BY DEF MutexInv
<1>4. CurrentInv'
  BY DEF CurrentInv
<1>5. OnlineInv'
  BY DEF OnlineInv
<1>6. OfflineInv'
  BY DEF OfflineInv
<1>7. EpochInv'
  BY DEF EpochInv, OneLiveCleanup, CleanupSparesServed
<1> QED BY <1>1, <1>2, <1>3, <1>4, <1>5, <1>6, <1>7

LEMMA ReadLoopEndsInv ==
    ASSUME IInv, NEW s \in Sessions, readLoopEnds(s)
    PROVE  IInv'
<1> USE SessionsAssumption DEF IInv, TypeOK, readLoopEnds, Goto, RemoveSession,
        statusVars, cleanupVars, adminVars
<1>1. TypeOK'
  OBVIOUS
<1>2. QueueOfCurrent'
  BY DEF QueueOfCurrent
<1>3. MutexInv'
  BY DEF MutexInv
<1>4. CurrentInv'
  BY DEF CurrentInv
<1>5. OnlineInv'
  BY DEF OnlineInv
<1>6. OfflineInv'
  BY DEF OfflineInv
<1>7. EpochInv'
  BY DEF EpochInv, OneLiveCleanup, CleanupSparesServed
<1> QED BY <1>1, <1>2, <1>3, <1>4, <1>5, <1>6, <1>7

LEMMA DropQueueInv == ASSUME IInv, NEW s \in Sessions, dropQueue(s) PROVE IInv'
<1> USE SessionsAssumption DEF IInv, TypeOK, dropQueue, Goto, statusVars,
        cleanupVars, adminVars
<1>1. TypeOK'
  OBVIOUS
<1>2. QueueOfCurrent'
  BY DEF QueueOfCurrent, CurrentInv
<1>3. MutexInv'
  BY DEF MutexInv
<1>4. CurrentInv'
  BY DEF CurrentInv
<1>5. OnlineInv'
  BY DEF OnlineInv
<1>6. OfflineInv'
  BY DEF OfflineInv
<1>7. EpochInv'
  BY DEF EpochInv, OneLiveCleanup, CleanupSparesServed
<1> QED BY <1>1, <1>2, <1>3, <1>4, <1>5, <1>6, <1>7

----------------------------------------------------------------------------
(* unregister.                                                             *)

LEMMA UnregisterInv == ASSUME IInv, NEW s \in Sessions, unregister(s) PROVE IInv'
<1> USE SessionsAssumption DEF IInv, TypeOK, unregister, RemoveSession, statusVars,
        cleanupVars, adminVars
<1>1. TypeOK'
  OBVIOUS
<1>2. QueueOfCurrent'
  BY DEF QueueOfCurrent
<1>3. MutexInv'
  BY DEF MutexInv
<1>4. CurrentInv'
  BY DEF CurrentInv
<1>5. OnlineInv'
  BY DEF OnlineInv
<1>6. OfflineInv'
  BY DEF OfflineInv
<1>7. EpochInv'
  BY DEF EpochInv, OneLiveCleanup, CleanupSparesServed
<1> QED BY <1>1, <1>2, <1>3, <1>4, <1>5, <1>6, <1>7

LEMMA DisconnectedInv ==
    ASSUME IInv, NEW s \in Sessions, handleClientDisconnected(s)
    PROVE  IInv'
<1> USE SessionsAssumption DEF IInv, TypeOK, handleClientDisconnected,
        scheduleReconnectCleanup, statusVars, adminVars
<1>1. TypeOK'
  OBVIOUS
<1>2. QueueOfCurrent'
  BY DEF QueueOfCurrent
<1>3. MutexInv'
  BY DEF MutexInv
<1>4. CurrentInv'
  BY DEF CurrentInv
<1>5. OnlineInv'
  BY DEF OnlineInv
<1>6. OfflineInv'
  BY DEF OfflineInv
<1>7. EpochInv'
  BY DEF EpochInv, OneLiveCleanup, CleanupSparesServed
<1> QED BY <1>1, <1>2, <1>3, <1>4, <1>5, <1>6, <1>7

LEMMA CheckOfflineInv ==
    ASSUME IInv, NEW s \in Sessions, CheckOffline(s)
    PROVE  IInv'
<1> USE SessionsAssumption DEF IInv, TypeOK, CheckOffline, cleanupVars, adminVars
<1>1. TypeOK'
  OBVIOUS
<1>2. QueueOfCurrent'
  BY DEF QueueOfCurrent
<1>3. MutexInv'
  BY DEF MutexInv
<1>4. CurrentInv'
  BY DEF CurrentInv
<1>5. OnlineInv'
  BY DEF OnlineInv, MutexInv
<1>6. OfflineInv'
  BY DEF OfflineInv
<1>7. EpochInv'
  BY DEF EpochInv, OneLiveCleanup, CleanupSparesServed
<1> QED BY <1>1, <1>2, <1>3, <1>4, <1>5, <1>6, <1>7

LEMMA WriteOfflineInv ==
    ASSUME IInv, NEW s \in Sessions, WriteOffline(s)
    PROVE  IInv'
<1> USE SessionsAssumption DEF IInv, TypeOK, WriteOffline, cleanupVars, adminVars
<1>1. TypeOK'
  OBVIOUS
<1>2. QueueOfCurrent'
  BY DEF QueueOfCurrent
<1>3. MutexInv'
  BY DEF MutexInv
<1>4. CurrentInv'
  BY DEF CurrentInv
<1>5. OnlineInv'
  BY DEF OnlineInv
<1>6. OfflineInv'
  BY DEF OfflineInv
<1>7. EpochInv'
  BY DEF EpochInv, OneLiveCleanup, CleanupSparesServed
<1> QED BY <1>1, <1>2, <1>3, <1>4, <1>5, <1>6, <1>7

----------------------------------------------------------------------------
(* The reconnect clean-up.                                                 *)

LEMMA TimerFiresInv == ASSUME IInv, TimerFires PROVE IInv'
<1> USE SessionsAssumption DEF IInv, TypeOK, TimerFires, SetExpiry, hubVars,
        statusVars, adminVars
<1>1. TypeOK'
  OBVIOUS
<1>2. QueueOfCurrent'
  BY DEF QueueOfCurrent
<1>3. MutexInv'
  BY DEF MutexInv
<1>4. CurrentInv'
  BY DEF CurrentInv
<1>5. OnlineInv'
  BY DEF OnlineInv
<1>6. OfflineInv'
  BY DEF OfflineInv
<1>7. EpochInv'
  BY DEF EpochInv, OneLiveCleanup, CleanupSparesServed
<1> QED BY <1>1, <1>2, <1>3, <1>4, <1>5, <1>6, <1>7

LEMMA ChecksEpochInv ==
    ASSUME IInv, NEW e \in DOMAIN expiry, ExpireChecksEpoch(e)
    PROVE  IInv'
<1> USE SessionsAssumption DEF IInv, TypeOK, ExpireChecksEpoch, SetExpiry,
        DropExpiry, hubVars, statusVars, adminVars
<1>1. TypeOK'
  OBVIOUS
<1>2. QueueOfCurrent'
  BY DEF QueueOfCurrent
<1>3. MutexInv'
  BY DEF MutexInv
<1>4. CurrentInv'
  BY DEF CurrentInv
<1>5. OnlineInv'
  BY DEF OnlineInv
<1>6. OfflineInv'
  BY DEF OfflineInv
<1>7. EpochInv'
  BY DEF EpochInv, OneLiveCleanup, CleanupSparesServed
<1> QED BY <1>1, <1>2, <1>3, <1>4, <1>5, <1>6, <1>7

LEMMA ChecksHubInv ==
    ASSUME IInv, NEW e \in DOMAIN expiry, ExpireChecksHub(e)
    PROVE  IInv'
<1> USE SessionsAssumption DEF IInv, TypeOK, ExpireChecksHub, SetExpiry, DropExpiry,
        hubVars, statusVars, adminVars
<1>1. TypeOK'
  OBVIOUS
<1>2. QueueOfCurrent'
  BY DEF QueueOfCurrent
<1>3. MutexInv'
  BY DEF MutexInv
<1>4. CurrentInv'
  BY DEF CurrentInv
<1>5. OnlineInv'
  BY DEF OnlineInv
<1>6. OfflineInv'
  BY DEF OfflineInv
<1>7. EpochInv'
  BY DEF EpochInv, OneLiveCleanup, CleanupSparesServed
<1> QED BY <1>1, <1>2, <1>3, <1>4, <1>5, <1>6, <1>7

LEMMA CleansUpInv ==
    ASSUME IInv, NEW e \in DOMAIN expiry, ExpireCleansUp(e)
    PROVE  IInv'
<1> USE SessionsAssumption DEF IInv, TypeOK, ExpireCleansUp, DropExpiry,
        DisconnectActiveClient, hubVars, statusVars, adminVars
<1>1. TypeOK'
  OBVIOUS
<1>2. QueueOfCurrent'
  BY DEF QueueOfCurrent
<1>3. MutexInv'
  BY DEF MutexInv
<1>4. CurrentInv'
  BY DEF CurrentInv
<1>5. OnlineInv'
  BY DEF OnlineInv
<1>6. OfflineInv'
  BY DEF OfflineInv
<1>7. EpochInv'
  BY DEF EpochInv, OneLiveCleanup, CleanupSparesServed
<1> QED BY <1>1, <1>2, <1>3, <1>4, <1>5, <1>6, <1>7

----------------------------------------------------------------------------
(* The administrator, and the streams.                                     *)

LEMMA RequestInv == ASSUME IInv, update \/ resetToken PROVE IInv'
<1> USE SessionsAssumption DEF IInv, TypeOK, update, resetToken, hubVars,
        statusVars, cleanupVars
<1>1. TypeOK'
  OBVIOUS
<1>2. QueueOfCurrent'
  BY DEF QueueOfCurrent
<1>3. MutexInv'
  BY DEF MutexInv
<1>4. CurrentInv'
  BY DEF CurrentInv
<1>5. OnlineInv'
  BY DEF OnlineInv
<1>6. OfflineInv'
  BY DEF OfflineInv
<1>7. EpochInv'
  BY DEF EpochInv, OneLiveCleanup, CleanupSparesServed
<1> QED BY <1>1, <1>2, <1>3, <1>4, <1>5, <1>6, <1>7

LEMMA AdminReadsInv == ASSUME IInv, AdminReads PROVE IInv'
<1> USE SessionsAssumption DEF IInv, TypeOK, AdminReads, hubVars, statusVars,
        cleanupVars
<1>1. TypeOK'
  OBVIOUS
<1>2. QueueOfCurrent'
  BY DEF QueueOfCurrent
<1>3. MutexInv'
  BY DEF MutexInv
<1>4. CurrentInv'
  BY DEF CurrentInv
<1>5. OnlineInv'
  BY DEF OnlineInv
<1>6. OfflineInv'
  BY DEF OfflineInv
<1>7. EpochInv'
  BY DEF EpochInv, OneLiveCleanup, CleanupSparesServed
<1> QED BY <1>1, <1>2, <1>3, <1>4, <1>5, <1>6, <1>7

LEMMA AdminUnregistersInv ==
    ASSUME IInv, AdminUnregisters \/ AdminUnregistered
    PROVE  IInv'
<1> USE SessionsAssumption DEF IInv, TypeOK, AdminUnregisters, AdminUnregistered,
        RemoveSession, hubVars, statusVars, cleanupVars
<1>1. TypeOK'
  OBVIOUS
<1>2. QueueOfCurrent'
  BY DEF QueueOfCurrent
<1>3. MutexInv'
  BY DEF MutexInv
<1>4. CurrentInv'
  BY DEF CurrentInv
<1>5. OnlineInv'
  BY DEF OnlineInv
<1>6. OfflineInv'
  BY DEF OfflineInv
<1>7. EpochInv'
  BY DEF EpochInv, OneLiveCleanup, CleanupSparesServed
<1> QED BY <1>1, <1>2, <1>3, <1>4, <1>5, <1>6, <1>7

LEMMA AdminSchedulesInv == ASSUME IInv, AdminSchedules PROVE IInv'
<1> USE SessionsAssumption DEF IInv, TypeOK, AdminSchedules,
        scheduleReconnectCleanup, hubVars, statusVars
<1>1. TypeOK'
  OBVIOUS
<1>2. QueueOfCurrent'
  BY DEF QueueOfCurrent
<1>3. MutexInv'
  BY DEF MutexInv
<1>4. CurrentInv'
  BY DEF CurrentInv
<1>5. OnlineInv'
  BY DEF OnlineInv
<1>6. OfflineInv'
  BY DEF OfflineInv
<1>7. EpochInv'
  BY DEF EpochInv, OneLiveCleanup, CleanupSparesServed
<1> QED BY <1>1, <1>2, <1>3, <1>4, <1>5, <1>6, <1>7

LEMMA AdminCancelsInv == ASSUME IInv, AdminCancels PROVE IInv'
<1> USE SessionsAssumption DEF IInv, TypeOK, AdminCancels, cancelReconnectCleanup,
        hubVars, statusVars
<1>1. TypeOK'
  OBVIOUS
<1>2. QueueOfCurrent'
  BY DEF QueueOfCurrent
<1>3. MutexInv'
  BY DEF MutexInv
<1>4. CurrentInv'
  BY DEF CurrentInv
<1>5. OnlineInv'
  BY DEF OnlineInv
<1>6. OfflineInv'
  BY DEF OfflineInv
<1>7. EpochInv'
  BY DEF EpochInv, OneLiveCleanup, CleanupSparesServed
<1> QED BY <1>1, <1>2, <1>3, <1>4, <1>5, <1>6, <1>7

LEMMA AdminDisconnectsInv == ASSUME IInv, AdminDisconnects PROVE IInv'
<1> USE SessionsAssumption DEF IInv, TypeOK, AdminDisconnects,
        DisconnectActiveClient, hubVars, statusVars, cleanupVars
<1>1. TypeOK'
  OBVIOUS
<1>2. QueueOfCurrent'
  BY DEF QueueOfCurrent
<1>3. MutexInv'
  BY DEF MutexInv
<1>4. CurrentInv'
  BY DEF CurrentInv
<1>5. OnlineInv'
  BY DEF OnlineInv
<1>6. OfflineInv'
  BY DEF OfflineInv
<1>7. EpochInv'
  BY DEF EpochInv, OneLiveCleanup, CleanupSparesServed
<1> QED BY <1>1, <1>2, <1>3, <1>4, <1>5, <1>6, <1>7

LEMMA StreamInv ==
    ASSUME IInv, NEW t \in Streams, OpenStream(t) \/ StreamEnds(t)
    PROVE  IInv'
<1> USE SessionsAssumption DEF IInv, TypeOK, OpenStream, StreamEnds, hubVars,
        statusVars, cleanupVars, adminVars
<1>1. TypeOK'
  OBVIOUS
<1>2. QueueOfCurrent'
  BY DEF QueueOfCurrent
<1>3. MutexInv'
  BY DEF MutexInv
<1>4. CurrentInv'
  BY DEF CurrentInv
<1>5. OnlineInv'
  BY DEF OnlineInv
<1>6. OfflineInv'
  BY DEF OfflineInv
<1>7. EpochInv'
  BY DEF EpochInv, OneLiveCleanup, CleanupSparesServed
<1> QED BY <1>1, <1>2, <1>3, <1>4, <1>5, <1>6, <1>7

----------------------------------------------------------------------------
LEMMA NextInv == IInv /\ [Next]_vars => IInv'
<1> SUFFICES ASSUME IInv, [Next]_vars PROVE IInv'
  OBVIOUS
<1>1. ASSUME NEW s \in Sessions, acceptHello(s) \/ Serve(s) \/ readLoopEnds(s)
      PROVE  IInv'
  BY <1>1, AcceptHelloInv, RefuseInv, RegisterInv, ReplaceInv, CheckOnlineInv,
     WriteOnlineInv, ConnectedInv, ReadLoopEndsInv, DropQueueInv DEF Serve
<1>2. ASSUME NEW s \in Sessions, unregister(s) \/ Unregister(s) PROVE IInv'
  BY <1>2, UnregisterInv, DisconnectedInv, CheckOfflineInv, WriteOfflineInv DEF Unregister
<1>3. CASE TimerFires
  BY <1>3, TimerFiresInv
<1>4. ASSUME NEW e \in DOMAIN expiry, Expire(e) PROVE IInv'
  BY <1>4, ChecksEpochInv, ChecksHubInv, CleansUpInv DEF Expire
<1>5. CASE update \/ resetToken \/ Admin
  BY <1>5, RequestInv, AdminReadsInv, AdminUnregistersInv,
     AdminSchedulesInv, AdminCancelsInv, AdminDisconnectsInv DEF Admin
<1>6. ASSUME NEW t \in Streams, OpenStream(t) \/ StreamEnds(t) PROVE IInv'
  BY <1>6, StreamInv
<1>7. CASE UNCHANGED vars
  BY <1>7 DEF vars, IInv, TypeOK, QueueOfCurrent, MutexInv, CurrentInv, OnlineInv,
         OfflineInv, EpochInv, OneLiveCleanup, CleanupSparesServed
<1> QED BY <1>1, <1>2, <1>3, <1>4, <1>5, <1>6, <1>7 DEF Next

(* The inductive invariant holds in every reachable state.                 *)
THEOREM Invariance == Spec => []IInv
<1>1. Init => IInv
  BY InitInv
<1>2. IInv /\ [Next]_vars => IInv'
  BY NextInv
<1> QED BY <1>1, <1>2, PTL DEF Spec

(* The maps of the hub, the status column, the epochs and the goroutines'  *)
(* positions keep their types.                                             *)
THEOREM TypeCorrect == Spec => []TypeOK
<1>1. IInv => TypeOK
  BY DEF IInv
<1> QED BY <1>1, Invariance, PTL

(* The deferred clean-up of an old session never takes the write queue of  *)
(* the session that replaced it out of the hub's map.                      *)
THEOREM QueueFollowsSession == Spec => []QueueOfCurrent
<1>1. IInv => QueueOfCurrent
  BY DEF IInv
<1> QED BY <1>1, Invariance, PTL

(* However many sessions register, replace each other and are unregistered *)
(* late, the status column is right once they have settled.                *)
THEOREM StatusCorrect == Spec => []StatusMatchesHub
<1>1. IInv => StatusMatchesHub
  BY SessionsAssumption DEF IInv, TypeOK, OnlineInv, OfflineInv, StatusMatchesHub, Quiet, Settled
<1> QED BY <1>1, Invariance, PTL

(* However late the function of a clean-up timer runs, it does not act on  *)
(* an agent whose connect handler has run.                                 *)
THEOREM CleanupSpares == Spec => []CleanupSparesServed
<1>1. IInv => CleanupSparesServed
  BY DEF IInv, EpochInv
<1> QED BY <1>1, Invariance, PTL

(* Of all the timers that were ever armed and the functions they started,  *)
(* only one can still clean up.                                            *)
THEOREM SingleCleanup == Spec => []OneLiveCleanup
<1>1. IInv => OneLiveCleanup
  BY DEF IInv, EpochInv
<1> QED BY <1>1, Invariance, PTL
=============================================================================
