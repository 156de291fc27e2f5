---------------------------- MODULE AgentSessions ----------------------------
(***************************************************************************)
(* The control sessions of one agent: Hub.register / unregister and the    *)
(* goroutine of serveTransport (server/client), the status column of the   *)
(* clients table, the reconnect cleanup of the tunnel manager              *)
(* (server/tunnel/reconnect_cleanup.go) that the hub's connect and         *)
(* disconnect handlers drive, and the administrator's DisconnectClient.    *)
(*                                                                         *)
(* Every map of Hub, Manager and Broker is keyed by the client, so one     *)
(* client is modelled.  Sessions are its successive control transports.    *)
(* Streams are the data streams the broker relays for it; only what        *)
(* DisconnectActiveClient does to them matters here (module Broker has the *)
(* rest).  An action is what one goroutine does between two points where   *)
(* it takes or releases Hub.mu, Hub.statusMu or Manager.mu, or touches     *)
(* the database.                                                           *)
(***************************************************************************)
EXTENDS Integers, FiniteSets

CONSTANTS Sessions, Streams,
          MaxAdmin,     \* bound: requests of the administrator
          MaxExpiries,  \* bound: expireReconnectCleanup calls at one time
          None

ASSUME SessionsAssumption ==
    /\ None \notin Sessions
    /\ MaxAdmin \in Nat /\ MaxExpiries \in Nat

VARIABLES
    conn,       \* h.conns[client] (and h.connected: they change together)
    queue,      \* the session whose queue is h.writeQueues[client]
    pc,         \* where the goroutine of serveTransport is, per session
    old,        \* the session it replaced in register
    teardown,   \* unregister after it removed the session, per session
    statusMu,   \* the session whose goroutine holds Hub.statusMu
    status, disabled,  \* the columns of the clients table
    epoch,      \* m.reconnectEpochs[client]
    timer,      \* m.reconnectTimers[client]: [epoch, armed], or None
    expiry,     \* running expireReconnectCleanup calls, per epoch
    admin,      \* where the running DisconnectClient is
    adminConn,  \* the session its hub.Disconnect read
    adminRuns,
    stream      \* state of each data stream

hubVars == <<conn, queue, pc, old, teardown>>
statusVars == <<statusMu, status, disabled>>
cleanupVars == <<epoch, timer, expiry>>
adminVars == <<admin, adminConn, adminRuns>>
vars == <<conn, queue, pc, old, teardown, statusMu, status, disabled, epoch,
          timer, expiry, admin, adminConn, adminRuns, stream>>

Init ==
    /\ conn = None /\ queue = None
    /\ pc = [s \in Sessions |-> "new"]
    /\ old = [s \in Sessions |-> None]
    /\ teardown = [s \in Sessions |-> "none"]
    /\ statusMu = None /\ status = "offline" /\ disabled = FALSE
    /\ epoch = 0 /\ timer = None
    /\ expiry = [e \in {} |-> "none"]
    /\ admin = "idle" /\ adminConn = None /\ adminRuns = 0
    /\ stream = [t \in Streams |-> "none"]

Goto(s, label) == pc' = [pc EXCEPT ![s] = label]

----------------------------------------------------------------------------
(* The reconnect cleanup of the manager.                                   *)

(* Stopping a timer that has fired does not stop its function.             *)
scheduleReconnectCleanup ==
    /\ epoch' = epoch + 1
    /\ timer' = [epoch |-> epoch + 1, armed |-> TRUE]
    /\ UNCHANGED expiry

(* Seeded fault: cancelling only stops the timer.                          *)
cancelStopsOnly == timer' = None /\ UNCHANGED <<epoch, expiry>>

cancelReconnectCleanup ==
    /\ epoch' = epoch + 1
    /\ timer' = None
    /\ UNCHANGED expiry

SetExpiry(e, label) ==
    expiry' = [x \in (DOMAIN expiry) \cup {e} |-> IF x = e THEN label ELSE expiry[x]]

DropExpiry(e) == expiry' = [x \in (DOMAIN expiry) \ {e} |-> expiry[x]]

(* agentReconnectGrace after it was armed.                                 *)
TimerFires ==
    /\ timer # None /\ timer.armed
    /\ Cardinality(DOMAIN expiry) < MaxExpiries
    /\ timer' = [timer EXCEPT !.armed = FALSE]
    /\ SetExpiry(timer.epoch, "fired")
    /\ UNCHANGED <<hubVars, statusVars, epoch, adminVars, stream>>

ExpireChecksEpoch(e) ==
    /\ expiry[e] = "fired"
    /\ IF epoch = e THEN SetExpiry(e, "current") ELSE DropExpiry(e)
    /\ UNCHANGED <<hubVars, statusVars, epoch, timer, adminVars, stream>>

(* hub.ConnectedAt, without Manager.mu.                                    *)
ExpireChecksHub(e) ==
    /\ expiry[e] = "current"
    /\ IF conn = None THEN SetExpiry(e, "gone") ELSE DropExpiry(e)
    /\ UNCHANGED <<hubVars, statusVars, epoch, timer, adminVars, stream>>

DisconnectActiveClient ==
    stream' = [t \in Streams |-> IF stream[t] = "relaying" THEN "closed" ELSE stream[t]]

ExpireCleansUp(e) ==
    /\ expiry[e] = "gone"
    /\ DropExpiry(e)
    /\ IF epoch = e
       THEN timer' = None /\ DisconnectActiveClient
       ELSE UNCHANGED <<timer, stream>>
    /\ UNCHANGED <<hubVars, statusVars, epoch, adminVars>>

----------------------------------------------------------------------------
(* serveTransport.                                                         *)

(* acceptHello: UpsertClient writes 'online' and reads disabled; a disabled *)
(* client is put back to 'offline' and refused.                            *)
acceptHello(s) ==
    /\ pc[s] = "new"
    /\ status' = "online"
    /\ Goto(s, IF disabled THEN "disabled" ELSE "accepted")
    /\ UNCHANGED <<conn, queue, old, teardown, statusMu, disabled, cleanupVars,
                   adminVars, stream>>

RefuseDisabled(s) ==
    /\ pc[s] = "disabled"
    /\ status' = "offline"
    /\ Goto(s, "refused")
    /\ UNCHANGED <<conn, queue, old, teardown, statusMu, disabled, cleanupVars,
                   adminVars, stream>>

register(s) ==
    /\ pc[s] = "accepted"
    /\ old' = [old EXCEPT ![s] = conn]
    /\ conn' = s /\ queue' = s
    /\ Goto(s, IF conn = None THEN "marking" ELSE "replacing")
    /\ UNCHANGED <<teardown, statusVars, cleanupVars, adminVars, stream>>

(* register after the unlock: close the old queue and transport, and call  *)
(* the disconnect handler, handleClientDisconnected.                       *)
ReplaceOld(s) ==
    /\ pc[s] = "replacing"
    /\ scheduleReconnectCleanup
    /\ Goto(s, "marking")
    /\ UNCHANGED <<conn, queue, old, teardown, statusVars, adminVars, stream>>

(* markClientOnline: the check and the write, under statusMu.              *)
CheckOnline(s) ==
    /\ pc[s] = "marking" /\ statusMu = None
    /\ IF conn = s THEN statusMu' = s /\ Goto(s, "writing")
                   ELSE UNCHANGED statusMu /\ Goto(s, "snapshot")
    /\ UNCHANGED <<conn, queue, old, teardown, status, disabled, cleanupVars,
                   adminVars, stream>>

WriteOnline(s) ==
    /\ pc[s] = "writing"
    /\ status' = "online" /\ statusMu' = None
    /\ Goto(s, "snapshot")
    /\ UNCHANGED <<conn, queue, old, teardown, disabled, cleanupVars, adminVars,
                   stream>>

(* sendInitialSnapshot, then the connect handler, handleClientConnected.   *)
(* Neither looks whether the session is still the current one.             *)
handleClientConnected(s) ==
    /\ pc[s] = "snapshot"
    /\ cancelReconnectCleanup
    /\ Goto(s, "reading")
    /\ UNCHANGED <<conn, queue, old, teardown, statusVars, adminVars, stream>>

(* unregister up to the unlock; for a session that is not the current one  *)
(* it does nothing.                                                        *)
RemoveSession(s) ==
    /\ conn' = None /\ queue' = None
    /\ teardown' = [teardown EXCEPT ![s] = "handler"]

(* readLoop ends, on an error, a missed heartbeat or a closed transport;   *)
(* the deferred calls unregister the session, then drop its queue.         *)
readLoopEnds(s) ==
    /\ pc[s] = "reading"
    /\ IF conn = s THEN RemoveSession(s) /\ Goto(s, "unregistering")
                   ELSE UNCHANGED <<conn, queue, teardown>> /\ Goto(s, "leaving")
    /\ UNCHANGED <<old, statusVars, cleanupVars, adminVars, stream>>

dropQueue(s) ==
    /\ \/ pc[s] = "leaving"
       \/ pc[s] = "unregistering" /\ teardown[s] = "done"
    /\ queue' = IF queue = s THEN None ELSE queue
    /\ Goto(s, "ended")
    /\ UNCHANGED <<conn, old, teardown, statusVars, cleanupVars, adminVars,
                   stream>>

----------------------------------------------------------------------------
(* unregister(s), called at any time by the writer's onError, by a failed  *)
(* send or by a failed sendHeartbeatAck.                                   *)

unregister(s) ==
    /\ conn = s
    /\ RemoveSession(s)
    /\ UNCHANGED <<pc, old, statusVars, cleanupVars, adminVars, stream>>

handleClientDisconnected(s) ==
    /\ teardown[s] = "handler"
    /\ scheduleReconnectCleanup
    /\ teardown' = [teardown EXCEPT ![s] = "marking"]
    /\ UNCHANGED <<conn, queue, pc, old, statusVars, adminVars, stream>>

(* Seeded fault: a new session is not looked for.                          *)
CheckOfflineNever(s) ==
    /\ teardown[s] = "marking" /\ statusMu = None
    /\ statusMu' = s /\ teardown' = [teardown EXCEPT ![s] = "writing"]
    /\ UNCHANGED <<conn, queue, pc, old, status, disabled, cleanupVars, adminVars,
                   stream>>

(* markClientOffline: the check and the write, under statusMu.             *)
CheckOffline(s) ==
    /\ teardown[s] = "marking" /\ statusMu = None
    /\ IF conn = None
       THEN statusMu' = s /\ teardown' = [teardown EXCEPT ![s] = "writing"]
       ELSE UNCHANGED statusMu /\ teardown' = [teardown EXCEPT ![s] = "done"]
    /\ UNCHANGED <<conn, queue, pc, old, status, disabled, cleanupVars, adminVars,
                   stream>>

WriteOffline(s) ==
    /\ teardown[s] = "writing"
    /\ status' = "offline" /\ statusMu' = None
    /\ teardown' = [teardown EXCEPT ![s] = "done"]
    /\ UNCHANGED <<conn, queue, pc, old, disabled, cleanupVars, adminVars,
                   stream>>

----------------------------------------------------------------------------
(* The administrator disables or enables the client (clientHandler.update) *)
(* or resets its token; disabling and resetting end in                     *)
(* Manager.DisconnectClient.                                               *)

update ==
    /\ admin = "idle" /\ adminRuns < MaxAdmin
    /\ adminRuns' = adminRuns + 1
    /\ disabled' \in BOOLEAN
    /\ admin' = IF disabled' THEN "disconnecting" ELSE "idle"
    /\ UNCHANGED <<hubVars, statusMu, status, cleanupVars, adminConn, stream>>

resetToken ==
    /\ admin = "idle" /\ adminRuns < MaxAdmin
    /\ adminRuns' = adminRuns + 1
    /\ admin' = "disconnecting"
    /\ UNCHANGED <<hubVars, statusVars, cleanupVars, adminConn, stream>>

(* hub.Disconnect: reads the session, then unregisters what it read.       *)
AdminReads ==
    /\ admin = "disconnecting"
    /\ adminConn' = conn
    /\ admin' = IF conn = None THEN "schedule" ELSE "unregister"
    /\ UNCHANGED <<hubVars, statusVars, cleanupVars, adminRuns, stream>>

AdminUnregisters ==
    /\ admin = "unregister"
    /\ IF conn = adminConn
       THEN RemoveSession(adminConn) /\ admin' = "unregistering"
       ELSE UNCHANGED <<conn, queue, teardown>> /\ admin' = "cancel"
    /\ UNCHANGED <<pc, old, statusVars, cleanupVars, adminConn, adminRuns, stream>>

AdminUnregistered ==
    /\ admin = "unregistering" /\ teardown[adminConn] = "done"
    /\ admin' = "cancel"
    /\ UNCHANGED <<hubVars, statusVars, cleanupVars, adminConn, adminRuns, stream>>

(* handleClientDisconnected, when there was no session.                    *)
AdminSchedules ==
    /\ admin = "schedule"
    /\ scheduleReconnectCleanup
    /\ admin' = "cancel"
    /\ UNCHANGED <<hubVars, statusVars, adminConn, adminRuns, stream>>

AdminCancels ==
    /\ admin = "cancel"
    /\ cancelReconnectCleanup
    /\ admin' = "disconnect"
    /\ UNCHANGED <<hubVars, statusVars, adminConn, adminRuns, stream>>

AdminDisconnects ==
    /\ admin = "disconnect"
    /\ DisconnectActiveClient
    /\ admin' = "idle" /\ adminConn' = None
    /\ UNCHANGED <<hubVars, statusVars, cleanupVars, adminRuns>>

----------------------------------------------------------------------------
(* Data streams, as the broker provides them: the agent opens one when the *)
(* session asked it to, and it ends by itself at any time.                 *)

OpenStream(t) ==
    /\ stream[t] = "none" /\ conn # None
    /\ stream' = [stream EXCEPT ![t] = "relaying"]
    /\ UNCHANGED <<hubVars, statusVars, cleanupVars, adminVars>>

StreamEnds(t) ==
    /\ stream[t] = "relaying"
    /\ stream' = [stream EXCEPT ![t] = "closed"]
    /\ UNCHANGED <<hubVars, statusVars, cleanupVars, adminVars>>

----------------------------------------------------------------------------
Serve(s) == \/ RefuseDisabled(s) \/ register(s) \/ ReplaceOld(s)
            \/ CheckOnline(s) \/ WriteOnline(s) \/ handleClientConnected(s)
            \/ dropQueue(s)

Unregister(s) == handleClientDisconnected(s) \/ CheckOffline(s) \/ WriteOffline(s)

Expire(e) == ExpireChecksEpoch(e) \/ ExpireChecksHub(e) \/ ExpireCleansUp(e)

Admin == \/ AdminReads \/ AdminUnregisters \/ AdminUnregistered \/ AdminSchedules
         \/ AdminCancels \/ AdminDisconnects

Next == \/ \E s \in Sessions : \/ acceptHello(s) \/ Serve(s) \/ readLoopEnds(s)
                               \/ unregister(s) \/ Unregister(s)
        \/ TimerFires
        \/ \E e \in DOMAIN expiry : Expire(e)
        \/ update \/ resetToken \/ Admin
        \/ \E t \in Streams : OpenStream(t) \/ StreamEnds(t)

Spec == Init /\ [][Next]_vars

(* Goroutines run and release their locks; timers need not be waited for.  *)
Fairness == /\ \A s \in Sessions : SF_vars(Serve(s)) /\ SF_vars(Unregister(s))
            /\ WF_vars(Admin)

FairSpec == Spec /\ Fairness

----------------------------------------------------------------------------
Settled(s) == /\ pc[s] \in {"new", "reading", "ended", "refused"}
              /\ teardown[s] \in {"none", "done"}

Quiet == admin = "idle" /\ \A s \in Sessions : Settled(s)

(* Every variable keeps its type.                                          *)
TypeOK ==
    /\ conn \in Sessions \cup {None} /\ queue \in Sessions \cup {None}
    /\ pc \in [Sessions -> {"new", "accepted", "disabled", "refused", "replacing",
                            "marking", "writing", "snapshot", "reading",
                            "unregistering", "leaving", "ended"}]
    /\ old \in [Sessions -> Sessions \cup {None}]
    /\ teardown \in [Sessions -> {"none", "handler", "marking", "writing", "done"}]
    /\ statusMu \in Sessions \cup {None}
    /\ status \in {"online", "offline"} /\ disabled \in BOOLEAN
    /\ epoch \in Nat
    /\ timer = None \/ timer \in [epoch : Nat, armed : BOOLEAN]
    /\ DOMAIN expiry \subseteq Nat
    /\ \A e \in DOMAIN expiry : expiry[e] \in {"fired", "current", "gone"}
    /\ admin \in {"idle", "disconnecting", "unregister", "unregistering",
                  "schedule", "cancel", "disconnect"}
    /\ adminConn \in Sessions \cup {None} /\ adminRuns \in Nat
    /\ stream \in [Streams -> {"none", "relaying", "closed"}]

(* The write queue in the map is always the current session's: no deferred *)
(* clean-up of an old session takes the new one's queue away, which would  *)
(* make a connected agent unreachable.                                     *)
QueueOfCurrent == queue = conn

(* Whatever order registrations, replacements and late unregisters run in, *)
(* once they have settled the status shown to the administrator is right:  *)
(* 'online' only with a session, and 'online' with one unless a hello was  *)
(* refused because the client is disabled.                                 *)
StatusMatchesHub ==
    Quiet => /\ status = "online" => conn # None
             /\ conn # None /\ (\A s \in Sessions : pc[s] # "refused") => status = "online"

(* The cleanup timer never closes the streams of an agent whose session is *)
(* connected and was announced to the manager, however late its function   *)
(* runs: the connect handler advanced the epoch.                           *)
CleanupSparesServed ==
    \A e \in DOMAIN expiry :
        expiry[e] = "gone" /\ epoch = e =>
            ~(conn # None /\ pc[conn] \in {"reading", "unregistering", "leaving"})

(* Two cleanups never compete: an armed timer carries the current epoch,   *)
(* and of the cleanup functions that are running only one can still act.   *)
OneLiveCleanup ==
    /\ timer # None => timer.epoch = epoch
    /\ timer # None /\ timer.armed => epoch \notin DOMAIN expiry

(* A client without a session is eventually shown as offline, or connects. *)
OfflineShown == conn = None ~> (status = "offline" \/ conn # None)

(* The manager's promise in handleClientDisconnected: when the agent is    *)
(* gone and nothing is in progress, a stream still relaying has a timer    *)
(* that will clean it up.                                                  *)
OrphansHaveTimer ==
    Quiet /\ conn = None /\ (\E t \in Streams : stream[t] = "relaying") =>
        timer # None \/ \E e \in DOMAIN expiry : expiry[e] # "none"

=============================================================================
