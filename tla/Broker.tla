------------------------------- MODULE Broker -------------------------------
(***************************************************************************)
(* The relay broker (server/relay): it pairs visitors, which wait in the   *)
(* pending map, with data connections that agents dial, and relays between *)
(* them.  A data connection is either dialled for one request, or is a     *)
(* work connection that waits in the idle pool and is assigned later.      *)
(*                                                                         *)
(* Requests are visitors, each with the fresh identifier and the goroutine *)
(* of handleRelayedVisitor; Conns are the sockets (or streams) that agents *)
(* dial, each with the goroutine that serves it.  An action is what one    *)
(* goroutine does between two acquisitions of Broker.mu,                   *)
(* clientConnections.mu or workConnectionPool.mu, or between two channel   *)
(* operations.  Sockets that a goroutine took out of a map under a lock    *)
(* and closes after releasing it are in closingData and closingVisitor.    *)
(***************************************************************************)
EXTENDS Integers, Sequences

CONSTANTS
    Clients, Requests, Conns,
    Owner,           \* tunnel.ClientID of each request
    MaxIdle,         \* defaultWorkConnectionPoolSize
    MaxDisconnects,  \* bound: DisconnectActiveClient calls per client
    None

ASSUME BrokerAssumption ==
    /\ Owner \in [Requests -> Clients]
    /\ MaxIdle \in Nat /\ MaxDisconnects \in Nat
    /\ None \notin Clients \cup Requests

VARIABLES
    \* Broker.pending and the fields of a pendingConn
    pend, paired, done,
    \* the visitor's goroutine: where it is, and what Wait returned
    waiter, outcome,
    \* requests the agent was told to open
    opened,
    \* the goroutine of a data connection: where it is, and its locals
    stage, client, req, gen,
    \* clientConnections and workConnectionPool
    generations, active, idle,
    \* closed sockets, and sockets some goroutine is about to close
    closedData, closedVisitor, closingData, closingVisitor,
    \* goroutines inside Fail, FailPendingClient, DisconnectActiveClient
    failing, closeReqs, sweeps, failClients,
    \* history: what was pending when DisconnectActiveClient last ran
    survivors

visitorVars == <<pend, paired, done, waiter, outcome, opened>>
connVars == <<stage, client, req, gen>>
poolVars == <<generations, active, idle>>
socketVars == <<closedData, closedVisitor, closingData, closingVisitor>>
callVars == <<failing, closeReqs, sweeps, failClients>>
vars == <<pend, paired, done, waiter, outcome, opened, stage, client, req, gen,
          generations, active, idle, closedData, closedVisitor, closingData,
          closingVisitor, failing, closeReqs, sweeps, failClients, survivors>>

Results == {"relayed", "failed", "disconnected", "rejected"}

Init ==
    /\ pend = {} /\ paired = {}
    /\ done = [r \in Requests |-> "none"]
    /\ waiter = [r \in Requests |-> "new"]
    /\ outcome = [r \in Requests |-> "none"]
    /\ opened = {}
    /\ stage = [d \in Conns |-> "new"]
    /\ client = [d \in Conns |-> None]
    /\ req = [d \in Conns |-> None]
    /\ gen = [d \in Conns |-> 0]
    /\ generations = [c \in Clients |-> 0]
    /\ active = [c \in Clients |-> {}]
    /\ idle = [c \in Clients |-> <<>>]
    /\ closedData = {} /\ closedVisitor = {}
    /\ closingData = {} /\ closingVisitor = {}
    /\ failing = {} /\ closeReqs = {} /\ sweeps = {} /\ failClients = {}
    /\ survivors = {}

----------------------------------------------------------------------------
(* A visitor: handleRelayedVisitor, TryWorkConnection, Wait.               *)

RegisterPending(r) ==
    /\ waiter[r] = "new"
    /\ pend' = pend \cup {r}
    /\ waiter' = [waiter EXCEPT ![r] = "registered"]
    /\ UNCHANGED <<paired, done, outcome, opened, connVars, poolVars,
                   socketVars, callVars, survivors>>

(* TryWorkConnection looks the request up, then takes a worker.            *)
LookUpPending(r) ==
    /\ waiter[r] = "registered"
    /\ waiter' = [waiter EXCEPT ![r] = IF r \in pend THEN "taking" ELSE "opening"]
    /\ UNCHANGED <<pend, paired, done, outcome, opened, connVars, poolVars,
                   socketVars, callVars, survivors>>

LastOf(s) == s[Len(s)]
AllButLast(s) == SubSeq(s, 1, Len(s) - 1)

take(c, r) ==
    /\ idle[c] # <<>>
    /\ idle' = [idle EXCEPT ![c] = AllButLast(@)]
    /\ LET d == LastOf(idle[c])
       IN  /\ stage' = [stage EXCEPT ![d] = "assigned"]
           /\ req' = [req EXCEPT ![d] = r]

TakeWorker(r) ==
    /\ waiter[r] = "taking"
    /\ take(Owner[r], r)
    /\ waiter' = [waiter EXCEPT ![r] = "waiting"]
    /\ UNCHANGED <<pend, paired, done, outcome, opened, client, gen, generations,
                   active, socketVars, callVars, survivors>>

NoWorker(r) ==
    /\ waiter[r] = "taking"
    /\ idle[Owner[r]] = <<>>
    /\ waiter' = [waiter EXCEPT ![r] = "opening"]
    /\ UNCHANGED <<pend, paired, done, outcome, opened, connVars, poolVars,
                   socketVars, callVars, survivors>>

(* hub.OpenConnection fails when the agent has no control session.         *)
openRelayedDataPath(r) ==
    /\ waiter[r] = "opening"
    /\ opened' \in {opened, opened \cup {r}}
    /\ waiter' = [waiter EXCEPT ![r] = "waiting"]
    /\ UNCHANGED <<pend, paired, done, outcome, connVars, poolVars, socketVars,
                   callVars, survivors>>

Return(r, result) ==
    /\ waiter' = [waiter EXCEPT ![r] = "returned"]
    /\ outcome' = [outcome EXCEPT ![r] = result]

WaitDone(r) ==
    /\ waiter[r] \in {"waiting", "paired"}
    /\ done[r] # "none"
    /\ done' = [done EXCEPT ![r] = "none"]
    /\ Return(r, done[r])
    /\ UNCHANGED <<pend, paired, opened, connVars, poolVars, socketVars,
                   callVars, survivors>>

WaitPaired(r) ==
    /\ waiter[r] = "waiting" /\ r \in paired
    /\ waiter' = [waiter EXCEPT ![r] = "paired"]
    /\ UNCHANGED <<pend, paired, done, outcome, opened, connVars, poolVars,
                   socketVars, callVars, survivors>>

(* Seeded fault: the timer does not look whether the entry is gone.        *)
WaitTimeoutBlind(r) ==
    /\ waiter[r] = "waiting"
    /\ waiter' = [waiter EXCEPT ![r] = "expired"]
    /\ pend' = pend \ {r}
    /\ UNCHANGED <<paired, done, outcome, opened, connVars, poolVars, socketVars,
                   callVars, survivors>>

(* The timer case, with cancelPending: too late if the entry is gone.      *)
WaitTimeout(r) ==
    /\ waiter[r] = "waiting"
    /\ waiter' = [waiter EXCEPT ![r] = IF r \in pend THEN "expired" ELSE "paired"]
    /\ pend' = pend \ {r}
    /\ UNCHANGED <<paired, done, outcome, opened, connVars, poolVars, socketVars,
                   callVars, survivors>>

(* Seeded fault: the visitor is not closed.                                *)
ReturnTimeoutOpen(r) ==
    /\ waiter[r] = "expired"
    /\ Return(r, "timeout")
    /\ UNCHANGED <<pend, paired, done, opened, connVars, poolVars, socketVars,
                   callVars, survivors>>

ReturnTimeout(r) ==
    /\ waiter[r] = "expired"
    /\ closedVisitor' = closedVisitor \cup {r}
    /\ Return(r, "timeout")
    /\ UNCHANGED <<pend, paired, done, opened, connVars, poolVars, closedData,
                   closingData, closingVisitor, callVars, survivors>>

----------------------------------------------------------------------------
(* The agent: it dials for a request it was told to open, or a worker.     *)

DialData(d, c, r) ==
    /\ stage[d] = "new" /\ r \in opened
    /\ stage' = [stage EXCEPT ![d] = "data"]
    /\ client' = [client EXCEPT ![d] = c]
    /\ req' = [req EXCEPT ![d] = r]
    /\ UNCHANGED <<visitorVars, gen, poolVars, socketVars, callVars, survivors>>

DialWorker(d, c) ==
    /\ stage[d] = "new"
    /\ stage' = [stage EXCEPT ![d] = "worker"]
    /\ client' = [client EXCEPT ![d] = c]
    /\ UNCHANGED <<visitorVars, req, gen, poolVars, socketVars, callVars, survivors>>

(* authenticateDataClient ends by reading the client's generation; the     *)
(* next lock is taken later.  The credentials may also be refused.         *)
authenticateDataClient(d) ==
    /\ stage[d] \in {"data", "worker"}
    /\ \/ /\ stage' = [stage EXCEPT ![d] = IF @ = "data" THEN "claiming" ELSE "adding"]
          /\ gen' = [gen EXCEPT ![d] = generations[client[d]]]
          /\ UNCHANGED closedData
       \/ /\ stage' = [stage EXCEPT ![d] = "ended"]
          /\ closedData' = closedData \cup {d}
          /\ UNCHANGED gen
    /\ UNCHANGED <<visitorVars, client, req, poolVars, closedVisitor,
                   closingData, closingVisitor, callVars, survivors>>

(* handleWorkConnection: workers.add.                                      *)
add(d) ==
    /\ stage[d] = "adding"
    /\ IF Len(idle[client[d]]) >= MaxIdle
       THEN /\ stage' = [stage EXCEPT ![d] = "ended"]
            /\ closedData' = closedData \cup {d}
            /\ UNCHANGED idle
       ELSE /\ stage' = [stage EXCEPT ![d] = "idle"]
            /\ idle' = [idle EXCEPT ![client[d]] = Append(@, d)]
            /\ UNCHANGED closedData
    /\ UNCHANGED <<visitorVars, client, req, gen, generations, active,
                   closedVisitor, closingData, closingVisitor, callVars, survivors>>

Claimable(d) == req[d] \in pend /\ Owner[req[d]] = client[d]

(* Seeded fault: the entry stays in the map.                               *)
claimShared(d) ==
    /\ stage[d] = "claiming" /\ Claimable(d)
    /\ paired' = paired \cup {req[d]}
    /\ stage' = [stage EXCEPT ![d] = "claimed"]
    /\ UNCHANGED <<pend, done, waiter, outcome, opened, client, req, gen, poolVars,
                   socketVars, callVars, survivors>>

claimPendingForClient(d) ==
    /\ stage[d] = "claiming" /\ Claimable(d)
    /\ pend' = pend \ {req[d]}
    /\ paired' = paired \cup {req[d]}
    /\ stage' = [stage EXCEPT ![d] = "claimed"]
    /\ UNCHANGED <<done, waiter, outcome, opened, client, req, gen, poolVars,
                   socketVars, callVars, survivors>>

ClaimRefused(d) ==
    /\ stage[d] = "claiming" /\ ~Claimable(d)
    /\ stage' = [stage EXCEPT ![d] = "ended"]
    /\ closedData' = closedData \cup {d}
    /\ UNCHANGED <<visitorVars, client, req, gen, poolVars, closedVisitor,
                   closingData, closingVisitor, callVars, survivors>>

(* Seeded fault: the generations are not compared.                         *)
registerAny(d) ==
    /\ stage[d] = "claimed"
    /\ active' = [active EXCEPT ![client[d]] = @ \cup {d}]
    /\ stage' = [stage EXCEPT ![d] = "relaying"]
    /\ UNCHANGED <<visitorVars, client, req, gen, generations, idle, socketVars,
                   callVars, survivors>>

(* relayPending: clientConnections.register compares the generations.      *)
register(d) ==
    /\ stage[d] = "claimed"
    /\ gen[d] = generations[client[d]]
    /\ active' = [active EXCEPT ![client[d]] = @ \cup {d}]
    /\ stage' = [stage EXCEPT ![d] = "relaying"]
    /\ UNCHANGED <<visitorVars, client, req, gen, generations, idle, socketVars,
                   callVars, survivors>>

RegisterRefused(d) ==
    /\ stage[d] = "claimed"
    /\ gen[d] # generations[client[d]]
    /\ closedData' = closedData \cup {d}
    /\ closedVisitor' = closedVisitor \cup {req[d]}
    /\ stage' = [stage EXCEPT ![d] = "rejected"]
    /\ UNCHANGED <<visitorVars, client, req, gen, poolVars, closingData,
                   closingVisitor, callVars, survivors>>

(* relay: it ends when either side ends or is closed, and closes both.     *)
relay(d) ==
    /\ stage[d] = "relaying"
    /\ closedData' = closedData \cup {d}
    /\ closedVisitor' = closedVisitor \cup {req[d]}
    /\ stage' = [stage EXCEPT ![d] = "relayed"]
    /\ UNCHANGED <<visitorVars, client, req, gen, poolVars, closingData,
                   closingVisitor, callVars, survivors>>

RelayMustEnd(d) == d \in closedData \/ req[d] \in closedVisitor

(* clientConnections.remove, deferred in relayPending.                     *)
remove(d) ==
    /\ stage[d] = "relayed"
    /\ active' = [active EXCEPT ![client[d]] = @ \ {d}]
    /\ stage' = [stage EXCEPT ![d] = "finished"]
    /\ UNCHANGED <<visitorVars, client, req, gen, generations, idle, socketVars,
                   callVars, survivors>>

(* pending.done <- err: a full channel blocks.                             *)
SendDone(d) ==
    /\ stage[d] \in {"finished", "rejected"}
    /\ done[req[d]] = "none"
    /\ done' = [done EXCEPT ![req[d]] =
                    IF stage[d] = "finished" THEN "relayed" ELSE "rejected"]
    /\ stage' = [stage EXCEPT ![d] = "ended"]
    /\ UNCHANGED <<pend, paired, waiter, outcome, opened, client, req, gen,
                   poolVars, socketVars, callVars, survivors>>

----------------------------------------------------------------------------
(* assignWorkConnection: what startWorkConnection returns.                 *)

StartReady(d) ==
    /\ stage[d] = "assigned" /\ d \notin closedData
    /\ stage' = [stage EXCEPT ![d] = "claiming"]
    /\ UNCHANGED <<visitorVars, client, req, gen, poolVars, socketVars, callVars,
                   survivors>>

(* The worker is dead or late: the next one, else the fallback path.       *)
StartError(d) ==
    /\ stage[d] = "assigned"
    /\ closedData' = closedData \cup {d}
    /\ LET c == client[d]
       IN  IF idle[c] = <<>>
           THEN /\ stage' = [stage EXCEPT ![d] = "fallback"]
                /\ UNCHANGED <<req, idle>>
           ELSE /\ stage' = [stage EXCEPT ![d] = "ended", ![LastOf(idle[c])] = "assigned"]
                /\ req' = [req EXCEPT ![LastOf(idle[c])] = req[d]]
                /\ idle' = [idle EXCEPT ![c] = AllButLast(@)]
    /\ UNCHANGED <<visitorVars, client, gen, generations, active, closedVisitor,
                   closingData, closingVisitor, callVars, survivors>>

openFallbackDataPath(d) ==
    /\ stage[d] = "fallback"
    /\ opened' \in IF req[d] \in pend THEN {opened, opened \cup {req[d]}} ELSE {opened}
    /\ stage' = [stage EXCEPT ![d] = "ended"]
    /\ UNCHANGED <<pend, paired, done, waiter, outcome, client, req, gen, poolVars,
                   socketVars, callVars, survivors>>

(* finishWorkConnection when the agent reports that it is not ready: Fail, *)
(* and the worker is closed.                                               *)
StartNotReady(d) ==
    /\ stage[d] = "assigned" /\ d \notin closedData
    /\ stage' = [stage EXCEPT ![d] = "ended"]
    /\ IF Claimable(d)
       THEN /\ pend' = pend \ {req[d]}
            /\ failing' = failing \cup {[req |-> req[d], from |-> client[d]]}
            /\ UNCHANGED closeReqs
       ELSE /\ closeReqs' = closeReqs \cup {<<client[d], req[d]>>}
            /\ UNCHANGED <<pend, failing>>
    /\ closingData' = closingData \cup {d}
    /\ UNCHANGED <<paired, done, waiter, outcome, opened, client, req, gen,
                   poolVars, closedData, closedVisitor, closingVisitor, sweeps,
                   failClients, survivors>>

----------------------------------------------------------------------------
(* Fail, for a connection_failed message of client c.                      *)

Fail(c, r) ==
    /\ r \in opened
    /\ IF r \in pend /\ Owner[r] = c
       THEN /\ pend' = pend \ {r}
            /\ failing' = failing \cup {[req |-> r, from |-> c]}
            /\ UNCHANGED closeReqs
       ELSE /\ closeReqs' = closeReqs \cup {<<c, r>>}
            /\ UNCHANGED <<pend, failing>>
    /\ UNCHANGED <<paired, done, waiter, outcome, opened, connVars, poolVars,
                   socketVars, sweeps, failClients, survivors>>

(* What follows the unlock in Fail (from is the client) and in             *)
(* FailPendingClient (from is None): close the visitor, send without       *)
(* blocking.                                                               *)
CompleteFailed(f) ==
    /\ f \in failing
    /\ failing' = failing \ {f}
    /\ closedVisitor' = closedVisitor \cup {f.req}
    /\ done' = [done EXCEPT ![f.req] =
                    IF @ # "none" THEN @
                    ELSE IF f.from = None THEN "disconnected" ELSE "failed"]
    /\ closeReqs' = IF f.from = None THEN closeReqs
                    ELSE closeReqs \cup {<<f.from, f.req>>}
    /\ UNCHANGED <<pend, paired, waiter, outcome, opened, connVars, poolVars,
                   closedData, closingData, closingVisitor, sweeps, failClients,
                   survivors>>

closeRequest(c, r) ==
    /\ <<c, r>> \in closeReqs
    /\ closeReqs' = closeReqs \ {<<c, r>>}
    /\ LET matching == {d \in active[c] : req[d] = r}
       IN  /\ closingData' = closingData \cup matching
           /\ closingVisitor' = closingVisitor \cup {req[d] : d \in matching}
    /\ UNCHANGED <<visitorVars, connVars, poolVars, closedData, closedVisitor,
                   failing, sweeps, failClients, survivors>>

----------------------------------------------------------------------------
(* DisconnectActiveClient: connections.disconnect, then                    *)
(* workers.closeClient; for an administrator's DisconnectClient            *)
(* FailPendingClient follows.                                              *)

(* Seeded fault: the streams leave the registry but are not closed.        *)
disconnectQuietly(c, admin) ==
    /\ generations[c] < MaxDisconnects
    /\ generations' = [generations EXCEPT ![c] = @ + 1]
    /\ active' = [active EXCEPT ![c] = {}]
    /\ sweeps' = sweeps \cup {[client |-> c, admin |-> admin]}
    /\ survivors' = survivors \cup {r \in pend : Owner[r] = c}
    /\ UNCHANGED <<visitorVars, connVars, idle, socketVars, failing, closeReqs,
                   failClients>>

disconnect(c, admin) ==
    /\ generations[c] < MaxDisconnects
    /\ generations' = [generations EXCEPT ![c] = @ + 1]
    /\ active' = [active EXCEPT ![c] = {}]
    /\ closingData' = closingData \cup active[c]
    /\ closingVisitor' = closingVisitor \cup {req[d] : d \in active[c]}
    /\ sweeps' = sweeps \cup {[client |-> c, admin |-> admin]}
    /\ survivors' = survivors \cup {r \in pend : Owner[r] = c}
    /\ UNCHANGED <<visitorVars, connVars, idle, closedData, closedVisitor,
                   failing, closeReqs, failClients>>

Elements(s) == {s[i] : i \in 1 .. Len(s)}

closeClient(s) ==
    /\ s \in sweeps
    /\ sweeps' = sweeps \ {s}
    /\ idle' = [idle EXCEPT ![s.client] = <<>>]
    /\ closingData' = closingData \cup Elements(idle[s.client])
    /\ stage' = [d \in Conns |-> IF d \in Elements(idle[s.client]) THEN "ended"
                                 ELSE stage[d]]
    /\ failClients' = IF s.admin THEN failClients \cup {s.client} ELSE failClients
    /\ UNCHANGED <<visitorVars, client, req, gen, generations, active,
                   closedData, closedVisitor, closingVisitor, failing, closeReqs,
                   survivors>>

(* CloseIdleWorkConnections, when the manager closes.                      *)
closeAll ==
    LET workers == UNION {Elements(idle[c]) : c \in Clients}
    IN  /\ workers # {}
        /\ idle' = [c \in Clients |-> <<>>]
        /\ closingData' = closingData \cup workers
        /\ stage' = [d \in Conns |-> IF d \in workers THEN "ended" ELSE stage[d]]
        /\ UNCHANGED <<visitorVars, client, req, gen, generations, active,
                       closedData, closedVisitor, closingVisitor, callVars, survivors>>

FailPendingClient(c) ==
    /\ c \in failClients
    /\ failClients' = failClients \ {c}
    /\ LET mine == {r \in pend : Owner[r] = c}
       IN  /\ pend' = pend \ mine
           /\ failing' = failing \cup {[req |-> r, from |-> None] : r \in mine}
    /\ UNCHANGED <<paired, done, waiter, outcome, opened, connVars, poolVars,
                   socketVars, closeReqs, sweeps, survivors>>

CloseData(d) ==
    /\ d \in closingData
    /\ closingData' = closingData \ {d}
    /\ closedData' = closedData \cup {d}
    /\ UNCHANGED <<visitorVars, connVars, poolVars, closedVisitor,
                   closingVisitor, callVars, survivors>>

CloseVisitor(r) ==
    /\ r \in closingVisitor
    /\ closingVisitor' = closingVisitor \ {r}
    /\ closedVisitor' = closedVisitor \cup {r}
    /\ UNCHANGED <<visitorVars, connVars, poolVars, closedData, closingData,
                   callVars, survivors>>

(* handleClientConnected: retryPendingVisitors reissues the open commands. *)
retryPendingVisitors(c) ==
    /\ opened' = opened \cup {r \in pend : Owner[r] = c}
    /\ UNCHANGED <<pend, paired, done, waiter, outcome, connVars, poolVars,
                   socketVars, callVars, survivors>>

----------------------------------------------------------------------------
Visitor(r) == \/ LookUpPending(r) \/ TakeWorker(r) \/ NoWorker(r)
              \/ openRelayedDataPath(r) \/ WaitDone(r) \/ WaitPaired(r)
              \/ WaitTimeout(r) \/ ReturnTimeout(r)

Serve(d) == \/ authenticateDataClient(d) \/ add(d)
            \/ claimPendingForClient(d) \/ ClaimRefused(d)
            \/ register(d) \/ RegisterRefused(d) \/ remove(d) \/ SendDone(d)
            \/ StartReady(d) \/ StartError(d) \/ StartNotReady(d)
            \/ openFallbackDataPath(d)

Cleanup == \/ \E f \in failing : CompleteFailed(f)
           \/ \E p \in closeReqs : closeRequest(p[1], p[2])
           \/ \E s \in sweeps : closeClient(s)
           \/ \E c \in failClients : FailPendingClient(c)
           \/ \E d \in closingData : CloseData(d)
           \/ \E r \in closingVisitor : CloseVisitor(r)

Next == \/ \E r \in Requests : RegisterPending(r) \/ Visitor(r)
        \/ \E d \in Conns, c \in Clients : \/ DialWorker(d, c)
                                           \/ \E r \in Requests : DialData(d, c, r)
        \/ \E d \in Conns : Serve(d) \/ relay(d)
        \/ \E c \in Clients, r \in Requests : Fail(c, r)
        \/ \E c \in Clients, admin \in BOOLEAN : disconnect(c, admin)
        \/ \E c \in Clients : retryPendingVisitors(c)
        \/ closeAll
        \/ Cleanup

Spec == Init /\ [][Next]_vars

(* Goroutines run, timers and deadlines fire, and a relay whose socket was *)
(* closed ends.  Agents need not dial, and a healthy relay need not end.   *)
Fairness ==
    /\ \A r \in Requests : WF_vars(Visitor(r))
    /\ \A d \in Conns : /\ WF_vars(Serve(d))
                        /\ WF_vars(RelayMustEnd(d) /\ relay(d))
                        /\ WF_vars(CloseData(d))
    /\ \A r \in Requests : WF_vars(CloseVisitor(r))
    /\ \A r \in Requests, c \in Clients \cup {None} :
           WF_vars(CompleteFailed([req |-> r, from |-> c]))

FairSpec == Spec /\ Fairness

----------------------------------------------------------------------------
Claimed == {"claimed", "relaying", "relayed", "finished", "rejected"}

(* Every variable of the broker keeps its type.                            *)
TypeOK ==
    /\ pend \subseteq Requests /\ paired \subseteq Requests
    /\ done \in [Requests -> Results \cup {"none"}]
    /\ waiter \in [Requests -> {"new", "registered", "taking", "opening",
                                "waiting", "paired", "expired", "returned"}]
    /\ outcome \in [Requests -> Results \cup {"none", "timeout"}]
    /\ opened \subseteq Requests
    /\ stage \in [Conns -> Claimed \cup
                    {"new", "data", "worker", "claiming", "adding", "idle",
                     "assigned", "fallback", "ended"}]
    /\ client \in [Conns -> Clients \cup {None}]
    /\ req \in [Conns -> Requests \cup {None}]
    /\ gen \in [Conns -> Nat]
    /\ generations \in [Clients -> Nat]
    /\ active \in [Clients -> SUBSET Conns]
    /\ idle \in [Clients -> Seq(Conns)]
    /\ closedData \subseteq Conns /\ closedVisitor \subseteq Requests
    /\ closingData \subseteq Conns /\ closingVisitor \subseteq Requests
    /\ failing \subseteq [req : Requests, from : Clients \cup {None}]
    /\ closeReqs \subseteq Clients \X Requests
    /\ sweeps \subseteq [client : Clients, admin : BOOLEAN]
    /\ failClients \subseteq Clients
    /\ survivors \subseteq Requests

(* A visitor is paired with at most one data connection, although a worker *)
(* and any number of dialled connections may race for it, and only with    *)
(* one of the client that owns its tunnel.                                 *)
OneStreamPerVisitor ==
    \A d \in Conns : stage[d] \in Claimed =>
        /\ Owner[req[d]] = client[d]
        /\ \A e \in Conns : stage[e] \in Claimed /\ req[e] = req[d] => e = d

(* The blocking send on the done channel after a relay never blocks and is *)
(* never lost on a waiter that already returned: nobody else completes a   *)
(* request once it is claimed.                                             *)
DoneReachesWaiter ==
    \A d \in Conns : stage[d] \in Claimed =>
        done[req[d]] = "none" /\ waiter[req[d]] \notin {"expired", "returned"}

(* A visitor in the pending map can still be served: it is open, nobody    *)
(* has answered it, and its goroutine is still there.                      *)
PendingIsAlive ==
    \A r \in pend : /\ r \notin closedVisitor /\ r \notin closingVisitor
                    /\ r \notin paired /\ done[r] = "none"
                    /\ waiter[r] \in {"registered", "taking", "opening", "waiting"}

(* No socket leaks: whichever of the claim, the timeout, the failure       *)
(* report and the disconnects wins, the visitor of a request whose         *)
(* goroutine returned is closed, and so is, or is about to be, the data    *)
(* connection of a goroutine that ended.                                   *)
NoSocketLeak ==
    /\ \A r \in Requests : waiter[r] = "returned" => r \in closedVisitor
    /\ \A d \in Conns : stage[d] = "ended" => d \in closedData \cup closingData

(* The registry only lists streams of the current generation: one that was *)
(* authenticated before a disconnect is never registered after it.         *)
ActiveIsCurrent ==
    \A c \in Clients : \A d \in active[c] :
        client[d] = c /\ gen[d] = generations[c]

(* A disconnect reaches every stream of earlier generations: one that is   *)
(* still relaying is closed or about to be.                                *)
DisconnectReachesAll ==
    \A d \in Conns :
        stage[d] = "relaying" /\ gen[d] # generations[client[d]] =>
            d \in closedData \cup closingData

(* A work connection waits in one place of one pool and for nobody else.   *)
IdleIsExclusive ==
    \A c \in Clients : \A i \in 1 .. Len(idle[c]) :
        /\ stage[idle[c][i]] = "idle" /\ client[idle[c][i]] = c
        /\ \A j \in 1 .. Len(idle[c]) : idle[c][i] = idle[c][j] => i = j

(* DisconnectActiveClient's contract: a visitor that was pending when it   *)
(* ran stays available to the next session; it is not turned away because  *)
(* of the disconnect.                                                      *)
PendingSurvivesFlap ==
    \A r \in survivors : done[r] # "rejected" /\ outcome[r] # "rejected"

(* Every visitor is relayed or sent away, whatever the agent does.         *)
VisitorServed ==
    \A r \in Requests :
        r \in pend ~> \/ waiter[r] = "returned"
                      \/ \E d \in Conns : stage[d] = "relaying" /\ req[d] = r

(* A stream of an earlier generation comes to an end and frees its         *)
(* goroutines.                                                             *)
StaleStreamEnds ==
    \A d \in Conns :
        (stage[d] = "relaying" /\ gen[d] # generations[client[d]]) ~> stage[d] = "ended"
----------------------------------------------------------------------------
(* The broker implements VisitorService.  Somebody is responsible for      *)
(* every visitor: the pending map, the connection that claimed it, the     *)
(* goroutine that fails it, its timer, or its channel; "lost" is the fate  *)
(* of one that nobody is left to answer.                                   *)

ServedIn(r, stages) == \E d \in Conns : stage[d] \in stages /\ req[d] = r
FailedBy(r, from) == [req |-> r, from |-> from] \in failing

Fate(r) ==
    IF waiter[r] = "new" THEN "absent"
    ELSE IF waiter[r] = "returned" THEN outcome[r]
    ELSE IF waiter[r] = "expired" THEN "timeout"
    ELSE IF r \in pend THEN "waiting"
    ELSE IF done[r] # "none" THEN done[r]
    ELSE IF FailedBy(r, None) THEN "disconnected"
    ELSE IF \E c \in Clients : FailedBy(r, c) THEN "failed"
    ELSE IF ServedIn(r, {"claimed"}) THEN "taken"
    ELSE IF ServedIn(r, {"relaying"}) THEN "streaming"
    ELSE IF ServedIn(r, {"relayed", "finished"}) THEN "relayed"
    ELSE IF ServedIn(r, {"rejected"}) THEN "rejected"
    ELSE "lost"

Service == INSTANCE VisitorService WITH
    fate <- [r \in Requests |-> Fate(r)], cut <- closedVisitor, answer <- outcome

(* The broker keeps the promise of VisitorService: of the claim, the       *)
(* timeout, the failure report and the disconnects exactly one decides     *)
(* what becomes of a visitor, the visitor is closed only then, is told     *)
(* that and nothing else, and nobody forgets it in between.                *)
ImplementsService == Service!Spec
=============================================================================
