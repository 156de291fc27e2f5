--------------------------- MODULE DesktopService ---------------------------
(***************************************************************************)
(* The Go side of the desktop application: the DesktopService methods that *)
(* the window and the tray menu call (service.go, connection_service.go),  *)
(* and the agent runs they start and cancel.                               *)
(*                                                                         *)
(* Every method runs in a goroutine of its own and takes the service's     *)
(* lock for a part of its work at a time: one action per such part.  A     *)
(* configuration has two fields: `network' stands for all that a           *)
(* connection depends on, `general' for the start with the system.         *)
(***************************************************************************)
EXTENDS Naturals, FiniteSets

CONSTANTS None,
          Slots,     \* the calls that can be under way at once
          Values,    \* values of a configuration field; "" is the empty one
          InitialConfigs, \* configurations in desktop.yaml at the start
          MaxRuns    \* bound: run identifiers

ConfigFields == {"network", "general"}
AppConfig == [ConfigFields -> Values]

ASSUME ServiceConstants ==
    MaxRuns \in Nat /\ "" \in Values /\ InitialConfigs \subseteq AppConfig
emptyConfig == [f \in ConfigFields |-> ""]

VARIABLES svc,      \* [cfg, cancel, runID, state]: the fields under the lock
          runs,     \* the agent runs that have not returned
          ops,      \* the calls under way, by slot
          wanted,   \* history: the last of Connect and Disconnect was Connect
          overlapped \* history: two saves were under way at once

serviceVars == <<svc, runs, ops, wanted, overlapped>>

\* A call: what it does, how far it is, the configuration it saves, the run ID it
\* takes and the run before it, and its answer.
NewOp(kind, cfg) == [kind |-> kind, pc |-> "start", cfg |-> cfg, prev |-> None,
                     run |-> 0, before |-> 0, ok |-> TRUE, answer |-> None]

Snapshot == [cfg |-> svc.cfg, state |-> svc.state]

Alive(r) == r \in DOMAIN runs
Live(r) == Alive(r) /\ ~runs[r].cancelled
CancelRun(rs, r) == IF r \in DOMAIN rs THEN [rs EXCEPT ![r].cancelled = TRUE] ELSE rs
Drop(rs, r) == [q \in DOMAIN rs \ {r} |-> rs[q]]

\* setStoppedLocked, by the run that is current
Stopped(s) == [s EXCEPT !.cancel = 0, !.state = "disconnected"]

Goto(k, pc) == ops' = [ops EXCEPT ![k].pc = pc]
Answer(k, ok) == ops' = [ops EXCEPT ![k].pc = "answer", ![k].ok = ok]

\* Seeded fault: a restart does not look whether there still is a connection.
RefusedUnchecked(restart) == ~restart /\ svc.cancel # 0

\* startConnection returns at once: Connect while there is a run, a restart when
\* there is none any more.
Refused(restart) == IF restart THEN svc.cancel = 0 ELSE svc.cancel # 0

\* startConnection up to the unlock.
StartConnection(k, restart) ==
    IF Refused(restart)
    THEN Answer(k, TRUE) /\ UNCHANGED svc
    ELSE /\ svc.runID < MaxRuns
         /\ svc' = [svc EXCEPT !.runID = @ + 1, !.cancel = svc.runID + 1, !.state = "connecting"]
         /\ ops' = [ops EXCEPT ![k].pc = "launch", ![k].run = svc.runID + 1,
                               ![k].before = svc.cancel, ![k].cfg = svc.cfg]

Connect(k) ==
    /\ ops[k] # None /\ ops[k].kind = "connect" /\ ops[k].pc = "start"
    /\ StartConnection(k, FALSE)
    /\ wanted' = TRUE
    /\ UNCHANGED <<runs, overlapped>>

\* Seeded fault: the run before is left alone.
CancelPreviousNot(rs, r) == rs

\* previousCancel()
CancelPrevious(rs, r) == CancelRun(rs, r)

\* A call that has released the lock and not cancelled the run before it yet.
Replacing(k) == ops[k] # None /\ ops[k].pc \in {"launch", "cancel"}

\* A context whose cancel function another call is about to call.
AboutToCancel(r) == \E k \in Slots : Replacing(k) /\ ops[k].before = r

\* The rest of startConnection: the run before is cancelled, and the new agent
\* runs in a goroutine, with a context that may be cancelled already.
Launch(k) ==
    LET op == ops[k] IN
    /\ op # None /\ op.pc = "launch"
    /\ runs' = [r \in DOMAIN runs \cup {op.run} |->
                  IF r = op.run THEN [network |-> op.cfg.network, up |-> FALSE,
                                      cancelled |-> svc.cancel # op.run /\ ~AboutToCancel(op.run)]
                  ELSE CancelPrevious(runs, op.before)[r]]
    /\ Answer(k, TRUE)
    /\ UNCHANGED <<svc, wanted, overlapped>>

\* newAgent fails: setStopped, when this run is still the current one.
LaunchFails(k) ==
    LET op == ops[k] IN
    /\ op # None /\ op.pc = "launch"
    /\ runs' = CancelPrevious(runs, op.before)
    /\ svc' = IF op.run = svc.runID THEN Stopped(svc) ELSE svc
    /\ Answer(k, op.kind = "save")
    /\ UNCHANGED <<wanted, overlapped>>

\* Disconnect up to the unlock; the run ID it takes stays unused.
Disconnect(k) ==
    /\ ops[k] # None /\ ops[k].kind = "disconnect" /\ ops[k].pc = "start"
    /\ svc.runID < MaxRuns
    /\ svc' = [Stopped(svc) EXCEPT !.runID = @ + 1]
    /\ ops' = [ops EXCEPT ![k].pc = "cancel", ![k].run = svc.runID + 1, ![k].before = svc.cancel]
    /\ wanted' = FALSE
    /\ UNCHANGED <<runs, overlapped>>

\* cancel(), after the unlock
DisconnectCancels(k) ==
    /\ ops[k] # None /\ ops[k].pc = "cancel"
    /\ runs' = CancelRun(runs, ops[k].before)
    /\ Answer(k, TRUE)
    /\ UNCHANGED <<svc, wanted, overlapped>>

Saving(k) == ops[k] # None /\ ops[k].kind = "save" /\ ops[k].pc \notin {"start", "answer"}

\* SaveConfig: the configuration before it is read ...
SaveReads(k) ==
    /\ ops[k] # None /\ ops[k].kind = "save" /\ ops[k].pc = "start"
    /\ ops' = [ops EXCEPT ![k].pc = "write", ![k].prev = svc.cfg]
    /\ overlapped' = (overlapped \/ \E j \in Slots \ {k} : Saving(j))
    /\ UNCHANGED <<svc, runs, wanted>>

\* ... desktop.yaml is written and the start with the system is set; either may fail
\* ...  (The file is only read when the application starts.  The window sends a
\* complete configuration, so patch.Apply(previous) is the one that the call has.)
SaveWrites(k) ==
    /\ ops[k] # None /\ ops[k].kind = "save" /\ ops[k].pc = "write"
    /\ Goto(k, "commit") \/ Answer(k, FALSE)
    /\ UNCHANGED <<svc, runs, wanted, overlapped>>

\* Seeded fault: only a connection that is established is restarted.
RestartNeededUp(old, new) == svc.state = "connected" /\ old.network # new.network

\* restart := s.cancel != nil && connectionConfigChanged(previous, cfg)
RestartNeeded(old, new) == svc.cancel # 0 /\ old.network # new.network

\* ... and the service takes it over.
SaveCommits(k) ==
    LET op == ops[k] IN
    /\ op # None /\ op.kind = "save" /\ op.pc = "commit"
    /\ svc' = [svc EXCEPT !.cfg = op.cfg]
    /\ IF RestartNeeded(op.prev, op.cfg) THEN Goto(k, "restart") ELSE Answer(k, TRUE)
    /\ UNCHANGED <<runs, wanted, overlapped>>

SaveRestarts(k) ==
    /\ ops[k] # None /\ ops[k].pc = "restart"
    /\ StartConnection(k, TRUE)
    /\ UNCHANGED <<runs, wanted, overlapped>>

\* The answer of SaveConfig is a snapshot taken at its end.
SaveAnswers(k) ==
    /\ ops[k] # None /\ ops[k].kind = "save" /\ ops[k].pc = "answer"
    /\ ops[k].ok /\ ops[k].answer = None
    /\ ops' = [ops EXCEPT ![k].answer = Snapshot]
    /\ UNCHANGED <<svc, runs, wanted, overlapped>>

\* Seeded fault: callbacks of a run that was replaced count as well.
IsCurrentAny(r) == svc.cancel # 0

\* The guard of every observer callback.
IsCurrent(r) == r = svc.runID /\ svc.cancel # 0

SessionStarted(r) ==
    /\ Alive(r) /\ ~runs[r].up
    /\ runs' = [runs EXCEPT ![r].up = TRUE]
    /\ svc' = IF IsCurrent(r) THEN [svc EXCEPT !.state = "connected"] ELSE svc
    /\ UNCHANGED <<ops, wanted, overlapped>>

SessionEnded(r) ==
    /\ Alive(r) /\ runs[r].up
    /\ runs' = [runs EXCEPT ![r].up = FALSE]
    /\ svc' = IF IsCurrent(r) THEN [svc EXCEPT !.state = "reconnecting"] ELSE svc
    /\ UNCHANGED <<ops, wanted, overlapped>>

\* runAgent after the run: a run that was not cancelled (it failed, or panicked)
\* reports that it stopped.
RunEnds(r) ==
    /\ Alive(r)
    /\ runs' = Drop(runs, r)
    /\ svc' = IF ~runs[r].cancelled /\ r = svc.runID THEN Stopped(svc) ELSE svc
    /\ UNCHANGED <<ops, wanted, overlapped>>

\* The application has just started, or was connected once from then.
InitService ==
    /\ \E cfg \in InitialConfigs :
         /\ \/ /\ svc = [cfg |-> cfg, cancel |-> 0, runID |-> 0, state |-> "disconnected"]
               /\ runs = [r \in {} |-> None] /\ wanted = FALSE
            \/ /\ svc = [cfg |-> cfg, cancel |-> 1, runID |-> 1, state |-> "connected"]
               /\ runs = [r \in {1} |-> [network |-> cfg.network, up |-> TRUE, cancelled |-> FALSE]]
               /\ wanted = TRUE
    /\ ops = [k \in Slots |-> None]
    /\ overlapped = FALSE

ServiceNext ==
    \/ \E k \in Slots : Connect(k) \/ Launch(k) \/ LaunchFails(k)
    \/ \E k \in Slots : Disconnect(k) \/ DisconnectCancels(k)
    \/ \E k \in Slots : SaveReads(k) \/ SaveWrites(k) \/ SaveCommits(k) \/ SaveRestarts(k)
                        \/ SaveAnswers(k)
    \/ \E r \in 1..MaxRuns : SessionStarted(r) \/ SessionEnded(r) \/ RunEnds(r)

(***************************************************************************)
(* Properties                                                              *)
(***************************************************************************)

States == {"disconnected", "connecting", "connected", "reconnecting"}
Snapshots == [cfg : AppConfig, state : States]
Runs == [network : Values, up : BOOLEAN, cancelled : BOOLEAN]
Calls == [kind : {"connect", "disconnect", "save", "check", "apply"},
          pc : {"start", "launch", "cancel", "write", "commit", "restart", "refresh", "answer"},
          cfg : AppConfig \cup {None}, prev : AppConfig \cup {None}, run : Nat, before : Nat,
          ok : BOOLEAN, answer : Snapshots \cup {None}]

ASSUME NoneIsNoCall == None \notin Calls

ServiceType ==
    /\ svc \in [cfg : AppConfig, cancel : Nat, runID : Nat, state : States]
    /\ runs \in [DOMAIN runs -> Runs]
    /\ ops \in [Slots -> Calls \cup {None}]
    /\ wanted \in BOOLEAN /\ overlapped \in BOOLEAN

\* The run that a call is about to launch, and the one it is about to cancel.
Launching(r) == \E k \in Slots : Replacing(k) /\ r \in {ops[k].run, ops[k].before}

\* Whatever a save, a reconnect or a late callback of an earlier run does
\* meanwhile: once the user disconnected, the service has no connection and starts
\* none until the user connects again.
DisconnectIsFinal == ~wanted => svc.cancel = 0 /\ svc.state = "disconnected"

\* At most one agent works: every run but the current one is cancelled, or is just
\* about to be by the call that replaced or ended it.
OneLiveRun == \A r \in DOMAIN runs : Live(r) => r = svc.cancel \/ Launching(r)

\* The state shown is that of the current run, never of one that was replaced.
StateOfCurrentRun ==
    svc.state = "connected" => /\ svc.cancel # 0 /\ Alive(svc.cancel)
                               /\ runs[svc.cancel].up

\* Between saves the connection uses the configuration the service has, also when
\* the tray connected while the save was under way.  (Two saves at once are only
\* possible after a failed update has freed the buttons.)
RunUsesSavedConfig ==
    (/\ svc.cancel # 0 /\ Alive(svc.cancel) /\ ~overlapped
     /\ \A k \in Slots : ~Saving(k)) => runs[svc.cancel].network = svc.cfg.network
=============================================================================
