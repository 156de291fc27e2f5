--------------------------- MODULE DesktopProofs ---------------------------
(***************************************************************************)
(* For any number of runs, calls and user actions: the type invariant of   *)
(* the desktop application, and that a disconnect is final, that one agent *)
(* run works at a time, that the state shown is that of the current run,   *)
(* and that the connection uses the configuration that was saved.          *)
(***************************************************************************)
EXTENDS DesktopApp, TLAPS

\* A call that saves or launches has a configuration.
CallInv == \A k \in Slots : ops[k] # None /\ (ops[k].kind = "save" \/ ops[k].pc = "launch")
                              => ops[k].cfg \in AppConfig

\* The cancel function kept is that of the newest run, the run ID of a call that
\* replaces a run is new, and the run it replaces is older.
LaunchInv ==
    /\ svc.cancel \in {0, svc.runID}
    /\ \A r \in DOMAIN runs : r \in Nat /\ 1 <= r /\ r <= svc.runID
    /\ \A k \in Slots : Replacing(k) => /\ 1 <= ops[k].run /\ ops[k].run <= svc.runID
                                          /\ ops[k].run \notin DOMAIN runs
                                          /\ ops[k].before < ops[k].run
    /\ \A j, k \in Slots : Replacing(j) /\ Replacing(k) /\ j # k => ops[j].run # ops[k].run

\* Nobody cancels the current run.
CurrentInv == \A r \in DOMAIN runs : r = svc.cancel => ~runs[r].cancelled

CoreInv == LaunchInv /\ CurrentInv /\ DisconnectIsFinal /\ OneLiveRun /\ StateOfCurrentRun
IInv == TypeOK /\ CallInv /\ CoreInv

(***************************************************************************)
(* Types.                                                                  *)
(***************************************************************************)
\* A step of one call keeps the others.
LEMMA OpsUpdated ==
    ASSUME ServiceType, CallInv, NEW k \in Slots, NEW op \in Calls,
           op.kind = "save" \/ op.pc = "launch" => op.cfg \in AppConfig,
           ops' = [ops EXCEPT ![k] = op]
    PROVE  /\ ops' \in [Slots -> Calls \cup {None}] /\ CallInv'
           /\ ops'[k] = op /\ \A j \in Slots \ {k} : ops'[j] = ops[j]
  BY DEF ServiceType, CallInv

LEMMA OpsDropped ==
    ASSUME ServiceType, CallInv, NEW k \in Slots, ops' = [ops EXCEPT ![k] = None]
    PROVE  /\ ops' \in [Slots -> Calls \cup {None}] /\ CallInv'
           /\ ~Replacing(k)' /\ \A j \in Slots \ {k} : ops'[j] = ops[j]
  BY DEF ServiceType, CallInv, Replacing

LEMMA GotoOps ==
    ASSUME ServiceType, CallInv, NEW k \in Slots, ops[k] # None,
           NEW pc \in {"write", "commit", "restart", "refresh"}, Goto(k, pc)
    PROVE  /\ ops' \in [Slots -> Calls \cup {None}] /\ CallInv'
           /\ ~Replacing(k)' /\ \A j \in Slots \ {k} : ops'[j] = ops[j]
<1>1. ops[k] \in Calls  BY DEF ServiceType
<1> DEFINE op == [ops[k] EXCEPT !.pc = pc]
<1>2. op \in Calls /\ op.kind = ops[k].kind /\ op.cfg = ops[k].cfg /\ op.pc = pc
  BY <1>1 DEF Calls
<1>3. ops' = [ops EXCEPT ![k] = op]  BY DEF Goto
<1>4. op.kind = "save" \/ op.pc = "launch" => op.cfg \in AppConfig
  BY <1>2 DEF CallInv
<1> HIDE DEF op
<1> QED  BY <1>2, <1>3, <1>4, OpsUpdated DEF Replacing

LEMMA AnswerOps ==
    ASSUME ServiceType, CallInv, NEW k \in Slots, ops[k] # None, NEW ok \in BOOLEAN, Answer(k, ok)
    PROVE  /\ ops' \in [Slots -> Calls \cup {None}] /\ CallInv'
           /\ ~Replacing(k)' /\ \A j \in Slots \ {k} : ops'[j] = ops[j]
<1>1. ops[k] \in Calls  BY DEF ServiceType
<1> DEFINE op == [ops[k] EXCEPT !.pc = "answer", !.ok = ok]
<1>2. op \in Calls /\ op.kind = ops[k].kind /\ op.cfg = ops[k].cfg /\ op.pc = "answer"
  BY <1>1 DEF Calls
<1>3. ops' = [ops EXCEPT ![k] = op]  BY DEF Answer
<1>4. op.kind = "save" \/ op.pc = "launch" => op.cfg \in AppConfig
  BY <1>2 DEF CallInv
<1> HIDE DEF op
<1> QED  BY <1>2, <1>3, <1>4, OpsUpdated DEF Replacing

LEMMA CallOps ==
    ASSUME ServiceType, CallInv, NEW slots \in SUBSET Slots,
           NEW kind \in {"connect", "disconnect", "save", "check", "apply"},
           NEW cfg \in AppConfig \cup {None}, kind = "save" => cfg \in AppConfig,
           Call(slots, kind, cfg)
    PROVE  /\ ops' \in [Slots -> Calls \cup {None}] /\ CallInv'
           /\ \A j \in Slots : ops'[j] = ops[j] \/ (~Replacing(j) /\ ~Replacing(j)')
<1>1. PICK k \in slots : ops[k] = None /\ ops' = [ops EXCEPT ![k] = NewOp(kind, cfg)]
  BY DEF Call
<1>2. k \in Slots  BY <1>1
<1>3. NewOp(kind, cfg) \in Calls  BY DEF NewOp, Calls
<1>4. /\ NewOp(kind, cfg).kind = kind /\ NewOp(kind, cfg).pc = "start"
      /\ NewOp(kind, cfg).cfg = cfg
  BY DEF NewOp
<1>5. /\ ops' \in [Slots -> Calls \cup {None}] /\ CallInv'
      /\ ops'[k] = NewOp(kind, cfg) /\ \A j \in Slots \ {k} : ops'[j] = ops[j]
  BY <1>1, <1>2, <1>3, <1>4, OpsUpdated
<1>6. ~Replacing(k) /\ ~Replacing(k)'  BY <1>1, <1>4, <1>5 DEF Replacing
<1> QED  BY <1>5, <1>6

(***************************************************************************)
(* What a step that launches nothing keeps.                                *)
(***************************************************************************)
LEMMA QuietCore ==
    ASSUME CoreInv,
           \A k \in Slots : ops'[k] = ops[k] \/ (~Replacing(k) /\ ~Replacing(k)'),
           svc'.cancel = svc.cancel, svc'.runID = svc.runID, svc'.state = svc.state,
           runs' = runs, wanted' = wanted
    PROVE  CoreInv'
<1>1. \A k \in Slots : /\ Replacing(k)' <=> Replacing(k)
                       /\ Replacing(k) => ops'[k] = ops[k]
  BY DEF Replacing
<1>2. LaunchInv'  BY <1>1 DEF CoreInv, LaunchInv
<1>3. \A r : Launching(r)' <=> Launching(r)
  BY <1>1 DEF Launching, Replacing
<1>4. OneLiveRun'
  BY <1>3 DEF CoreInv, OneLiveRun, Live, Alive
<1>5. CurrentInv' /\ DisconnectIsFinal' /\ StateOfCurrentRun'
  BY DEF CoreInv, CurrentInv, DisconnectIsFinal, StateOfCurrentRun, Alive
<1> QED  BY <1>2, <1>4, <1>5 DEF CoreInv

LEMMA OneCallQuiet ==
    ASSUME CoreInv, NEW k \in Slots, ~Replacing(k), ~Replacing(k)',
           \A j \in Slots \ {k} : ops'[j] = ops[j],
           svc'.cancel = svc.cancel, svc'.runID = svc.runID, svc'.state = svc.state,
           runs' = runs, wanted' = wanted
    PROVE  CoreInv'
<1>1. \A j \in Slots : ops'[j] = ops[j] \/ (~Replacing(j) /\ ~Replacing(j)')
  OBVIOUS
<1> QED  BY <1>1, QuietCore

(***************************************************************************)
(* The service.                                                            *)
(***************************************************************************)
\* A call takes the next run ID, and the current run as the one before it.
LEMMA ReplacingNew ==
    ASSUME IInv, NEW k \in Slots, ~Replacing(k), runs' = runs, svc'.runID = svc.runID + 1,
           svc'.cancel \in {0, svc'.runID}, ops'[k].run = svc.runID + 1, ops'[k].before = svc.cancel,
           \A j \in Slots \ {k} : ops'[j] = ops[j]
    PROVE  LaunchInv'
<1> USE DEF IInv, TypeOK
<1> DEFINE n == svc.runID + 1
<1>1. n \in Nat /\ n > svc.runID /\ svc.runID \in Nat /\ svc.cancel \in Nat /\ 1 <= n
  BY DEF ServiceType
<1>2. \A j \in Slots \ {k} : /\ Replacing(j)' <=> Replacing(j)
                             /\ Replacing(j) => ops'[j] = ops[j]
  BY DEF Replacing
<1>3. \A j \in Slots : Replacing(j) => ops[j].run \in Nat
  BY DEF ServiceType, Calls, Replacing
<1>4. \A r \in DOMAIN runs : r \in Nat /\ 1 <= r /\ r <= svc.runID  BY DEF CoreInv, LaunchInv
<1>5. n \notin DOMAIN runs  BY <1>1, <1>4
<1>6. svc.cancel < n  BY <1>1 DEF CoreInv, LaunchInv
<1>7. \A j \in Slots \ {k} : Replacing(j) => /\ 1 <= ops[j].run /\ ops[j].run <= svc.runID
                                             /\ ops[j].run \notin DOMAIN runs
                                             /\ ops[j].before < ops[j].run
  BY DEF CoreInv, LaunchInv
<1>8. svc'.runID = n /\ ops'[k].run = n /\ ops'[k].before = svc.cancel  OBVIOUS
<1> HIDE DEF n
<1>9. \A r \in DOMAIN runs' : r \in Nat /\ 1 <= r /\ r <= svc'.runID
  BY <1>1, <1>4, <1>8
<1>10. ASSUME NEW j \in Slots, Replacing(j)'
       PROVE  /\ 1 <= ops'[j].run /\ ops'[j].run <= svc'.runID
              /\ ops'[j].run \notin DOMAIN runs' /\ ops'[j].before < ops'[j].run
  <2>1. CASE j = k  BY <2>1, <1>1, <1>5, <1>6, <1>8
  <2>2. CASE j # k  BY <2>2, <1>1, <1>2, <1>3, <1>7, <1>8, <1>10
  <2> QED  BY <2>1, <2>2
<1>11. ASSUME NEW i \in Slots, NEW j \in Slots, Replacing(i)', Replacing(j)', i # j
       PROVE  ops'[i].run # ops'[j].run
  <2>1. CASE i = k  BY <2>1, <1>1, <1>2, <1>3, <1>7, <1>8, <1>11
  <2>2. CASE j = k  BY <2>2, <1>1, <1>2, <1>3, <1>7, <1>8, <1>11
  <2>3. CASE i # k /\ j # k  BY <2>3, <1>2, <1>11 DEF CoreInv, LaunchInv
  <2> QED  BY <2>1, <2>2, <2>3
<1> QED  BY <1>9, <1>10, <1>11 DEF LaunchInv

\* The run that was current, and those other calls replace, are being replaced.
LEMMA ReplacingKeeps ==
    ASSUME NEW k \in Slots, ~Replacing(k), ops'[k] \in Calls, ops'[k].pc \in {"launch", "cancel"},
           ops'[k].before = svc.cancel, \A j \in Slots \ {k} : ops'[j] = ops[j],
           NEW r, r = svc.cancel \/ Launching(r)
    PROVE  Launching(r)'
<1>1. CASE r = svc.cancel  BY <1>1, NoneIsNoCall DEF Launching, Replacing
<1>2. CASE Launching(r)
  <2>1. PICK j \in Slots : Replacing(j) /\ r \in {ops[j].run, ops[j].before}
    BY <1>2 DEF Launching
  <2>2. j # k  BY <2>1
  <2> QED  BY <2>1, <2>2 DEF Launching, Replacing
<1> QED  BY <1>1, <1>2

\* startConnection, by Connect or by the restart after a save.
LEMMA StartConnectionStep ==
    ASSUME IInv, NEW k \in Slots, ops[k] # None, ~Replacing(k), NEW restart \in BOOLEAN,
           StartConnection(k, restart), runs' = runs,
           restart => wanted' = wanted, ~restart => wanted' = TRUE
    PROVE  /\ svc' \in [cfg : AppConfig, cancel : Nat, runID : Nat, state : States]
           /\ ops' \in [Slots -> Calls \cup {None}] /\ CallInv' /\ CoreInv'
<1> USE DEF IInv, TypeOK
<1>1. CASE Refused(restart)
  <2>1. svc' = svc /\ Answer(k, TRUE)  BY <1>1 DEF StartConnection
  <2>2. /\ ops' \in [Slots -> Calls \cup {None}] /\ CallInv'
        /\ ~Replacing(k)' /\ \A j \in Slots \ {k} : ops'[j] = ops[j]
    BY <2>1, AnswerOps
  <2>3. \A j \in Slots : ops'[j] = ops[j] \/ (~Replacing(j) /\ ~Replacing(j)')
    BY <2>2
  <2>4. CASE restart  BY <2>1, <2>2, <2>4, OneCallQuiet DEF ServiceType
  <2>5. CASE ~restart
    <3>1. svc.cancel # 0  BY <1>1, <2>5 DEF Refused
    <3>2. wanted  BY <3>1 DEF CoreInv, DisconnectIsFinal, ServiceType
    <3>3. wanted' = wanted  BY <2>5, <3>2 DEF ServiceType
    <3> QED  BY <2>1, <2>2, <3>3, OneCallQuiet DEF ServiceType
  <2> QED  BY <2>4, <2>5
<1>2. CASE ~Refused(restart)
  <2> DEFINE n == svc.runID + 1
             op == [ops[k] EXCEPT !.pc = "launch", !.run = n, !.before = svc.cancel, !.cfg = svc.cfg]
  <2>1. /\ svc' = [svc EXCEPT !.runID = n, !.cancel = n, !.state = "connecting"]
        /\ ops' = [ops EXCEPT ![k] = op]
    BY <1>2 DEF StartConnection
  <2>2. svc \in [cfg : AppConfig, cancel : Nat, runID : Nat, state : States] /\ n \in Nat
    BY DEF ServiceType
  <2>3. /\ svc' \in [cfg : AppConfig, cancel : Nat, runID : Nat, state : States]
        /\ svc'.runID = n /\ svc'.cancel = n /\ svc'.state = "connecting"
    BY <2>1, <2>2 DEF States
  <2>4. ops[k] \in Calls  BY DEF ServiceType
  <2>5. op \in Calls /\ op.pc = "launch" /\ op.run = n /\ op.before = svc.cancel /\ op.cfg = svc.cfg
    BY <2>2, <2>4 DEF Calls
  <2>6. op.cfg \in AppConfig  BY <2>2, <2>5
  <2>7. n \in Nat /\ n > svc.runID /\ n # 0 /\ svc.runID \in Nat /\ svc.cancel \in Nat  BY <2>2
  <2> HIDE DEF op, n
  <2>8. /\ ops' \in [Slots -> Calls \cup {None}] /\ CallInv'
        /\ ops'[k] = op /\ \A j \in Slots \ {k} : ops'[j] = ops[j]
    BY <2>1, <2>5, <2>6, OpsUpdated
  <2>11. LaunchInv'
    BY <2>1, <2>3, <2>5, <2>7, <2>8, ReplacingNew DEF CoreInv, LaunchInv, n, ServiceType
  <2>12. CurrentInv'
    <3>1. n \notin DOMAIN runs  BY <2>7 DEF CoreInv, LaunchInv
    <3> QED  BY <3>1, <2>3 DEF CurrentInv
  <2>13. DisconnectIsFinal'
    <3>1. CASE restart
      <4>1. svc.cancel # 0  BY <1>2, <3>1 DEF Refused
      <4> QED  BY <4>1, <3>1 DEF CoreInv, DisconnectIsFinal
    <3>2. CASE ~restart  BY <3>2 DEF DisconnectIsFinal
    <3> QED  BY <3>1, <3>2
  <2>14. OneLiveRun'
    <3> SUFFICES ASSUME NEW r \in DOMAIN runs, Live(r)' PROVE Launching(r)'
      BY DEF OneLiveRun
    <3>1. Live(r)  BY DEF Live, Alive
    <3> QED  BY <3>1, <2>4, <2>5, <2>8, ReplacingKeeps DEF CoreInv, OneLiveRun
  <2>15. StateOfCurrentRun'  BY <2>3 DEF StateOfCurrentRun
  <2> QED  BY <2>3, <2>8, <2>11, <2>12, <2>13, <2>14, <2>15 DEF CoreInv
<1> QED  BY <1>1, <1>2

\* Window steps and service steps keep each other's types.
WindowType ==
    /\ snapshot \in Snapshots \cup {None}
    /\ view \in ConfigFields \cup {"home", "logs"}
    /\ loading \in BOOLEAN /\ updateLoading \in BOOLEAN
    /\ form \in [store : [ConfigFields -> Values \cup {None}], touched : SUBSET ConfigFields]
    /\ typed \in [ConfigFields -> {"no", "here", "before"}]
    /\ snapshotReq \in [answer : Snapshots \cup {None}] \cup {None}
    /\ asked \in Nat

LEMMA TypeParts == TypeOK <=> ServiceType /\ WindowType
  BY DEF TypeOK, WindowType

LEMMA WindowUnchanged ==
    ASSUME TypeOK, UNCHANGED windowVars, ServiceType'
    PROVE  TypeOK'
<1>1. WindowType  BY TypeParts
<1>2. WindowType'  BY <1>1 DEF WindowType, windowVars
<1> QED  BY <1>2 DEF TypeOK, WindowType

LEMMA RunCancelled ==
    ASSUME runs \in [DOMAIN runs -> Runs], NEW r
    PROVE  /\ CancelRun(runs, r) \in [DOMAIN runs -> Runs]
           /\ \A q \in DOMAIN runs : /\ CancelRun(runs, r)[q].up = runs[q].up
                                     /\ q # r => CancelRun(runs, r)[q] = runs[q]
                                     /\ q = r => CancelRun(runs, r)[q].cancelled
<1>1. CASE r \in DOMAIN runs
  <2> DEFINE run == [runs[r] EXCEPT !.cancelled = TRUE]
  <2>1. CancelRun(runs, r) = [runs EXCEPT ![r] = run]  BY <1>1 DEF CancelRun
  <2>2. runs[r] \in Runs  BY <1>1
  <2>3. run \in Runs /\ run.up = runs[r].up /\ run.cancelled  BY <2>2 DEF Runs
  <2> HIDE DEF run
  <2> QED  BY <1>1, <2>1, <2>3
<1>2. CASE r \notin DOMAIN runs  BY <1>2 DEF CancelRun
<1> QED  BY <1>1, <1>2

LEMMA ConnectStep == ASSUME IInv, NEW k \in Slots, Connect(k), UNCHANGED windowVars PROVE IInv'
<1>1. ops[k] # None /\ ~Replacing(k)  BY DEF Connect, Replacing
<1>2. /\ svc' \in [cfg : AppConfig, cancel : Nat, runID : Nat, state : States]
      /\ ops' \in [Slots -> Calls \cup {None}] /\ CallInv' /\ CoreInv'
  BY <1>1, StartConnectionStep DEF Connect
<1>3. ServiceType'  BY <1>2 DEF IInv, TypeOK, ServiceType, Connect
<1> QED  BY <1>2, <1>3, WindowUnchanged DEF IInv

LEMMA SaveRestartsStep == ASSUME IInv, NEW k \in Slots, SaveRestarts(k), UNCHANGED windowVars PROVE IInv'
<1>1. ops[k] # None /\ ~Replacing(k)  BY DEF SaveRestarts, Replacing
<1>2. /\ svc' \in [cfg : AppConfig, cancel : Nat, runID : Nat, state : States]
      /\ ops' \in [Slots -> Calls \cup {None}] /\ CallInv' /\ CoreInv'
  BY <1>1, StartConnectionStep DEF SaveRestarts
<1>3. ServiceType'  BY <1>2 DEF IInv, TypeOK, ServiceType, SaveRestarts
<1> QED  BY <1>2, <1>3, WindowUnchanged DEF IInv

LEMMA LaunchStep == ASSUME IInv, NEW k \in Slots, Launch(k), UNCHANGED windowVars PROVE IInv'
<1> USE DEF IInv, TypeOK
<1> DEFINE n == ops[k].run
           old == ops[k].before
           new == [network |-> ops[k].cfg.network, up |-> FALSE,
                   cancelled |-> svc.cancel # n /\ ~AboutToCancel(n)]
           rest == CancelRun(runs, old)
<1>1. Replacing(k) /\ ops[k] \in Calls /\ Answer(k, TRUE)
  BY DEF Launch, Replacing, ServiceType
<1>2. runs' = [r \in DOMAIN runs \cup {n} |-> IF r = n THEN new ELSE rest[r]]
  BY DEF Launch, CancelPrevious
<1>3. svc' = svc /\ wanted' = wanted /\ overlapped' = overlapped
  BY DEF Launch
<1>4. runs \in [DOMAIN runs -> Runs] /\ svc \in [cfg : AppConfig, cancel : Nat, runID : Nat, state : States]
  BY DEF ServiceType
<1>5. /\ rest \in [DOMAIN runs -> Runs]
      /\ \A q \in DOMAIN runs : /\ rest[q].up = runs[q].up
                                /\ q # old => rest[q] = runs[q]
                                /\ q = old => rest[q].cancelled
  BY <1>4, RunCancelled
<1>6. n \in Nat /\ old \in Nat  BY <1>1 DEF Calls
<1>7. 1 <= n /\ n <= svc.runID /\ n \notin DOMAIN runs /\ old < n
  BY <1>1 DEF CoreInv, LaunchInv
<1>8. /\ ops' \in [Slots -> Calls \cup {None}] /\ CallInv'
      /\ ~Replacing(k)' /\ \A j \in Slots \ {k} : ops'[j] = ops[j]
  BY <1>1, AnswerOps DEF Replacing
<1>9. new \in Runs /\ ~new.up /\ (new.cancelled <=> svc.cancel # n /\ ~AboutToCancel(n))
  <2>1. ops[k].cfg \in AppConfig  BY DEF Launch, CallInv
  <2>2. ops[k].cfg.network \in Values  BY <2>1 DEF AppConfig, ConfigFields
  <2> QED  BY <2>2 DEF Runs
<1> HIDE DEF new, rest, n, old
<1>10. /\ runs' \in [DOMAIN runs' -> Runs] /\ DOMAIN runs' = DOMAIN runs \cup {n}
       /\ runs'[n] = new /\ \A q \in DOMAIN runs : runs'[q] = rest[q]
  BY <1>2, <1>5, <1>7, <1>9
<1>11. ServiceType'  BY <1>3, <1>8, <1>10 DEF ServiceType
<1>12. \A j \in Slots : Replacing(j)' => j # k /\ Replacing(j) /\ ops'[j] = ops[j]
  BY <1>8 DEF Replacing
<1>13. LaunchInv'
  <2>1. svc'.cancel \in {0, svc'.runID}  BY <1>3 DEF CoreInv, LaunchInv
  <2>2. \A r \in DOMAIN runs' : r \in Nat /\ 1 <= r /\ r <= svc'.runID
    BY <1>3, <1>6, <1>7, <1>10 DEF CoreInv, LaunchInv
  <2>3. ASSUME NEW j \in Slots, Replacing(j)'
        PROVE  /\ 1 <= ops'[j].run /\ ops'[j].run <= svc'.runID
               /\ ops'[j].run \notin DOMAIN runs' /\ ops'[j].before < ops'[j].run
    <3>1. ops[j].run # n  BY <1>1, <1>12, <2>3 DEF CoreInv, LaunchInv, n
    <3> QED  BY <3>1, <1>3, <1>10, <1>12, <2>3 DEF CoreInv, LaunchInv
  <2>4. \A i, j \in Slots : Replacing(i)' /\ Replacing(j)' /\ i # j => ops'[i].run # ops'[j].run
    BY <1>12 DEF CoreInv, LaunchInv
  <2> QED  BY <2>1, <2>2, <2>3, <2>4 DEF LaunchInv
<1>14. svc.cancel # old \/ old = 0
  BY <1>4, <1>6, <1>7 DEF CoreInv, LaunchInv
<1>15. CurrentInv'
  <2> SUFFICES ASSUME NEW r \in DOMAIN runs', r = svc.cancel PROVE ~runs'[r].cancelled
    BY <1>3 DEF CurrentInv
  <2>1. CASE r = n  BY <2>1, <1>9, <1>10
  <2>2. CASE r # n
    <3>1. r \in DOMAIN runs /\ r # 0  BY <2>2, <1>10 DEF CoreInv, LaunchInv
    <3>2. r # old  BY <3>1, <1>14
    <3> QED  BY <3>1, <3>2, <1>5, <1>10 DEF CoreInv, CurrentInv
  <2> QED  BY <2>1, <2>2
<1>16. OneLiveRun'
  <2> SUFFICES ASSUME NEW r \in DOMAIN runs', Live(r)', r # svc.cancel PROVE Launching(r)'
    BY <1>3 DEF OneLiveRun
  <2>1. ~runs'[r].cancelled  BY DEF Live
  <2>2. CASE r = n
    <3>1. AboutToCancel(n)  BY <2>1, <2>2, <1>9, <1>10
    <3>2. PICK j \in Slots : Replacing(j) /\ ops[j].before = n
      BY <3>1 DEF AboutToCancel
    <3>3. j # k  BY <3>2, <1>6, <1>7 DEF old
    <3> QED  BY <2>2, <3>2, <3>3, <1>8 DEF Launching, Replacing
  <2>3. CASE r # n
    <3>1. r \in DOMAIN runs  BY <2>3, <1>10
    <3>2. r # old  BY <2>1, <3>1, <1>5, <1>10
    <3>3. Live(r)  BY <2>1, <3>1, <3>2, <1>5, <1>10 DEF Live, Alive
    <3>4. Launching(r)  BY <3>1, <3>3 DEF CoreInv, OneLiveRun
    <3>5. PICK j \in Slots : Replacing(j) /\ r \in {ops[j].run, ops[j].before}
      BY <3>4 DEF Launching
    <3>6. j # k  BY <3>2, <3>5, <2>3 DEF n, old
    <3> QED  BY <3>5, <3>6, <1>8 DEF Launching, Replacing
  <2> QED  BY <2>2, <2>3
<1>17. StateOfCurrentRun'
  <2> SUFFICES ASSUME svc.state = "connected" PROVE /\ svc.cancel # 0 /\ svc.cancel \in DOMAIN runs'
                                                    /\ runs'[svc.cancel].up
    BY <1>3 DEF StateOfCurrentRun, Alive
  <2>1. svc.cancel # 0 /\ svc.cancel \in DOMAIN runs /\ runs[svc.cancel].up
    BY DEF CoreInv, StateOfCurrentRun, Alive
  <2> QED  BY <2>1, <1>5, <1>10
<1>18. DisconnectIsFinal'  BY <1>3 DEF CoreInv, DisconnectIsFinal
<1>19. TypeOK'  BY <1>11, WindowUnchanged
<1> QED  BY <1>8, <1>13, <1>15, <1>16, <1>17, <1>18, <1>19 DEF CoreInv

\* The service without a connection.
LEMMA StoppedType ==
    ASSUME ServiceType
    PROVE  /\ Stopped(svc) \in [cfg : AppConfig, cancel : Nat, runID : Nat, state : States]
           /\ Stopped(svc).cancel = 0 /\ Stopped(svc).state = "disconnected"
           /\ Stopped(svc).runID = svc.runID
  BY DEF ServiceType, Stopped, States

LEMMA LaunchFailsStep == ASSUME IInv, NEW k \in Slots, LaunchFails(k), UNCHANGED windowVars PROVE IInv'
<1> USE DEF IInv, TypeOK
<1> DEFINE n == ops[k].run
           old == ops[k].before
<1>1. Replacing(k) /\ ops[k] \in Calls /\ Answer(k, ops[k].kind = "save")
  BY DEF LaunchFails, Replacing, ServiceType
<1>2. runs' = CancelRun(runs, old) /\ wanted' = wanted /\ overlapped' = overlapped
  BY DEF LaunchFails, CancelPrevious
<1>3. svc' = IF n = svc.runID THEN Stopped(svc) ELSE svc
  BY DEF LaunchFails
<1>4. runs \in [DOMAIN runs -> Runs] /\ svc \in [cfg : AppConfig, cancel : Nat, runID : Nat, state : States]
  BY DEF ServiceType
<1>5. n \in Nat /\ old \in Nat  BY <1>1 DEF Calls
<1>6. 1 <= n /\ n <= svc.runID /\ n \notin DOMAIN runs /\ old < n
  BY <1>1 DEF CoreInv, LaunchInv
<1>7. /\ ops' \in [Slots -> Calls \cup {None}] /\ CallInv'
      /\ ~Replacing(k)' /\ \A j \in Slots \ {k} : ops'[j] = ops[j]
  BY <1>1, AnswerOps DEF Replacing
<1>8. /\ runs' \in [DOMAIN runs -> Runs] /\ DOMAIN runs' = DOMAIN runs
      /\ \A q \in DOMAIN runs : /\ runs'[q].up = runs[q].up
                                /\ q # old => runs'[q] = runs[q]
                                /\ q = old => runs'[q].cancelled
  BY <1>2, <1>4, RunCancelled
<1>9. /\ svc' \in [cfg : AppConfig, cancel : Nat, runID : Nat, state : States]
      /\ svc'.runID = svc.runID
      /\ (n = svc.runID /\ svc'.cancel = 0 /\ svc'.state = "disconnected") \/ (n # svc.runID /\ svc' = svc)
  BY <1>3, <1>4, StoppedType
<1>10. svc.cancel \in {0, svc.runID}  BY DEF CoreInv, LaunchInv
<1> HIDE DEF n, old
<1>11. ServiceType'  BY <1>2, <1>7, <1>8, <1>9 DEF ServiceType
<1>12. \A j \in Slots : Replacing(j)' => j # k /\ Replacing(j) /\ ops'[j] = ops[j]
  BY <1>7 DEF Replacing
<1>13. LaunchInv'
  BY <1>8, <1>9, <1>12 DEF CoreInv, LaunchInv
<1>14. CurrentInv'
  <2> SUFFICES ASSUME NEW r \in DOMAIN runs, r = svc'.cancel PROVE ~runs'[r].cancelled
    BY <1>8 DEF CurrentInv
  <2>1. r # 0  BY DEF CoreInv, LaunchInv
  <2>2. svc' = svc /\ svc.cancel = svc.runID  BY <2>1, <1>9, <1>10
  <2>3. r # old  BY <2>2, <1>4, <1>5, <1>6
  <2> QED  BY <2>2, <2>3, <1>8 DEF CoreInv, CurrentInv
<1>15. OneLiveRun'
  <2> SUFFICES ASSUME NEW r \in DOMAIN runs, Live(r)', r # svc'.cancel PROVE Launching(r)'
    BY <1>8 DEF OneLiveRun
  <2>1. r # old  BY <1>8 DEF Live
  <2>2. Live(r)  BY <2>1, <1>8 DEF Live, Alive
  <2>3. r # n  BY <1>6
  <2>4. r # svc.cancel
    <3>1. CASE n = svc.runID  BY <3>1, <2>3, <1>10 DEF CoreInv, LaunchInv
    <3>2. CASE n # svc.runID  BY <3>2, <1>9
    <3> QED  BY <3>1, <3>2
  <2>5. Launching(r)  BY <2>2, <2>4 DEF CoreInv, OneLiveRun
  <2>6. PICK j \in Slots : Replacing(j) /\ r \in {ops[j].run, ops[j].before}
    BY <2>5 DEF Launching
  <2>7. j # k  BY <2>1, <2>3, <2>6 DEF n, old
  <2> QED  BY <2>6, <2>7, <1>7 DEF Launching, Replacing
<1>16. StateOfCurrentRun'
  BY <1>8, <1>9 DEF CoreInv, StateOfCurrentRun, Alive
<1>17. DisconnectIsFinal'  BY <1>2, <1>9 DEF CoreInv, DisconnectIsFinal
<1>18. TypeOK'  BY <1>11, WindowUnchanged
<1> QED  BY <1>7, <1>13, <1>14, <1>15, <1>16, <1>17, <1>18 DEF CoreInv

LEMMA DisconnectStep == ASSUME IInv, NEW k \in Slots, Disconnect(k), UNCHANGED windowVars PROVE IInv'
<1> USE DEF IInv, TypeOK
<1> DEFINE n == svc.runID + 1
           op == [ops[k] EXCEPT !.pc = "cancel", !.run = n, !.before = svc.cancel]
<1>1. ops[k] # None /\ ops[k] \in Calls /\ ops[k].kind = "disconnect" /\ ~Replacing(k)
  BY DEF Disconnect, Replacing, ServiceType
<1>2. /\ svc' = [Stopped(svc) EXCEPT !.runID = @ + 1] /\ runs' = runs
      /\ ops' = [ops EXCEPT ![k] = op]
      /\ wanted' = FALSE /\ overlapped' = overlapped
  BY DEF Disconnect
<1>3. svc.runID \in Nat /\ svc.cancel \in Nat  BY DEF ServiceType
<1>4. /\ svc' \in [cfg : AppConfig, cancel : Nat, runID : Nat, state : States]
      /\ svc'.runID = n /\ svc'.cancel = 0 /\ svc'.state = "disconnected"
  <2> DEFINE st == Stopped(svc)
  <2>1. /\ st \in [cfg : AppConfig, cancel : Nat, runID : Nat, state : States]
        /\ st.cancel = 0 /\ st.state = "disconnected" /\ st.runID = svc.runID
    BY StoppedType
  <2>2. svc' = [st EXCEPT !.runID = @ + 1]  BY <1>2
  <2> HIDE DEF st
  <2> QED  BY <2>1, <2>2, <1>3
<1>5. /\ op \in Calls /\ op.pc = "cancel" /\ op.kind = "disconnect" /\ op.run = n
      /\ op.before = svc.cancel
  <2>1. n \in Nat  BY <1>3
  <2> HIDE DEF n
  <2> QED  BY <2>1, <1>1, <1>3 DEF Calls
<1>6. n \in Nat /\ n > svc.runID /\ n # 0  BY <1>3
<1> HIDE DEF op, n
<1>7. /\ ops' \in [Slots -> Calls \cup {None}] /\ CallInv'
      /\ ops'[k] = op /\ \A j \in Slots \ {k} : ops'[j] = ops[j]
  BY <1>2, <1>5, OpsUpdated
<1>8. ServiceType'  BY <1>2, <1>4, <1>7 DEF ServiceType
<1>9. LaunchInv'
  BY <1>1, <1>2, <1>3, <1>4, <1>5, <1>6, <1>7, ReplacingNew DEF n
<1>10. CurrentInv'  BY <1>2, <1>4 DEF CoreInv, LaunchInv, CurrentInv
<1>11. OneLiveRun'
  <2> SUFFICES ASSUME NEW r \in DOMAIN runs, Live(r)' PROVE Launching(r)'
    BY <1>2 DEF OneLiveRun
  <2>1. Live(r)  BY <1>2 DEF Live, Alive
  <2> QED  BY <2>1, <1>1, <1>5, <1>7, ReplacingKeeps DEF CoreInv, OneLiveRun
<1>12. StateOfCurrentRun' /\ DisconnectIsFinal'
  BY <1>4 DEF StateOfCurrentRun, DisconnectIsFinal
<1>13. TypeOK'  BY <1>8, WindowUnchanged
<1> QED  BY <1>7, <1>9, <1>10, <1>11, <1>12, <1>13 DEF CoreInv

LEMMA DisconnectCancelsStep ==
    ASSUME IInv, NEW k \in Slots, DisconnectCancels(k), UNCHANGED windowVars PROVE IInv'
<1> USE DEF IInv, TypeOK
<1> DEFINE old == ops[k].before
<1>1. Replacing(k) /\ ops[k] \in Calls /\ Answer(k, TRUE)
  BY DEF DisconnectCancels, Replacing, ServiceType
<1>2. runs' = CancelRun(runs, old) /\ svc' = svc /\ wanted' = wanted /\ overlapped' = overlapped
  BY DEF DisconnectCancels
<1>3. runs \in [DOMAIN runs -> Runs] /\ svc.runID \in Nat  BY DEF ServiceType
<1>4. old \in Nat /\ ops[k].run \in Nat  BY <1>1 DEF Calls
<1>5. ops[k].run <= svc.runID /\ ops[k].run \notin DOMAIN runs /\ old < ops[k].run
  BY <1>1 DEF CoreInv, LaunchInv
<1>6. /\ ops' \in [Slots -> Calls \cup {None}] /\ CallInv'
      /\ ~Replacing(k)' /\ \A j \in Slots \ {k} : ops'[j] = ops[j]
  BY <1>1, AnswerOps DEF Replacing
<1>7. /\ runs' \in [DOMAIN runs -> Runs] /\ DOMAIN runs' = DOMAIN runs
      /\ \A q \in DOMAIN runs : /\ runs'[q].up = runs[q].up
                                /\ q # old => runs'[q] = runs[q]
                                /\ q = old => runs'[q].cancelled
  BY <1>2, <1>3, RunCancelled
<1>8. svc.cancel \in {0, svc.runID}  BY DEF CoreInv, LaunchInv
<1> HIDE DEF old
<1>9. ServiceType'  BY <1>2, <1>6, <1>7 DEF ServiceType
<1>10. \A j \in Slots : Replacing(j)' => j # k /\ Replacing(j) /\ ops'[j] = ops[j]
  BY <1>6 DEF Replacing
<1>11. LaunchInv'  BY <1>2, <1>7, <1>10 DEF CoreInv, LaunchInv
<1>12. CurrentInv'
  <2> SUFFICES ASSUME NEW r \in DOMAIN runs, r = svc.cancel PROVE ~runs'[r].cancelled
    BY <1>2, <1>7 DEF CurrentInv
  <2>1. r # 0  BY DEF CoreInv, LaunchInv
  <2>2. r # old  BY <2>1, <1>3, <1>4, <1>5, <1>8
  <2> QED  BY <2>2, <1>7 DEF CoreInv, CurrentInv
<1>13. OneLiveRun'
  <2> SUFFICES ASSUME NEW r \in DOMAIN runs, Live(r)', r # svc.cancel PROVE Launching(r)'
    BY <1>2, <1>7 DEF OneLiveRun
  <2>1. r # old /\ Live(r)  BY <1>7 DEF Live, Alive
  <2>2. Launching(r)  BY <2>1 DEF CoreInv, OneLiveRun
  <2>3. PICK j \in Slots : Replacing(j) /\ r \in {ops[j].run, ops[j].before}
    BY <2>2 DEF Launching
  <2>4. j # k  BY <2>1, <2>3, <1>5 DEF old
  <2> QED  BY <2>3, <2>4, <1>6 DEF Launching, Replacing
<1>14. StateOfCurrentRun'  BY <1>2, <1>7 DEF CoreInv, StateOfCurrentRun, Alive
<1>15. DisconnectIsFinal'  BY <1>2 DEF CoreInv, DisconnectIsFinal
<1>16. TypeOK'  BY <1>9, WindowUnchanged
<1> QED  BY <1>6, <1>11, <1>12, <1>13, <1>14, <1>15, <1>16 DEF CoreInv

\* SaveConfig up to the restart.
LEMMA SaveReadsStep == ASSUME IInv, NEW k \in Slots, SaveReads(k), UNCHANGED windowVars PROVE IInv'
<1> USE DEF IInv, TypeOK
<1> DEFINE op == [ops[k] EXCEPT !.pc = "write", !.prev = svc.cfg]
<1>1. ops[k] \in Calls /\ ops[k] # None /\ ops[k].kind = "save" /\ ~Replacing(k) /\ svc.cfg \in AppConfig
  BY DEF SaveReads, ServiceType, Replacing
<1>2. op \in Calls /\ op.pc = "write" /\ op.cfg = ops[k].cfg  BY <1>1 DEF Calls
<1>3. op.cfg \in AppConfig  BY <1>1, <1>2 DEF CallInv
<1>4. ops' = [ops EXCEPT ![k] = op]  BY DEF SaveReads
<1> HIDE DEF op
<1>5. /\ ops' \in [Slots -> Calls \cup {None}] /\ CallInv'
      /\ ops'[k] = op /\ \A j \in Slots \ {k} : ops'[j] = ops[j]
  BY <1>2, <1>3, <1>4, OpsUpdated
<1>6. ~Replacing(k)'  BY <1>2, <1>5 DEF Replacing
<1>7. svc' = svc /\ runs' = runs /\ wanted' = wanted /\ overlapped' \in BOOLEAN
  BY DEF SaveReads, ServiceType
<1>8. CoreInv'  BY <1>1, <1>5, <1>6, <1>7, OneCallQuiet
<1>9. ServiceType'  BY <1>5, <1>7 DEF ServiceType
<1> QED  BY <1>5, <1>8, <1>9, WindowUnchanged

LEMMA SaveWritesStep == ASSUME IInv, NEW k \in Slots, SaveWrites(k), UNCHANGED windowVars PROVE IInv'
<1> USE DEF IInv, TypeOK
<1>1. ops[k] # None /\ ops[k].kind = "save" /\ ~Replacing(k)
  BY DEF SaveWrites, Replacing
<1>2. ops[k].cfg \in AppConfig  BY <1>1 DEF CallInv
<1>3. (Goto(k, "commit") \/ Answer(k, FALSE))
  BY <1>2 DEF SaveWrites, ServiceType
<1>4. /\ ops' \in [Slots -> Calls \cup {None}] /\ CallInv'
      /\ ~Replacing(k)' /\ \A j \in Slots \ {k} : ops'[j] = ops[j]
  BY <1>1, <1>3, GotoOps, AnswerOps
<1>5. svc' = svc /\ runs' = runs /\ wanted' = wanted /\ overlapped' = overlapped
  BY DEF SaveWrites
<1>6. CoreInv'  BY <1>1, <1>4, <1>5, OneCallQuiet
<1>7. ServiceType'  BY <1>3, <1>4, <1>5 DEF ServiceType
<1> QED  BY <1>4, <1>6, <1>7, WindowUnchanged

LEMMA SaveCommitsStep == ASSUME IInv, NEW k \in Slots, SaveCommits(k), UNCHANGED windowVars PROVE IInv'
<1> USE DEF IInv, TypeOK
<1>1. ops[k] # None /\ ops[k].kind = "save" /\ ~Replacing(k)
  BY DEF SaveCommits, Replacing
<1>2. ops[k].cfg \in AppConfig  BY <1>1 DEF CallInv
<1>3. Goto(k, "restart") \/ Answer(k, TRUE)  BY DEF SaveCommits
<1>4. /\ ops' \in [Slots -> Calls \cup {None}] /\ CallInv'
      /\ ~Replacing(k)' /\ \A j \in Slots \ {k} : ops'[j] = ops[j]
  BY <1>1, <1>3, GotoOps, AnswerOps
<1>5. svc' = [svc EXCEPT !.cfg = ops[k].cfg] /\ runs' = runs /\ wanted' = wanted
      /\ overlapped' = overlapped
  BY DEF SaveCommits
<1>6. /\ svc' \in [cfg : AppConfig, cancel : Nat, runID : Nat, state : States]
      /\ svc'.cancel = svc.cancel /\ svc'.runID = svc.runID /\ svc'.state = svc.state
  BY <1>2, <1>5 DEF ServiceType
<1>7. CoreInv'  BY <1>1, <1>4, <1>5, <1>6, OneCallQuiet
<1>8. ServiceType'  BY <1>4, <1>5, <1>6 DEF ServiceType
<1> QED  BY <1>4, <1>7, <1>8, WindowUnchanged

LEMMA SnapshotType == ASSUME ServiceType PROVE Snapshot \in Snapshots
  BY DEF Snapshot, Snapshots, ServiceType

LEMMA SaveAnswersStep == ASSUME IInv, NEW k \in Slots, SaveAnswers(k), UNCHANGED windowVars PROVE IInv'
<1> USE DEF IInv, TypeOK
<1> DEFINE op == [ops[k] EXCEPT !.answer = Snapshot]
<1>1. ops[k] \in Calls /\ ops[k] # None /\ ops[k].kind = "save" /\ ops[k].pc = "answer" /\ ~Replacing(k)
  BY DEF SaveAnswers, ServiceType, Replacing
<1>2. Snapshot \in Snapshots  BY SnapshotType
<1>3. op \in Calls /\ op.pc = "answer" /\ op.cfg = ops[k].cfg  BY <1>1, <1>2 DEF Calls
<1>4. op.cfg \in AppConfig  BY <1>1, <1>3 DEF CallInv
<1>5. ops' = [ops EXCEPT ![k] = op]  BY DEF SaveAnswers
<1> HIDE DEF op
<1>6. /\ ops' \in [Slots -> Calls \cup {None}] /\ CallInv'
      /\ ops'[k] = op /\ \A j \in Slots \ {k} : ops'[j] = ops[j]
  BY <1>3, <1>4, <1>5, OpsUpdated
<1>7. ~Replacing(k)'  BY <1>3, <1>6 DEF Replacing
<1>8. svc' = svc /\ runs' = runs /\ wanted' = wanted /\ overlapped' = overlapped
  BY DEF SaveAnswers
<1>9. CoreInv'  BY <1>1, <1>6, <1>7, <1>8, OneCallQuiet
<1>10. ServiceType'  BY <1>6, <1>8 DEF ServiceType
<1> QED  BY <1>6, <1>9, <1>10, WindowUnchanged

\* A callback of run r: its session is up or down, and when the run is the
\* current one the service follows.
LEMMA SessionChange ==
    ASSUME IInv, NEW r \in DOMAIN runs, NEW up \in BOOLEAN, NEW state \in States,
           up <=> state = "connected",
           runs' = [runs EXCEPT ![r].up = up],
           svc' = IF IsCurrent(r) THEN [svc EXCEPT !.state = state] ELSE svc,
           UNCHANGED <<ops, wanted, overlapped>>, UNCHANGED windowVars
    PROVE  IInv'
<1> USE DEF IInv, TypeOK
<1> DEFINE run == [runs[r] EXCEPT !.up = up]
<1>1. runs \in [DOMAIN runs -> Runs] /\ runs[r] \in Runs  BY DEF ServiceType
<1>2. run \in Runs /\ run.up = up /\ run.cancelled = runs[r].cancelled  BY <1>1 DEF Runs
<1>3. runs' = [runs EXCEPT ![r] = run]  OBVIOUS
<1> HIDE DEF run
<1>4. /\ runs' \in [DOMAIN runs -> Runs] /\ DOMAIN runs' = DOMAIN runs
      /\ \A q \in DOMAIN runs : /\ runs'[q].cancelled = runs[q].cancelled
                                /\ q # r => runs'[q] = runs[q]
      /\ runs'[r].up = up
  BY <1>1, <1>2, <1>3
<1>5. /\ svc' \in [cfg : AppConfig, cancel : Nat, runID : Nat, state : States]
      /\ svc'.cancel = svc.cancel /\ svc'.runID = svc.runID
      /\ svc'.state = IF IsCurrent(r) THEN state ELSE svc.state
  BY DEF ServiceType
<1>6. ops' = ops  OBVIOUS
<1>7. \A j \in Slots : Replacing(j)' <=> Replacing(j)  BY <1>6 DEF Replacing
<1>8. LaunchInv'  BY <1>4, <1>5, <1>6, <1>7 DEF CoreInv, LaunchInv
<1>9. CurrentInv'  BY <1>4, <1>5 DEF CoreInv, CurrentInv
<1>10. DisconnectIsFinal'  BY <1>5 DEF CoreInv, DisconnectIsFinal, IsCurrent
<1>11. OneLiveRun'
  BY <1>4, <1>5, <1>6 DEF CoreInv, OneLiveRun, Live, Alive, Launching, Replacing
<1>12. StateOfCurrentRun'
  <2>1. CASE IsCurrent(r)
    <3>1. r = svc.cancel /\ svc.cancel # 0  BY <2>1 DEF IsCurrent, CoreInv, LaunchInv
    <3> QED  BY <2>1, <3>1, <1>4, <1>5 DEF StateOfCurrentRun, Alive
  <2>2. CASE ~IsCurrent(r)
    <3>1. svc.cancel = 0 \/ r # svc.cancel  BY <2>2 DEF IsCurrent, CoreInv, LaunchInv
    <3> QED  BY <2>2, <3>1, <1>4, <1>5 DEF CoreInv, StateOfCurrentRun, Alive
  <2> QED  BY <2>1, <2>2
<1>13. ServiceType' /\ CallInv'  BY <1>4, <1>5, <1>6 DEF ServiceType, CallInv
<1> QED  BY <1>8, <1>9, <1>10, <1>11, <1>12, <1>13, WindowUnchanged DEF CoreInv

LEMMA SessionStartedStep == ASSUME IInv, NEW r, SessionStarted(r), UNCHANGED windowVars PROVE IInv'
<1>1. r \in DOMAIN runs /\ "connected" \in States  BY DEF SessionStarted, Alive, States
<1> QED  BY <1>1, SessionChange DEF SessionStarted

LEMMA SessionEndedStep == ASSUME IInv, NEW r, SessionEnded(r), UNCHANGED windowVars PROVE IInv'
<1>1. r \in DOMAIN runs /\ "reconnecting" \in States  BY DEF SessionEnded, Alive, States
<1> QED  BY <1>1, SessionChange DEF SessionEnded

LEMMA RunEndsStep == ASSUME IInv, NEW r, RunEnds(r), UNCHANGED windowVars PROVE IInv'
<1> USE DEF IInv, TypeOK
<1>1. r \in DOMAIN runs /\ runs' = [q \in DOMAIN runs \ {r} |-> runs[q]]
  BY DEF RunEnds, Alive, Drop
<1>2. runs \in [DOMAIN runs -> Runs]  BY DEF ServiceType
<1>3. /\ runs' \in [DOMAIN runs' -> Runs] /\ DOMAIN runs' = DOMAIN runs \ {r}
      /\ \A q \in DOMAIN runs' : runs'[q] = runs[q]
  BY <1>1, <1>2
<1>4. ops' = ops /\ wanted' = wanted /\ overlapped' = overlapped
  BY DEF RunEnds
<1>5. r # 0 /\ svc.cancel \in {0, svc.runID}  BY <1>1 DEF CoreInv, LaunchInv
<1>6. /\ svc' \in [cfg : AppConfig, cancel : Nat, runID : Nat, state : States]
      /\ svc'.runID = svc.runID
      /\ \/ r = svc.runID /\ svc'.cancel = 0 /\ svc'.state = "disconnected"
         \/ (runs[r].cancelled \/ r # svc.runID) /\ svc' = svc
  BY StoppedType DEF RunEnds, ServiceType
<1>7. \A j \in Slots : Replacing(j)' <=> Replacing(j)  BY <1>4 DEF Replacing
<1>8. LaunchInv'  BY <1>3, <1>4, <1>6, <1>7 DEF CoreInv, LaunchInv
<1>9. CurrentInv'
  <2> SUFFICES ASSUME NEW q \in DOMAIN runs', q = svc'.cancel PROVE ~runs'[q].cancelled
    BY DEF CurrentInv
  <2>1. q \in DOMAIN runs /\ q # 0  BY <1>3 DEF CoreInv, LaunchInv
  <2> QED  BY <2>1, <1>3, <1>6 DEF CoreInv, CurrentInv
<1>10. OneLiveRun'
  <2> SUFFICES ASSUME NEW q \in DOMAIN runs', Live(q)', q # svc'.cancel PROVE Launching(q)'
    BY DEF OneLiveRun
  <2>1. q \in DOMAIN runs /\ q # r /\ Live(q)  BY <1>3 DEF Live, Alive
  <2>2. q # svc.cancel  BY <2>1, <1>5, <1>6 DEF CoreInv, LaunchInv
  <2>3. Launching(q)  BY <2>1, <2>2 DEF CoreInv, OneLiveRun
  <2> QED  BY <2>3, <1>4 DEF Launching, Replacing
<1>11. StateOfCurrentRun'
  <2>1. CASE svc' = svc
    <3> SUFFICES ASSUME svc.state = "connected" PROVE svc.cancel \in DOMAIN runs' /\ svc.cancel # 0
                                                      /\ runs'[svc.cancel].up
      BY <2>1 DEF StateOfCurrentRun, Alive
    <3>1. svc.cancel # 0 /\ svc.cancel \in DOMAIN runs /\ runs[svc.cancel].up
      BY DEF CoreInv, StateOfCurrentRun, Alive
    <3>2. ~runs[svc.cancel].cancelled  BY <3>1 DEF CoreInv, CurrentInv
    <3>3. r # svc.cancel
      <4>1. SUFFICES ASSUME r = svc.cancel PROVE FALSE  OBVIOUS
      <4>2. r = svc.runID /\ ~runs[r].cancelled  BY <3>1, <3>2, <4>1, <1>5
      <4>3. svc'.cancel = 0  BY <4>2, <1>6
      <4> QED  BY <4>3, <2>1, <3>1
    <3> QED  BY <3>1, <3>3, <1>3
  <2>2. CASE svc'.state = "disconnected"  BY <2>2 DEF StateOfCurrentRun
  <2> QED  BY <2>1, <2>2, <1>6
<1>12. DisconnectIsFinal'  BY <1>4, <1>6 DEF CoreInv, DisconnectIsFinal
<1>13. ServiceType' /\ CallInv'  BY <1>3, <1>4, <1>6 DEF ServiceType, CallInv
<1> QED  BY <1>8, <1>9, <1>10, <1>11, <1>12, <1>13, WindowUnchanged DEF CoreInv

(***************************************************************************)
(* The window.                                                             *)
(***************************************************************************)
Forms == [store : [ConfigFields -> Values \cup {None}], touched : SUBSET ConfigFields]

LEMMA ServiceUnchanged ==
    ASSUME IInv, UNCHANGED serviceVars, WindowType'
    PROVE  IInv'
<1>1. ServiceType'  BY DEF IInv, TypeOK, ServiceType, serviceVars
<1>2. CallInv'  BY DEF IInv, CallInv, serviceVars
<1>3. CoreInv'  BY QuietCore DEF IInv, serviceVars
<1>4. TypeOK'  BY <1>1 DEF TypeOK, WindowType
<1> QED  BY <1>2, <1>3, <1>4 DEF IInv

\* The step changes calls that launch nothing, and the window.
LEMMA CallsChanged ==
    ASSUME IInv, UNCHANGED <<svc, runs, wanted, overlapped>>,
           ops' \in [Slots -> Calls \cup {None}], CallInv',
           \A j \in Slots : ops'[j] = ops[j] \/ (~Replacing(j) /\ ~Replacing(j)'),
           WindowType'
    PROVE  IInv'
<1>1. ServiceType'  BY DEF IInv, TypeOK, ServiceType
<1>2. CoreInv'  BY QuietCore DEF IInv
<1>3. TypeOK'  BY <1>1 DEF TypeOK, WindowType
<1> QED  BY <1>2, <1>3 DEF IInv

LEMMA ConfigType == ASSUME TypeOK PROVE config \in AppConfig
<1>1. emptyConfig \in AppConfig  BY ServiceConstants DEF emptyConfig, AppConfig
<1> QED  BY <1>1 DEF TypeOK, config, Snapshots

LEMMA FormTypes ==
    ASSUME NEW fm \in Forms, NEW v, NEW cfg \in AppConfig
    PROVE  SetFieldsValue(fm, v, cfg) \in Forms /\ ConfigEffect(fm, v, cfg) \in Forms
<1>1. cfg \in [ConfigFields -> Values \cup {None}]  BY DEF AppConfig
<1>2. {f \in Registered(v) : fm.store[f] # cfg[f]} \subseteq ConfigFields  BY DEF Registered
<1>3. fm.touched \subseteq ConfigFields  BY DEF Forms
<1>4. SetFieldsValue(fm, v, cfg) \in Forms  BY <1>1, <1>2, <1>3 DEF SetFieldsValue, Forms
<1> QED  BY <1>4 DEF ConfigEffect

LEMMA MountedType == ASSUME TypeOK, NEW v PROVE Mounted(form, v) \in Forms
<1>1. config \in [ConfigFields -> Values]  BY ConfigType DEF AppConfig
<1>2. form.store \in [ConfigFields -> Values \cup {None}]  BY DEF TypeOK
<1> QED  BY <1>1, <1>2 DEF Mounted, Forms

LEMMA NothingTypedType == NothingTyped \in [ConfigFields -> {"no", "here", "before"}]
  BY DEF NothingTyped

LEMMA NavigationSteps ==
    ASSUME IInv,
           \/ \E section \in ConfigFields \cup {"logs"} : OpenSettings(section) \/ SwitchSection(section)
           \/ Back \/ ConnectRefused
           \/ \E f \in ConfigFields, v \in Values : Type(f, v)
    PROVE  IInv'
<1> USE DEF IInv
<1>1. WindowType /\ form \in Forms  BY DEF TypeOK, WindowType, Forms
<1>2. asked + 1 \in Nat  BY <1>1 DEF WindowType
<1>3. ASSUME NEW section \in ConfigFields \cup {"logs"}, ShowSettings(section)
      PROVE  /\ view' \in ConfigFields \cup {"home", "logs"} /\ form' \in Forms
             /\ typed' \in [ConfigFields -> {"no", "here", "before"}]
  <2>1. form' \in Forms  BY <1>3, MountedType, ConfigType, FormTypes DEF ShowSettings
  <2> QED  BY <2>1, <1>3, NothingTypedType DEF ShowSettings
<1>4. ASSUME NEW section \in ConfigFields \cup {"logs"}, OpenSettings(section) PROVE IInv'
  <2>1. ShowSettings(section)  BY <1>4 DEF OpenSettings
  <2>2. WindowType'  BY <2>1, <1>1, <1>2, <1>3, <1>4 DEF OpenSettings, SetOff, WindowType, Forms
  <2> QED  BY <2>2, <1>4, ServiceUnchanged DEF OpenSettings
<1>5. ASSUME NEW section \in ConfigFields \cup {"logs"}, SwitchSection(section) PROVE IInv'
  <2>1. form' \in Forms  BY <1>5, MountedType DEF SwitchSection
  <2>2. typed' \in [ConfigFields -> {"no", "here", "before"}]
    BY <1>1, <1>5 DEF SwitchSection, WindowType
  <2>3. WindowType'  BY <2>1, <2>2, <1>1, <1>2, <1>5 DEF SwitchSection, SetOff, WindowType, Forms
  <2> QED  BY <2>3, <1>5, ServiceUnchanged DEF SwitchSection
<1>6. CASE Back
  <2>1. form' \in Forms  BY <1>1, <1>6 DEF Back, Forms
  <2>2. WindowType'
    BY <2>1, <1>1, <1>2, <1>6, NothingTypedType DEF Back, SetOff, WindowType, Forms
  <2> QED  BY <2>2, <1>6, ServiceUnchanged DEF Back
<1>7. CASE ConnectRefused
  <2>1. ShowSettings("network") /\ "network" \in ConfigFields \cup {"logs"}
    BY <1>7 DEF ConnectRefused, ConfigFields
  <2>2. WindowType'  BY <2>1, <1>1, <1>2, <1>3, <1>7 DEF ConnectRefused, SetOff, WindowType, Forms
  <2> QED  BY <2>2, <1>7, ServiceUnchanged DEF ConnectRefused
<1>8. ASSUME NEW f \in ConfigFields, NEW v \in Values, Type(f, v) PROVE IInv'
  <2>1. form.store \in [ConfigFields -> Values \cup {None}] /\ form.touched \subseteq ConfigFields
    BY <1>1 DEF Forms
  <2>2. form' \in Forms  BY <2>1, <1>8 DEF Type, Forms
  <2>3. typed' \in [ConfigFields -> {"no", "here", "before"}]
    BY <1>1, <1>8 DEF Type, WindowType
  <2>4. WindowType'  BY <2>2, <2>3, <1>1, <1>2, <1>8 DEF Type, SetOff, WindowType, Forms
  <2> QED  BY <2>4, <1>8, ServiceUnchanged DEF Type
<1> QED  BY <1>4, <1>5, <1>6, <1>7, <1>8

LEMMA SavedType == ASSUME TypeOK PROVE completeConfigForSave(config, form.store) \in AppConfig
<1>1. config \in [ConfigFields -> Values]  BY ConfigType DEF AppConfig
<1>2. form.store \in [ConfigFields -> Values \cup {None}]  BY DEF TypeOK
<1> QED  BY <1>1, <1>2 DEF completeConfigForSave, AppConfig

LEMMA ClickSteps ==
    ASSUME IInv, \/ ClickConnect \/ ClickDisconnect \/ ClickSave \/ ClickCheck \/ ClickApply \/ TrayClick
    PROVE  IInv'
<1> USE DEF IInv
<1>1. WindowType /\ ServiceType  BY DEF TypeOK, WindowType
<1>2. PICK slots \in SUBSET Slots, kind \in {"connect", "disconnect", "save", "check", "apply"},
           cfg \in AppConfig \cup {None} :
         Call(slots, kind, cfg) /\ (kind = "save" => cfg \in AppConfig)
  <2>1. WindowSlots \subseteq Slots /\ {Tray} \subseteq Slots
    BY AskedAssumption DEF WindowSlots
  <2>2. CASE ClickSave
    <3>1. Call(WindowSlots, "save", completeConfigForSave(config, form.store))
      BY <2>2 DEF ClickSave
    <3> QED  BY <3>1, <2>1, SavedType
  <2>3. CASE ClickConnect  BY <2>1, <2>3 DEF ClickConnect
  <2>4. CASE ClickDisconnect  BY <2>1, <2>4 DEF ClickDisconnect
  <2>5. CASE ClickCheck  BY <2>1, <2>5 DEF ClickCheck
  <2>6. CASE ClickApply  BY <2>1, <2>6 DEF ClickApply
  <2>7. CASE TrayClick
    <3>1. PICK kind \in {"connect", "disconnect"} : Call({Tray}, kind, None)
      BY <2>7 DEF TrayClick
    <3> QED  BY <2>1, <3>1
  <2> QED  BY <2>2, <2>3, <2>4, <2>5, <2>6, <2>7
<1>3. /\ ops' \in [Slots -> Calls \cup {None}] /\ CallInv'
      /\ \A j \in Slots : ops'[j] = ops[j] \/ (~Replacing(j) /\ ~Replacing(j)')
  BY <1>1, <1>2, CallOps
<1>4. UNCHANGED <<svc, runs, wanted, overlapped>> /\ asked' = asked + 1
  BY <1>2 DEF Call, SetOff
<1>5. /\ loading' \in BOOLEAN /\ updateLoading' \in BOOLEAN
      /\ UNCHANGED <<snapshot, view, form, typed, snapshotReq>>
  BY <1>1 DEF ClickConnect, ClickDisconnect, ClickSave, ClickCheck, ClickApply, TrayClick, WindowType
<1>6. WindowType'  BY <1>1, <1>4, <1>5 DEF WindowType
<1> QED  BY <1>3, <1>4, <1>6, CallsChanged

LEMMA PollSteps ==
    ASSUME IInv, PollSnapshot \/ PollStatus \/ AnswerSnapshot
    PROVE  IInv'
<1>1. WindowType /\ ServiceType  BY DEF IInv, TypeOK, WindowType
<1>2. Asked \in [answer : Snapshots \cup {None}]  BY DEF Asked
<1>3. CASE PollSnapshot
  <2>1. WindowType'  BY <1>1, <1>2, <1>3 DEF PollSnapshot, WindowType
  <2> QED  BY <2>1, <1>3, ServiceUnchanged DEF PollSnapshot
<1>4. CASE PollStatus
  <2>1. snapshot \in Snapshots /\ svc.state \in States
    BY <1>1, <1>4 DEF PollStatus, WindowType, ServiceType
  <2>2. snapshot' \in Snapshots  BY <2>1, <1>4 DEF PollStatus, Snapshots
  <2>3. WindowType'  BY <2>2, <1>1, <1>4 DEF PollStatus, WindowType
  <2> QED  BY <2>3, <1>4, ServiceUnchanged DEF PollStatus
<1>5. CASE AnswerSnapshot
  <2>1. Snapshot \in Snapshots  BY <1>1, SnapshotType
  <2>2. [answer |-> Snapshot] \in [answer : Snapshots \cup {None}]  BY <2>1
  <2>3. WindowType'  BY <2>2, <1>1, <1>5 DEF AnswerSnapshot, WindowType
  <2> QED  BY <2>3, <1>5, ServiceUnchanged DEF AnswerSnapshot
<1> QED  BY <1>3, <1>4, <1>5

LEMMA DeliverSnapshotStep == ASSUME IInv, DeliverSnapshot PROVE IInv'
<1> USE DEF IInv
<1>1. WindowType /\ ServiceType /\ form \in Forms  BY DEF TypeOK, WindowType, Forms
<1>2. snapshotReq \in [answer : Snapshots \cup {None}] /\ snapshotReq.answer # None
  BY <1>1 DEF DeliverSnapshot, Answered, WindowType
<1>3. snapshotReq.answer \in Snapshots  BY <1>2
<1>4. snapshotReq.answer.cfg \in AppConfig  BY <1>3 DEF Snapshots
<1>5. form' \in Forms  BY <1>1, <1>4, FormTypes DEF DeliverSnapshot
<1> DEFINE S == Refreshing({"connect", "disconnect", "check"})
<1>6. ops' = [k \in Slots |-> IF k \in S THEN None ELSE ops[k]]  BY DEF DeliverSnapshot
<1>7. \A k \in S : ~Replacing(k)  BY DEF Refreshing, Replacing
<1> HIDE DEF S
<1>8. ops' \in [Slots -> Calls \cup {None}] /\ CallInv'
  BY <1>1, <1>6 DEF ServiceType, CallInv
<1>9. \A j \in Slots : ops'[j] = ops[j] \/ (~Replacing(j) /\ ~Replacing(j)')
  BY <1>6, <1>7 DEF Replacing
<1>10. loading' \in BOOLEAN /\ updateLoading' \in BOOLEAN
  BY DEF DeliverSnapshot
<1>11. WindowType'
  BY <1>1, <1>3, <1>5, <1>10 DEF DeliverSnapshot, WindowType, Forms
<1> QED  BY <1>8, <1>9, <1>11, CallsChanged DEF DeliverSnapshot

\* What a call's end does to the calls: it is gone, or waits for a refresh.
LEMMA EndedOps ==
    ASSUME IInv, NEW k \in Slots, ops[k] # None, ops[k].pc = "answer",
           ops' = [ops EXCEPT ![k] = None] \/ Goto(k, "refresh")
    PROVE  /\ ops' \in [Slots -> Calls \cup {None}] /\ CallInv'
           /\ \A j \in Slots : ops'[j] = ops[j] \/ (~Replacing(j) /\ ~Replacing(j)')
<1>1. ServiceType /\ CallInv /\ ~Replacing(k)  BY DEF IInv, TypeOK, Replacing
<1> QED  BY <1>1, OpsDropped, GotoOps

LEMMA RefreshOrDoneEnds ==
    ASSUME IInv, NEW k \in Slots, RefreshOrDone(k)
    PROVE  /\ ops' = [ops EXCEPT ![k] = None] \/ Goto(k, "refresh")
           /\ UNCHANGED <<svc, runs, wanted, overlapped>>
           /\ snapshotReq' \in [answer : Snapshots \cup {None}] \cup {None}
<1>1. Asked \in [answer : Snapshots \cup {None}]  BY DEF Asked
<1> QED  BY <1>1 DEF RefreshOrDone, Done, IInv, TypeOK

LEMMA DeliverSteps ==
    ASSUME IInv, NEW k \in WindowSlots,
           UpdaterAnswers(k) \/ DeliverConnection(k) \/ DeliverCheck(k) \/ DeliverApply(k) \/ DeliverSave(k)
    PROVE  IInv'
<1>1. WindowType /\ ServiceType /\ CallInv /\ form \in Forms /\ k \in Slots
  BY DEF IInv, TypeOK, WindowType, Forms, WindowSlots
<1>2. CASE UpdaterAnswers(k)
  <2>1. ops[k] # None /\ ~Replacing(k) /\ \E ok \in BOOLEAN : Answer(k, ok)
    BY <1>2 DEF UpdaterAnswers, Replacing
  <2>2. /\ ops' \in [Slots -> Calls \cup {None}] /\ CallInv'
        /\ \A j \in Slots : ops'[j] = ops[j] \/ (~Replacing(j) /\ ~Replacing(j)')
    BY <2>1, <1>1, AnswerOps
  <2>3. WindowType'  BY <1>1, <1>2 DEF UpdaterAnswers, WindowType, windowVars
  <2> QED  BY <2>2, <2>3, <1>2, CallsChanged DEF UpdaterAnswers
<1>3. CASE DeliverConnection(k)
  <2>1. ops[k] # None /\ ops[k].pc = "answer" /\ RefreshOrDone(k)  BY <1>3 DEF DeliverConnection
  <2>2. WindowType'  BY <2>1, <1>1, <1>3, RefreshOrDoneEnds DEF DeliverConnection, WindowType
  <2> QED  BY <2>1, <2>2, <1>1, RefreshOrDoneEnds, EndedOps, CallsChanged
<1>4. CASE DeliverCheck(k)
  <2>1. ops[k] # None /\ ops[k].pc = "answer"  BY <1>4 DEF DeliverCheck
  <2>2. /\ ops' = [ops EXCEPT ![k] = None] \/ Goto(k, "refresh")
        /\ UNCHANGED <<svc, runs, wanted, overlapped>>
        /\ snapshotReq' \in [answer : Snapshots \cup {None}] \cup {None}
    <3>1. CASE ops[k].ok  BY <3>1, <1>1, <1>4, RefreshOrDoneEnds DEF DeliverCheck
    <3>2. CASE ~ops[k].ok  BY <3>2, <1>1, <1>4 DEF DeliverCheck, Done, WindowType
    <3> QED  BY <3>1, <3>2
  <2>3. WindowType'  BY <2>2, <1>1, <1>4 DEF DeliverCheck, WindowType
  <2> QED  BY <2>1, <2>2, <2>3, <1>1, EndedOps, CallsChanged
<1>5. CASE DeliverApply(k)
  <2>1. ops[k] # None /\ ops[k].pc = "answer" /\ Done(k)  BY <1>5 DEF DeliverApply
  <2>2. ops[k].ok \in BOOLEAN  BY <2>1, <1>1 DEF ServiceType, Calls
  <2>3. WindowType'  BY <2>2, <1>1, <1>5 DEF DeliverApply, WindowType
  <2> QED  BY <2>1, <2>3, <1>1, EndedOps, CallsChanged DEF Done
<1>6. CASE DeliverSave(k)
  <2>1. ops[k] # None /\ ops[k].pc = "answer" /\ Done(k)  BY <1>6 DEF DeliverSave
  <2>2. /\ snapshot' \in Snapshots \cup {None} /\ form' \in Forms
        /\ typed' \in [ConfigFields -> {"no", "here", "before"}]
    <3>1. CASE ops[k].ok
      <4>1. ops[k].answer \in Snapshots
        BY <2>1, <3>1, <1>1, <1>6 DEF DeliverSave, ServiceType, Calls
      <4>2. ops[k].answer.cfg \in AppConfig  BY <4>1 DEF Snapshots
      <4>3. form' \in Forms  BY <4>2, <3>1, <1>1, <1>6, FormTypes DEF DeliverSave
      <4> QED  BY <4>1, <4>3, <3>1, <1>6, NothingTypedType DEF DeliverSave
    <3>2. CASE ~ops[k].ok  BY <3>2, <1>1, <1>6 DEF DeliverSave, WindowType
    <3> QED  BY <3>1, <3>2
  <2>3. WindowType'  BY <2>2, <1>1, <1>6 DEF DeliverSave, WindowType, Forms
  <2> QED  BY <2>1, <2>3, <1>1, EndedOps, CallsChanged DEF Done
<1> QED  BY <1>2, <1>3, <1>4, <1>5, <1>6

LEMMA TrayDoneStep == ASSUME IInv, TrayDone PROVE IInv'
<1>1. Tray \in Slots /\ ops[Tray] # None /\ ops[Tray].pc = "answer" /\ Done(Tray)
  BY AskedAssumption DEF TrayDone
<1>2. WindowType'  BY DEF TrayDone, IInv, TypeOK, WindowType, windowVars
<1> QED  BY <1>1, <1>2, EndedOps, CallsChanged DEF Done

(***************************************************************************)
(* The theorems.                                                           *)
(***************************************************************************)
LEMMA InitIInv == Init => IInv
<1> SUFFICES ASSUME Init PROVE IInv
  OBVIOUS
<1>1. PICK cfg \in InitialConfigs :
        /\ \/ /\ svc = [cfg |-> cfg, cancel |-> 0, runID |-> 0, state |-> "disconnected"]
              /\ runs = [r \in {} |-> None] /\ wanted = FALSE
           \/ /\ svc = [cfg |-> cfg, cancel |-> 1, runID |-> 1, state |-> "connected"]
              /\ runs = [r \in {1} |-> [network |-> cfg.network, up |-> TRUE, cancelled |-> FALSE]]
              /\ wanted = TRUE
  BY DEF Init, InitService
<1>2. cfg \in AppConfig /\ cfg.network \in Values
  BY ServiceConstants DEF AppConfig, ConfigFields
<1>3. ops = [k \in Slots |-> None] /\ overlapped = FALSE  BY DEF Init, InitService
<1>4. \A k \in Slots : ~Replacing(k)  BY <1>3 DEF Replacing
<1>5. ServiceType
  <2>1. ops \in [Slots -> Calls \cup {None}]  BY <1>3
  <2>2. runs \in [DOMAIN runs -> Runs]
    <3> DEFINE first == [network |-> cfg.network, up |-> TRUE, cancelled |-> FALSE]
    <3>1. first \in Runs  BY <1>2 DEF Runs
    <3>2. runs = [r \in {} |-> None] \/ runs = [r \in {1} |-> first]  BY <1>1
    <3> HIDE DEF first
    <3>3. CASE runs = [r \in {} |-> None]  BY <3>3
    <3>4. CASE runs = [r \in {1} |-> first]  BY <3>1, <3>4
    <3> QED  BY <3>2, <3>3, <3>4
  <2>3. svc \in [cfg : AppConfig, cancel : Nat, runID : Nat, state : States]
    BY <1>1, <1>2 DEF States
  <2> QED  BY <2>1, <2>2, <2>3, <1>1, <1>2, <1>3 DEF ServiceType
<1>6. WindowType
  <2>1. Snapshot \in Snapshots /\ svc.cfg \in AppConfig  BY <1>5, SnapshotType DEF ServiceType
  <2>2. form \in Forms  BY <2>1 DEF Init, Forms, AppConfig
  <2>3. snapshot \in Snapshots \cup {None}  BY <2>1 DEF Init
  <2>4. Asked \in [answer : Snapshots \cup {None}]  BY DEF Asked
  <2> QED  BY <2>2, <2>3, <2>4, NothingTypedType DEF Init, WindowType, Forms, ConfigFields
<1>7. CallInv  BY <1>3 DEF CallInv
<1>8. LaunchInv  BY <1>1, <1>4 DEF LaunchInv
<1>9. CurrentInv /\ DisconnectIsFinal /\ OneLiveRun /\ StateOfCurrentRun
  BY <1>1 DEF CurrentInv, DisconnectIsFinal, OneLiveRun, Live, Alive, StateOfCurrentRun
<1> QED  BY <1>5, <1>6, <1>7, <1>8, <1>9, TypeParts DEF IInv, CoreInv

LEMMA NextIInv == IInv /\ [Next]_vars => IInv'
<1> SUFFICES ASSUME IInv, [Next]_vars PROVE IInv'
  OBVIOUS
<1>1. CASE UNCHANGED vars
  <2>1. WindowType'  BY <1>1 DEF vars, windowVars, IInv, TypeOK, WindowType
  <2> QED  BY <2>1, <1>1, ServiceUnchanged DEF vars
<1>2. CASE ServiceNext /\ UNCHANGED windowVars
  BY <1>2, ConnectStep, LaunchStep, LaunchFailsStep, DisconnectStep, DisconnectCancelsStep,
     SaveReadsStep, SaveWritesStep, SaveCommitsStep, SaveRestartsStep, SaveAnswersStep, SessionStartedStep, SessionEndedStep,
     RunEndsStep DEF ServiceNext
<1>3. CASE \/ \E section \in ConfigFields \cup {"logs"} : OpenSettings(section) \/ SwitchSection(section)
           \/ Back \/ ConnectRefused
           \/ \E f \in ConfigFields, v \in Values : Type(f, v)
  BY <1>3, NavigationSteps
<1>4. CASE ClickConnect \/ ClickDisconnect \/ ClickSave \/ ClickCheck \/ ClickApply \/ TrayClick
  BY <1>4, ClickSteps
<1>5. CASE PollSnapshot \/ PollStatus \/ AnswerSnapshot  BY <1>5, PollSteps
<1>6. CASE DeliverSnapshot  BY <1>6, DeliverSnapshotStep
<1>7. CASE TrayDone  BY <1>7, TrayDoneStep
<1>8. CASE \E k \in WindowSlots : \/ UpdaterAnswers(k) \/ DeliverConnection(k)
                                  \/ DeliverCheck(k) \/ DeliverApply(k) \/ DeliverSave(k)
  BY <1>8, DeliverSteps
<1> QED  BY <1>1, <1>2, <1>3, <1>4, <1>5, <1>6, <1>7, <1>8 DEF Next

\* The inductive invariant holds always.
THEOREM Inductive == Spec => []IInv
  BY InitIInv, NextIInv, PTL DEF Spec

\* The service's fields, the calls under way, the form and the requests keep
\* their shapes: in particular what saveConfig sends is a whole configuration.
THEOREM TypeCorrect == Spec => []TypeOK
<1>1. IInv => TypeOK  BY DEF IInv
<1> QED  BY <1>1, Inductive, PTL

\* After Disconnect nothing starts a connection but Connect: neither the restart
\* of a save that was under way nor a late callback of an earlier run.
THEOREM DisconnectFinal == Spec => []DisconnectIsFinal
<1>1. IInv => DisconnectIsFinal  BY DEF IInv, CoreInv
<1> QED  BY <1>1, Inductive, PTL

\* Every agent run but the current one is cancelled, or is about to be by the call
\* that replaced it, whatever saves, tray clicks and failing starts overlap.
THEOREM SingleRun == Spec => []OneLiveRun
<1>1. IInv => OneLiveRun  BY DEF IInv, CoreInv
<1> QED  BY <1>1, Inductive, PTL

\* "connected" is shown only while the current run has a session (the runID guard
\* of the observer's callbacks and of setStopped).
THEOREM StateIsCurrent == Spec => []StateOfCurrentRun
<1>1. IInv => StateOfCurrentRun  BY DEF IInv, CoreInv
<1> QED  BY <1>1, Inductive, PTL

\* What was typed in the open section is touched.
EditInv == \A f \in ConfigFields : typed[f] = "here" => f \in form.touched

LEMMA NotTyped == \A f \in ConfigFields : NothingTyped[f] # "here"
  BY DEF NothingTyped

LEMMA NextEditInv == TypeOK /\ EditInv /\ [Next]_vars => EditInv'
<1> SUFFICES ASSUME TypeOK, EditInv, [Next]_vars PROVE EditInv'
  OBVIOUS
<1>1. CASE UNCHANGED <<form, typed>>  BY <1>1 DEF EditInv
<1>2. CASE typed' = NothingTyped  BY <1>2, NotTyped DEF EditInv
<1>3. ASSUME NEW section, SwitchSection(section) PROVE EditInv'
  <2>1. \A f \in ConfigFields : typed'[f] # "here"  BY <1>3 DEF SwitchSection
  <2> QED  BY <2>1 DEF EditInv
<1>4. ASSUME NEW f \in ConfigFields, NEW v \in Values, Type(f, v) PROVE EditInv'
  <2>1. form'.touched = form.touched \cup {f} /\ typed' = [typed EXCEPT ![f] = "here"]
    BY <1>4 DEF Type
  <2>2. typed \in [ConfigFields -> {"no", "here", "before"}]  BY DEF TypeOK
  <2> QED  BY <2>1, <2>2 DEF EditInv
<1>5. CASE DeliverSnapshot
  <2>1. typed' = typed /\ form' = ConfigEffect(form, view, snapshotReq.answer.cfg)
    BY <1>5 DEF DeliverSnapshot
  <2>2. form.touched \subseteq form'.touched
    BY <2>1 DEF ConfigEffect, SetFieldsValue
  <2> QED  BY <2>1, <2>2 DEF EditInv
<1>6. CASE ServiceNext /\ UNCHANGED windowVars  BY <1>1, <1>6 DEF windowVars
<1>7. CASE \E section \in ConfigFields \cup {"logs"} : OpenSettings(section)
  BY <1>2, <1>7 DEF OpenSettings, ShowSettings
<1>8. CASE Back \/ ConnectRefused  BY <1>2, <1>8 DEF Back, ConnectRefused, ShowSettings
<1>9. CASE \/ ClickConnect \/ ClickDisconnect \/ ClickSave \/ ClickCheck \/ ClickApply
           \/ TrayClick \/ TrayDone \/ PollSnapshot \/ PollStatus \/ AnswerSnapshot
  BY <1>1, <1>9 DEF ClickConnect, ClickDisconnect, ClickSave, ClickCheck, ClickApply, TrayClick,
     TrayDone, PollSnapshot, PollStatus, AnswerSnapshot, windowVars
<1>10. ASSUME NEW k \in WindowSlots,
              \/ UpdaterAnswers(k) \/ DeliverConnection(k) \/ DeliverCheck(k) \/ DeliverApply(k)
              \/ DeliverSave(k)
       PROVE  EditInv'
  BY <1>1, <1>2, <1>10 DEF UpdaterAnswers, DeliverConnection, DeliverCheck, DeliverApply, DeliverSave,
     windowVars
<1>11. CASE UNCHANGED vars  BY <1>1, <1>11 DEF vars, windowVars
<1> QED  BY <1>3, <1>4, <1>5, <1>6, <1>7, <1>8, <1>9, <1>10, <1>11 DEF Next

\* No poll replaces what was typed into the section that is open: the effect on
\* the configuration leaves a form with a touched field alone.
THEOREM SectionEditsKept == Spec => SectionEditsSurvive
<1>1. Init => EditInv  BY NotTyped DEF Init, EditInv
<1>2. ASSUME EditInv
      PROVE  DeliverSnapshot => \A f \in ConfigFields : typed[f] = "here" => form'.store[f] = form.store[f]
  <2> SUFFICES ASSUME DeliverSnapshot, NEW f \in ConfigFields, typed[f] = "here"
               PROVE  form' = form
    OBVIOUS
  <2>1. f \in form.touched  BY <1>2 DEF EditInv
  <2> QED  BY <2>1 DEF DeliverSnapshot, ConfigEffect
<1>3. EditInv => [DeliverSnapshot => \A f \in ConfigFields : typed[f] = "here" => form'.store[f] = form.store[f]]_vars
  BY <1>2
<1> QED  BY <1>1, <1>3, TypeCorrect, NextEditInv, PTL DEF Spec, SectionEditsSurvive

(***************************************************************************)
(* The configuration of the connection.                                    *)
(***************************************************************************)
Starting(k) == ops[k] # None /\ ops[k].pc = "launch"

\* A call that is not in the middle of a save or of a start.
Idle(k) == \/ ops[k] = None
           \/ ops[k].pc \in {"start", "answer"}
           \/ ops[k].pc \in {"refresh", "cancel"} /\ ops[k].kind # "save"

\* The stages of SaveConfig are those of saves.
StageInv == \A k \in Slots : ops[k] # None /\ ops[k].pc \in {"write", "commit", "restart"}
                               => ops[k].kind = "save"

OneSave == \A j, k \in Slots : Saving(j) /\ Saving(k) => j = k

\* Until it commits, a save has the service's configuration as the previous one.
PreviousInv == \A k \in Slots : ops[k] # None /\ ops[k].pc \in {"write", "commit"}
                                  => ops[k].prev = svc.cfg

RestartPending == \E k \in Slots : ops[k] # None /\ ops[k].pc = "restart"

\* The current run, or the call that is about to launch it, has the network v.
Uses(v) ==
    svc.cancel # 0 =>
        /\ svc.cancel \in DOMAIN runs => runs[svc.cancel].network = v
        /\ \A k \in Slots : Starting(k) /\ ops[k].run = svc.cancel => ops[k].cfg.network = v

SaveInv == OneSave /\ PreviousInv /\ (RestartPending \/ Uses(svc.cfg.network))

ConfigInv == StageInv /\ (~overlapped => SaveInv)

\* A step that begins no save, commits none and launches nothing.
LEMMA QuietConfig ==
    ASSUME ConfigInv,
           \A j \in Slots : \/ ops'[j] = ops[j]
                            \/ Idle(j)' /\ (svc'.cancel = 0 \/ ops[j] = None \/ ops[j].pc # "restart"),
           svc'.cfg = svc.cfg, svc'.cancel \in {0, svc.cancel},
           \A r \in DOMAIN runs' : r \in DOMAIN runs /\ runs'[r].network = runs[r].network,
           overlapped' = overlapped
    PROVE  ConfigInv'
<1>1. StageInv'  BY DEF ConfigInv, StageInv, Idle
<1>2. ASSUME ~overlapped PROVE SaveInv'
  <2>1. SaveInv  BY <1>2 DEF ConfigInv
  <2>2. \A j \in Slots : Saving(j)' => Saving(j)  BY DEF Saving, Idle
  <2>3. OneSave'  BY <2>1, <2>2 DEF SaveInv, OneSave
  <2>4. PreviousInv'  BY <2>1 DEF SaveInv, PreviousInv, Idle
  <2>5. CASE svc'.cancel = 0  BY <2>3, <2>4, <2>5 DEF SaveInv, Uses
  <2>6. CASE svc'.cancel # 0 /\ RestartPending
    <3>1. RestartPending'  BY <2>6 DEF RestartPending
    <3> QED  BY <2>3, <2>4, <3>1 DEF SaveInv
  <2>7. CASE svc'.cancel # 0 /\ ~RestartPending
    <3>1. Uses(svc.cfg.network) /\ svc'.cancel = svc.cancel  BY <2>1, <2>7 DEF SaveInv
    <3>2. \A j \in Slots : Starting(j)' => Starting(j) /\ ops'[j] = ops[j]
      BY DEF Starting, Idle
    <3>3. Uses(svc.cfg.network)'  BY <3>1, <3>2 DEF Uses
    <3> QED  BY <2>3, <2>4, <3>3 DEF SaveInv
  <2> QED  BY <2>5, <2>6, <2>7
<1> QED  BY <1>1, <1>2 DEF ConfigInv

\* What an answer, a move and a new call leave of the call's record.
LEMMA AnswerIdle ==
    ASSUME ServiceType, NEW k \in Slots, ops[k] # None, NEW ok \in BOOLEAN, Answer(k, ok)
    PROVE  Idle(k)' /\ \A j \in Slots \ {k} : ops'[j] = ops[j]
<1>1. ops[k] \in Calls  BY DEF ServiceType
<1> DEFINE op == [ops[k] EXCEPT !.pc = "answer", !.ok = ok]
<1>2. op.pc = "answer"  BY <1>1 DEF Calls
<1>3. ops' = [ops EXCEPT ![k] = op]  BY DEF Answer
<1> HIDE DEF op
<1> QED  BY <1>2, <1>3 DEF Idle, ServiceType

LEMMA MovedOp ==
    ASSUME ServiceType, NEW k \in Slots, ops[k] # None,
           NEW pc \in {"write", "commit", "restart", "refresh"}, Goto(k, pc)
    PROVE  /\ ops'[k] # None /\ ops'[k].pc = pc /\ ops'[k].kind = ops[k].kind
           /\ ops'[k].prev = ops[k].prev /\ ops'[k].cfg = ops[k].cfg
           /\ \A j \in Slots \ {k} : ops'[j] = ops[j]
<1>1. ops[k] \in Calls  BY DEF ServiceType
<1> DEFINE op == [ops[k] EXCEPT !.pc = pc]
<1>2. op \in Calls /\ op.pc = pc /\ op.kind = ops[k].kind /\ op.prev = ops[k].prev /\ op.cfg = ops[k].cfg
  BY <1>1 DEF Calls
<1>3. ops' = [ops EXCEPT ![k] = op]  BY DEF Goto
<1> HIDE DEF op
<1> QED  BY <1>2, <1>3, NoneIsNoCall DEF ServiceType

LEMMA StoppedConfig ==
    ASSUME ServiceType
    PROVE  Stopped(svc).cfg = svc.cfg /\ Stopped(svc).cancel = 0
  BY DEF ServiceType, Stopped

\* A cancelled run keeps its configuration.
LEMMA CancelledNetwork ==
    ASSUME runs \in [DOMAIN runs -> Runs], NEW r
    PROVE  /\ DOMAIN CancelRun(runs, r) = DOMAIN runs
           /\ \A q \in DOMAIN runs : CancelRun(runs, r)[q].network = runs[q].network
<1>1. CASE r \in DOMAIN runs
  <2> DEFINE run == [runs[r] EXCEPT !.cancelled = TRUE]
  <2>1. CancelRun(runs, r) = [runs EXCEPT ![r] = run]  BY <1>1 DEF CancelRun
  <2>2. runs[r] \in Runs  BY <1>1
  <2>3. run.network = runs[r].network  BY <2>2 DEF Runs
  <2> HIDE DEF run
  <2> QED  BY <1>1, <2>1, <2>3
<1>2. CASE r \notin DOMAIN runs  BY <1>2 DEF CancelRun
<1> QED  BY <1>1, <1>2

\* startConnection takes the configuration the service has.
LEMMA StartConfig ==
    ASSUME IInv, ConfigInv, NEW k \in Slots, ops[k] # None, NEW restart \in BOOLEAN,
           restart <=> ops[k].pc = "restart", restart <=> ops[k].kind = "save",
           StartConnection(k, restart), runs' = runs, overlapped' = overlapped
    PROVE  ConfigInv'
<1>1. ServiceType /\ LaunchInv  BY DEF IInv, TypeOK, CoreInv
<1>2. CASE Refused(restart)
  <2>1. svc' = svc /\ Answer(k, TRUE)  BY <1>2 DEF StartConnection
  <2>2. Idle(k)' /\ \A j \in Slots \ {k} : ops'[j] = ops[j]  BY <1>1, <2>1, AnswerIdle
  <2>3. restart => svc.cancel = 0  BY <1>2 DEF Refused
  <2> QED  BY <2>1, <2>2, <2>3, QuietConfig
<1>3. CASE ~Refused(restart)
  <2> DEFINE n == svc.runID + 1
             op == [ops[k] EXCEPT !.pc = "launch", !.run = n, !.before = svc.cancel, !.cfg = svc.cfg]
  <2>1. /\ svc' = [svc EXCEPT !.runID = n, !.cancel = n, !.state = "connecting"]
        /\ ops' = [ops EXCEPT ![k] = op]
    BY <1>3 DEF StartConnection
  <2>2. svc \in [cfg : AppConfig, cancel : Nat, runID : Nat, state : States] /\ n \in Nat
    BY <1>1 DEF ServiceType
  <2>3. svc'.cancel = n /\ svc'.cfg = svc.cfg  BY <2>1, <2>2
  <2>4. ops[k] \in Calls  BY <1>1 DEF ServiceType
  <2>5. op \in Calls /\ op.pc = "launch" /\ op.run = n /\ op.cfg = svc.cfg /\ op.kind = ops[k].kind
    BY <2>2, <2>4 DEF Calls
  <2>6. n > svc.runID /\ n # 0 /\ svc.runID \in Nat  BY <2>2
  <2> HIDE DEF op, n
  <2>7. ops'[k] = op /\ \A j \in Slots \ {k} : ops'[j] = ops[j]
    BY <1>1, <2>1 DEF ServiceType
  <2>8. StageInv'  BY <2>5, <2>7 DEF ConfigInv, StageInv
  <2>9. ASSUME ~overlapped PROVE SaveInv'
    <3>1. SaveInv  BY <2>9 DEF ConfigInv
    <3>2. \A j \in Slots : Saving(j)' => Saving(j)
      <4>1. Saving(k)' => Saving(k)
        <5>1. Saving(k)' => ops[k].kind = "save"  BY <2>5, <2>7 DEF Saving
        <5> QED  BY <5>1 DEF Saving
      <4> QED  BY <4>1, <2>7 DEF Saving
    <3>3. OneSave'  BY <3>1, <3>2 DEF SaveInv, OneSave
    <3>4. PreviousInv'  BY <3>1, <2>3, <2>5, <2>7 DEF SaveInv, PreviousInv
    <3>5. n \notin DOMAIN runs  BY <1>1, <2>6 DEF LaunchInv
    <3>6. \A j \in Slots \ {k} : Starting(j) => ops[j].run # n
      <4>1. \A j \in Slots : Starting(j) => ops[j].run \in Nat /\ Replacing(j)
        BY <1>1 DEF ServiceType, Calls, Starting, Replacing
      <4> QED  BY <1>1, <2>6, <4>1 DEF LaunchInv
    <3>7. Uses(svc.cfg.network)'
      BY <2>3, <2>5, <2>7, <3>5, <3>6 DEF Uses, Starting
    <3> QED  BY <3>3, <3>4, <3>7 DEF SaveInv
  <2> QED  BY <2>8, <2>9 DEF ConfigInv
<1> QED  BY <1>2, <1>3

LEMMA LaunchConfig == ASSUME IInv, ConfigInv, NEW k \in Slots, Launch(k) PROVE ConfigInv'
<1> DEFINE n == ops[k].run
           rest == CancelRun(runs, ops[k].before)
           new == [network |-> ops[k].cfg.network, up |-> FALSE,
                   cancelled |-> svc.cancel # n /\ ~AboutToCancel(n)]
<1>1. ServiceType /\ LaunchInv /\ runs \in [DOMAIN runs -> Runs]
  BY DEF IInv, TypeOK, CoreInv, ServiceType
<1>2. /\ Starting(k) /\ Answer(k, TRUE) /\ svc' = svc /\ overlapped' = overlapped
      /\ runs' = [r \in DOMAIN runs \cup {n} |-> IF r = n THEN new ELSE rest[r]]
  BY DEF Launch, Starting, CancelPrevious
<1>3. new.network = ops[k].cfg.network  OBVIOUS
<1>4. Idle(k)' /\ \A j \in Slots \ {k} : ops'[j] = ops[j]
  BY <1>1, <1>2, AnswerIdle DEF Starting
<1>5. \A q \in DOMAIN runs : rest[q].network = runs[q].network  BY <1>1, CancelledNetwork
<1> HIDE DEF new, rest
<1>6. /\ n \in DOMAIN runs' /\ runs'[n].network = ops[k].cfg.network
      /\ \A q \in DOMAIN runs' : q # n => q \in DOMAIN runs /\ runs'[q].network = runs[q].network
  BY <1>2, <1>3, <1>5
<1>7. StageInv'  BY <1>4 DEF ConfigInv, StageInv, Idle
<1>8. ASSUME ~overlapped PROVE SaveInv'
  <2>1. SaveInv  BY <1>8 DEF ConfigInv
  <2>2. \A j \in Slots : Saving(j)' => Saving(j)  BY <1>4 DEF Saving, Idle
  <2>3. OneSave'  BY <2>1, <2>2 DEF SaveInv, OneSave
  <2>4. PreviousInv'  BY <1>2, <1>4, <2>1 DEF SaveInv, PreviousInv, Idle
  <2>5. CASE RestartPending
    <3>1. RestartPending'  BY <1>2, <1>4, <2>5 DEF RestartPending, Starting
    <3> QED  BY <2>3, <2>4, <3>1 DEF SaveInv
  <2>6. CASE ~RestartPending
    <3>1. Uses(svc.cfg.network)  BY <2>1, <2>6 DEF SaveInv
    <3>2. \A j \in Slots : Starting(j)' => Starting(j) /\ ops'[j] = ops[j]
      BY <1>4 DEF Starting, Idle
    <3>3. Uses(svc.cfg.network)'
      <4> SUFFICES ASSUME svc.cancel # 0
                   PROVE  /\ svc.cancel \in DOMAIN runs' => runs'[svc.cancel].network = svc.cfg.network
                          /\ \A j \in Slots : Starting(j)' /\ ops'[j].run = svc.cancel
                                => ops'[j].cfg.network = svc.cfg.network
        BY <1>2 DEF Uses
      <4>1. CASE svc.cancel = n  BY <1>2, <1>6, <3>1, <3>2, <4>1 DEF Uses
      <4>2. CASE svc.cancel # n  BY <1>6, <3>1, <3>2, <4>2 DEF Uses
      <4> QED  BY <4>1, <4>2
    <3> QED  BY <2>3, <2>4, <3>3 DEF SaveInv
  <2> QED  BY <2>5, <2>6
<1> QED  BY <1>2, <1>7, <1>8 DEF ConfigInv

LEMMA LaunchFailsConfig == ASSUME IInv, ConfigInv, NEW k \in Slots, LaunchFails(k) PROVE ConfigInv'
<1>1. ServiceType /\ runs \in [DOMAIN runs -> Runs]  BY DEF IInv, TypeOK, ServiceType
<1>2. /\ Starting(k) /\ Answer(k, ops[k].kind = "save") /\ overlapped' = overlapped
      /\ runs' = CancelRun(runs, ops[k].before) /\ svc' \in {svc, Stopped(svc)}
  BY DEF LaunchFails, Starting, CancelPrevious
<1>3. Idle(k)' /\ \A j \in Slots \ {k} : ops'[j] = ops[j]
  BY <1>1, <1>2, AnswerIdle DEF Starting
<1>4. svc'.cfg = svc.cfg /\ svc'.cancel \in {0, svc.cancel}  BY <1>1, <1>2, StoppedConfig
<1>5. \A r \in DOMAIN runs' : r \in DOMAIN runs /\ runs'[r].network = runs[r].network
  BY <1>1, <1>2, CancelledNetwork
<1>6. ops[k].pc # "restart"  BY <1>2 DEF Starting
<1> QED  BY <1>2, <1>3, <1>4, <1>5, <1>6, QuietConfig

LEMMA DisconnectConfig == ASSUME IInv, ConfigInv, NEW k \in Slots, Disconnect(k) PROVE ConfigInv'
<1> DEFINE op == [ops[k] EXCEPT !.pc = "cancel", !.run = svc.runID + 1, !.before = svc.cancel]
<1>1. ServiceType  BY DEF IInv, TypeOK
<1>2. /\ ops[k] \in Calls /\ ops[k].kind = "disconnect" /\ ops' = [ops EXCEPT ![k] = op]
      /\ overlapped' = overlapped /\ runs' = runs
      /\ svc' = [Stopped(svc) EXCEPT !.runID = @ + 1]
  BY <1>1 DEF Disconnect, ServiceType
<1>3. op.pc = "cancel" /\ op.kind # "save"  BY <1>2 DEF Calls
<1> HIDE DEF op
<1>4. Idle(k)' /\ \A j \in Slots \ {k} : ops'[j] = ops[j]  BY <1>1, <1>2, <1>3 DEF ServiceType, Idle
<1>5. svc'.cfg = svc.cfg /\ svc'.cancel = 0  BY <1>1, <1>2 DEF Stopped, ServiceType
<1> QED  BY <1>2, <1>4, <1>5, QuietConfig

LEMMA DisconnectCancelsConfig ==
    ASSUME IInv, ConfigInv, NEW k \in Slots, DisconnectCancels(k) PROVE ConfigInv'
<1>1. ServiceType /\ runs \in [DOMAIN runs -> Runs]  BY DEF IInv, TypeOK, ServiceType
<1>2. /\ ops[k] # None /\ ops[k].pc = "cancel" /\ Answer(k, TRUE) /\ overlapped' = overlapped
      /\ runs' = CancelRun(runs, ops[k].before) /\ svc' = svc
  BY DEF DisconnectCancels
<1>3. Idle(k)' /\ \A j \in Slots \ {k} : ops'[j] = ops[j]  BY <1>1, <1>2, AnswerIdle
<1>4. \A r \in DOMAIN runs' : r \in DOMAIN runs /\ runs'[r].network = runs[r].network
  BY <1>1, <1>2, CancelledNetwork
<1> QED  BY <1>2, <1>3, <1>4, QuietConfig

\* SaveConfig.
LEMMA SaveReadsConfig == ASSUME IInv, ConfigInv, NEW k \in Slots, SaveReads(k) PROVE ConfigInv'
<1>1. ServiceType  BY DEF IInv, TypeOK
<1> DEFINE op == [ops[k] EXCEPT !.pc = "write", !.prev = svc.cfg]
<1>2. /\ ops[k] # None /\ ops[k].kind = "save" /\ ops[k].pc = "start"
      /\ ops' = [ops EXCEPT ![k] = op] /\ svc' = svc /\ runs' = runs
      /\ overlapped' = (overlapped \/ \E j \in Slots \ {k} : Saving(j))
  BY DEF SaveReads
<1>3. ops[k] \in Calls  BY <1>1, <1>2 DEF ServiceType
<1>4. op.pc = "write" /\ op.kind = "save" /\ op.prev = svc.cfg  BY <1>2, <1>3 DEF Calls
<1> HIDE DEF op
<1>5. ops'[k] = op /\ \A j \in Slots \ {k} : ops'[j] = ops[j]  BY <1>1, <1>2 DEF ServiceType
<1>6. StageInv'  BY <1>4, <1>5 DEF ConfigInv, StageInv
<1>7. ASSUME ~overlapped' PROVE SaveInv'
  <2>1. ~overlapped /\ \A j \in Slots \ {k} : ~Saving(j)  BY <1>1, <1>2, <1>7 DEF ServiceType
  <2>2. SaveInv  BY <2>1 DEF ConfigInv
  <2>3. \A j \in Slots \ {k} : ~Saving(j)'  BY <1>5, <2>1 DEF Saving
  <2>4. OneSave'  BY <2>3 DEF OneSave
  <2>5. PreviousInv'  BY <1>2, <1>4, <1>5, <2>2 DEF SaveInv, PreviousInv
  <2>6. CASE RestartPending
    <3>1. RestartPending'  BY <1>2, <1>5, <2>6 DEF RestartPending
    <3> QED  BY <2>4, <2>5, <3>1 DEF SaveInv
  <2>7. CASE Uses(svc.cfg.network)
    <3>1. \A j \in Slots : Starting(j)' => Starting(j) /\ ops'[j] = ops[j]
      BY <1>4, <1>5 DEF Starting
    <3>2. Uses(svc.cfg.network)'  BY <1>2, <2>7, <3>1 DEF Uses
    <3> QED  BY <2>4, <2>5, <3>2 DEF SaveInv
  <2> QED  BY <2>2, <2>6, <2>7 DEF SaveInv
<1> QED  BY <1>6, <1>7 DEF ConfigInv

LEMMA SaveWritesConfig == ASSUME IInv, ConfigInv, NEW k \in Slots, SaveWrites(k) PROVE ConfigInv'
<1>1. ServiceType  BY DEF IInv, TypeOK
<1>2. /\ ops[k] # None /\ ops[k].kind = "save" /\ ops[k].pc = "write"
      /\ Goto(k, "commit") \/ Answer(k, FALSE)
      /\ svc' = svc /\ runs' = runs /\ overlapped' = overlapped
  BY DEF SaveWrites
<1>3. CASE Answer(k, FALSE)
  <2>1. Idle(k)' /\ \A j \in Slots \ {k} : ops'[j] = ops[j]  BY <1>1, <1>2, <1>3, AnswerIdle
  <2> QED  BY <1>2, <2>1, QuietConfig
<1>4. CASE Goto(k, "commit")
  <2>1. /\ ops'[k] # None /\ ops'[k].pc = "commit" /\ ops'[k].kind = "save"
        /\ ops'[k].prev = ops[k].prev /\ \A j \in Slots \ {k} : ops'[j] = ops[j]
    BY <1>1, <1>2, <1>4, MovedOp
  <2>2. StageInv'  BY <2>1 DEF ConfigInv, StageInv
  <2>3. ASSUME ~overlapped PROVE SaveInv'
    <3>1. SaveInv  BY <2>3 DEF ConfigInv
    <3>2. \A j \in Slots : Saving(j)' => Saving(j)  BY <1>2, <2>1 DEF Saving
    <3>3. OneSave'  BY <3>1, <3>2 DEF SaveInv, OneSave
    <3>4. PreviousInv'  BY <1>2, <2>1, <3>1 DEF SaveInv, PreviousInv
    <3>5. CASE RestartPending
      <4>1. RestartPending'  BY <1>2, <2>1, <3>5 DEF RestartPending
      <4> QED  BY <3>3, <3>4, <4>1 DEF SaveInv
    <3>6. CASE Uses(svc.cfg.network)
      <4>1. \A j \in Slots : Starting(j)' => Starting(j) /\ ops'[j] = ops[j]
        BY <2>1 DEF Starting
      <4>2. Uses(svc.cfg.network)'  BY <1>2, <3>6, <4>1 DEF Uses
      <4> QED  BY <3>3, <3>4, <4>2 DEF SaveInv
    <3> QED  BY <3>1, <3>5, <3>6 DEF SaveInv
  <2> QED  BY <1>2, <2>2, <2>3 DEF ConfigInv
<1> QED  BY <1>2, <1>3, <1>4

\* The connection is restarted unless it has the network that is taken over.
LEMMA SaveCommitsConfig == ASSUME IInv, ConfigInv, NEW k \in Slots, SaveCommits(k) PROVE ConfigInv'
<1>1. ServiceType  BY DEF IInv, TypeOK
<1>2. /\ ops[k] # None /\ ops[k].kind = "save" /\ ops[k].pc = "commit"
      /\ svc' = [svc EXCEPT !.cfg = ops[k].cfg] /\ runs' = runs /\ overlapped' = overlapped
      /\ IF RestartNeeded(ops[k].prev, ops[k].cfg) THEN Goto(k, "restart") ELSE Answer(k, TRUE)
  BY DEF SaveCommits
<1>3. svc'.cfg = ops[k].cfg /\ svc'.cancel = svc.cancel  BY <1>1, <1>2 DEF ServiceType
<1>4. CASE RestartNeeded(ops[k].prev, ops[k].cfg)
  <2>1. /\ ops'[k] # None /\ ops'[k].pc = "restart" /\ ops'[k].kind = "save"
        /\ \A j \in Slots \ {k} : ops'[j] = ops[j]
    BY <1>1, <1>2, <1>4, MovedOp
  <2>2. StageInv'  BY <2>1 DEF ConfigInv, StageInv
  <2>3. RestartPending'  BY <2>1 DEF RestartPending
  <2>4. ASSUME ~overlapped PROVE OneSave' /\ PreviousInv'
    <3>1. SaveInv  BY <2>4 DEF ConfigInv
    <3>2. \A j \in Slots : Saving(j)' => Saving(j)  BY <1>2, <2>1 DEF Saving
    <3>3. OneSave'  BY <3>1, <3>2 DEF SaveInv, OneSave
    <3>4. \A j \in Slots \ {k} : ~Saving(j)  BY <1>2, <3>1 DEF SaveInv, OneSave, Saving
    <3>5. PreviousInv'
      BY <2>1, <3>4 DEF PreviousInv, Saving, ConfigInv, StageInv
    <3> QED  BY <3>3, <3>5
  <2> QED  BY <1>2, <2>2, <2>3, <2>4 DEF ConfigInv, SaveInv
<1>5. CASE ~RestartNeeded(ops[k].prev, ops[k].cfg)
  <2>1. Idle(k)' /\ \A j \in Slots \ {k} : ops'[j] = ops[j]  BY <1>1, <1>2, <1>5, AnswerIdle
  <2>2. StageInv'  BY <2>1 DEF ConfigInv, StageInv, Idle
  <2>3. ASSUME ~overlapped PROVE SaveInv'
    <3>1. SaveInv  BY <2>3 DEF ConfigInv
    <3>2. \A j \in Slots : Saving(j)' => Saving(j)  BY <2>1 DEF Saving, Idle
    <3>3. OneSave'  BY <3>1, <3>2 DEF SaveInv, OneSave
    <3>4. \A j \in Slots \ {k} : ~Saving(j)  BY <1>2, <3>1 DEF SaveInv, OneSave, Saving
    <3>5. PreviousInv'
      BY <2>1, <3>4 DEF PreviousInv, Saving, ConfigInv, StageInv, Idle
    <3>6. ~RestartPending
      BY <1>2, <3>4 DEF RestartPending, Saving, ConfigInv, StageInv
    <3>7. Uses(svc.cfg.network) /\ ops[k].prev = svc.cfg
      BY <1>2, <3>1, <3>6 DEF SaveInv, PreviousInv
    <3>8. svc.cancel = 0 \/ svc.cfg.network = svc'.cfg.network
      BY <1>3, <1>5, <3>7 DEF RestartNeeded
    <3>9. \A j \in Slots : Starting(j)' => Starting(j) /\ ops'[j] = ops[j]
      BY <2>1 DEF Starting, Idle
    <3>10. Uses(svc.cfg.network)'  BY <1>2, <1>3, <3>7, <3>8, <3>9 DEF Uses
    <3> QED  BY <3>3, <3>5, <3>10 DEF SaveInv
  <2> QED  BY <1>2, <2>2, <2>3 DEF ConfigInv
<1> QED  BY <1>4, <1>5

LEMMA SaveAnswersConfig == ASSUME IInv, ConfigInv, NEW k \in Slots, SaveAnswers(k) PROVE ConfigInv'
<1>1. ServiceType  BY DEF IInv, TypeOK
<1> DEFINE op == [ops[k] EXCEPT !.answer = Snapshot]
<1>2. /\ ops[k] # None /\ ops[k].pc = "answer" /\ ops' = [ops EXCEPT ![k] = op]
      /\ UNCHANGED <<svc, runs, overlapped>>
  BY DEF SaveAnswers
<1>3. ops[k] \in Calls  BY <1>1, <1>2 DEF ServiceType
<1>4. op.pc = "answer"  BY <1>2, <1>3 DEF Calls
<1> HIDE DEF op
<1>5. Idle(k)' /\ \A j \in Slots \ {k} : ops'[j] = ops[j]  BY <1>1, <1>2, <1>4 DEF ServiceType, Idle
<1> QED  BY <1>2, <1>5, QuietConfig

\* The runs.
LEMMA RunConfig ==
    ASSUME IInv, ConfigInv, NEW r, SessionStarted(r) \/ SessionEnded(r) \/ RunEnds(r)
    PROVE  ConfigInv'
<1>1. ServiceType /\ runs \in [DOMAIN runs -> Runs]  BY DEF IInv, TypeOK, ServiceType
<1>2. UNCHANGED <<ops, overlapped>> /\ r \in DOMAIN runs
  BY DEF SessionStarted, SessionEnded, RunEnds, Alive
<1>3. svc'.cfg = svc.cfg /\ svc'.cancel \in {0, svc.cancel}
  BY <1>1, StoppedConfig DEF SessionStarted, SessionEnded, RunEnds, ServiceType
<1>4. ASSUME NEW up \in BOOLEAN, runs' = [runs EXCEPT ![r].up = up]
      PROVE  \A q \in DOMAIN runs' : q \in DOMAIN runs /\ runs'[q].network = runs[q].network
  <2> DEFINE run == [runs[r] EXCEPT !.up = up]
  <2>1. runs[r] \in Runs  BY <1>1, <1>2
  <2>2. run.network = runs[r].network  BY <2>1 DEF Runs
  <2>3. runs' = [runs EXCEPT ![r] = run]  BY <1>4
  <2> HIDE DEF run
  <2> QED  BY <1>1, <2>2, <2>3
<1>5. ASSUME runs' = Drop(runs, r)
      PROVE  \A q \in DOMAIN runs' : q \in DOMAIN runs /\ runs'[q].network = runs[q].network
  BY <1>5 DEF Drop
<1>6. \A q \in DOMAIN runs' : q \in DOMAIN runs /\ runs'[q].network = runs[q].network
  BY <1>4, <1>5 DEF SessionStarted, SessionEnded, RunEnds
<1> QED  BY <1>2, <1>3, <1>6, QuietConfig

\* The window and the tray only begin and end calls.
LEMMA WindowConfig ==
    ASSUME ConfigInv, UNCHANGED <<svc, runs, overlapped>>,
           \A j \in Slots : ops'[j] = ops[j] \/ (Idle(j) /\ Idle(j)')
    PROVE  ConfigInv'
<1>1. \A j \in Slots : Idle(j) => ops[j] = None \/ ops[j].pc # "restart"  BY DEF Idle
<1> QED  BY <1>1, QuietConfig

LEMMA WindowCalls ==
    ASSUME IInv, ConfigInv,
           \/ ClickConnect \/ ClickDisconnect \/ ClickSave \/ ClickCheck \/ ClickApply \/ TrayClick
    PROVE  ConfigInv'
<1>1. PICK slots, kind, cfg : slots \subseteq Slots /\ Call(slots, kind, cfg)
  <2>1. WindowSlots \subseteq Slots /\ {Tray} \subseteq Slots
    BY AskedAssumption DEF WindowSlots
  <2> QED  BY <2>1 DEF ClickConnect, ClickDisconnect, ClickSave, ClickCheck, ClickApply, TrayClick
<1>2. PICK k \in Slots : ops[k] = None /\ ops' = [ops EXCEPT ![k] = NewOp(kind, cfg)]
  BY <1>1 DEF Call
<1>3. UNCHANGED <<svc, runs, overlapped>>  BY <1>1 DEF Call
<1>4. NewOp(kind, cfg).pc = "start"  BY DEF NewOp
<1>5. Idle(k) /\ Idle(k)' /\ \A j \in Slots \ {k} : ops'[j] = ops[j]
  BY <1>2, <1>4 DEF Idle, IInv, TypeOK, ServiceType
<1> QED  BY <1>3, <1>5, WindowConfig

LEMMA EndedConfig ==
    ASSUME IInv, ConfigInv, NEW k \in Slots, ops[k] # None, ops[k].pc = "answer",
           \/ ops' = [ops EXCEPT ![k] = None]
           \/ Goto(k, "refresh") /\ ops[k].kind # "save",
           UNCHANGED <<svc, runs, overlapped>>
    PROVE  ConfigInv'
<1>1. ServiceType /\ Idle(k)  BY DEF IInv, TypeOK, Idle
<1>2. Idle(k)' /\ \A j \in Slots \ {k} : ops'[j] = ops[j]
  <2>1. CASE ops' = [ops EXCEPT ![k] = None]  BY <1>1, <2>1 DEF ServiceType, Idle
  <2>2. CASE Goto(k, "refresh") /\ ops[k].kind # "save"  BY <1>1, <2>2, MovedOp DEF Idle
  <2> QED  BY <2>1, <2>2
<1> QED  BY <1>1, <1>2, WindowConfig

LEMMA DeliverConfig ==
    ASSUME IInv, ConfigInv, NEW k \in WindowSlots,
           UpdaterAnswers(k) \/ DeliverConnection(k) \/ DeliverCheck(k) \/ DeliverApply(k) \/ DeliverSave(k)
    PROVE  ConfigInv'
<1>1. ServiceType /\ k \in Slots  BY DEF IInv, TypeOK, WindowSlots
<1>2. CASE UpdaterAnswers(k)
  <2>1. /\ ops[k] # None /\ ops[k].pc = "start" /\ \E ok \in BOOLEAN : Answer(k, ok)
        /\ UNCHANGED <<svc, runs, overlapped>>
    BY <1>2 DEF UpdaterAnswers
  <2>2. Idle(k)' /\ \A j \in Slots \ {k} : ops'[j] = ops[j]  BY <1>1, <2>1, AnswerIdle
  <2> QED  BY <1>1, <2>1, <2>2, WindowConfig DEF Idle
<1>3. CASE DeliverConnection(k)
  <2>1. ops[k] # None /\ ops[k].pc = "answer" /\ ops[k].kind # "save" /\ RefreshOrDone(k)
    BY <1>3 DEF DeliverConnection
  <2> QED  BY <1>1, <2>1, RefreshOrDoneEnds, EndedConfig
<1>4. CASE DeliverCheck(k)
  <2>1. /\ ops[k] # None /\ ops[k].pc = "answer" /\ ops[k].kind # "save"
        /\ RefreshOrDone(k) \/ Done(k)
    BY <1>4 DEF DeliverCheck
  <2> QED  BY <1>1, <2>1, RefreshOrDoneEnds, EndedConfig DEF Done
<1>5. CASE DeliverApply(k) \/ DeliverSave(k)
  <2>1. ops[k] # None /\ ops[k].pc = "answer" /\ Done(k)  BY <1>5 DEF DeliverApply, DeliverSave
  <2> QED  BY <1>1, <2>1, EndedConfig DEF Done
<1> QED  BY <1>2, <1>3, <1>4, <1>5

LEMMA NextConfigInv == ASSUME IInv, ConfigInv, [Next]_vars PROVE ConfigInv'
<1>1. ServiceType  BY DEF IInv, TypeOK
<1>2. ASSUME UNCHANGED serviceVars PROVE ConfigInv'  BY <1>2, WindowConfig DEF serviceVars
<1>3. CASE UNCHANGED vars  BY <1>2, <1>3 DEF vars
<1>4. ASSUME NEW k \in Slots, Connect(k) PROVE ConfigInv'
  <2>1. /\ ops[k] # None /\ ops[k].kind = "connect" /\ ops[k].pc = "start"
        /\ StartConnection(k, FALSE) /\ runs' = runs /\ overlapped' = overlapped
    BY <1>4 DEF Connect
  <2> QED  BY <2>1, StartConfig
<1>5. ASSUME NEW k \in Slots, SaveRestarts(k) PROVE ConfigInv'
  <2>1. /\ ops[k] # None /\ ops[k].pc = "restart"
        /\ StartConnection(k, TRUE) /\ runs' = runs /\ overlapped' = overlapped
    BY <1>5 DEF SaveRestarts
  <2>2. ops[k].kind = "save"  BY <2>1 DEF ConfigInv, StageInv
  <2> QED  BY <2>1, <2>2, StartConfig
<1>6. CASE ServiceNext
  BY <1>4, <1>5, <1>6, LaunchConfig, LaunchFailsConfig, DisconnectConfig,
     DisconnectCancelsConfig, SaveReadsConfig, SaveWritesConfig, SaveCommitsConfig, SaveAnswersConfig, RunConfig DEF ServiceNext
<1>7. CASE \/ \E section \in ConfigFields \cup {"logs"} : OpenSettings(section) \/ SwitchSection(section)
           \/ Back \/ ConnectRefused \/ PollSnapshot \/ PollStatus \/ AnswerSnapshot
           \/ \E f \in ConfigFields, v \in Values : Type(f, v)
  BY <1>2, <1>7 DEF OpenSettings, SwitchSection, Back, ConnectRefused, PollSnapshot, PollStatus,
                    AnswerSnapshot, Type
<1>8. CASE ClickConnect \/ ClickDisconnect \/ ClickSave \/ ClickCheck \/ ClickApply \/ TrayClick
  BY <1>8, WindowCalls
<1>9. CASE DeliverSnapshot
  <2> DEFINE S == Refreshing({"connect", "disconnect", "check"})
  <2>1. /\ ops' = [k \in Slots |-> IF k \in S THEN None ELSE ops[k]]
        /\ UNCHANGED <<svc, runs, overlapped>>
    BY <1>9 DEF DeliverSnapshot
  <2>2. \A k \in S : Idle(k)  BY DEF Refreshing, Idle
  <2> HIDE DEF S
  <2> QED  BY <2>1, <2>2, WindowConfig DEF Idle
<1>10. CASE TrayDone  BY <1>10, AskedAssumption, EndedConfig DEF TrayDone, Done
<1> QED  BY <1>3, <1>6, <1>7, <1>8, <1>9, <1>10, DeliverConfig DEF Next

\* Outside a save the connection works with the configuration the service has,
\* whoever connected, disconnected or restarted it meanwhile; and the check after
\* the commit misses no connection that has to be restarted.
THEOREM RunsUseSavedConfig == Spec => []RunUsesSavedConfig
<1>1. Init => ConfigInv
  <2> SUFFICES ASSUME Init PROVE ConfigInv
    OBVIOUS
  <2>1. ops = [k \in Slots |-> None]  BY DEF Init, InitService
  <2>2. svc.cancel # 0 /\ svc.cancel \in DOMAIN runs => runs[svc.cancel].network = svc.cfg.network
    BY DEF Init, InitService
  <2> QED  BY <2>1, <2>2 DEF ConfigInv, StageInv, SaveInv, OneSave, Saving, PreviousInv, Uses,
                             Starting
<1>2. IInv /\ ConfigInv /\ [Next]_vars => ConfigInv'  BY NextConfigInv
<1>3. ConfigInv => RunUsesSavedConfig
  <2> SUFFICES ASSUME ConfigInv, svc.cancel # 0, Alive(svc.cancel), ~overlapped,
                      \A k \in Slots : ~Saving(k)
               PROVE  runs[svc.cancel].network = svc.cfg.network
    BY DEF RunUsesSavedConfig
  <2>1. ~RestartPending  BY DEF RestartPending, ConfigInv, StageInv, Saving
  <2>2. Uses(svc.cfg.network)  BY <2>1 DEF ConfigInv, SaveInv
  <2> QED  BY <2>2 DEF Uses, Alive
<1> QED  BY <1>1, <1>2, <1>3, Inductive, PTL DEF Spec
=============================================================================
