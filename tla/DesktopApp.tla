----------------------------- MODULE DesktopApp -----------------------------
(***************************************************************************)
(* The desktop window (App.tsx, HomeView, SettingsView) on top of the      *)
(* service: the 3 s snapshot and 1 s status polls with their in-flight     *)
(* guards, connecting and disconnecting, the settings form and the tray.   *)
(*                                                                         *)
(* The settings have one form instance for all sections, of which only the *)
(* fields of the section shown are registered.  The form library           *)
(* (external) keeps the values of the others, knows `touched' for          *)
(* registered fields only, and marks a registered field touched when       *)
(* setFieldsValue changes it.                                              *)
(***************************************************************************)
EXTENDS DesktopService

CONSTANTS Tray,       \* the slot of the tray's calls
          MaxAsked    \* bound: what the user does in the window and the tray

ASSUME AskedAssumption == MaxAsked \in Nat /\ Tray \in Slots

VARIABLES snapshot,      \* the snapshot shown, or None
          view,          \* "home", or the section of the settings: "general", "network", "logs"
          loading,       \* an action of the window is awaited
          updateLoading, \* an update check is awaited
          form,          \* [store, touched]: the settings form
          typed,         \* history: "no", "here" or "before" for every field
          snapshotReq,   \* refreshSnapshot's request: None or [answer]
          asked          \* what was set off so far

windowVars == <<snapshot, view, loading, updateLoading, form, typed, snapshotReq, asked>>
vars == <<serviceVars, windowVars>>

WindowSlots == Slots \ {Tray}

SetOff == asked < MaxAsked /\ asked' = asked + 1

Asked == [answer |-> None]
Answered(req) == req # None /\ req.answer # None

config == IF snapshot = None THEN emptyConfig ELSE snapshot.cfg

(***************************************************************************)
(* The settings form.                                                      *)
(***************************************************************************)
InSettings == view # "home"
Registered(v) == {v} \cap ConfigFields
NothingTyped == [f \in ConfigFields |-> "no"]

\* setFieldsValue(cfg) with the fields of v registered
SetFieldsValue(fm, v, cfg) ==
    [store |-> cfg,
     touched |-> fm.touched \cup {f \in Registered(v) : fm.store[f] # cfg[f]}]

\* Seeded fault: every snapshot is written into the form.
ConfigEffectAlways(fm, v, cfg) == IF v = "home" THEN fm ELSE SetFieldsValue(fm, v, cfg)

\* The effect on [config]: only when no registered field is touched.
ConfigEffect(fm, v, cfg) ==
    IF v = "home" \/ fm.touched # {} THEN fm ELSE SetFieldsValue(fm, v, cfg)

\* A Form that mounts takes kept values before initial ones.
Mounted(fm, v) ==
    [store |-> [f \in ConfigFields |-> IF fm.store[f] # None \/ Registered(v) = {} THEN fm.store[f]
                                       ELSE config[f]],
     touched |-> {}]

\* setView to a section of the settings: the fields mount and the effect runs.
ShowSettings(section) ==
    /\ view' = section
    /\ form' = ConfigEffect(Mounted(form, section), section, config)
    /\ typed' = NothingTyped

OpenSettings(section) ==
    /\ ~InSettings
    /\ SetOff
    /\ ShowSettings(section)
    /\ UNCHANGED <<serviceVars, snapshot, loading, updateLoading, snapshotReq>>

\* setSection: the fields of the section before are gone, with their flags.
SwitchSection(section) ==
    /\ InSettings /\ section # view
    /\ SetOff
    /\ view' = section
    /\ form' = Mounted(form, section)
    /\ typed' = [f \in ConfigFields |-> IF typed[f] = "here" THEN "before" ELSE typed[f]]
    /\ UNCHANGED <<serviceVars, snapshot, loading, updateLoading, snapshotReq>>

Back ==
    /\ InSettings
    /\ SetOff
    /\ view' = "home"
    /\ form' = [form EXCEPT !.touched = {}]
    /\ typed' = NothingTyped
    /\ UNCHANGED <<serviceVars, snapshot, loading, updateLoading, snapshotReq>>

Type(f, v) ==
    /\ f \in Registered(view) /\ form.store[f] # v
    /\ SetOff
    /\ form' = [store |-> [form.store EXCEPT ![f] = v], touched |-> form.touched \cup {f}]
    /\ typed' = [typed EXCEPT ![f] = "here"]
    /\ UNCHANGED <<serviceVars, snapshot, view, loading, updateLoading, snapshotReq>>

(***************************************************************************)
(* Actions of the window.  A button that shows `loading' cannot be         *)
(* clicked; the update buttons do not look at it.                          *)
(***************************************************************************)
Call(slots, kind, cfg) ==
    /\ SetOff
    /\ \E k \in slots : ops[k] = None /\ ops' = [ops EXCEPT ![k] = NewOp(kind, cfg)]
    /\ UNCHANGED <<svc, runs, wanted, overlapped>>

ShowsConnected == snapshot # None /\ snapshot.state = "connected"

\* runConnectionAction("connect"): an incomplete configuration leads to the
\* settings instead.
ConnectRefused ==
    /\ ~InSettings /\ ~loading /\ ~ShowsConnected
    /\ SetOff
    /\ config.network = ""
    /\ ShowSettings("network")
    /\ UNCHANGED <<serviceVars, snapshot, loading, updateLoading, snapshotReq>>

ClickConnect ==
    /\ ~InSettings /\ ~loading /\ ~ShowsConnected
    /\ config.network # ""
    /\ Call(WindowSlots, "connect", None)
    /\ loading' = TRUE
    /\ UNCHANGED <<snapshot, view, updateLoading, form, typed, snapshotReq>>

ClickDisconnect ==
    /\ ~InSettings /\ ~loading /\ ShowsConnected
    /\ Call(WindowSlots, "disconnect", None)
    /\ loading' = TRUE
    /\ UNCHANGED <<snapshot, view, updateLoading, form, typed, snapshotReq>>

\* completeConfigForSave
completeConfigForSave(current, draft) ==
    [f \in ConfigFields |-> IF draft[f] # None THEN draft[f] ELSE current[f]]

\* saveConfig: all values of the form are saved, those of other sections too; the
\* rules of the section shown are checked.
ClickSave ==
    /\ view \in ConfigFields /\ ~loading
    /\ view = "network" => form.store.network # ""
    /\ Call(WindowSlots, "save", completeConfigForSave(config, form.store))
    /\ loading' = TRUE
    /\ UNCHANGED <<snapshot, view, updateLoading, form, typed, snapshotReq>>

ClickCheck ==
    /\ view = "logs" /\ ~updateLoading      \* the section "about" is like "logs"
    /\ Call(WindowSlots, "check", None)
    /\ updateLoading' = TRUE
    /\ UNCHANGED <<snapshot, view, loading, form, typed, snapshotReq>>

ClickApply ==
    /\ Call(WindowSlots, "apply", None)
    /\ loading' = TRUE
    /\ UNCHANGED <<snapshot, view, updateLoading, form, typed, snapshotReq>>

\* The tray menu calls the service without the window.
TrayClick ==
    /\ \E kind \in {"connect", "disconnect"} : Call({Tray}, kind, None)
    /\ UNCHANGED <<snapshot, view, loading, updateLoading, form, typed, snapshotReq>>

\* CheckForUpdate and ApplyUpdate change nothing here; the updater is external.
UpdaterAnswers(k) ==
    /\ ops[k] # None /\ ops[k].kind \in {"check", "apply"} /\ ops[k].pc = "start"
    /\ \E ok \in BOOLEAN : Answer(k, ok)
    /\ UNCHANGED <<svc, runs, wanted, overlapped, windowVars>>

(***************************************************************************)
(* The polls.  A refresh that finds one in flight returns at once.         *)
(***************************************************************************)
PollSnapshot ==
    /\ snapshotReq = None
    /\ snapshotReq' = Asked
    /\ UNCHANGED <<serviceVars, snapshot, view, loading, updateLoading, form, typed, asked>>

\* refreshStatus, { ...current, status }: the config object stays the same.  Ask,
\* answer and delivery are one step: the next poll corrects what a late answer
\* shows within a second.
PollStatus ==
    /\ snapshot # None
    /\ snapshot' = [snapshot EXCEPT !.state = svc.state]
    /\ UNCHANGED <<serviceVars, view, loading, updateLoading, form, typed, snapshotReq, asked>>

AnswerSnapshot ==
    /\ snapshotReq = Asked
    /\ snapshotReq' = [answer |-> Snapshot]
    /\ UNCHANGED <<serviceVars, snapshot, view, loading, updateLoading, form, typed, asked>>

\* The handlers that awaited this refresh end with it.
Refreshing(kinds) == {k \in Slots : ops[k] # None /\ ops[k].pc = "refresh" /\ ops[k].kind \in kinds}

\* setSnapshot: a new config object, so the form's effect runs.
DeliverSnapshot ==
    /\ Answered(snapshotReq)
    /\ snapshot' = snapshotReq.answer /\ snapshotReq' = None
    /\ form' = ConfigEffect(form, view, snapshotReq.answer.cfg)
    /\ loading' = (loading /\ Refreshing({"connect", "disconnect"}) = {})
    /\ updateLoading' = (updateLoading /\ Refreshing({"check"}) = {})
    /\ ops' = [k \in Slots |-> IF k \in Refreshing({"connect", "disconnect", "check"}) THEN None ELSE ops[k]]
    /\ UNCHANGED <<svc, runs, wanted, overlapped, view, typed, asked>>

(***************************************************************************)
(* The answers of the actions.                                             *)
(***************************************************************************)
Done(k) == ops' = [ops EXCEPT ![k] = None] /\ UNCHANGED <<svc, runs, wanted, overlapped>>

\* await refreshSnapshot(), which is a no-op while a poll is in flight.
RefreshOrDone(k) ==
    IF snapshotReq = None
    THEN snapshotReq' = Asked /\ Goto(k, "refresh") /\ UNCHANGED <<svc, runs, wanted, overlapped>>
    ELSE Done(k) /\ UNCHANGED snapshotReq

DeliverConnection(k) ==
    /\ ops[k] # None /\ ops[k].kind \in {"connect", "disconnect"} /\ ops[k].pc = "answer"
    /\ RefreshOrDone(k)
    /\ loading' = (loading /\ snapshotReq = None)
    /\ UNCHANGED <<snapshot, view, updateLoading, form, typed, asked>>

\* checkUpdate; only a check that worked refreshes.
DeliverCheck(k) ==
    /\ ops[k] # None /\ ops[k].kind = "check" /\ ops[k].pc = "answer"
    /\ IF ops[k].ok THEN RefreshOrDone(k) ELSE Done(k) /\ UNCHANGED snapshotReq
    /\ updateLoading' = (updateLoading /\ ops[k].ok /\ snapshotReq = None)
    /\ UNCHANGED <<snapshot, view, loading, form, typed, asked>>

\* applyUpdate: after a success the application is about to be replaced.
DeliverApply(k) ==
    /\ ops[k] # None /\ ops[k].kind = "apply" /\ ops[k].pc = "answer"
    /\ Done(k)
    /\ loading' = ops[k].ok
    /\ UNCHANGED <<snapshot, view, updateLoading, form, typed, snapshotReq, asked>>

\* saveConfig after its await: the answer is shown and written into the form.
DeliverSave(k) ==
    LET op == ops[k] IN
    /\ op # None /\ op.kind = "save" /\ op.pc = "answer" /\ (op.ok => op.answer # None)
    /\ Done(k)
    /\ loading' = FALSE
    /\ IF op.ok
       THEN /\ snapshot' = op.answer
            /\ form' = SetFieldsValue(form, view, op.answer.cfg)
            /\ typed' = NothingTyped
       ELSE UNCHANGED <<snapshot, form, typed>>
    /\ UNCHANGED <<view, updateLoading, snapshotReq, asked>>

\* Nobody in the window waits for a call of the tray.
TrayDone ==
    /\ ops[Tray] # None /\ ops[Tray].pc = "answer"
    /\ Done(Tray)
    /\ UNCHANGED windowVars

\* The window opens while the service has no connection yet, or the settings are
\* opened (from either state) while it has one.
Init ==
    /\ InitService
    /\ loading = FALSE /\ updateLoading = FALSE
    /\ typed = NothingTyped /\ asked = 0 /\ snapshotReq = Asked
    /\ \/ /\ snapshot = None /\ view = "home"
          /\ form = [store |-> [f \in ConfigFields |-> None], touched |-> {}]
       \/ /\ snapshot = Snapshot /\ view = "network"
          /\ form = [store |-> svc.cfg, touched |-> {}]

Next ==
    \/ ServiceNext /\ UNCHANGED windowVars
    \/ \E section \in ConfigFields \cup {"logs"} : OpenSettings(section) \/ SwitchSection(section)
    \/ Back
    \/ \E f \in ConfigFields, v \in Values : Type(f, v)
    \/ ConnectRefused \/ ClickConnect \/ ClickDisconnect \/ ClickSave \/ ClickCheck \/ ClickApply
    \/ TrayClick \/ TrayDone
    \/ PollSnapshot \/ PollStatus \/ AnswerSnapshot
    \/ DeliverSnapshot
    \/ \E k \in WindowSlots : \/ UpdaterAnswers(k) \/ DeliverConnection(k)
                              \/ DeliverCheck(k) \/ DeliverApply(k) \/ DeliverSave(k)

Spec == Init /\ [][Next]_vars

(***************************************************************************)
(* Properties                                                              *)
(***************************************************************************)

\* The shapes of the service's and the window's state.
TypeOK ==
    /\ ServiceType
    /\ snapshot \in Snapshots \cup {None}
    /\ view \in ConfigFields \cup {"home", "logs"}
    /\ loading \in BOOLEAN /\ updateLoading \in BOOLEAN
    /\ form \in [store : [ConfigFields -> Values \cup {None}], touched : SUBSET ConfigFields]
    /\ typed \in [ConfigFields -> {"no", "here", "before"}]
    /\ snapshotReq \in [answer : Snapshots \cup {None}] \cup {None}
    /\ asked \in Nat

\* No poll replaces what was typed into the section that is open.
SectionEditsSurvive ==
    [][ DeliverSnapshot => \A f \in ConfigFields : typed[f] = "here" => form'.store[f] = form.store[f] ]_vars

\* No poll replaces what was typed into the settings and is not saved yet
\* (docs/requirements.md: "without losing in-progress edits").  The code does not
\* keep this: see the run desktop_draft.
EditsSurvive ==
    [][ DeliverSnapshot => \A f \in ConfigFields : typed[f] # "no" => form'.store[f] = form.store[f] ]_vars
=============================================================================
