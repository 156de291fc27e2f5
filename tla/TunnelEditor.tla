---------------------------- MODULE TunnelEditor ----------------------------
(***************************************************************************)
(* The tunnels page of the dashboard (TunnelsPage.tsx) with its editor,    *)
(* and the tunnel handlers of the server it calls.                         *)
(*                                                                         *)
(* The editor's form instance belongs to TunnelEditor, which stays mounted *)
(* while the page is; only the dialog's content comes and goes.  The form  *)
(* library (external) keeps the values of fields that are unmounted and    *)
(* prefers them to initialValues when the fields come back.  A field the   *)
(* code treats like any other (client, local address, allow list) is       *)
(* represented by `name'; p2p and udp behave as tcp, https as http.        *)
(***************************************************************************)
EXTENDS PageRequests

CONSTANTS Ids,          \* tunnel identifiers
          InitTunnels,  \* the tunnels the server has at first
          AutoDomain,   \* automatic subdomains are enabled
          Edits,        \* what is typed or chosen: pairs of a field and a value
          MaxSends      \* bound: changes sent

Fields == {"name", "protocol", "remote_port", "domain", "status"}
Protocols == {"tcp", "http", "visitor_webrtc"}
DefaultPort == 6000

ASSUME EditorConstants ==
    /\ MaxInFlight \in Nat \ {0} /\ MaxSends \in Nat
    /\ InitTunnels = [id \in Ids |-> InitTunnels[id]] /\ AutoDomain \in BOOLEAN
    /\ \A e \in Edits : e[1] \in Fields
    /\ None # 0 /\ None \notin Protocols

VARIABLES tunnels,   \* the server's tunnels: a record, or None
          list,      \* the page's table: what the last answer held, or None
          spinning,  \* useAsync: a load is awaited
          editing,   \* the tunnel the editor is open for, or None
          store,     \* the form's values, None where never set
          touched,   \* history: fields changed since the editor of a tunnel was opened
          opens,     \* history: 0, 1 or more openings of the editor
          sends      \* changes sent so far

formVars == <<editing, store, touched, opens>>
vars == <<tunnels, list, spinning, formVars, calls, sends, behind>>

(***************************************************************************)
(* The server's handlers.                                                  *)
(***************************************************************************)
needsRemotePort(p) == p = "tcp"

\* validateTunnel
Valid(t) ==
    /\ t.name # ""
    /\ needsRemotePort(t.protocol) => t.remote_port # 0
    /\ t.protocol = "visitor_webrtc" => t.remote_port = 0
    /\ t.protocol = "http" => t.domain # ""

\* The tunnels there are at first were accepted by the server and written by this
\* page, whose normalize gives a visitor tunnel no domain.
ASSUME TunnelsAssumption ==
    \A id \in Ids : LET t == InitTunnels[id] IN
        t # None => /\ t = [f \in Fields |-> t[f]] /\ Valid(t)
                    /\ t.protocol = "visitor_webrtc" => t.domain = ""

\* The unique index on protocol and domain.
Conflict(id, t) ==
    t.domain # "" /\ \E j \in Ids \ {id} : /\ tunnels[j] # None
                                           /\ tunnels[j].protocol = t.protocol
                                           /\ tunnels[j].domain = t.domain

\* StartTunnel: only a listener can fail; the failure is recorded as a status.
StartResults(t) == IF t.protocol = "tcp" THEN {"running", "error"} ELSE {"running"}

Fail == [kind |-> "fail"]
Ok == [kind |-> "ok"]

Outcome(ts, ok) == [tunnels |-> ts, ans |-> IF ok THEN Ok ELSE Fail]
With(id, t) == [tunnels EXCEPT ![id] = t]

\* update: a running tunnel is stopped first and started again only when the new
\* values were accepted; the status in the request is ignored.
Update(id, payload) ==
    LET old == tunnels[id]
        next == [payload EXCEPT !.status = old.status]
        started == IF old.status = "running" THEN StartResults(next) ELSE {old.status}
    IN IF ~Valid(next) \/ Conflict(id, next)
       THEN {Outcome(With(id, [old EXCEPT !.status = IF @ = "running" THEN "stopped" ELSE @]), FALSE)}
       ELSE {Outcome(With(id, [next EXCEPT !.status = st]), st # "error" \/ old.status = "error") : st \in started}

\* create, with createTunnel's automatic domain (one that is free is found); a
\* tunnel whose start fails exists all the same.
Create(payload) ==
    LET automatic == payload.protocol = "http" /\ payload.domain = "" /\ AutoDomain
        next == IF automatic THEN [payload EXCEPT !.domain = "auto"] ELSE payload
        started == IF next.status = "running" THEN StartResults(next) ELSE {"stopped"}
        id == CHOOSE j \in Ids : tunnels[j] = None
    IN IF ~Valid(next) \/ (~automatic /\ Conflict(None, next))
       THEN {Outcome(tunnels, FALSE)}
       ELSE {Outcome(With(id, [next EXCEPT !.status = st]), st # "error") : st \in started}

StartTunnel(id) ==
    {Outcome(With(id, [tunnels[id] EXCEPT !.status = st]), st # "error") : st \in StartResults(tunnels[id])}

Outcomes(c) ==
    IF c.op \notin {"load", "create"} /\ tunnels[c.id] = None THEN {Outcome(tunnels, FALSE)}
    ELSE CASE c.op = "load"   -> {Outcome(tunnels, TRUE)}
           [] c.op = "create" -> Create(c.payload)
           [] c.op = "update" -> Update(c.id, c.payload)
           [] c.op = "start"  -> StartTunnel(c.id)
           [] c.op = "stop"   -> {Outcome(With(c.id, [tunnels[c.id] EXCEPT !.status = "stopped"]), TRUE)}
           [] c.op = "delete" -> {Outcome(With(c.id, None), TRUE)}

NewCall(op, id, payload) ==
    [op |-> op, id |-> id, payload |-> payload, ans |-> Waiting, data |-> None, late |-> FALSE]

\* History: answers given before another one was shown.
Outdated(cs) == [j \in DOMAIN cs |-> IF cs[j].op = "load" /\ cs[j].ans = Ok
                                     THEN [cs[j] EXCEPT !.late = TRUE] ELSE cs[j]]

\* A handler runs; the answer of a load is the table.  Answered calls stand at the
\* end, in the order of their answers.  A create needs a free identifier (bound).
Served(i) ==
    LET c == calls[i] IN
    /\ c.ans = Waiting
    /\ c.op = "create" => \E j \in Ids : tunnels[j] = None
    /\ \E o \in Outcomes(c) :
          /\ tunnels' = o.tunnels
          /\ calls' = Append(RemoveAt(calls, i),
                             [c EXCEPT !.ans = o.ans, !.payload = None,
                                       !.data = IF c.op = "load" THEN tunnels ELSE None])
    /\ UNCHANGED <<list, spinning, formVars, sends, behind>>

\* The request, or the answer to it, is lost.
Lost(i) ==
    /\ calls[i].ans.kind # "fail"
    /\ calls' = [calls EXCEPT ![i].ans = Fail, ![i].payload = None, ![i].data = None]
    /\ UNCHANGED <<tunnels, list, spinning, formVars, sends, behind>>

(***************************************************************************)
(* The editor.                                                             *)
(***************************************************************************)
emptyTunnel == [id |-> None, name |-> "", protocol |-> "tcp", remote_port |-> DefaultPort,
                domain |-> "", status |-> "stopped"]

\* Seeded fault: a port of 0 is not replaced when the protocol needs one.
ProtocolEffectKeepsZero(protocol, s) ==
    IF protocol = "visitor_webrtc" THEN [s EXCEPT !.remote_port = 0, !.domain = ""] ELSE s

\* useEffect([form, protocol]).
ProtocolEffect(protocol, s) ==
    IF protocol = "visitor_webrtc" THEN [s EXCEPT !.remote_port = 0, !.domain = ""]
    ELSE IF s.remote_port = 0 THEN [s EXCEPT !.remote_port = DefaultPort]
    ELSE s

\* The form library: fields that come back take kept values before initial ones.
Mounted(s, initial) == [f \in Fields |-> IF s[f] # None THEN s[f] ELSE initial[f]]

\* The effect first sees the protocol of the tunnel (nothing is watched while the
\* fields are gone), then, with the fields back, the one in the form.
Opened(t) ==
    LET kept == ProtocolEffect(t.protocol, store)
        shown == Mounted(kept, t)
    IN IF shown.protocol # t.protocol THEN ProtocolEffect(shown.protocol, shown) ELSE shown

\* The editor or the confirmation of remove covers the page; the confirmation
\* waits for the request and for the load that follows it.
ReloadAfter(c) == NewCall("load", IF c.op = "delete" THEN "confirm" ELSE None, None)
Overlay == editing # None \/ \E i \in DOMAIN calls : calls[i].op = "delete" \/ calls[i].id = "confirm"
Rows == IF list = None THEN {} ELSE {j \in Ids : list[j] # None}

Open(t) ==
    /\ editing' = t
    /\ store' = Opened(t)
    /\ touched' = {}
    /\ opens' = IF opens = 0 THEN 1 ELSE 2
    /\ UNCHANGED <<tunnels, list, spinning, calls, sends, behind>>

OpenCreate == ~Overlay /\ Open(emptyTunnel)

\* setEditing(row): the row as it was loaded.
OpenEdit(id) ==
    /\ ~Overlay /\ ~spinning /\ id \in Rows
    /\ Open([f \in Fields \cup {"id"} |-> IF f = "id" THEN id ELSE list[id][f]])

\* setEditing(null): the fields go, nothing is watched any more and the effect
\* runs once more; the values stay in the form.
Closed == editing' = None /\ store' = ProtocolEffect(None, store) /\ touched' = {} /\ UNCHANGED opens

Cancel ==
    /\ editing # None
    /\ Closed
    /\ UNCHANGED <<tunnels, list, spinning, calls, sends, behind>>

\* An input: the port may not be 0 where it is needed, nor changed where it has
\* no meaning.
Edit(f, v) ==
    /\ editing # None /\ store[f] # v
    /\ f = "remote_port" => /\ store.protocol # "visitor_webrtc"
                            /\ needsRemotePort(store.protocol) => v # 0
    /\ store' = LET s == [store EXCEPT ![f] = v] IN
                IF f = "protocol" THEN ProtocolEffect(v, s) ELSE s
    /\ touched' = IF editing.id = None THEN {} ELSE touched \cup ({f} \ {"status"})
    /\ UNCHANGED <<tunnels, list, spinning, editing, opens, calls, sends, behind>>

\* Seeded fault: only visitor tunnels keep what the form holds as domain.
normalizeDropsDomain(s) ==
    [s EXCEPT !.domain = "", !.remote_port = IF s.protocol = "visitor_webrtc" THEN 0 ELSE @]

\* normalize
normalize(s) ==
    [s EXCEPT !.remote_port = IF s.protocol = "visitor_webrtc" THEN 0 ELSE @,
              !.domain = IF s.protocol = "visitor_webrtc" THEN "" ELSE @]

SendChange(op, id, payload) ==
    /\ Room /\ sends < MaxSends
    /\ sends' = sends + 1
    /\ calls' = Append(calls, NewCall(op, id, payload))

\* submit up to its await.  The button stays usable until the answer is there.
Submit ==
    /\ editing # None /\ store.name # ""
    /\ SendChange(IF editing.id = None THEN "create" ELSE "update", editing.id, normalize(store))
    /\ UNCHANGED <<tunnels, list, spinning, formVars, behind>>

\* toggle: start or stop, by the status the row was loaded with.
Toggle(id) ==
    /\ ~Overlay /\ ~spinning /\ id \in Rows
    /\ SendChange(IF list[id].status = "running" THEN "stop" ELSE "start", id, None)
    /\ UNCHANGED <<tunnels, list, spinning, formVars, behind>>

\* remove: the confirmation covers the page until its request is answered.
RemoveTunnel(id) ==
    /\ ~Overlay /\ ~spinning /\ id \in Rows
    /\ SendChange("delete", id, None)
    /\ UNCHANGED <<tunnels, list, spinning, formVars, behind>>

Reload ==
    /\ Room /\ ~Overlay
    /\ calls' = Append(calls, NewCall("load", None, None))
    /\ spinning' = TRUE
    /\ UNCHANGED <<tunnels, list, formVars, sends, behind>>

\* Answers given before the one that is shown now come too late.
Without(i) == Outdated(SubSeq(calls, 1, i - 1)) \o SubSeq(calls, i + 1, Len(calls))

\* useAsync: the answer replaces the table, a failure empties it.
DeliverLoad(i) ==
    LET c == calls[i] IN
    /\ c.op = "load" /\ c.ans # Waiting
    /\ list' = IF c.ans = Ok THEN c.data ELSE None
    /\ spinning' = FALSE
    /\ calls' = Without(i)
    /\ behind' = c.late
    /\ UNCHANGED <<tunnels, formVars, sends>>

\* Seeded fault: start and stop do not load the table again.
AfterChangeNotToggle(i) ==
    LET c == calls[i] IN
    /\ IF c.op \in {"update", "create"} /\ editing # None THEN Closed ELSE UNCHANGED formVars
    /\ IF c.op \in {"start", "stop"} THEN calls' = RemoveAt(calls, i) /\ UNCHANGED spinning
       ELSE /\ calls' = Append(RemoveAt(calls, i), ReloadAfter(c))
            /\ spinning' = TRUE

\* The rest of the handler: submit closes the editor, whichever it is, and all
\* three load the table again.
AfterChange(i) ==
    LET c == calls[i] IN
    /\ IF c.op \in {"update", "create"} /\ editing # None THEN Closed ELSE UNCHANGED formVars
    /\ calls' = Append(RemoveAt(calls, i), ReloadAfter(c))
    /\ spinning' = TRUE

DeliverChange(i) ==
    /\ calls[i].op # "load" /\ calls[i].ans = Ok
    /\ AfterChange(i)
    /\ UNCHANGED <<tunnels, list, sends, behind>>

\* The await throws: nothing after it runs, and nothing is shown.
DeliverFailure(i) ==
    /\ calls[i].op # "load" /\ calls[i].ans = Fail
    /\ calls' = Without(i)
    /\ behind' = TRUE
    /\ UNCHANGED <<tunnels, list, spinning, formVars, sends>>

Init ==
    /\ tunnels = InitTunnels
    /\ list = None /\ spinning = TRUE
    /\ editing = None /\ store = [f \in Fields |-> None] /\ touched = {} /\ opens = 0
    /\ calls = <<NewCall("load", None, None)>>
    /\ sends = 0 /\ behind = FALSE

Next ==
    \/ \E i \in DOMAIN calls : Served(i) \/ Lost(i)
    \/ \E i \in DOMAIN calls : DeliverLoad(i) \/ DeliverChange(i) \/ DeliverFailure(i)
    \/ OpenCreate \/ Cancel \/ Submit \/ Reload
    \/ \E id \in Ids : OpenEdit(id) \/ Toggle(id) \/ RemoveTunnel(id)
    \/ \E e \in Edits : Edit(e[1], e[2])

Spec == Init /\ [][Next]_vars

(***************************************************************************)
(* Properties                                                              *)
(***************************************************************************)

\* Whatever is opened, switched between protocols, closed and opened again, the
\* editor never sends a port the server's validateTunnel refuses: a protocol that
\* needs one has one, a visitor tunnel has none.
PortAccepted ==
    \A i \in DOMAIN calls :
        LET t == calls[i].payload IN
        t # None => /\ needsRemotePort(t.protocol) => t.remote_port # 0
                    /\ t.protocol = "visitor_webrtc" => t.remote_port = 0

\* With nothing in flight the table shows the server's tunnels, in whatever order
\* the answers came - unless the last answer shown had been overtaken, or a change
\* failed, after which the page does not load again.
TunnelsShown == (calls = <<>> /\ list # None /\ ~behind) => list = tunnels

\* The fields an update leaves alone: all that were not touched, except that the
\* protocol decides about port and domain.
Kept == {f \in Fields \ {"status"} : f \notin touched /\ ("protocol" \in touched => f = "name")}

KeepsUntouched == \A f \in Kept : normalize(store)[f] = editing[f]

\* The first editor of a page saves what the tunnel has, except for what the
\* administrator changed.
FirstEditKeepsUntouched ==
    [][ (Submit /\ editing.id # None /\ opens = 1) => KeepsUntouched ]_vars

\* Every editor does (docs/requirements.md: administrators can edit tunnels).  The
\* code does not keep this: see the run editor_reopen.
EditKeepsUntouched ==
    [][ (Submit /\ editing.id # None) => KeepsUntouched ]_vars
=============================================================================
