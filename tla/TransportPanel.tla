--------------------------- MODULE TransportPanel ---------------------------
(***************************************************************************)
(* The "access and certificates" panel of the settings page                *)
(* (TransportSettings.tsx) and the part of the server it talks to: the     *)
(* transport controller, the privileged Certbot helper and the monitor     *)
(* that applies what the helper produced.                                  *)
(*                                                                         *)
(* The panel shows one status, which every answer replaces: those of the   *)
(* first load, of the 2 s poll while a certificate is pending, and of the  *)
(* four changes.  Answers may overtake each other.                         *)
(***************************************************************************)
EXTENDS PageRequests

CONSTANTS MaxChanges,   \* bound: changes the administrator asks for
          Drafts        \* what is typed into the auto-subdomain form

VARIABLES status,      \* the status shown, or None before the first answer
          loading,     \* the first load is awaited
          busy,        \* the switch whose change is awaited: None, "tls", "plain"
          submitting,  \* [cert, sub]: a form's request is awaited
          draft,       \* the fields of the auto-subdomain form
          typed,       \* history: what was typed into it since it was last
                       \* filled or saved, or None
          srv,         \* the controller's configuration and certificate work
          changes      \* changes asked for so far

panelVars == <<status, loading, busy, submitting, draft, typed>>
transportVars == <<panelVars, calls, srv, changes, behind>>

(***************************************************************************)
(* The server.  `pending' is pendingCertificate, `queued' the request file *)
(* the helper has not taken; `job' is the helper's status file and `fresh' *)
(* whether it was written after the last request; `pendingOld' and         *)
(* `jobOld' whether certificateJobTimeout has passed for either; `applied' *)
(* whether the monitor has seen the job's success; `cert' whether a        *)
(* certificate is loaded.  All requests are for one domain.                *)
(***************************************************************************)
SubConfig == [enabled : BOOLEAN, base : {"", "a"}]
Draft == [enabled : BOOLEAN, base : {"", "a", "A."}]   \* "A." is "a" as typed

CertificateStates == {"none", "pending", "running", "success", "failed"}

\* An answer's status, with the fields the panel uses.
TransportStatus ==
    [tls : BOOLEAN, plain : BOOLEAN, sub : SubConfig, certificate : CertificateStates]

ASSUME PanelConstants ==
    /\ MaxInFlight \in Nat \ {0} /\ MaxChanges \in Nat
    /\ Drafts \subseteq Draft
    /\ None \notin TransportStatus \cup Draft \cup BOOLEAN

\* normalizeAutoSubdomainBase
Normalized(d) == [enabled |-> d.enabled, base |-> IF d.base = "" THEN "" ELSE "a"]

NotReported(s) == s.pending /\ ~s.fresh

Certificate(s) ==
    IF NotReported(s) THEN IF s.pendingOld THEN "failed" ELSE "pending"
    ELSE CASE s.job = "running" -> IF s.jobOld THEN "failed" ELSE "running"
           [] s.job = "failed"  -> "failed"
           [] OTHER             -> IF s.cert THEN "success" ELSE "none"

\* certificateStatusLocked forgets the request once the helper reports on it.
StatusRead(s) == IF s.pending /\ s.fresh THEN [s EXCEPT !.pending = FALSE] ELSE s

StatusLocked(s) ==
    [tls |-> s.tls, plain |-> s.plain, sub |-> s.sub, certificate |-> Certificate(s)]

InitServer == [tls |-> FALSE, plain |-> FALSE, sub |-> [enabled |-> FALSE, base |-> ""],
               cert |-> FALSE, pending |-> FALSE, pendingOld |-> FALSE, queued |-> FALSE,
               job |-> "none", jobOld |-> FALSE, fresh |-> FALSE, applied |-> TRUE]

Failed == [kind |-> "fail"]
NewRequest(op, arg) == [op |-> op, arg |-> arg, live |-> TRUE, ans |-> Waiting]
Reads == {"load", "poll"}

\* The configuration after a change, or None when the controller refuses it.
Changed(c) ==
    CASE c.op \in Reads  -> srv
      [] c.op = "tls"   -> IF c.arg /\ ~srv.cert THEN None ELSE [srv EXCEPT !.tls = c.arg]
      [] c.op = "plain" -> [srv EXCEPT !.plain = c.arg]
      [] c.op = "sub"   -> IF c.arg.enabled /\ c.arg.base = "" THEN None
                           ELSE [srv EXCEPT !.sub = Normalized(c.arg)]
      [] c.op = "cert"  -> IF srv.job = "running" /\ ~srv.jobOld THEN None
                           ELSE [srv EXCEPT !.pending = TRUE, !.pendingOld = FALSE,
                                            !.queued = TRUE, !.fresh = FALSE]

\* Certificate work that is still to change the server although its status no
\* longer says so: between the helper's success and the monitor's next tick, and
\* after certificateJobTimeout.
Unsettled(s) ==
    /\ Certificate(s) \notin {"pending", "running"}
    /\ s.queued \/ s.job = "running" \/ (s.job = "success" /\ ~s.applied)

\* History: answers given before a change that the panel is not told of.
Unclean(cs) == [j \in DOMAIN cs |-> IF cs[j].ans.kind = "ok" THEN [cs[j] EXCEPT !.ans.clean = FALSE]
                                     ELSE cs[j]]

\* A change whose answer nobody awaits any more.
Orphan(c) == ~c.live /\ c.op \notin Reads

\* The handler runs under the controller's lock and answers with the status; the
\* call moves to the end, so that answers stand in the order they were given.
\* `clean': nothing the panel will not hear of is still to happen.
StatusServed(i) ==
    LET c == calls[i] IN
    /\ c.ans = Waiting /\ Changed(c) # None
    /\ srv' = StatusRead(Changed(c))
    /\ calls' = Append(RemoveAt(IF Orphan(c) THEN Unclean(calls) ELSE calls, i),
                       [c EXCEPT !.ans = [kind |-> "ok", status |-> StatusLocked(Changed(c)),
                                          clean |-> ~Unsettled(Changed(c))]])
    /\ behind' = (behind \/ Orphan(c))
    /\ UNCHANGED <<panelVars, changes>>

\* The change is made but the answer is lost.
AnswerLost(i) ==
    LET c == calls[i] IN
    /\ c.ans = Waiting /\ c.op \notin Reads /\ Changed(c) # None
    /\ srv' = StatusRead(Changed(c))
    /\ calls' = [Unclean(calls) EXCEPT ![i].ans = Failed]
    /\ behind' = TRUE
    /\ UNCHANGED <<panelVars, changes>>

\* The helper cannot read the queued request: the failure it reports names no
\* domain, so it is never taken for the pending one.
HelperRefuses ==
    /\ srv.queued
    /\ srv' = [srv EXCEPT !.job = "failed", !.jobOld = FALSE, !.fresh = FALSE, !.queued = FALSE]
    /\ UNCHANGED <<panelVars, calls, changes, behind>>

\* The helper takes the queued request, runs Certbot and writes its status.
HelperStarts ==
    /\ srv.queued
    /\ srv' = [srv EXCEPT !.job = "running", !.jobOld = FALSE, !.fresh = TRUE, !.queued = FALSE]
    /\ UNCHANGED <<panelVars, calls, changes, behind>>

HelperEnds ==
    /\ srv.job = "running"
    /\ \E result \in {"success", "failed"} :
          srv' = [srv EXCEPT !.job = result, !.jobOld = FALSE, !.fresh = TRUE,
                             !.applied = result # "success"]
    /\ UNCHANGED <<panelVars, calls, changes, behind>>

\* certificateJobTimeout: a request nobody took, or a job nobody finished.
TimeOut ==
    /\ \/ NotReported(srv) /\ ~srv.pendingOld /\ srv' = [srv EXCEPT !.pendingOld = TRUE]
       \/ srv.job = "running" /\ ~srv.jobOld /\ srv' = [srv EXCEPT !.jobOld = TRUE]
    /\ UNCHANGED <<panelVars, calls, changes, behind>>

\* applyCertificateUpdates: the new certificate is loaded and TLS switched on.
MonitorApplies ==
    /\ srv.job = "success" /\ ~srv.applied
    /\ srv' = [srv EXCEPT !.cert = TRUE, !.tls = TRUE, !.applied = TRUE]
    /\ UNCHANGED <<panelVars, calls, changes, behind>>

(***************************************************************************)
(* The panel.                                                              *)
(***************************************************************************)
certificatePending(st) == st # None /\ st.certificate \in {"pending", "running"}

nextTLSState(st) == ~(st # None /\ st.tls)
nextPlainState(st) == ~(st # None /\ st.plain)

\* The dependencies of the form's effect (an empty base domain is left out of
\* the answer, so it equals the one of no answer).
SubDeps(st) == IF st = None THEN <<None, "">> ELSE <<st.sub.enabled, st.sub.base>>

FormOf(st) == IF st = None THEN [enabled |-> FALSE, base |-> ""] ELSE st.sub

\* Seeded fault: the form is filled once, by the first status.
DraftAfterFirst(next) == IF status = None THEN FormOf(next) ELSE draft

\* The effect runs when the server's values differ from those shown before.
DraftAfter(next) == IF SubDeps(next) # SubDeps(status) THEN FormOf(next) ELSE draft

ShowStatus(next) == status' = next /\ draft' = DraftAfter(next)

\* What counts as typed and not saved once the status `next' is shown: nothing
\* when the server's setting is a new one, or is what the form was saved with.
TypedAfter(c, next) ==
    IF status = None \/ next.sub # status.sub \/ (c.op = "sub" /\ c.arg = draft)
    THEN None ELSE typed

Send(op, arg) == Room /\ calls' = Append(calls, NewRequest(op, arg)) /\ UNCHANGED <<srv, behind>>
SendSetting(op, arg) == changes < MaxChanges /\ changes' = changes + 1 /\ Send(op, arg)

\* Seeded fault: the interval is only set up for the first pending state.
PollOnlyQueued ==
    /\ status # None /\ status.certificate = "pending"
    /\ Send("poll", None)
    /\ UNCHANGED <<panelVars, changes>>

\* The 2 s interval that runs while the shown status is pending.
Poll ==
    /\ certificatePending(status)
    /\ Send("poll", None)
    /\ UNCHANGED <<panelVars, changes>>

\* The TLS switch: usable with a certificate or while TLS is on, and not while
\* its own change is the one that `busy' names.
ToggleTLS ==
    /\ status # None /\ (status.certificate # "none" \/ status.tls)
    /\ busy # "tls"
    /\ SendSetting("tls", nextTLSState(status))
    /\ busy' = "tls"
    /\ UNCHANGED <<status, loading, submitting, draft, typed>>

TogglePlain ==
    /\ busy # "plain"
    /\ SendSetting("plain", nextPlainState(status))
    /\ busy' = "plain"
    /\ UNCHANGED <<status, loading, submitting, draft, typed>>

RequestCertificate ==
    /\ ~certificatePending(status) /\ ~submitting.cert
    /\ SendSetting("cert", None)
    /\ submitting' = [submitting EXCEPT !.cert = TRUE]
    /\ UNCHANGED <<status, loading, busy, draft, typed>>

EditDraft(d) ==
    /\ d # draft
    /\ draft' = d /\ typed' = d
    /\ UNCHANGED <<status, loading, busy, submitting, calls, srv, changes, behind>>

\* submit: enabling without a base domain is refused in the panel.
SaveDraft ==
    /\ ~submitting.sub /\ ~(draft.enabled /\ draft.base = "")
    /\ SendSetting("sub", draft)
    /\ submitting' = [submitting EXCEPT !.sub = TRUE]
    /\ UNCHANGED <<status, loading, busy, draft, typed>>

\* The finally blocks: the indicator of the request's own control goes off, and
\* that of a switch also when another switch is now waiting.
Finished(c) ==
    /\ loading' = (loading /\ c.op # "load")
    /\ busy' = IF c.op \in {"tls", "plain"} THEN None ELSE busy
    /\ submitting' = [cert |-> submitting.cert /\ c.op # "cert",
                      sub |-> submitting.sub /\ c.op # "sub"]

\* Seeded fault: a change's answer is not shown.
DeliverStatusReadsOnly(i) ==
    LET c == calls[i] IN
    /\ c.live /\ c.ans.kind = "ok"
    /\ IF c.op \in Reads THEN ShowStatus(c.ans.status) ELSE UNCHANGED <<status, draft>>
    /\ typed' = TypedAfter(c, c.ans.status)
    /\ Finished(c)
    /\ behind' = ~c.ans.clean
    /\ calls' = RemoveAt(Unclean(SubSeq(calls, 1, i)) \o SubSeq(calls, i + 1, Len(calls)), i)
    /\ UNCHANGED <<srv, changes>>

\* setStatus with whatever the answer holds; older answers are now outdated.
DeliverStatus(i) ==
    LET c == calls[i] IN
    /\ c.live /\ c.ans.kind = "ok"
    /\ ShowStatus(c.ans.status) /\ typed' = TypedAfter(c, c.ans.status)
    /\ Finished(c)
    /\ behind' = ~c.ans.clean
    /\ calls' = RemoveAt(Unclean(SubSeq(calls, 1, i)) \o SubSeq(calls, i + 1, Len(calls)), i)
    /\ UNCHANGED <<srv, changes>>

\* The request failed: a message, and the status stays as it is.
ShowFailure(i) ==
    LET c == calls[i] IN
    /\ c.live /\ c.ans \in {Waiting, Failed}
    /\ Finished(c)
    /\ calls' = RemoveAt(calls, i)
    /\ UNCHANGED <<status, draft, typed, srv, changes, behind>>

\* The panel that sent the request is gone.
DeliverDropped(i) ==
    /\ ~calls[i].live
    /\ calls' = RemoveAt(calls, i)
    /\ UNCHANGED <<panelVars, srv, changes, behind>>

Deliver(i) == DeliverStatus(i) \/ ShowFailure(i) \/ DeliverDropped(i)

\* The page is left and opened again: a new panel with a first load; the old
\* one's requests go on.
Remount ==
    /\ Room
    /\ status' = None /\ loading' = TRUE /\ busy' = None
    /\ submitting' = [cert |-> FALSE, sub |-> FALSE]
    /\ draft' = FormOf(None) /\ typed' = None
    /\ calls' = Append([j \in DOMAIN calls |-> [calls[j] EXCEPT !.live = FALSE]],
                       NewRequest("load", None))
    /\ UNCHANGED <<srv, changes, behind>>

TransportInit ==
    /\ status = None /\ loading = TRUE /\ busy = None
    /\ submitting = [cert |-> FALSE, sub |-> FALSE]
    /\ draft = FormOf(None) /\ typed = None
    /\ calls = <<NewRequest("load", None)>>
    /\ srv = InitServer
    /\ changes = 0 /\ behind = FALSE

PollServed == \E i \in DOMAIN calls : calls[i].op = "poll" /\ StatusServed(i)

OldestDelivered == calls # <<>> /\ Deliver(1)

TransportNext ==
    \/ \E i \in DOMAIN calls : StatusServed(i) \/ AnswerLost(i) \/ Deliver(i)
    \/ HelperRefuses \/ HelperStarts \/ HelperEnds \/ TimeOut \/ MonitorApplies
    \/ Poll \/ ToggleTLS \/ TogglePlain \/ RequestCertificate
    \/ \E d \in Drafts : EditDraft(d)
    \/ SaveDraft \/ Remount

\* A request is answered or given up by the browser; the server answers again
\* and again when it is asked again and again; the interval timer and the clock
\* go on.  The helper is not assumed to run.
Fairness ==
    /\ WF_transportVars(OldestDelivered) /\ SF_transportVars(PollServed)
    /\ SF_transportVars(Poll) /\ WF_transportVars(TimeOut)

TransportSpec == TransportInit /\ [][TransportNext]_transportVars /\ Fairness

(***************************************************************************)
(* Properties                                                              *)
(***************************************************************************)

\* With no request in flight and no certificate work awaited, the panel shows the
\* configuration the server has, whatever order the answers came in - unless the
\* last answer shown was already overtaken, a change was made whose answer got
\* lost, or the server had certificate work left that its status did not show.
PanelTellsTruth ==
    (/\ calls = <<>> /\ status # None /\ ~behind
     /\ ~certificatePending(status)) => status = StatusLocked(srv)

\* A panel that shows certificate work in progress does not do so for ever, also
\* when the helper never runs: polling goes on until the timeout is shown.
WaitingEnds == certificatePending(status) ~> ~certificatePending(status)

\* The auto-subdomain form shows what was typed into it, through polls and the
\* answers to other controls, or else what the server has: with nothing typed
\* since it was filled or saved, nothing in flight and no certificate work
\* awaited, its fields are the server's setting, whatever order the answers came
\* in, with the exceptions of PanelTellsTruth.  A setting that changed on the
\* server replaces what was typed, also when it was typed while the saving of an
\* earlier text was awaited.
FormTellsTruth ==
    /\ typed # None => draft = typed
    /\ (/\ calls = <<>> /\ status # None /\ ~behind /\ ~certificatePending(status)
        /\ typed = None) => Normalized(draft) = srv.sub
=============================================================================
