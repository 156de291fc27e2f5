------------------------------ MODULE Dashboard ------------------------------
(***************************************************************************)
(* The management dashboard in one browser tab: the login screen, the page *)
(* shell (App.tsx), the loading hook every page uses (useAsync.ts) and the *)
(* pages with their dialogs.  One page is mounted at a time; its state `ui'*)
(* is new at every mount and dies when the page is left.                   *)
(*                                                                         *)
(* A handler of the code that awaits a request is two actions here: the    *)
(* click that sends the request, and Deliver, which runs the rest of the   *)
(* handler.  Dialogs and drawers cover the page (antd masks), so a page's  *)
(* own buttons are only reachable while none is open.  The tunnels page    *)
(* and the transport panel have modules of their own.                      *)
(***************************************************************************)
EXTENDS DashboardClient

CONSTANT Pages        \* the pages the administrator visits

KnownPages == {"overview", "clients", "tokens", "relays", "traffic", "logs", "settings"}
ASSUME PagesAssumption == Pages \subseteq KnownPages /\ "overview" \in Pages

VARIABLES authenticated,  \* DashboardApp: pages are shown, not the login screen
          active,         \* DashboardApp: the selected page
          login,          \* LoginPage: [loading, error], the error as its text
          ui              \* the mounted page

vars == <<clientVars, authenticated, active, login, ui>>

(***************************************************************************)
(* useAsync                                                                *)
(***************************************************************************)
NewView == [data |-> None, loading |-> TRUE, error |-> FALSE, late |-> FALSE]

\* load() up to the await: the data stays while the new answer is awaited.
StartLoad(v) == [v EXCEPT !.loading = TRUE, !.error = FALSE]

\* Seeded fault: a failed load leaves the spinner on.
FinishLoadKeepsSpinner(v, c) ==
    IF c.ans.kind = "ok"
    THEN [data |-> c.ans.value, loading |-> FALSE, error |-> FALSE, late |-> c.late]
    ELSE [data |-> None, loading |-> TRUE, error |-> TRUE, late |-> c.late]

\* load() after it: the answer replaces the whole state; an error drops the data.
\* (`late' records that an answer to a newer load had come before.)
FinishLoad(v, c) ==
    IF c.ans.kind = "ok"
    THEN [data |-> c.ans.value, loading |-> FALSE, error |-> FALSE, late |-> c.late]
    ELSE [data |-> None, loading |-> FALSE, error |-> TRUE, late |-> c.late]

(***************************************************************************)
(* The pages.                                                              *)
(***************************************************************************)
FirstFilter(p) ==
    CASE p = "logs"    -> [query |-> None, level |-> None, page |-> 1]
      [] p = "traffic" -> [range |-> "today"]
      [] OTHER         -> None

\* What a page loads: the relays page has two loaders.
Loaders(p) == CASE p = "relays" -> <<"load", "load2">>
                [] p = "logs"   -> <<"logs">>
                [] OTHER        -> <<"load">>

MainLoads == {"load", "logs"}

Fresh(p) ==
    [main |-> NewView, second |-> NewView, filter |-> FirstFilter(p),
     detail |-> None, detailRequest |-> 0, asked |-> None,
     editing |-> None, dialog |-> FALSE, secret |-> FALSE, confirm |-> FALSE,
     acked |-> 0, overlap |-> FALSE]

\* The loads of page p with filter f, appended to the requests cs.
WithLoads(cs, s, p, f) ==
    cs \o [k \in DOMAIN Loaders(p) |-> NewCall(Loaders(p)[k], f, getSession(s).token)]

\* Seeded fault: the token switch does not reload the table.
ReloadingNotDisable == {"saveEdit", "delete", "create", "clear", "setting", "change"}

\* The handlers that end in state.reload().
Reloading == {"saveEdit", "delete", "create", "disable", "clear", "setting", "change"}

\* The requests of a page that is left.  Only a refusal, and what a change leads
\* to, still matter: the rest of a request is forgotten.
Orphan(cs) ==
    [i \in DOMAIN cs |->
        [cs[i] EXCEPT !.live = FALSE, !.late = FALSE, !.arg = None,
                      !.op = CASE @ \in Reloading \ {"clear"}         -> "change"
                               [] @ \in {"resetToken", "password"}  -> "changeOnly"
                               [] @ \in {"clear", "changeOnly"}     -> @
                               [] OTHER                             -> "load",
                      !.ans = IF @.kind = "ok" THEN Ok(None) ELSE @]]

SameShell == UNCHANGED <<authenticated, active, login>>
SameServer == UNCHANGED <<issued, expired, version, logs>>

\* A request sent by the mounted page; authHeader may move a legacy session.
Send(op, arg) ==
    /\ Room(1)
    /\ calls' = request(calls, storage, op, arg)
    /\ storage' = getSession(storage).storage

\* All loads of the mounted page, with the filter of the current render.
ReloadAll(f) ==
    /\ Room(Len(Loaders(active)))
    /\ calls' = WithLoads(calls, storage, active, f)
    /\ storage' = getSession(storage).storage

Overlay == ui.detail # None \/ ui.editing # None \/ ui.dialog \/ ui.secret \/ ui.confirm

CanClick(p) == authenticated /\ active = p /\ ~Overlay

\* A control inside the page's Spin: not while it spins (Spin takes the pointer
\* events off its children).  Row buttons and the pager also need the data.
CanClickInside(p) == CanClick(p) /\ ~ui.main.loading
CanClickRow(p) == CanClickInside(p) /\ ui.main.data # None

\* (`overlap' records that a load began while an older one was awaited.)
Started(u) ==
    [u EXCEPT !.main = StartLoad(@), !.second = StartLoad(@),
              !.overlap = active = "logs" /\ (@ \/ \E i \in DOMAIN calls : calls[i].live /\ calls[i].op \in MainLoads)]

\* The refresh button of Page, and the 5 s interval of RelaysPage (which also
\* fires behind a dialog).
Reload ==
    /\ authenticated /\ (active = "relays" \/ ~Overlay)
    /\ ReloadAll(ui.filter)
    /\ ui' = Started(ui)
    /\ SameShell /\ SameServer

\* Seeded fault: the loader still uses the filter of the render before.
FilterToStale(f) ==
    /\ f # ui.filter
    /\ ReloadAll(ui.filter)
    /\ ui' = [Started(ui) EXCEPT !.filter = f]
    /\ SameShell /\ SameServer

\* useEffect([load]): a render with other deps loads, one with equal deps does not.
FilterTo(f) ==
    /\ f # ui.filter
    /\ ReloadAll(f)
    /\ ui' = [Started(ui) EXCEPT !.filter = f]
    /\ SameShell /\ SameServer

SetRange(r) == CanClick("traffic") /\ FilterTo([range |-> r])

\* Seeded fault: a new search keeps the page number.
ApplySearchKeepsPage(q) == CanClick("logs") /\ FilterTo([ui.filter EXCEPT !.query = q])

ApplySearch(q) == CanClick("logs") /\ FilterTo([ui.filter EXCEPT !.query = q, !.page = 1])

SetLevel(l) == CanClick("logs") /\ FilterTo([ui.filter EXCEPT !.level = l, !.page = 1])

\* The pager offers the pages of the loaded answer; it shows the last of them
\* when the page asked for lies beyond, and does not report a click on it.
PagerShows == Min({ui.filter.page, Max({1, ui.main.data.pages})})
SetPage(p) ==
    /\ CanClickRow("logs")
    /\ p \in 1..ui.main.data.pages /\ p # PagerShows
    /\ FilterTo([ui.filter EXCEPT !.page = p])

(***************************************************************************)
(* ClientsPage: drawer, editor, delete, new token.                         *)
(***************************************************************************)
MaxDetail == 2   \* bound: drawer requests and closings of one mount

\* loadDetail up to the await.  `asked' is the client asked for last.
ViewClient(c) ==
    /\ CanClickRow("clients") /\ ui.detailRequest < MaxDetail
    /\ Send("detail", [client |-> c, request |-> ui.detailRequest + 1])
    /\ ui' = [ui EXCEPT !.detailRequest = @ + 1, !.asked = c]
    /\ SameShell /\ SameServer

\* Closing the drawer takes a number of its own, so that an answer still on its
\* way does not open the drawer again.
CloseDetail ==
    /\ authenticated /\ ui.detail # None
    /\ ui' = [ui EXCEPT !.detailRequest = @ + 1, !.asked = None, !.detail = None]
    /\ UNCHANGED clientVars /\ SameShell

\* Seeded fault: the answer is shown whatever was asked since.
ShowDetailAlways(c) == [ui EXCEPT !.detail = c.arg.client]

\* loadDetail after the await.
ShowDetail(c) ==
    IF c.arg.request = ui.detailRequest THEN [ui EXCEPT !.detail = c.arg.client] ELSE ui

OpenEditor(c) ==
    /\ CanClickRow("clients")
    /\ ui' = [ui EXCEPT !.editing = c]
    /\ UNCHANGED clientVars /\ SameShell

CancelEditor ==
    /\ authenticated /\ ui.editing # None
    /\ ui' = [ui EXCEPT !.editing = None]
    /\ UNCHANGED clientVars /\ SameShell

\* The editor stays open, and can be saved again, until the answer is there.
SaveEdit ==
    /\ authenticated /\ ui.editing # None
    /\ Send("saveEdit", None)
    /\ UNCHANGED ui /\ SameShell /\ SameServer

\* remove(): the confirmation covers the page until its onOk has finished.
RemoveRow(p) ==
    /\ p \in {"clients", "tokens"} /\ CanClickRow(p)
    /\ Send("delete", None)
    /\ ui' = [ui EXCEPT !.confirm = TRUE]
    /\ SameShell /\ SameServer

ResetToken ==
    /\ CanClickRow("clients")
    /\ Send("resetToken", None)
    /\ UNCHANGED ui /\ SameShell /\ SameServer

\* The dialog with the new token's text is closed.
CloseSecret ==
    /\ authenticated /\ ui.secret
    /\ ui' = [ui EXCEPT !.secret = FALSE]
    /\ UNCHANGED clientVars /\ SameShell

(***************************************************************************)
(* TokensPage, LogsPage and SettingsPage.                                  *)
(***************************************************************************)
OpenCreate ==
    /\ CanClick("tokens")
    /\ ui' = [ui EXCEPT !.dialog = TRUE]
    /\ UNCHANGED clientVars /\ SameShell

CancelCreate ==
    /\ authenticated /\ ui.dialog
    /\ ui' = [ui EXCEPT !.dialog = FALSE]
    /\ UNCHANGED clientVars /\ SameShell

Create ==
    /\ authenticated /\ ui.dialog
    /\ Send("create", None)
    /\ UNCHANGED ui /\ SameShell /\ SameServer

Disable ==
    /\ CanClickRow("tokens")
    /\ Send("disable", None)
    /\ UNCHANGED ui /\ SameShell /\ SameServer

\* clear(): the confirmation closes when the table was cleared.
ClearLogs ==
    /\ CanClick("logs")
    /\ Send("clear", None)
    /\ ui' = [ui EXCEPT !.confirm = TRUE]
    /\ SameShell /\ SameServer

\* downloadLogs has a request pipeline of its own, with the same 401 handling.
Download ==
    /\ CanClick("logs")
    /\ Send("download", None)
    /\ UNCHANGED ui /\ SameShell /\ SameServer

ChangePassword ==
    /\ CanClickInside("settings")
    /\ Send("password", None)
    /\ UNCHANGED ui /\ SameShell /\ SameServer

SaveSetting ==
    /\ CanClickRow("settings")
    /\ Send("setting", None)
    /\ UNCHANGED ui /\ SameShell /\ SameServer

PageAction ==
    \/ Reload
    \/ \E r \in {"today", "month"} : SetRange(r)
    \/ \E q \in {None, "text"} : ApplySearch(q)
    \/ \E l \in {None, "error"} : SetLevel(l)
    \/ \E p \in 1..2 : SetPage(p)
    \/ \E c \in Clients : ViewClient(c) \/ OpenEditor(c)
    \/ CloseDetail \/ CancelEditor \/ SaveEdit \/ ResetToken \/ CloseSecret
    \/ \E p \in Pages : RemoveRow(p)
    \/ OpenCreate \/ CancelCreate \/ Create \/ Disable
    \/ ClearLogs \/ Download \/ ChangePassword \/ SaveSetting

(***************************************************************************)
(* Answers reach the page.                                                 *)
(***************************************************************************)
\* The other requests, once the answer to calls[i] is taken: older requests of
\* the same kind will now come late.
Others(i) ==
    RemoveAt([j \in DOMAIN calls |->
                 IF j < i /\ calls[i].live /\ calls[j].live /\ calls[j].op = calls[i].op
                 THEN [calls[j] EXCEPT !.late = TRUE] ELSE calls[j]], i)

NoLogin == [loading |-> FALSE, error |-> None]
LoginError(error) == [loading |-> FALSE, error |-> toMessage(error)]

\* The server's answer to a wrong name or password.
WrongPassword == ApiError(401, {"unauthorized"}, {"invalid username"})

\* Seeded fault: the session is removed but the application is not told.
DeliverUnauthorizedSilent(i) ==
    /\ calls[i].ans = Unauthorized
    /\ storage' = clearSession(storage)
    /\ calls' = Others(i)
    /\ login' = IF calls[i].op = "login" THEN LoginError(WrongPassword) ELSE login
    /\ UNCHANGED <<authenticated, active, ui>> /\ SameServer

\* handleUnauthorized: the session is dropped, whichever token was refused, and
\* the login screen replaces the page.  A refused login shows its error.
DeliverUnauthorized(i) ==
    /\ calls[i].ans = Unauthorized
    /\ storage' = clearSession(storage)
    /\ authenticated' = FALSE
    /\ calls' = IF authenticated THEN Orphan(Others(i)) ELSE Others(i)
    /\ login' = IF calls[i].op = "login" THEN LoginError(WrongPassword)
                ELSE IF authenticated THEN NoLogin ELSE login
    /\ ui' = IF authenticated THEN Fresh(active) ELSE ui
    /\ UNCHANGED active /\ SameServer

\* api.login and onSuccess: the session is saved and the active page mounts.
DeliverLogin(i) ==
    /\ calls[i].op = "login"
    /\ \/ /\ calls[i].ans.kind = "ok"
          /\ storage' = saveSession(storage, calls[i].ans.value)
          /\ authenticated' = TRUE
          /\ login' = NoLogin
          /\ ui' = Fresh(active)
          /\ calls' = WithLoads(Others(i), storage', active, FirstFilter(active))
       \/ /\ Fails(calls[i])
          /\ \E error \in {[kind |-> "fetch"], ApiError(500, {"internal server error"}, {})} :
                login' = LoginError(error)
          /\ calls' = Others(i)
          /\ UNCHANGED <<storage, authenticated, ui>>
    /\ UNCHANGED active /\ SameServer

\* The rest of load() in the component that sent the request.  A confirmation
\* that waits for its reload closes with it.
DeliverLoad(i) ==
    LET c == calls[i] IN
    /\ c.live /\ c.op \in MainLoads \cup {"load2"} /\ c.ans # Unauthorized
    /\ calls' = Others(i)
    /\ ui' = IF c.op = "load2" THEN [ui EXCEPT !.second = FinishLoad(@, c)]
             ELSE [ui EXCEPT !.main = FinishLoad(@, c),
                             !.confirm = @ /\ \E j \in DOMAIN calls :
                                     calls[j].live /\ calls[j].op \in {"delete", "clear"}]
    /\ UNCHANGED storage /\ SameShell /\ SameServer

\* A failed detail request is an unhandled rejection: nothing changes.
DeliverDetail(i) ==
    LET c == calls[i] IN
    /\ c.live /\ c.op = "detail" /\ c.ans # Unauthorized
    /\ calls' = Others(i)
    /\ ui' = IF c.ans.kind = "ok" THEN ShowDetail(c) ELSE ui
    /\ UNCHANGED storage /\ SameShell /\ SameServer

\* What the handlers do with the page before they reload.  saveEdit closes the
\* editor that is open now, whichever client it was opened for.
Applied(c) ==
    CASE c.op = "saveEdit"   -> [ui EXCEPT !.editing = None]
      [] c.op = "create"     -> [ui EXCEPT !.secret = TRUE, !.dialog = FALSE]
      [] c.op = "resetToken" -> [ui EXCEPT !.secret = TRUE]
      [] c.op = "clear"      -> [ui EXCEPT !.confirm = FALSE]
      [] OTHER               -> ui

\* Changes the page's table shows.
ShownChanges == {"saveEdit", "delete", "create", "disable", "clear", "setting"}

\* The rest of a handler that changed something.  When it fails the dialogs stay
\* as they are, and a confirmation offers its buttons again.
DeliverChange(i) ==
    LET c == calls[i]
        done == [Applied(c) EXCEPT
                    !.acked = IF c.op \in ShownChanges THEN Max({@, c.ans.value}) ELSE @]
    IN
    /\ c.live /\ c.op \in Mutations \cup {"download"}
    /\ \/ /\ c.ans.kind = "ok" /\ c.op \in Reloading
          /\ ui' = Started(done)
          /\ calls' = WithLoads(Others(i), storage, active, ui.filter)
          /\ storage' = getSession(storage).storage
       \/ /\ c.ans.kind = "ok" /\ c.op \notin Reloading
          /\ ui' = done /\ calls' = Others(i) /\ UNCHANGED storage
       \/ /\ Fails(c)
          /\ ui' = [ui EXCEPT !.confirm = @ /\ c.op \notin {"delete", "clear"}]
          /\ calls' = Others(i) /\ UNCHANGED storage
    /\ SameShell /\ SameServer

\* The page is gone: its handlers run on, and reload once more, but no state is
\* left for them to change.
DeliverDropped(i) ==
    LET c == calls[i] IN
    /\ ~c.live /\ c.op # "login" /\ c.ans # Unauthorized
    /\ IF c.ans.kind = "ok" /\ c.op \in Reloading
       THEN /\ calls' = Append(Others(i), [NewCall("load", None, getSession(storage).token)
                                              EXCEPT !.live = FALSE])
            /\ storage' = getSession(storage).storage
       ELSE calls' = Others(i) /\ UNCHANGED storage
    /\ UNCHANGED ui /\ SameShell /\ SameServer

Deliver(i) ==
    \/ DeliverUnauthorized(i) \/ DeliverLogin(i) \/ DeliverLoad(i)
    \/ DeliverDetail(i) \/ DeliverChange(i) \/ DeliverDropped(i)

(***************************************************************************)
(* The shell: login screen, menu, log-out; the browser; other tabs.        *)
(***************************************************************************)
\* LoginPage.submit; the button is dead while a login is awaited.
Submit ==
    /\ ~authenticated /\ ~login.loading /\ Room(1)
    /\ login' = [loading |-> TRUE, error |-> None]
    /\ calls' = request(calls, storage, "login", None)
    /\ storage' = getSession(storage).storage
    /\ UNCHANGED <<authenticated, active, ui>> /\ SameServer

Logout ==
    /\ CanClick(active)
    /\ storage' = clearSession(storage)
    /\ authenticated' = FALSE
    /\ login' = NoLogin
    /\ calls' = Orphan(calls)
    /\ ui' = Fresh(active)
    /\ UNCHANGED active /\ SameServer

\* setActive: the old page unmounts, the new one mounts and loads.
Navigate(p) ==
    /\ CanClick(active) /\ p # active /\ Room(Len(Loaders(p)))
    /\ active' = p
    /\ ui' = Fresh(p)
    /\ calls' = WithLoads(Orphan(calls), storage, p, FirstFilter(p))
    /\ storage' = getSession(storage).storage
    /\ UNCHANGED <<authenticated, login>> /\ SameServer

\* The tab is opened: authenticated comes from the stored session.
Opened(s) ==
    LET stored == getSession(s).storage IN
    [storage |-> stored, authenticated |-> getSession(s).token # None,
     calls |-> IF getSession(s).token = None THEN <<>>
               ELSE WithLoads(<<>>, stored, "overview", None)]

\* The browser reloads the tab; requests in flight are given up.
Refresh ==
    /\ storage' = Opened(storage).storage
    /\ authenticated' = Opened(storage).authenticated
    /\ calls' = Opened(storage).calls
    /\ active' = "overview" /\ ui' = Fresh("overview")
    /\ login' = NoLogin
    /\ SameServer

\* Another tab of this dashboard logs in, or ends its session.
OtherTab ==
    /\ \/ /\ issued < MaxTokens
          /\ issued' = issued + 1
          /\ storage' = saveSession(storage, issued + 1)
       \/ /\ storage # clearSession(storage)
          /\ storage' = clearSession(storage)
          /\ UNCHANGED issued
    /\ UNCHANGED <<expired, version, logs, calls, authenticated, active, login, ui>>

Init ==
    /\ issued \in {0, 1} /\ expired = 0 /\ version = 0 /\ logs = TRUE
    /\ \E s \in [session : {None, Corrupt, Tokenless} \cup 1..issued, legacy : {None} \cup 1..issued] :
          /\ storage = Opened(s).storage
          /\ authenticated = Opened(s).authenticated
          /\ calls = Opened(s).calls
    /\ active = "overview" /\ ui = Fresh("overview")
    /\ login = NoLogin

ServerStep ==
    /\ \/ \E i \in DOMAIN calls : Answer(i)
       \/ Expire
    /\ UNCHANGED <<authenticated, active, login, ui>>

Next ==
    \/ PageAction
    \/ \E i \in DOMAIN calls : Deliver(i)
    \/ Submit \/ Logout \/ Refresh \/ OtherTab
    \/ \E p \in Pages : Navigate(p)
    \/ ServerStep

\* Fairness: every request ends, with its answer or with a failure (the oldest
\* one stays first until it does).  What people, other tabs, the server and the
\* clock do is not fair.
OldestDelivered == calls # <<>> /\ Deliver(1)

Spec == Init /\ [][Next]_vars /\ WF_vars(OldestDelivered)

(***************************************************************************)
(* Properties                                                              *)
(***************************************************************************)
ViewType ==
    [data : {None} \cup [key : {None} \cup [range : {"today", "month"}]
                                 \cup [query : {None, "text"}, level : {None, "error"}, page : 1..2],
                         ver : 0..MaxVersion, rows : BOOLEAN, pages : 0..2],
     loading : BOOLEAN, error : BOOLEAN, late : BOOLEAN]

\* The types of the session, the shell and the page (useAsync's state included).
TypeOK ==
    /\ storage \in [session : StoredText, legacy : StoredText]
    /\ issued \in 0..MaxTokens /\ expired \in 0..issued
    /\ version \in 0..MaxVersion /\ logs \in BOOLEAN
    /\ Len(calls) <= MaxInFlight + 1
    /\ authenticated \in BOOLEAN /\ active \in Pages
    /\ ui.main \in ViewType /\ ui.second \in ViewType
    /\ ui.detail \in Clients \cup {None} /\ ui.editing \in Clients \cup {None}

\* When the pages are left, by log-out, by a refused request or by a reload of
\* the tab, nothing that is still stored lets a reloaded tab back in:
\* clearSession has to remove the key of older releases too.
LogoutIsFinal == [][authenticated /\ ~authenticated' => getSession(storage').token = None]_vars

\* A step of this tab that loses the stored session also leaves the pages; only
\* another tab can take the session from under them.
PagesNeedSession ==
    [][getSession(storage).token # None /\ getSession(storage').token = None
          => ~authenticated' \/ OtherTab]_vars

\* The client drawer shows the client that was asked for last, and nothing once
\* it was closed, in whatever order the answers arrive (detailRequest).
DrawerShowsAsked == authenticated => ui.detail \in {None, ui.asked}

\* A refused login is answered with the advice about name and password (not the
\* one about an ended session), and no rule of mappedErrorMessage but Certbot's
\* is hidden behind an earlier one.
ErrorAdvice ==
    /\ login.error \in {None, "credentials", "server", "browser text"}
    /\ AdviceReachable

\* The page has the answer to its newest load.
Settled ==
    /\ authenticated /\ ui.main.data # None /\ ~ui.main.late
    /\ \A i \in DOMAIN calls : calls[i].live => calls[i].op \notin MainLoads

\* When no answer overtook a newer one, a table at rest belongs to the filter on
\* the screen: every change of query, level, page or range loads again.
SettledShowsFilter == Settled => ui.main.data.key = ui.filter

\* Under the same condition it contains every change the page itself made and
\* saw confirmed: each handler reloads after its change, not before.
OwnChangesShown == Settled => ui.main.data.ver >= ui.acked

\* While the loads of the log page do not overlap and nobody clears the table,
\* a log table at rest is not empty while the filter has entries: a new search
\* or level starts again at page 1.
LogsNotHidden ==
    Settled /\ active = "logs" /\ logs /\ ~ui.overlap => ui.main.data.rows

\* A spinner is never left on: while the page or the login button spins, the
\* request that will stop it is still on its way.
SpinnerAwaited ==
    /\ authenticated /\ ui.main.loading =>
          \E i \in DOMAIN calls : calls[i].live /\ calls[i].op \in MainLoads
    /\ login.loading => ~authenticated /\ \E i \in DOMAIN calls : calls[i].op = "login"
=============================================================================
