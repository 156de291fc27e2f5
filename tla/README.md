# nrynet: formal model

TLA+ modules, TLC configurations and TLAPS proofs for nrynet, a reverse tunnel:
agents behind NAT keep a control connection to a server, visitors connect to the
server, and the server asks an agent to open a data connection over which the
visitor is relayed to a local service. An administrator works in a web dashboard,
and a desktop application runs an agent for its user.

## The system and its parts

| Part | Source | State | Operations | Module |
|---|---|---|---|---|
| server control write queue | `server/client/control_write_queue.go` | three lanes, counters, closed flag, writer goroutine | enqueue, enqueueWait, close, next, write, fail | `ControlWriteQueue` |
| control hub | `server/client/hub*.go`, `client_status.go` | current session and queue per client, status column | hello, register/replace, unregister, Disconnect, status writes | `AgentSessions` |
| reconnect clean-up | `server/tunnel/reconnect_cleanup.go`, `manager.go` | epoch and timer per client | schedule, cancel, expire | `AgentSessions` |
| relay broker | `server/relay/broker.go`, `client_connections.go`, `work_connection*.go` | pending visitors, active streams and generation per client, idle pool | RegisterPending, Wait, claim, assign, relay, Fail, disconnect | `Broker` |
| credential cache | `server/relay/auth_cache.go`, `data_auth.go`, `server/api/clients.go`, `tokens.go` | three maps, shared loads | look-up, load, invalidate; disable, enable, reset, delete | `AuthCache` |
| agent control connection | `client/agent/agent.go`, `messages.go`, `heartbeat_state.go`, `control_write_queue.go`, `control_dial.go` | session flags, acknowledgement channel, write queue, backoff | Run, dial with fallback, hello, heartbeat, read loop, close | `AgentControl` |
| dashboard: requests and session | `web/dashboard/src/api` | localStorage, requests in flight | get/save/clear session, request, error texts | `DashboardClient` |
| dashboard: login and pages | `web/dashboard/src/App.tsx`, `hooks/useAsync.ts`, `pages` | mounted page, its loaders, filter, dialogs | log in and out, navigate, load, filter, edit, delete, create, disable, clear, download | `Dashboard` |
| dashboard: tunnels page | `web/dashboard/src/pages/TunnelsPage.tsx`, `server/api/tunnels.go` | table, editor and its form values; tunnel rows | open, type, submit, toggle, delete, reload; create, update, start, stop | `TunnelEditor` |
| dashboard: access and certificates | `web/dashboard/src/settings/TransportSettings.tsx`; the controller and helper as it sees them: `server/app`, `server/certbothelper` | status shown, form draft, switches; settings, certificate request and job | load, poll, toggle, request, save; helper run, monitor, time out | `TransportPanel` |
| desktop window | `desktop/frontend/src/App.tsx`, `HomeView.tsx`, `SettingsView.tsx` | snapshot, view, settings form, polls in flight | connect, disconnect, type, switch section, save, poll | `DesktopApp` |
| desktop service | `desktop/service.go`, `connection_service.go`, `store.go` | configuration, run number, cancel function, state, `desktop.yaml` | Connect, Disconnect, SaveConfig, run callbacks, tray | `DesktopService` |
| tunnel manager | `server/tunnel/manager.go`, `relay_binding.go`, `manager_close.go` | listeners, runtimes, bindings | start, stop, restore, reassign | planned; its answers are in `TunnelEditor` |
| UDP runtime | `server/tunnel/udp_*.go`, `client/agent/udp.go` | sessions by address and by ID, active count | packet in, packet out, reap, close | planned |
| agent open requests | `client/agent/open_requests.go`, `relay.go`, `work_connection.go` | requests being opened, idle workers | open, retry, report failure | planned |
| rendezvous and P2P | `internal/advanced`, `client/advanced` | registrations, nonces, replay window | register, punch, seal, open | planned |
| relay registry and nodes | `internal/advanced/relay_registry.go`, `relay/runtime`, `server/advanced` | nodes, leases, bindings | register, heartbeat, choose, expire | planned |
| listeners and roll-back of the transport controller | `server/app` | listeners, certificates | apply, roll back, renew | planned |
| traffic accounting | `server/tunnel/traffic_recorder.go`, `client/agent/transfer_observer.go` | unflushed deltas | add, flush, stop | planned |
| visitor WebRTC | `client/agent/visitor_*.go`, `server/visitor` | channels, credits | open, send, cancel | planned |
| storage, API, configuration, scripts | `internal/storage`, `server/api`, `internal/config`, `scripts` | database rows | SQL statements, request decoding | steps of the modules above, or not modelled |

How they interact. A hello accepted by the hub registers a session with its own
write queue; its connect and disconnect handlers, in the tunnel manager, cancel
and schedule the clean-up that ends the broker's streams of that agent. A
visitor is registered with the broker, which takes an idle work connection or
has the hub send an open command through the write queue; the agent then dials a
data connection, which authenticates through the cache, claims the visitor and is
relayed. Generations tie a stream to the period between two disconnects. The
administrator changes rows, disconnects and invalidates from other goroutines.
The dashboard reaches all of this through the management API, one `fetch` per
request; the desktop window calls methods of the desktop service, which starts and
cancels runs of the agent and is called back by them.

What is hard here. In the Go programs every one of these steps is a separate
critical section of another goroutine, timers race what they guard, old sessions
tear down while new ones start, and the values checked under one lock are used under
a later one. In the two TypeScript programs every `await` is a place where the user,
a poll, another tab or another answer comes in between: answers overtake each other,
arrive after their page is gone, or never arrive; and a form library keeps values the
code believes to be gone. The hazards are listed, each at its line, in `PROJECT.json`.

What makes each part correct:

- write queue: exactly one truthful answer per waiter, exact accounting, no
  starvation, the writer ends after a close;
- broker: a visitor is relayed on at most one stream, by its own agent; nobody
  who waits is forgotten; sockets do not leak; disconnecting reaches every stream;
- hub and clean-up: queue and status column follow the current session; the
  clean-up spares an agent that is served and comes for one that is gone;
- credential cache: loads are finished once and by their owner; what was revoked
  is neither relayed nor cached;
- agent: sessions do not overlap, the heartbeat flag is exact, a dead server is
  noticed, stopping always works;
- dashboard: what is shown belongs to what was asked for, the administrator's own
  changes are seen, no spinner stays on, who leaves the pages has no session left;
- tunnels page: what is sent is accepted where the page itself validates, and an edit
  changes what was touched and nothing else;
- access and certificates: the panel settles on what the server has, a poll does not
  undo what is being typed, certificate work is not shown as pending for ever;
- desktop: a disconnect is final, one agent works at a time, with the saved
  configuration, and the state shown is that of the current run; polls spare edits.

## Modules

`ControlWriteQueue` — one queue with all its callers. An action is one critical
section of the queue's mutex, one transport write, or one send on a waiter's
channel. The maps of a message (lane, size, waits or not) are constants.
What a caller was told is `call`, its channel is `done`, what the transport got is
`wire`. `close` and `fail` drain under the lock (`Drain`) and answer afterwards from
the messages pending.

`ControlDelivery` — what the queue promises, without lanes or writer: each message
is delivered at most once or refused; an answer is what happened to the message.
`ControlWriteQueue!ImplementsDelivery` maps the queue onto it.

`Broker` — visitors (`Requests`) with the goroutine of `handleRelayedVisitor`, and
data connections (`Conns`), dialled or pooled, with the goroutine that serves them.
A socket that was taken out of a map under the lock and is closed after it is in
`closingData` or `closingVisitor` in between.

`VisitorService` — what the broker promises a visitor, without goroutines, maps,
channels or connections: its fate is decided once, by the first of a claim, the timer,
a failure report and a disconnect; its socket is closed only then or while its stream
runs; its handler is told what was decided. `Broker!ImplementsService` maps the broker
onto it: `Fate` reads off who is responsible for a visitor, and is `"lost"` when nobody
is, a fate no step of `VisitorService` leads to.

`AgentSessions` — the successive control sessions of one agent in the hub, the
status column, the clean-up with its epochs, and `DisconnectClient`. The parts of
`expireReconnectCleanup`, which takes the lock twice and looks at the hub in
between, are separate actions.

`AuthCache` — the data connections of one client in the look-ups of the cache, and
the administrator's handlers as programs of steps (`Program`). An entry may expire
at any look-up; a statement of a look-up may fail, and so may every statement of a
handler after the first (`HandlerFails`): the handler answers the error, undoes nothing
and does not do the rest. `cutShort` is history: the tokens whose disabling or deletion
was answered with an error before the cache was told.

`AgentControl` — `Run` with `runSession`, and for each session the writer goroutine
of its queue, the heartbeat goroutine and the read loop. Server and network are
external: they acknowledge in order, push snapshots, break or fall silent.

`DashboardClient` — what every dashboard page shares: the two keys of localStorage,
`getSession` with its migration and its clearing of a corrupt text, the requests in
flight with the token they were sent with, and the error rules. A message is the set
of phrases the rules look for, so that the order of the rules, which decides between
overlapping ones, is kept without any text. The server side of a request (`ok`,
refused, 401, never arrived) is chosen when it is answered.

`Dashboard` — one browser tab. A handler that awaits a request is two actions: the
click, and the branch of `Deliver` that runs the rest of the handler. One page is
mounted at a time and its state `ui` is new at every mount; a request of a page that
was left stays in flight and runs its handler without a page (`DeliverDropped`).
Other tabs share the storage, and a browser reload starts again from it. `late`,
`overlap`, `asked` and `acked` are history.

`TransportPanel` — the panel has one status, replaced by every answer of the first
load, the poll and the four changes. Behind it are the controller's settings, the
request file, the helper's job, the monitor that loads a finished certificate and the
two time-outs after which the controller reports a failure. `behind` and an answer's
`clean` record whether something happened after the answer that the panel could not
know of, and `typed` what was typed into the auto-subdomain form and neither saved nor
replaced by another setting. The roll-back of settings that cannot be applied is left
out: a refused change has no effect. A helper that cannot read its request reports a
failure without a domain (`HelperRefuses`), which never ends the pending request.

`TunnelEditor` — the editor's form instance outlives its dialog. The form library is
external: values of unmounted fields are kept and win over `initialValues`. The
server's tunnel handlers are sets of outcomes (rows and answer), because a listener may
or may not start. Fields the code treats alike are represented by one of them, and
protocols by one of each of the three kinds it distinguishes.

`PageRequests` — what `TransportPanel` and `TunnelEditor` have in common: the
requests in flight and their bound, and whether the page may be behind the server.

`DesktopService` — one action per critical section of the service's lock, and one for
what a call does after it (`Launch`, `DisconnectCancels`); each call
occupies a slot until its answer is taken. `desktop.yaml` is only read when the
application starts, so its content is not part of the state. A configuration has two fields: `network`
stands for what a connection depends on, `general` for the rest, which the settings
show in another section. `DesktopApp` extends it with the window: the snapshot poll with
its guard against a second request, the status poll, one settings form for all sections
with the fields of one of them registered, and the tray, which calls the service without
the window. A status poll is one step, since its answer is small and the window only
merges it.

`MC…` modules give the constants their values and define symmetry; one `.cfg` per
run. Operators whose comment says *Seeded fault* are variants of the definition
below them with a plausible mistake; the mutants in `PROJECT.json` put them in the
definition's place to show that the properties can fail.

## Runs

| Run | What it shows | Bounds |
|---|---|---|
| `queue` | one truthful answer per waiter, accounting, no starvation; waiters are answered, `ControlDelivery` is implemented | 4 messages, one per lane and kind, limits 2 messages / 4 bytes and budget 1, so full, bypass and budget all happen |
| `broker` | one stream per visitor and from its own agent, nobody forgotten, no leak, generations; `VisitorService` is implemented | 1 visitor, 2 agents, 3 connections (a dialled one, a duplicate and a pooled one, or two workers and a fallback), 1 disconnect; `OneStrayConnection` gives the agent that does not own the visitor one dialled connection, no workers and no disconnect. `VisitorService` is also implemented with 2 visitors of one agent and 1 connection, where a disconnect finds several (758,447 states) |
| `sessions` | the status follows the session, clean-up spares the served, also with the administrator at work | 2 sessions, 1 stream, 2 clean-ups at a time, 1 request |
| `agent` | sessions do not overlap, the heartbeat flag is exact | 2 sessions, 2 heartbeats, 1 worker message, QUIC and fallback, 2 messages under way in each direction |
| `agent_live` | stopping works; a silent server is noticed | 1 session, 3 heartbeats, channel of 2 |
| `auth` | shared loads are finished once and by their owner, every authentication ends, revocation is complete, but for a token whose disabling or deletion was answered with an error | 2 connections, 2 tokens, 1 change, which may fail at any statement; states after a change overlapped an authentication are excluded (see `RevokedStreamsEnd` below). The invariants also hold with 1 connection and 4 changes, where failed changes are repeated and followed by others (1,290,165 states) |
| `dashboard` | details, filters and own changes are shown, no hidden logs, no stuck spinner, the advice fits the error, logging out is final, pages need a session | 7 pages, 2 clients, 1 token, 2 requests in flight, 1 change of the server's data |
| `transport` | the panel and its form tell the truth, what is typed outlives polls and other answers, waiting ends | 2 requests in flight, 2 changes, 2 drafts (off without a name, on with one); it also passes with a third, on without a name, which the server refuses (732,089 states) |
| `editor` | ports are accepted, the table is right, a page's first edit keeps the untouched | 2 tunnels and room for a third, 2 requests in flight, 1 change |
| `editor_reopen` (violation) | a second editor shows the first one's values | as `editor` |
| `desktop` | a disconnect is final, one live run, state of the current run, saved configuration, edits of the open section survive | 2 window calls and the tray at once, 2 values, 3 runs, 3 actions of the user |
| `desktop_draft` (violation) | edits of a section that was left are overwritten | 1 run, 2 actions |

The races found here need two or three parties, which is why these bounds are
chosen: a session and the teardown of the one before it, an owner of a load and a
waiter, a visitor with as many connections as it has ways to be served, two answers that
overtake each other, a save beside a connect and a disconnect. Limits of
queues and channels are small so that they are reached. `MaxTraffic` bounds what the
network of `AgentControl` holds at a time; a full network only delays the sender,
as a slow one does. `MaxInFlight` bounds the requests in flight when a new one starts;
the reloads a handler sends itself come on top. One token is enough for
`LogoutIsFinal`, which compares the stored token with none at all; what a later
session adds is described under Observations.

Deadlock is checked for `queue`, `broker`, `dashboard`, `transport`, `editor` and `desktop`,
where somebody can always go on; in `sessions`, `agent`, `agent_live` and
`auth` the sessions, heartbeats or connections are used up.

Fairness. Weak fairness of a goroutine's steps: Go schedules every runnable
goroutine, control writes have a deadline of ten seconds
(`server/client/control_transport.go`, `client/agent/websocket_control.go`), dials,
pings and timers end, database statements return. `AgentSessions` assumes strong
fairness of the goroutines that take `statusMu`: Go mutexes are starvation free.
`TransportPanel` assumes that an answered request is delivered (the oldest first is
enough), that the poll's interval keeps firing and that polls are not lost for ever
(strong fairness, since another request or a change of page may come first), and that
time passes for the time-outs. It does not assume that the helper runs. `Dashboard`
states that an answered request is delivered; its properties are all safety.
Never assumed: that agents dial, that a server answers, that the network breaks or
recovers, that a healthy stream ends, that a user does anything.

## Findings

Each is a run that TLC refutes, with the line of the repository it contradicts.

1. `editor_reopen`, `EditKeepsUntouched`: the tunnel editor's form is created once
   (`TunnelsPage.tsx:81`); `destroyOnClose` (line 94) removes the fields and not the
   values, and `initialValues` (line 95) do not replace values that are kept. After
   one tunnel's editor was closed, opening another one shows the values of the first and
   OK sends them under the second one's identifier. `docs/requirements.md:23` has
   administrators edit tunnels, and line 56 promises to preserve explicit and existing
   domains. `FirstEditKeepsUntouched`, for the first editor of a page, holds.
2. `desktop_draft`, `EditsSurvive`: `SettingsView.tsx:29` asks `isFieldsTouched()`,
   which looks at the mounted fields only, before it writes a snapshot into the form.
   Edits of a section that was left for another are overwritten by the next poll;
   `docs/requirements.md:62` says the desktop UI saved configuration without losing
   in-progress edits. `SectionEditsSurvive`, for the open section, holds and is proved.

## Formulas outside the runs

The modules keep more formulas than the runs list. These hold on the instance of their
module's run, or on the smaller one given: `LaneOrder`, `HeartbeatFirst`, `WriterExits`
and `BoundedBacklog` of the write queue; `VisitorServed` and `StaleStreamEnds` of
`Broker` (1 agent, 2 connections, 1 disconnect); its `DoneReachesWaiter`,
`PendingIsAlive` and `IdleIsExclusive`; the type invariants; `OneLiveCleanup`, `QueueOfCurrent` and `OfflineShown` of
`AgentSessions` (the last without the administrator); `AckLossNeedsBacklog`,
`BackoffShrinksOnlyAfterSession` and `BrokenSessionEnds` of `AgentControl`. Of these
`DoneReachesWaiter`, `PendingIsAlive`, `IdleIsExclusive`, `OneLiveCleanup`, `QueueOfCurrent`,
`BackoffShrinksOnlyAfterSession` and most type invariants are proved (see below).

Five are refuted, and describe how the code behaves rather than what it promises:

- `PendingSurvivesFlap` (`Broker`): `claimPendingForClient` (`broker.go:253`) removes
  the visitor before the generation is compared, so a connection from before the
  disconnect destroys a visitor that `client_connections.go:114` means to keep.
- `OrphansHaveTimer` (`AgentSessions`): the connect handler of a session that is already
  gone (`hub_transport.go:67`, `manager.go:242`) cancels the clean-up scheduled for it
  by the disconnect handler (`manager.go:234`).
- `AwaitedIsSent` (`AgentControl`): a heartbeat dropped by coalescing
  (`client/agent/control_write_queue.go:69`) is reported as written and may be waited
  for (`messages.go:71`, `:104`) until the timeout ends a healthy session.
- `RevokedStreamsEnd` (`AuthCache`): the generation is read (`data_auth.go:20`) after
  the credentials were checked, so a change in between is compared with nothing,
  although `broker.go:77` speaks of data connections that cannot go on with stale
  credentials.
- `RevocationSurvivesErrors` (`AuthCache`): `tokenHandler.update` disables the token and
  returns when the clients that use it cannot be listed (`tokens.go:69`-`73`): nobody is
  disconnected and the cache is not told. `tokenHandler.delete` returns without telling
  the cache when a tunnel cannot be stopped or the token not be deleted
  (`tokens.go:91`-`98`). Streams, and new data connections until the cached entry
  expires, go on with the disabled token; the administrator sees an error and may repeat
  the request. That is why `RevocationComplete` excepts such a token (`Trusted`) until a
  repeated request succeeds.

## Observations

Behaviours of the models that no line of the repository rules out in so many words, and
which therefore are not stated as properties.

- `AgentSessions`: the clean-up re-checks the epoch but not the hub, so it can act on an
  agent that registered again and whose connect handler has not run; a replacement
  schedules a clean-up that its own connect handler cancels; and `disabled` is read at
  the hello while the session registers later.
- Dashboard: a late 401 of an earlier session's token ends the session that followed it;
  the answer of a saved edit closes whichever editor is then open; clearing the logs from
  a later page leaves an empty table; the text of a network failure is not
  localised; the Certbot rule for a missing program (`client.ts:86`) is shadowed by
  the general "not found". The overview loads its parts with one `Promise.all` and is one
  loader in the model.
- Tunnels page: a running tunnel whose edit is refused stays stopped (`tunnels.go:60`);
  creating a running tunnel that cannot start answers with an error although it exists;
  a failed toggle or submit does not reload; a second click on OK before the answer
  creates a second tunnel.
- Access panel: what is typed into the auto-subdomain form while the saving of an earlier
  text is awaited is replaced by the answer (`TransportSettings.tsx:169`).
- Desktop: what is typed while a save is under way is overwritten by its answer
  (`App.tsx:123`; the "in-progress edits" of `docs/requirements.md:62` can be read to
  include it, as another case of finding 2), and an older snapshot in flight can overwrite a newer configuration;
  `refreshSnapshot` does nothing while a poll is in flight (`App.tsx:47`); a save whose
  `SetAutoStart` fails leaves the new configuration on disk and the old one in memory; a
  failed update ends the loading state of another action (`App.tsx:161`).

## Proofs

`ControlWriteQueueProofs` proves, for every set of messages, sizes and limits, that
the queue's type invariant, its accounting (`QueueAccounting`), single answers
(`AnsweredOnce`) and truthful answers (`TruthfulAnswer`) are invariants. Assumed is
`QueueAssumption` of `ControlWriteQueue`: the constants have their types and the limit
on urgent messages in a row, 32 in the code, is not 0.

The inductive invariant `IInv` adds to these what the single steps rely on:
`LanesInv` (each lane holds messages of its own kind, each once), `FlightInv` (the
writer has a message exactly while it writes or completes it), `OwnerInv` (a message
is in at most one of the lanes, the drained messages and the writer's hands, its
channel is then empty, and what is still queued was not written) and `AnswerInv` (an
answer waiting in a channel is true of `wire`). `AnsweredOnce` alone is not inductive:
the step that answers a message has to know that no other goroutine holds it. Each
action has its lemma; the facts about `Append`, `Tail` and concatenation of
repetition-free sequences are lemmas of their own.

`BrokerProofs` proves the invariants of `broker`, the type invariant,
`DoneReachesWaiter`, `PendingIsAlive` and `IdleIsExclusive` for any number of
agents, visitors, connections and disconnects, from `BrokerAssumption` (the constants
have their types, `None` is nobody). Its `IInv` groups them with what their steps
rely on: `ConnInv` (a claimed request is marked paired), `VisitorInv` (a request that
is being failed was never claimed, one that is not registered was seen by nobody),
`RegistryInv` (what is registered is relaying or just ended) and `Sockets` (what
was answered is closed; a stream that relays is in the registry, or closed, or about
to be). `OneStreamPerVisitor` alone is not inductive: a claim has to know that a
pending request is not yet in anybody's hands, which is pending and paired being
disjoint. There is one lemma per action.

Its theorem `Refinement` shows that the broker implements `VisitorService`. `FateInv`
adds what that needs: a goroutine has an answer exactly when it returned, a visitor is
failed by one goroutine, which finds its channel empty, and it is about to be closed
only because of its stream. `FatesKnown` then says that whoever holds a visitor
determines its fate (the branches of `Fate` exclude each other), `Unnoticed` that most
actions change no fate, and one lemma for each of the others which step of
`VisitorService` it is. `FailPendingClient` decides several visitors at once.

`ControlWriteQueueProofs` also proves `Refinement`: under the mapping of
`ImplementsDelivery` the queue's initial states are initial states of `ControlDelivery`
and each of its actions is a step of it or a stutter. The steps that answer a message
need `IInv`: that a message is answered once and truthfully is exactly what makes them
steps of the abstract service.

`NormalServed` proves `NormalNotStarved`. Its invariant `StarveInv` does the
book-keeping the property leaves out: of k normal messages accepted up to the one that
waits, p are still in the lane, so k - p have left, and the urgent messages that passed
it, the one being written included, are at most `UrgentLimit * (k - p)` plus what was
taken of the current round (`ShareInv`). Taking an urgent message uses one of the
round, which is not used up while a normal one waits; taking a normal one ends the
round and moves the others up a place, which is worth a round. A limit of 0 breaks the
property: a normal message may be accepted while an urgent one is being written.

`AuthCacheProofs` proves `DoneClosedOnce` and `LoadsHaveOwners` for any number of
connections, tokens and changes, from `AuthAssumption` and `LoadAssumption` (a load is
not `None`). The invariant adds that a load is registered under its own key
(`NamedByKey`), that who loads holds its own load or one already finished (`HoldInv`),
and that the starter of a finished load is past looking up its key (`ClosedInv`), so no
second load of that name begins.

A second invariant, `RInv`, carries `RevocationComplete`, which also needs
`RowAssumption` (no row is `None`). It says what the rest of a handler of the
administrator still has to do (`HandlerInv`) and, as long as no change overlapped an
authentication, that handlers and authentications exclude each other, that what a
connection found is the row or was deleted with its token (`KnowsInv`), and that the
cached client, the cached tokens and the streams are true except for what the handler
that is under way is about to forget or close (`DeviceCacheInv`, `TokenCacheInv`,
`StreamInv`). A handler that fails leaves such an exception behind for good, which is
the token in `cutShort`; the handlers that fail later than their invalidation
(`clientHandler.delete`, `resetToken`) leave none. `RevocationComplete` alone says nothing in the middle of a handler, where
rows, caches and streams disagree; the invariant says by how much.

`AgentSessionsProofs` proves `StatusMatchesHub`, `CleanupSparesServed`,
`QueueOfCurrent`, `OneLiveCleanup` and type correctness for any number of sessions,
streams and clean-ups, from `SessionsAssumption`. `StatusMatchesHub` speaks of a quiet
hub only. Its invariant says who will still repair the column while it is wrong:
`OnlineInv` (shown online without a session: somebody is on the way to register or to
write 'offline', and has not passed its check), `OfflineInv` (the converse) and
`MutexInv` (between check and write one holds `statusMu`). `EpochInv` adds that no
clean-up comes from a later epoch.

`AgentControlProofs` proves `HeartbeatFlagTrue`, `SessionsDoNotOverlap`, type
correctness and that `BackoffShrinksOnlyAfterSession` holds of every step, for any
number of sessions, messages and retries and any limits, from `AgentAssumption`. Its
invariant describes a queue by its lanes (`QueuesOK`: kinds, counter and flag), says that
nothing of a session exists before it is dialled (`FreshInv`), ties the workers to the
session that is running (`WorkersInv`) and the observer's calls to the reader that set
`sessionReady` (`ReadyInv`).

`DashboardPagesProofs` proves `PortAccepted`, `TunnelsShown` and that
`FirstEditKeepsUntouched` holds of every step, for any tunnels, ports, domains and
number of requests, from `EditorConstants` and `TunnelsAssumption`: the tunnels there
are at first satisfy `validateTunnel`, and a visitor tunnel among them has no domain,
which the server does not enforce but `normalize` of the page does. `StoreInv` says that
the form, whatever it kept, holds a port the server accepts for its protocol, and
`FirstInv` that until the second opening it holds the tunnel being edited but for what
was touched. For the table, `DataInv` and `ShownInv` say that an answer, or the table,
that is not what the server has is followed by a request that will cure it.

The same module proves `PanelTellsTruth` and `FormTellsTruth` of `TransportPanel`
for any number of requests and changes and any drafts, from `PanelConstants` (`None` is
not a status, a draft or a truth value, the drafts are drafts). The
invariant is about the answers as well as the screen: an answer still to be shown, and
the status shown, either announces certificate work, or is the status the server has
and the server is at rest (`Right`, `AtRest`), or a request behind it will replace it
(`Coming`, `ComingAfter`). `PanelTellsTruth` alone says nothing while a request is in
flight, and a status read before the helper's end may be shown after it. For the form,
`FormInv` adds that the fields are what was typed or else the setting of the status
shown, at every step.

`DashboardProofs` proves `DrawerShowsAsked`, `SettledShowsFilter`, `OwnChangesShown`,
`LogsNotHidden`, `SpinnerAwaited`, `ErrorAdvice` and, of every step, `LogoutIsFinal` and
`PagesNeedSession`, for any client rows and any number of requests, sessions and changes
of the data, from `ClientConstants`. The invariant speaks of the requests in flight:
each load of the table is late, or will show the page's filter and confirmed changes, or
another one was sent after it (`LoadsOK`); so is what the table shows (`ViewOK`); a
request of the drawer has a number no newer than the last, and the last one is for the
client asked for (`DetailOK`); on the log page, while loads did not overlap, there is at
most one and the filter is on a page that exists (`AloneOK`); a login is awaited by one
request, and on the login screen nothing else is live (`LoginOK`). `SettledShowsFilter`
and `OwnChangesShown` alone say nothing while a load is awaited, which is when they are
at stake. `LogoutIsFinal` and `PagesNeedSession` follow from a case split over what a
step may do with the session (`SessionStep`). For `ErrorAdvice` the table of error texts
is read as "the first row that applies" (`FirstRule`), once for the search the code does,
and then row by row with a failure each row is first for (`TableReachable`); the text of
a refused login is followed through the steps that write it (`LoginTexts`).

`DesktopProofs` proves, for any number of calls under way, configuration values, runs
and user actions, that `DesktopApp` is type correct, that `DisconnectIsFinal`,
`OneLiveRun` and `StateOfCurrentRun` are invariants, and that `SectionEditsSurvive` holds
of every step. Assumed are `ServiceConstants`, `NoneIsNoCall` (no call is `None`) and
`AskedAssumption`. The inductive invariant adds `CallInv` (a call that saves or launches
holds a configuration), `LaunchInv` (the cancel function is absent or that of the newest
run, no run is newer than the counter, two calls never launch the same run nor one that
already exists, and a call that launches or disconnects replaces an older run than its own) and `CurrentInv` (the
current run was not cancelled). `OneLiveRun` alone is not inductive: between the unlock
in `startConnection` and the start of the goroutine a run has a number and no goroutine,
and the older one it replaces is still live, as it is between the unlock and the
`cancel()` of `Disconnect`; the launch has to know that its run
does not exist yet, is launched by nobody else, and is not the one it cancels.

`RunUsesSavedConfig` has an invariant of its own on top of that, `ConfigInv`: as long
as saves do not overlap, one call saves (`OneSave`), it holds the configuration it
replaces (`PreviousInv`), and the current run, or the call that launches it, uses the
service's network settings unless a restart is pending.

Only model-checked, because the prover does not reach it: everything under fairness or
with `ENABLED`, that is `WaiterAnswered`, `RunStops`, `SilentServerNoticed`,
`AuthenticationEnds` and `WaitingEnds`. Every invariant and every action property of the
passing runs is also a theorem.

## Not modelled

Bytes copied by a relay, metrics, logs and events; TLS, QUIC, WebRTC and SQLite as
such; panics that `worker_guard.go` recovers; the deletion of a client in
`AgentSessions`; the parts marked *planned* above.

Of the dashboard: the built bundle under `server/dashboard/assets`, type declarations,
markup and style, charts (`TrafficChart`), number and time formats, endpoint and visitor
addresses, the double effects of React's development mode. Of the desktop
application: the generated bindings, `previewData` (development only),
`TunnelDetailView`, `useTrafficHistory`, the updater (its answers are external), log
handling. Of the transport controller: renewal of certificates, a server without
Certbot, settings that fail after they were accepted and are rolled back.

## Plan

1. `AgentOpen`: open requests, retries and work connections of the agent, then
   `OpenPath`, composing agent, hub and broker: a repeated open command never harms
   the stream of the first, a failure report reaches its visitor.
2. `TunnelLifecycle`: start, stop, restore, relay reassignment; at most one listener
   per tunnel, the status column matches it.
3. `UDPSessions`: sessions by address and ID, the active count, reaping and closing.
4. `RelayRegistry` and `RelayNode`: leases, choice, reassignment.
5. `Rendezvous` and `P2PFrames`: pairing of peers, replay window against a reference.
6. `TransportController` with its listeners and roll-back, `CertbotQueue`.
7. `TransferAccounting`, `VisitorStream`.

An abstract specification worth stating: a lease that `RelayRegistry` implements.
