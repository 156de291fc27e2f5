----------------------------- MODULE AuthCache -----------------------------
(***************************************************************************)
(* The credential cache of the relay broker (server/relay/auth_cache.go),  *)
(* the data connections that authenticate through it, and the              *)
(* administrator's changes of one client and its tokens                    *)
(* (server/api/clients.go, server/api/tokens.go).                          *)
(*                                                                         *)
(* A look-up misses, joins or starts a load, reads the store, inserts the  *)
(* answer and finishes the load, each under its own acquisition of the     *)
(* mutex.  An entry may expire at any look-up.  The database statements    *)
(* are atomic.  A visitor is always waiting: the pending map is modelled   *)
(* in Broker.                                                              *)
(***************************************************************************)
EXTENDS Integers, Sequences, FiniteSets

CONSTANTS Conns, Tokens, None,
          FirstToken,     \* the token the client is bound to at first
          DisabledTokens, \* the tokens that are disabled at first
          FreshTokens,    \* the tokens a reset may create
          MaxOps          \* bound: changes the administrator makes

ASSUME AuthAssumption ==
    /\ FirstToken \in Tokens /\ None \notin Tokens
    /\ DisabledTokens \subseteq Tokens /\ FreshTokens \subseteq Tokens
    /\ FirstToken \notin FreshTokens
    /\ MaxOps \in Nat

VARIABLES
    \* the rows of the client and of the tokens
    row, tok,
    \* relayAuthCache
    byDevice, byToken, byTokenID, loading,
    \* the loads whose done channel is closed; a second close panics
    closed, panic,
    \* a data connection: where it is, its transport, the token it presents,
    \* the look-up it is in, and its locals load, client, token, generation
    step, kind, presents, phase, load, found, gen,
    \* clientConnections of this client
    generation, active,
    \* the administrator's handler: the steps left, the token it is about
    todo, about, ops,
    \* history: the tokens whose disabling or deletion was last answered with
    \* an error, half way
    cutShort,
    \* history: a change overlapped an authentication
    overlapped

storeVars == <<row, tok>>
cacheVars == <<byDevice, byToken, byTokenID>>
loadVars == <<loading, closed, panic>>
connVars == <<step, kind, presents, phase, load, found, gen>>
streamVars == <<generation, active>>
adminVars == <<todo, about, ops, cutShort>>
vars == <<row, tok, byDevice, byToken, byTokenID, loading, closed, panic, step,
          kind, presents, phase, load, found, gen, generation, active, todo,
          about, ops, cutShort, overlapped>>

Keys == {<<"device", None>>} \cup {<<k, t>> : k \in {"token", "token-id"}, t \in Tokens}

(* A load, a *relayAuthLoad, is named by the connection that started it    *)
(* and the key it is for: a connection looks each key up once.             *)
Loads == Conns \X Keys

ASSUME LoadAssumption == \A l \in Loads : l # None

Init ==
    /\ row = [token |-> FirstToken, disabled |-> FALSE]
    /\ tok = [t \in Tokens |-> IF t \in FreshTokens THEN "fresh"
                             ELSE IF t \in DisabledTokens THEN "disabled" ELSE "enabled"]
    /\ byDevice = None /\ byToken = {}
    /\ byTokenID = [t \in Tokens |-> "none"]
    /\ loading = [k \in Keys |-> None] /\ closed = {} /\ panic = FALSE
    /\ step = [d \in Conns |-> "new"] /\ kind = [d \in Conns |-> "none"]
    /\ presents = [d \in Conns |-> None] /\ phase = [d \in Conns |-> 1]
    /\ load = [d \in Conns |-> None] /\ found = [d \in Conns |-> None]
    /\ gen = [d \in Conns |-> 0]
    /\ generation = 0 /\ active = {}
    /\ todo = <<>> /\ about = None /\ ops = 0 /\ cutShort = {}
    /\ overlapped = FALSE

Goto(d, s) == step' = [step EXCEPT ![d] = s]

(* The token or client a connection looks up: authenticate(value) over     *)
(* TCP, tokenByID on a QUIC stream.                                        *)
Key(d) == IF phase[d] = 1 THEN <<"device", None>>
          ELSE <<IF kind[d] = "tcp" THEN "token" ELSE "token-id", presents[d]>>

----------------------------------------------------------------------------
(* cachedClient, cachedToken and cachedTokenID.                            *)

Cached(key) ==
    CASE key[1] = "device"   -> byDevice # None /\ ~byDevice.disabled
      [] key[1] = "token"    -> key[2] \in byToken
      [] key[1] = "token-id" -> byTokenID[key[2]] = "enabled"

Forget(key) ==
    /\ byDevice' = IF key[1] = "device" THEN None ELSE byDevice
    /\ byToken' = IF key[1] = "token" THEN byToken \ {key[2]} ELSE byToken
    /\ byTokenID' = IF key[1] = "token-id" THEN [byTokenID EXCEPT ![key[2]] = "none"]
                    ELSE byTokenID

Accepts(d, client) == client # None /\ ~client.disabled /\ client.token = presents[d]

(* A look-up returned the client, or the token the connection presents:    *)
(* authenticateDataClient reads the generation last,                       *)
(* claimAuthenticatedPending before the token.                             *)
Answer(d, client) ==
    IF phase[d] = 1
    THEN /\ found' = [found EXCEPT ![d] = client]
         /\ phase' = [phase EXCEPT ![d] = 2]
         /\ Goto(d, IF kind[d] = "tcp" THEN "lookup" ELSE "generation")
    ELSE /\ Goto(d, IF ~Accepts(d, found[d]) THEN "refused"
                    ELSE IF kind[d] = "tcp" THEN "generation" ELSE "claim")
         /\ found' = [found EXCEPT ![d] = None]
         /\ UNCHANGED phase

beginHandshake(d, k, t) ==
    /\ step[d] = "new" /\ tok[t] # "fresh"
    /\ kind' = [kind EXCEPT ![d] = k] /\ presents' = [presents EXCEPT ![d] = t]
    /\ Goto(d, "lookup")
    /\ overlapped' = (overlapped \/ todo # <<>>)
    /\ UNCHANGED <<storeVars, cacheVars, loadVars, phase, load, found, gen, streamVars,
                   adminVars>>

CacheHit(d) ==
    /\ step[d] \in {"lookup", "recheck"} /\ Cached(Key(d))
    /\ Answer(d, byDevice)
    /\ load' = [load EXCEPT ![d] = None]
    /\ UNCHANGED <<storeVars, cacheVars, loadVars, kind, presents, gen, streamVars,
                   adminVars, overlapped>>

(* Nothing usable, or the entry expired and is deleted.                    *)
CacheMiss(d) ==
    /\ step[d] \in {"lookup", "recheck"}
    /\ \/ ~Cached(Key(d)) /\ UNCHANGED cacheVars
       \/ Forget(Key(d))
    /\ Goto(d, IF step[d] = "lookup" THEN "begin" ELSE "load")
    /\ UNCHANGED <<storeVars, loadVars, kind, presents, phase, load, found, gen, streamVars,
                   adminVars, overlapped>>

beginLoad(d) ==
    /\ step[d] = "begin"
    /\ LET key == Key(d)
       IN  IF loading[key] = None
           THEN /\ loading' = [loading EXCEPT ![key] = <<d, key>>]
                /\ load' = [load EXCEPT ![d] = <<d, key>>]
                /\ Goto(d, "load")
           ELSE /\ load' = [load EXCEPT ![d] = loading[key]]
                /\ Goto(d, "wait")
                /\ UNCHANGED loading
    /\ UNCHANGED <<storeVars, cacheVars, closed, panic, kind, presents, phase, found, gen,
                   streamVars, adminVars, overlapped>>

(* The context is context.Background: only the load ends the wait.         *)
LoadDone(d) ==
    /\ step[d] = "wait" /\ load[d] \in closed
    /\ Goto(d, "recheck")
    /\ UNCHANGED <<storeVars, cacheVars, loadVars, kind, presents, phase, load, found, gen,
                   streamVars, adminVars, overlapped>>

(* GetClientByDevice, AuthenticateAgent (which refuses a disabled token)   *)
(* and GetToken; the statement may fail.                                   *)
ReadStore(d) ==
    /\ step[d] = "load"
    /\ LET t == presents[d]
           ok == CASE phase[d] = 1                      -> row # None
                   [] phase[d] = 2 /\ kind[d] = "tcp"  -> tok[t] = "enabled"
                   [] phase[d] = 2 /\ kind[d] = "quic" -> tok[t] # "absent"
       IN  \/ Goto(d, "failed") /\ UNCHANGED found
           \/ /\ ok
              /\ Goto(d, IF phase[d] = 2 /\ tok[t] = "disabled" THEN "insertDisabled"
                         ELSE "insert")
              /\ found' = [found EXCEPT ![d] = IF phase[d] = 1 THEN row ELSE @]
    /\ UNCHANGED <<storeVars, cacheVars, loadVars, kind, presents, phase, load, gen,
                   streamVars, adminVars, overlapped>>

InsertEntry(d) ==
    /\ step[d] \in {"insert", "insertDisabled"}
    /\ LET key == Key(d)
       IN  /\ byDevice' = IF key[1] = "device" THEN found[d] ELSE byDevice
           /\ byToken' = IF key[1] = "token" THEN byToken \cup {key[2]} ELSE byToken
           /\ byTokenID' = IF key[1] = "token-id"
                           THEN [byTokenID EXCEPT ![key[2]] =
                                    IF step[d] = "insert" THEN "enabled" ELSE "disabled"]
                           ELSE byTokenID
    /\ Goto(d, IF step[d] = "insert" THEN "finish" ELSE "failed")
    /\ UNCHANGED <<storeVars, loadVars, kind, presents, phase, load, found, gen, streamVars,
                   adminVars, overlapped>>

Finished(d) ==
    /\ IF step[d] = "finish" THEN Answer(d, found[d])
       ELSE Goto(d, "refused") /\ found' = [found EXCEPT ![d] = None] /\ UNCHANGED phase
    /\ load' = [load EXCEPT ![d] = None]

(* close(load.done); channels nobody holds are forgotten.                  *)
CloseLoad(d) ==
    closed' = {l \in closed \cup {load[d]} : \E e \in Conns \ {d} : load[e] = l}

(* Seeded faults: the load is not compared before it is closed; a load     *)
(* that failed is not finished.                                            *)
finishAnyLoad(d) ==
    /\ step[d] \in {"finish", "failed"}
    /\ loading' = [loading EXCEPT ![Key(d)] = None]
    /\ CloseLoad(d)
    /\ panic' = (panic \/ load[d] \in closed)
    /\ Finished(d)
    /\ UNCHANGED <<storeVars, cacheVars, kind, presents, gen, streamVars, adminVars,
                   overlapped>>

finishGoodLoad(d) ==
    /\ step[d] \in {"finish", "failed"}
    /\ IF step[d] = "finish" /\ loading[Key(d)] = load[d]
       THEN /\ loading' = [loading EXCEPT ![Key(d)] = None]
            /\ CloseLoad(d)
       ELSE UNCHANGED <<loading, closed>>
    /\ Finished(d)
    /\ UNCHANGED <<storeVars, cacheVars, panic, kind, presents, gen, streamVars,
                   adminVars, overlapped>>

(* The deferred finishLoad; a token that is disabled or gone, and a client *)
(* that is gone, are refused.                                              *)
finishLoad(d) ==
    /\ step[d] \in {"finish", "failed"}
    /\ IF loading[Key(d)] = load[d]
       THEN /\ loading' = [loading EXCEPT ![Key(d)] = None]
            /\ CloseLoad(d)
            /\ panic' = (panic \/ load[d] \in closed)
       ELSE UNCHANGED loadVars
    /\ Finished(d)
    /\ UNCHANGED <<storeVars, cacheVars, kind, presents, gen, streamVars, adminVars,
                   overlapped>>

generationFor(d) ==
    /\ step[d] = "generation"
    /\ gen' = [gen EXCEPT ![d] = generation]
    /\ Goto(d, IF kind[d] = "tcp" THEN "claim" ELSE "lookup")
    /\ UNCHANGED <<storeVars, cacheVars, loadVars, kind, presents, phase, load, found,
                   streamVars, adminVars, overlapped>>

(* clientConnections.register, in relayPending.                            *)
register(d) ==
    /\ step[d] = "claim"
    /\ IF gen[d] = generation THEN active' = active \cup {d} /\ Goto(d, "relaying")
                              ELSE UNCHANGED active /\ Goto(d, "refused")
    /\ gen' = [gen EXCEPT ![d] = 0]
    /\ UNCHANGED <<storeVars, cacheVars, loadVars, kind, presents, phase, load, found,
                   generation, adminVars, overlapped>>

StreamEnds(d) ==
    /\ step[d] = "relaying"
    /\ active' = active \ {d}
    /\ Goto(d, "ended")
    /\ UNCHANGED <<storeVars, cacheVars, loadVars, kind, presents, phase, load, found, gen,
                   generation, adminVars, overlapped>>

----------------------------------------------------------------------------
(* The administrator.                                                      *)

(* What each handler does, in order.  Creating a token enables a fresh     *)
(* one.  deleteClient invalidates by device and by client; the revocation  *)
(* of the device, which stops new control sessions, and the stopping of    *)
(* tunnels do not concern data connections.  Any step that can fail ends   *)
(* the handler (HandlerFails); a handler whose first statement fails       *)
(* changes nothing and is no step here, such as deleteToken's              *)
(* clientsUsingToken.                                                      *)
Program(op) ==
    CASE op = "disableClient" -> <<"setDisabled", "disconnect", "invalidateAll">>
      [] op = "enableClient"  -> <<"setEnabled", "invalidateAll">>
      [] op = "disableToken"  -> <<"disableToken", "findUsers", "disconnectUsers",
                                   "invalidateToken">>
      [] op = "enableToken"   -> <<"enableToken", "invalidateToken">>
      [] op = "resetToken"    -> <<"enableToken", "bindToken", "disconnect", "invalidateAll">>
      [] op = "deleteClient"  -> <<"disconnect", "invalidateAll", "invalidateAll",
                                   "deleteClient">>
      [] op = "deleteToken"   -> <<"disableToken", "disconnectUsers", "deleteToken",
                                   "invalidateToken">>

ClientOperations == {"disableClient", "enableClient", "deleteClient"}
TokenOperations == {"disableToken", "enableToken", "deleteToken"}
Operations == ClientOperations \cup TokenOperations \cup {"resetToken"}

Busy(d) == step[d] \notin {"new", "refused", "relaying", "ended"}

(* Handlers that find no client or no token answer an error.               *)
startOperation(op, t) ==
    /\ todo = <<>> /\ ops < MaxOps
    /\ \/ op \in ClientOperations /\ row # None /\ about' = None
       \/ op \in TokenOperations /\ tok[t] \in {"enabled", "disabled"} /\ about' = t
       \/ op = "resetToken" /\ row # None /\ tok[t] = "fresh" /\ about' = t
    /\ ops' = ops + 1 /\ todo' = Program(op)
    /\ overlapped' = (overlapped \/ \E d \in Conns : Busy(d))
    /\ UNCHANGED <<storeVars, cacheVars, loadVars, connVars, streamVars, cutShort>>

NextStep(s) == todo # <<>> /\ Head(todo) = s /\ todo' = Tail(todo)

WriteStore ==
    /\ \/ NextStep("setDisabled") /\ row' = [row EXCEPT !.disabled = TRUE] /\ UNCHANGED tok
       \/ NextStep("setEnabled") /\ row' = [row EXCEPT !.disabled = FALSE] /\ UNCHANGED tok
       \/ NextStep("bindToken") /\ row' = [row EXCEPT !.token = about] /\ UNCHANGED tok
       \/ NextStep("disableToken") /\ tok' = [tok EXCEPT ![about] = "disabled"] /\ UNCHANGED row
       \/ NextStep("enableToken") /\ tok' = [tok EXCEPT ![about] = "enabled"] /\ UNCHANGED row
       \/ NextStep("deleteClient") /\ row' = None /\ UNCHANGED tok
       \/ /\ NextStep("deleteToken")
          /\ tok' = [tok EXCEPT ![about] = "absent"]
          /\ row' = IF row # None /\ row.token = about THEN None ELSE row
    /\ UNCHANGED <<cacheVars, loadVars, connVars, streamVars, about, ops, cutShort,
                   overlapped>>

(* clientsUsingToken, of disableToken.                                     *)
FindUsers ==
    /\ NextStep("findUsers")
    /\ UNCHANGED <<storeVars, cacheVars, loadVars, connVars, streamVars, about, ops, cutShort,
                   overlapped>>

(* A statement after the first one fails and the handler answers the       *)
(* error: nothing is undone and the rest is not done, the invalidation     *)
(* included.  "deleteToken" and "deleteClient" fail also when a tunnel of  *)
(* the client cannot be found or stopped, "bindToken" also when the        *)
(* certificate pin cannot be added to the new token.                       *)
HandlerFails ==
    /\ todo # <<>>
    /\ Head(todo) \in {"findUsers", "bindToken", "deleteToken", "deleteClient"}
    /\ todo' = <<>>
    /\ cutShort' = IF Head(todo) \in {"findUsers", "deleteToken"}
                   THEN cutShort \cup {about} ELSE cutShort
    /\ UNCHANGED <<storeVars, cacheVars, loadVars, connVars, streamVars, about, ops,
                   overlapped>>

(* Manager.DisconnectClient as far as streams go: Broker.DisconnectClient. *)
disconnect ==
    /\ generation' = generation + 1
    /\ active' = {}
    /\ step' = [d \in Conns |-> IF d \in active THEN "ended" ELSE step[d]]

(* clientsUsingToken: only these handlers bind a client to a token.        *)
Disconnect ==
    /\ \/ NextStep("disconnect") /\ disconnect
       \/ /\ NextStep("disconnectUsers")
          /\ IF row # None /\ row.token = about THEN disconnect
                                                ELSE UNCHANGED <<generation, active, step>>
    /\ UNCHANGED <<storeVars, cacheVars, loadVars, kind, presents, phase, load, found, gen,
                   about, ops, cutShort, overlapped>>

invalidateAll ==
    /\ NextStep("invalidateAll")
    /\ byDevice' = None /\ byToken' = {} /\ byTokenID' = [t \in Tokens |-> "none"]
    /\ UNCHANGED <<storeVars, loadVars, connVars, streamVars, about, ops, cutShort, overlapped>>

(* Seeded fault: only the entry under the token's identifier is dropped.   *)
invalidateTokenID ==
    /\ NextStep("invalidateToken")
    /\ byTokenID' = [byTokenID EXCEPT ![about] = "none"]
    /\ cutShort' = cutShort \ {about}
    /\ UNCHANGED <<storeVars, byDevice, byToken, loadVars, connVars, streamVars, about, ops,
                   overlapped>>

invalidateToken ==
    /\ NextStep("invalidateToken")
    /\ byToken' = byToken \ {about}
    /\ byTokenID' = [byTokenID EXCEPT ![about] = "none"]
    /\ cutShort' = cutShort \ {about}
    /\ UNCHANGED <<storeVars, byDevice, loadVars, connVars, streamVars, about, ops,
                   overlapped>>

----------------------------------------------------------------------------
Authenticate(d) == \/ CacheHit(d) \/ CacheMiss(d) \/ beginLoad(d) \/ LoadDone(d)
                   \/ ReadStore(d) \/ InsertEntry(d) \/ finishLoad(d)
                   \/ generationFor(d) \/ register(d)

Administrate == \/ WriteStore \/ FindUsers \/ HandlerFails \/ Disconnect
                \/ invalidateAll \/ invalidateToken

Next == \/ \E d \in Conns : \/ Authenticate(d) \/ StreamEnds(d)
                            \/ \E k \in {"tcp", "quic"}, t \in Tokens : beginHandshake(d, k, t)
        \/ \E op \in Operations, t \in Tokens : startOperation(op, t)
        \/ Administrate

Spec == Init /\ [][Next]_vars

(* Every goroutine that handles a connection runs and its database         *)
(* statements return; nothing else is needed for a look-up to end.         *)
FairSpec == Spec /\ \A d \in Conns : WF_vars(Authenticate(d))

----------------------------------------------------------------------------
Rows == [token : Tokens, disabled : BOOLEAN]

ASSUME RowAssumption == \A r \in Rows : r # None

(* Every variable keeps its type.                                          *)
TypeOK ==
    /\ row \in Rows \cup {None} /\ tok \in [Tokens -> {"fresh", "enabled", "disabled", "absent"}]
    /\ byDevice \in Rows \cup {None} /\ byToken \subseteq Tokens
    /\ byTokenID \in [Tokens -> {"none", "enabled", "disabled"}]
    /\ loading \in [Keys -> Loads \cup {None}] /\ closed \subseteq Loads /\ panic \in BOOLEAN
    /\ step \in [Conns -> {"new", "lookup", "begin", "wait", "recheck", "load", "insert",
                           "insertDisabled", "failed", "finish", "generation", "claim",
                           "refused", "relaying", "ended"}]
    /\ kind \in [Conns -> {"none", "tcp", "quic"}] /\ presents \in [Conns -> Tokens \cup {None}]
    /\ phase \in [Conns -> {1, 2}] /\ load \in [Conns -> Loads \cup {None}]
    /\ found \in [Conns -> Rows \cup {None}] /\ gen \in [Conns -> Nat]
    /\ generation \in Nat /\ active \subseteq Conns
    /\ about \in Tokens \cup {None} /\ ops \in Nat /\ cutShort \subseteq Tokens
    /\ overlapped \in BOOLEAN

(* What the administrator may take for revoked: everything but a token     *)
(* whose disabling or deletion was answered with an error.                 *)
Trusted(t) == tok[t] = "enabled" \/ t \in cutShort
Admissible(t) == row # None /\ ~row.disabled /\ row.token = t /\ Trusted(t)

(* A done channel is closed once.  Waiters that load for themselves run    *)
(* the deferred finishLoad of a load that is already finished.             *)
DoneClosedOnce == ~panic

(* A load that is registered is in the hands of a connection that will     *)
(* finish it: no look-up waits for a load that nobody performs.            *)
LoadsHaveOwners ==
    \A k \in Keys :
        loading[k] # None =>
            LET d == loading[k][1]
            IN  /\ load[d] = loading[k] /\ Key(d) = k /\ loading[k] \notin closed
                /\ step[d] \in {"load", "insert", "insertDisabled", "failed", "finish"}

(* Revocation is complete when nothing is being authenticated meanwhile:   *)
(* after any series of disabling, enabling, resetting and deleting, no     *)
(* stream of a revoked credential relays, and what is cached would let no  *)
(* revoked credential in.  Any of the handlers may fail half way.  Only    *)
(* tokenHandler.update and delete answer an error between disabling the    *)
(* token and dropping it from the cache: that token, while it is bound to  *)
(* an enabled client, may be used until one of them is repeated with       *)
(* success.  Every other revocation is complete, also after that.          *)
RevocationComplete ==
    todo = <<>> /\ ~overlapped =>
        /\ \A d \in active : Admissible(presents[d])
        /\ \A t \in Tokens :
              /\ byDevice # None /\ ~byDevice.disabled /\ byDevice.token = t
              /\ t \in byToken \/ byTokenID[t] = "enabled"
              => Admissible(t)

Authorized(t) == row # None /\ ~row.disabled /\ row.token = t /\ tok[t] = "enabled"

(* After a change that nothing overlapped, the streams of a revoked        *)
(* credential are gone, whether the handler answered an error or not.      *)
RevocationSurvivesErrors ==
    todo = <<>> /\ ~overlapped => \A d \in active : Authorized(presents[d])

(* After a change the streams of a revoked credential are gone, whatever   *)
(* ran at the same time.                                                   *)
RevokedStreamsEnd == todo = <<>> => \A d \in active : Admissible(presents[d])

(* Every authentication ends: waiting for somebody else's load never       *)
(* blocks a data connection for good.                                      *)
AuthenticationEnds == \A d \in Conns : step[d] = "lookup" ~> ~Busy(d)
=============================================================================
