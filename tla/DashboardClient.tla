--------------------------- MODULE DashboardClient ---------------------------
(***************************************************************************)
(* The browser side of the management API as every dashboard page uses it: *)
(* the session kept in localStorage (api/session.ts), the request pipeline *)
(* and the error texts (api/client.ts), and, on the other side of the      *)
(* network, what the server answers.                                       *)
(*                                                                         *)
(* A request is a record in `calls', in the order in which the requests    *)
(* were sent.  It is sent with the token that localStorage holds at that   *)
(* moment, answered by the server, and its answer or its failure is        *)
(* delivered to the code that awaits it, in any order.                     *)
(***************************************************************************)
EXTENDS Naturals, Sequences, FiniteSets, SequencesExt

CONSTANTS None,         \* undefined, null, an absent key
          Corrupt,      \* a stored text that JSON.parse refuses
          Tokenless,    \* a stored object without a token
          Clients,      \* the client rows an administrator can open
          MaxTokens,    \* bound: sessions the server issues
          MaxInFlight,  \* bound: requests in flight when a new one starts
          MaxVersion    \* bound: changes to the server's data

ASSUME ClientConstants ==
    /\ MaxTokens \in Nat \ {0} /\ MaxInFlight \in Nat \ {0} /\ MaxVersion \in Nat
    /\ None \notin Nat \cup Clients /\ {Corrupt, Tokenless} \cap Nat = {}
    /\ Cardinality({None, Corrupt, Tokenless}) = 3

VARIABLES storage,   \* localStorage: [session, legacy], shared with other tabs
          issued,    \* tokens 1..issued were handed out by /api/auth/login
          expired,   \* tokens 1..expired are refused by VerifyJWT (one life time for all)
          version,   \* the server's data, as the number of changes made to it
          logs,      \* the server's log table has entries
          calls      \* the requests in flight, oldest first

clientVars == <<storage, issued, expired, version, logs, calls>>

Tokens == 1..MaxTokens
StoredText == Tokens \cup {None, Corrupt, Tokenless}

(***************************************************************************)
(* api/session.ts                                                          *)
(***************************************************************************)

saveSession(s, token) == [s EXCEPT !.session = token]

\* Seeded fault: the key of the older releases survives.
clearSessionKeepsLegacy(s) == [s EXCEPT !.session = None]

clearSession(s) == [session |-> None, legacy |-> None]

\* The text getSession parses: the current key, else the legacy one.
StoredSession(s) == IF s.session # None THEN s.session ELSE s.legacy

\* getSession returns a token or None, and may move or clear what is stored.
getSession(s) ==
    LET raw == StoredSession(s) IN
    [token   |-> IF raw \in Tokens THEN raw ELSE None,
     storage |-> CASE raw = Corrupt                      -> clearSession(s)
                   [] raw \in Tokens /\ s.session = None -> [session |-> raw, legacy |-> None]
                   [] OTHER                              -> s]

(***************************************************************************)
(* The error texts.  A message is the set of the phrases it contains; a    *)
(* phrase contained in another one comes with it.                          *)
(***************************************************************************)
Message(phrases) ==
    phrases \cup (IF phrases \cap {"base_domain", "subdomain"} # {} THEN {"domain"} ELSE {})

\* A rule: the advice shown when the message has all phrases of one of the sets.
Rule(advice, sets) == [advice |-> advice, sets |-> sets]

mappedErrorRules == <<
    Rule("unauthorized",  {{"unauthorized"}, {"unauthenticated"}}),
    Rule("forbidden",     {{"forbidden"}, {"permission denied"}}),
    Rule("not found",     {{"not found"}}),
    Rule("server",        {{"internal server error"}}),
    Rule("bad request",   {{"bad request"}, {"invalid request"}}),
    Rule("credentials",   {{"invalid credentials"}, {"invalid username"}, {"invalid password"}}),
    Rule("plain listen",  {{"plain_listen", "plain_data_listen", "required"}}),
    Rule("certbot",       {{"certbot", "not found"}}),
    Rule("base domain",   {{"base_domain", "required"}}),
    Rule("subdomain",     {{"could not allocate", "subdomain"}}),
    Rule("label",         {{"fully qualified"}, {"invalid label"}}),
    Rule("domain",        {{"domain", "required"}}),
    Rule("wildcard",      {{"wildcard"}}),
    Rule("email",         {{"email", "required"}}),
    Rule("dns",           {{"dns"}}),
    Rule("port 80",       {{"port 80"}, {"tcp/80"}}),
    Rule("certificate",   {{"certificate"}, {"letsencrypt"}}),
    Rule("boolean",       {{"setting value must be a boolean"}}),
    Rule("expired",       {{"token expired"}, {"expired token"}}),
    Rule("network",       {{"network error"}, {"failed to fetch"}}) >>

\* Seeded fault: a later rule overrides an earlier one.
mappedErrorMessageLast(m) ==
    LET Applies(r) == \E s \in r.sets : s \subseteq m
        hit == SelectLastInSeq(mappedErrorRules, Applies)
    IN IF hit = 0 THEN "" ELSE mappedErrorRules[hit].advice

\* The first rule that applies, or "" (also for an empty message).
mappedErrorMessage(m) ==
    LET Applies(r) == \E s \in r.sets : s \subseteq m
        hit == SelectInSeq(mappedErrorRules, Applies)
    IN IF hit = 0 THEN "" ELSE mappedErrorRules[hit].advice

\* errorMessage: the body's error, then the status line, then a general text;
\* a text that is already Chinese is passed on.
localizedErrorMessage(m, fallback) ==
    IF "chinese" \in m THEN "as sent"
    ELSE IF mappedErrorMessage(m) # "" THEN mappedErrorMessage(m)
    ELSE IF mappedErrorMessage(fallback) # "" THEN mappedErrorMessage(fallback)
    ELSE "general"

\* The body of a response that is not ok: an error, another JSON object, or
\* text that is not JSON (readPayload wraps it as an error).
errorMessage(payload, fallback) ==
    IF payload.hasError THEN localizedErrorMessage(Message(payload.text), fallback)
    ELSE localizedErrorMessage(fallback, {})

\* toMessage: an answer with status 404 has a text of its own; an error that is
\* not an answer of the server (fetch failed) is shown in the browser's words.
toMessage(error) ==
    IF error.kind # "api" THEN "browser text"
    ELSE IF error.status = 404 THEN "not provided"
    ELSE errorMessage(error.payload, error.statusText)

ApiError(status, statusText, body) ==
    [kind |-> "api", status |-> status, statusText |-> statusText,
     payload |-> [hasError |-> body # {}, text |-> body]]

(***************************************************************************)
(* Requests.                                                               *)
(***************************************************************************)
Waiting == [kind |-> "wait"]
Failed == [kind |-> "fail"]
Unauthorized == [kind |-> "unauthorized"]
Ok(value) == [kind |-> "ok", value |-> value]

\* live: the component that awaits the answer is still mounted.
\* late: an answer to a newer request of the same kind came first.
NewCall(op, arg, token) ==
    [op |-> op, arg |-> arg, token |-> token, live |-> TRUE, late |-> FALSE, ans |-> Waiting]

\* request() up to its first await: requestHeaders reads the session now.
request(cs, s, op, arg) == Append(cs, NewCall(op, arg, getSession(s).token))

Room(n) == Len(calls) + n <= MaxInFlight

\* Operations that change the server's data; "change" and "changeOnly" stand for
\* one whose page is gone, with and without a reload after it.
Mutations == {"saveEdit", "delete", "resetToken", "create", "disable", "clear",
              "setting", "password", "change", "changeOnly"}

(***************************************************************************)
(* The server.  Its log table has two pages of entries without a filter    *)
(* and one with a filter, until it is cleared.                             *)
(***************************************************************************)
LogPages(filter) ==
    IF ~logs THEN 0
    ELSE IF filter.query = None /\ filter.level = None THEN 2 ELSE 1

\* What a served request answers, read when the server handles it.
Answered(c) ==
    CASE c.op = "logs" -> [key |-> c.arg, ver |-> version, rows |-> c.arg.page <= LogPages(c.arg),
                           pages |-> LogPages(c.arg)]
      [] c.op \in Mutations -> version'
      [] OTHER -> [key |-> c.arg, ver |-> version, rows |-> TRUE, pages |-> 1]

SetAnswer(i, ans) == calls' = [calls EXCEPT ![i].ans = ans]

\* POST /api/auth/login: a new token, or 401 for a wrong name or password.
AnswerLogin(i) ==
    /\ calls[i].op = "login" /\ calls[i].ans = Waiting
    /\ \/ /\ issued < MaxTokens
          /\ issued' = issued + 1
          /\ SetAnswer(i, Ok(issued + 1))
       \/ SetAnswer(i, Unauthorized) /\ UNCHANGED issued
    /\ UNCHANGED <<storage, expired, version, logs>>

\* requireSession: no token, or one that is not accepted.
AnswerRefused(i) ==
    /\ calls[i].op # "login" /\ calls[i].ans = Waiting
    /\ calls[i].token \in {None} \cup 1..expired
    /\ SetAnswer(i, Unauthorized)
    /\ UNCHANGED <<storage, issued, expired, version, logs>>

\* The handler runs; its answer reaches the browser, or the connection breaks
\* after the change was made.
AnswerServed(i) ==
    LET c == calls[i] IN
    /\ c.op # "login" /\ c.ans = Waiting
    /\ c.token \in Tokens /\ c.token > expired
    /\ IF c.op \in Mutations THEN version < MaxVersion /\ version' = version + 1
                             ELSE UNCHANGED version
    /\ logs' = (logs /\ c.op # "clear")
    /\ \/ SetAnswer(i, Ok(Answered(c)))
       \/ c.op \in Mutations /\ SetAnswer(i, Failed)
    /\ UNCHANGED <<storage, issued, expired>>

Answer(i) == AnswerLogin(i) \/ AnswerRefused(i) \/ AnswerServed(i)

\* fetch rejects, or the answer has an error status: the request never had an
\* effect, or its answer was lost.
Fails(c) == c.ans \in {Waiting, Failed}

\* The oldest session reaches the end of its life time.
Expire ==
    /\ expired < issued
    /\ expired' = expired + 1
    /\ UNCHANGED <<storage, issued, version, logs, calls>>

\* Each rule's own words select that rule's advice: no rule of
\* mappedErrorMessage is hidden behind an earlier one, but for the Certbot rule.
AdviceReachable ==
    \A i \in DOMAIN mappedErrorRules : \A s \in mappedErrorRules[i].sets :
        toMessage(ApiError(400, {}, s)) =
            IF mappedErrorRules[i].advice = "certbot" THEN "not found"
            ELSE mappedErrorRules[i].advice
=============================================================================
