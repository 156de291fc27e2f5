--------------------------- MODULE DashboardProofs ---------------------------
(***************************************************************************)
(* Proofs about the dashboard (DashboardClient and Dashboard): for any     *)
(* client rows, any number of requests in flight, sessions and changes.    *)
(***************************************************************************)
EXTENDS Dashboard, TLAPS

(***************************************************************************)
(* Sequences of requests.                                                  *)
(***************************************************************************)
Elements(s) == {s[i] : i \in DOMAIN s}

IsSeq(s) == s \in Seq(Elements(s))

\* A sequence over some set is one over its own elements.
LEMMA SeqOverElements ==
    ASSUME NEW S, NEW s \in Seq(S)
    PROVE  IsSeq(s)
BY DEF IsSeq, Elements

\* Every element of a sequence has a place between 1 and the length.
LEMMA Places ==
    ASSUME NEW s, IsSeq(s)
    PROVE  Len(s) \in Nat /\ DOMAIN s = 1..Len(s)
BY DEF IsSeq

\* A request that is sent stands behind the others.
LEMMA AppendIs ==
    ASSUME NEW s, IsSeq(s), NEW e
    PROVE  /\ IsSeq(Append(s, e))
           /\ Len(Append(s, e)) = Len(s) + 1
           /\ Append(s, e)[Len(s) + 1] = e
           /\ \A j \in 1..Len(s) : Append(s, e)[j] = s[j]
<1>1. /\ s \in Seq(Elements(s) \cup {e}) /\ e \in Elements(s) \cup {e}
  BY DEF IsSeq
<1>2. Append(s, e) \in Seq(Elements(s) \cup {e})
  BY <1>1
<1>3. IsSeq(Append(s, e))
  BY <1>2, SeqOverElements
<1> QED
  BY <1>1, <1>3

\* The elements of a sequence without one of them.
LEMMA RemoveIs ==
    ASSUME NEW s, IsSeq(s), NEW i \in DOMAIN s
    PROVE  /\ IsSeq(RemoveAt(s, i))
           /\ Len(RemoveAt(s, i)) = Len(s) - 1
           /\ \A j \in 1..(Len(s) - 1) : RemoveAt(s, i)[j] = IF j < i THEN s[j] ELSE s[j + 1]
<1> DEFINE E == Elements(s)
           a == SubSeq(s, 1, i - 1)
           b == SubSeq(s, i + 1, Len(s))
<1>1. s \in Seq(E) /\ Len(s) \in Nat /\ i \in 1..Len(s)
  BY DEF IsSeq
<1>2. /\ a \in Seq(E) /\ Len(a) = i - 1
      /\ \A j \in 1..(i - 1) : a[j] = s[j]
  <2> HIDE DEF E
  <2> QED BY <1>1
<1>3. /\ b \in Seq(E) /\ Len(b) = Len(s) - i
      /\ \A j \in 1..(Len(s) - i) : b[j] = s[i + j]
  <2> HIDE DEF E
  <2> QED BY <1>1
<1> HIDE DEF E, a, b
<1>4. /\ a \o b \in Seq(E) /\ Len(a \o b) = Len(s) - 1
      /\ \A j \in 1..(Len(s) - 1) : (a \o b)[j] = IF j < i THEN s[j] ELSE s[j + 1]
  <2>1. a \o b \in Seq(E) /\ Len(a \o b) = Len(s) - 1
    BY <1>1, <1>2, <1>3
  <2>2. ASSUME NEW j \in 1..(Len(s) - 1)
        PROVE  (a \o b)[j] = IF j < i THEN s[j] ELSE s[j + 1]
    <3>1. CASE j < i
      <4>1. j \in 1..Len(a)
        BY <1>1, <1>2, <3>1
      <4> QED
        BY <1>1, <1>2, <1>3, <3>1, <4>1
    <3>2. CASE ~(j < i)
      <4>1. j - Len(a) \in 1..Len(b) /\ i + (j - Len(a)) = j + 1 /\ j > Len(a)
        BY <1>1, <1>2, <1>3, <3>2
      <4>2. (a \o b)[j] = b[j - Len(a)]
        <5>1. /\ a \in Seq(E) /\ b \in Seq(E)
              /\ j \in (Len(a) + 1)..(Len(a) + Len(b))
          BY <1>1, <1>2, <1>3, <3>2
        <5> QED
          BY <5>1
      <4>3. b[j - Len(a)] = s[i + (j - Len(a))]
        BY <1>3, <4>1
      <4> QED
        BY <4>1, <4>2, <4>3, <3>2
    <3> QED
      BY <3>1, <3>2
  <2> QED
    BY <2>1, <2>2
<1>5. RemoveAt(s, i) = a \o b
  BY DEF RemoveAt, a, b
<1> QED
  BY <1>4, <1>5, SeqOverElements

Function(g, S) == g = [x \in S |-> g[x]]

CallFields == {"op", "arg", "token", "live", "late", "ans"}

\* A load of the mounted page's table.
Main(c) == c.live /\ c.op \in MainLoads
LaterMain(cs, p) == \E k \in DOMAIN cs : k > p /\ Main(cs[k])
MainOp(p) == IF p = "logs" THEN "logs" ELSE "load"

LateOne(c, d) == IF d.live /\ c.live /\ c.op = d.op THEN [c EXCEPT !.late = TRUE] ELSE c

\* The other requests once the answer to one is taken.
LEMMA OthersIs ==
    ASSUME IsSeq(calls), NEW i \in DOMAIN calls
    PROVE  /\ IsSeq(Others(i))
           /\ Len(Others(i)) = Len(calls) - 1
           /\ \A j \in 1..(Len(calls) - 1) :
                 Others(i)[j] = IF j < i THEN LateOne(calls[j], calls[i]) ELSE calls[j + 1]
<1> DEFINE d == calls[i]
           L(j) == IF j < i /\ d.live /\ calls[j].live /\ calls[j].op = d.op
                   THEN [calls[j] EXCEPT !.late = TRUE] ELSE calls[j]
           m == [j \in DOMAIN calls |-> L(j)]
           E == {L(j) : j \in DOMAIN calls}
<1>1. Len(calls) \in Nat /\ DOMAIN calls = 1..Len(calls)
  BY Places
<1>2. \A j \in 1..Len(calls) : L(j) \in E
  BY <1>1
<1>3. Others(i) = RemoveAt(m, i)
  BY DEF Others
<1>4. \A j \in DOMAIN calls : L(j) = IF j < i THEN LateOne(calls[j], calls[i]) ELSE calls[j]
  BY DEF LateOne
<1>5. m = [j \in 1..Len(calls) |-> L(j)]
  BY <1>1
<1> HIDE DEF L, E, m, d
<1>6. m \in Seq(E) /\ Len(m) = Len(calls) /\ DOMAIN m = 1..Len(calls)
      /\ \A j \in 1..Len(calls) : m[j] = L(j)
  BY <1>1, <1>2, <1>5
<1>7. IsSeq(m) /\ i \in DOMAIN m
  BY <1>1, <1>6, SeqOverElements
<1>8. /\ IsSeq(RemoveAt(m, i)) /\ Len(RemoveAt(m, i)) = Len(calls) - 1
      /\ \A j \in 1..(Len(calls) - 1) : RemoveAt(m, i)[j] = IF j < i THEN m[j] ELSE m[j + 1]
  BY <1>6, <1>7, RemoveIs
<1>9. ASSUME NEW j \in 1..(Len(calls) - 1)
      PROVE  RemoveAt(m, i)[j] = IF j < i THEN LateOne(calls[j], calls[i]) ELSE calls[j + 1]
  <2>1. j \in 1..Len(calls) /\ j + 1 \in 1..Len(calls) /\ i \in 1..Len(calls)
    BY <1>1
  <2>2. RemoveAt(m, i)[j] = IF j < i THEN L(j) ELSE L(j + 1)
    BY <1>6, <1>8, <2>1
  <2>3. CASE j < i
    BY <1>1, <1>4, <2>1, <2>2, <2>3
  <2>4. CASE ~(j < i)
    <3>1. ~(j + 1 < i)
      BY <2>1, <2>4
    <3>2. L(j + 1) = calls[j + 1]
      BY <1>1, <1>4, <2>1, <3>1
    <3> QED
      BY <2>2, <2>4, <3>2
  <2> QED
    BY <2>3, <2>4
<1> QED
  BY <1>3, <1>8, <1>9

\* The loads of a page stand behind the other requests: the one of its table, and
\* on the relays page the second.
LEMMA LoadersAre ==
    ASSUME NEW p
    PROVE  /\ Loaders(p) = <<MainOp(p)>> \/ Loaders(p) = <<MainOp(p), "load2">>
           /\ p # "relays" => Loaders(p) = <<MainOp(p)>>
BY DEF Loaders, MainOp

LEMMA WithLoadsIs ==
    ASSUME NEW cs, IsSeq(cs), NEW s, NEW p, NEW f
    PROVE  LET token == getSession(s).token
               all == WithLoads(cs, s, p, f) IN
           /\ IsSeq(all)
           /\ all = Append(cs, NewCall(MainOp(p), f, token))
              \/ all = Append(Append(cs, NewCall(MainOp(p), f, token)), NewCall("load2", f, token))
<1> DEFINE token == getSession(s).token
           a == NewCall(MainOp(p), f, token)
           b == NewCall("load2", f, token)
           E == Elements(cs) \cup {a, b}
<1>1. cs \in Seq(E) /\ a \in E /\ b \in E
  BY DEF IsSeq
<1>2. CASE Loaders(p) = <<MainOp(p)>>
  <2>1. [k \in DOMAIN Loaders(p) |-> NewCall(Loaders(p)[k], f, token)] = <<a>>
    <3>1. DOMAIN Loaders(p) = 1..1 /\ Loaders(p)[1] = MainOp(p)
      BY <1>2
    <3> QED
      BY <3>1
  <2>2. WithLoads(cs, s, p, f) = cs \o <<a>>
    BY <2>1 DEF WithLoads
  <2> HIDE DEF a, b, E
  <2>3. cs \o <<a>> = Append(cs, a) /\ Append(cs, a) \in Seq(E)
    BY <1>1
  <2> QED
    BY <2>2, <2>3, SeqOverElements DEF a
<1>3. CASE Loaders(p) = <<MainOp(p), "load2">>
  <2>1. [k \in DOMAIN Loaders(p) |-> NewCall(Loaders(p)[k], f, token)] = <<a, b>>
    <3>1. DOMAIN Loaders(p) = 1..2 /\ Loaders(p)[1] = MainOp(p) /\ Loaders(p)[2] = "load2"
      BY <1>3
    <3> QED
      BY <3>1
  <2>2. WithLoads(cs, s, p, f) = cs \o <<a, b>>
    BY <2>1 DEF WithLoads
  <2> HIDE DEF a, b, E
  <2>3. cs \o <<a, b>> = Append(Append(cs, a), b) /\ Append(Append(cs, a), b) \in Seq(E)
    BY <1>1
  <2> QED
    BY <2>2, <2>3, SeqOverElements DEF a, b
<1> QED
  BY <1>2, <1>3, LoadersAre

(***************************************************************************)
(* The invariant, over the requests cs, the page u, the page's name p, the *)
(* server's version ver and whether it has log entries, lg.                *)
(***************************************************************************)
\* The pages of the log table under a filter, while it has entries.
Many(filter) == IF filter.query = None /\ filter.level = None THEN 2 ELSE 1

PagesOK(d) == d.pages = Many(d.key) /\ (d.key.page <= Many(d.key) => d.rows)

\* An answer says what the server had when it was given, and that only grows.
AnswerOK(c, ver, lg) ==
    /\ c.op = "login" /\ c.ans.kind = "ok" => c.ans.value \in Tokens
    /\ c.live /\ c.ans.kind = "ok" =>
          /\ c.op \in Mutations => c.ans.value \in 0..ver
          /\ c.op \in MainLoads => c.ans.value.key = c.arg /\ c.ans.value.ver \in 0..ver
          /\ c.op = "logs" /\ lg => PagesOK(c.ans.value)

CallOK(c, ver, lg) == Function(c, CallFields) /\ AnswerOK(c, ver, lg)

CallsOK(cs, ver, lg) == IsSeq(cs) /\ \A i \in DOMAIN cs : CallOK(cs[i], ver, lg)

UiFields == {"main", "second", "filter", "detail", "detailRequest", "asked", "editing",
             "dialog", "secret", "confirm", "acked", "overlap"}
ViewFields == {"data", "loading", "error", "late"}

UiOK(u) == /\ Function(u, UiFields)
           /\ Function(u.main, ViewFields) /\ Function(u.second, ViewFields)

\* A load that nothing has overtaken will show the page's filter and changes, or
\* another one was sent after it.
Current(c, u) == c.arg = u.filter /\ (c.ans.kind = "ok" => c.ans.value.ver >= u.acked)

LoadsOK(cs, u, p) ==
    \A i \in DOMAIN cs :
        Main(cs[i]) => /\ cs[i].op = MainOp(p)
                       /\ cs[i].late \/ Current(cs[i], u) \/ LaterMain(cs, i)

Shown(u) == u.main.data.key = u.filter /\ u.main.data.ver >= u.acked

ViewOK(cs, u) ==
    /\ u.main.data = None \/ u.main.late \/ Shown(u) \/ LaterMain(cs, 0)
    /\ u.main.loading => LaterMain(cs, 0)

\* The drawer: detailRequest is the number of the last request or closing.
DetailOK(cs, u) ==
    /\ u.detailRequest \in Nat /\ u.detail \in {None, u.asked}
    /\ \A i \in DOMAIN cs : cs[i].live /\ cs[i].op = "detail" =>
          /\ cs[i].arg.request \in 0..u.detailRequest
          /\ cs[i].arg.request = u.detailRequest => cs[i].arg.client = u.asked

\* The log page: without overlapping loads the filter stays on a page that exists.
AloneOK(cs, u, lg) ==
    /\ \A i, j \in DOMAIN cs : Main(cs[i]) /\ Main(cs[j]) => i = j
    /\ \A i \in DOMAIN cs : Main(cs[i]) => ~cs[i].late
    /\ LaterMain(cs, 0) => u.main.loading
    /\ ~u.main.late
    /\ lg => u.filter.page \in 1..Many(u.filter)

LogsOK(cs, u, lg) ==
    /\ Function(u.filter, {"query", "level", "page"})
    /\ u.main.data # None /\ lg => PagesOK(u.main.data)
    /\ ~u.overlap => AloneOK(cs, u, lg)

PageOK(cs, u, p, ver, lg) ==
    /\ LoadsOK(cs, u, p) /\ ViewOK(cs, u) /\ DetailOK(cs, u)
    /\ u.acked \in 0..ver
    /\ p = "logs" => LogsOK(cs, u, lg)

\* A login is awaited on the login screen, by one request.
LoginOK(cs, au, awaited) ==
    /\ \A i \in DOMAIN cs : cs[i].op = "login" => awaited
    /\ \A i, j \in DOMAIN cs : cs[i].op = "login" /\ cs[j].op = "login" => i = j
    /\ awaited => ~au /\ \E i \in DOMAIN cs : cs[i].op = "login"
    /\ ~au => \A i \in DOMAIN cs : cs[i].live => cs[i].op = "login"

ServerInv == version \in Nat /\ issued \in 0..MaxTokens
StorageInv == Function(storage, {"session", "legacy"})
CallsInv == CallsOK(calls, version, logs)
UiInv == UiOK(ui)
LoginInv == LoginOK(calls, authenticated, login.loading)
PageInv == authenticated => PageOK(calls, ui, active, version, logs)

IInv == ServerInv /\ StorageInv /\ CallsInv /\ UiInv /\ LoginInv /\ PageInv

(***************************************************************************)
(* How requests and page may change.                                       *)
(***************************************************************************)
\* A new request waits for its answer.
LEMMA NewIs ==
    ASSUME NEW op, NEW arg, NEW token, NEW ver, NEW lg
    PROVE  LET c == NewCall(op, arg, token) IN
           /\ c.op = op /\ c.arg = arg /\ c.live = TRUE /\ c.late = FALSE
           /\ c.ans.kind = "wait" /\ CallOK(c, ver, lg)
<1> DEFINE c == NewCall(op, arg, token)
<1>1. /\ c.op = op /\ c.arg = arg /\ c.live = TRUE /\ c.late = FALSE
      /\ c.ans.kind = "wait" /\ Function(c, CallFields)
  BY DEF NewCall, Waiting, Function, CallFields
<1>2. AnswerOK(c, ver, lg)
  <2> HIDE DEF c
  <2> QED
    BY <1>1 DEF AnswerOK
<1> QED
  BY <1>1, <1>2 DEF CallOK

\* What an appended request changes.
LEMMA AppendFacts ==
    ASSUME NEW cs, IsSeq(cs), NEW c
    PROVE  LET all == Append(cs, c) IN
           /\ IsSeq(all) /\ Len(cs) \in Nat
           /\ DOMAIN cs = 1..Len(cs) /\ DOMAIN all = 1..(Len(cs) + 1)
           /\ all[Len(cs) + 1] = c
           /\ \A j \in DOMAIN cs : all[j] = cs[j]
BY AppendIs, Places

LEMMA AppendCallsOK ==
    ASSUME NEW cs, NEW ver, NEW lg, CallsOK(cs, ver, lg), NEW c, CallOK(c, ver, lg)
    PROVE  CallsOK(Append(cs, c), ver, lg)
<1> DEFINE all == Append(cs, c)
<1>1. IsSeq(cs)
  BY DEF CallsOK
<1>2. /\ IsSeq(all) /\ Len(cs) \in Nat
      /\ DOMAIN cs = 1..Len(cs) /\ DOMAIN all = 1..(Len(cs) + 1)
      /\ all[Len(cs) + 1] = c
      /\ \A j \in DOMAIN cs : all[j] = cs[j]
  BY <1>1, AppendFacts
<1> HIDE DEF all
<1>3. CallsOK(all, ver, lg)
  BY <1>2 DEF CallsOK
<1> QED
  BY <1>3 DEF all

\* A request that is no load of the table leaves what is said of the page true.
LEMMA AppendPageOK ==
    ASSUME NEW cs, IsSeq(cs), NEW u, NEW p, NEW ver, NEW lg, PageOK(cs, u, p, ver, lg),
           NEW c, ~Main(c),
           c.op = "detail" => /\ c.arg.request \in 0..u.detailRequest
                              /\ c.arg.request = u.detailRequest => c.arg.client = u.asked
    PROVE  PageOK(Append(cs, c), u, p, ver, lg)
<1> DEFINE all == Append(cs, c)
<1>1. /\ IsSeq(all) /\ Len(cs) \in Nat
      /\ DOMAIN cs = 1..Len(cs) /\ DOMAIN all = 1..(Len(cs) + 1)
      /\ all[Len(cs) + 1] = c
      /\ \A j \in DOMAIN cs : all[j] = cs[j]
  BY AppendFacts
<1> HIDE DEF all
<1>2. ASSUME NEW j \in DOMAIN all, Main(all[j])
      PROVE  j \in DOMAIN cs /\ all[j] = cs[j]
  BY <1>1, <1>2
<1>3. \A k \in Int : LaterMain(all, k) <=> LaterMain(cs, k)
  BY <1>1, <1>2 DEF LaterMain
<1>4. LoadsOK(all, u, p)
  BY <1>1, <1>2, <1>3 DEF PageOK, LoadsOK
<1>5. ViewOK(all, u)
  BY <1>3 DEF PageOK, ViewOK
<1>6. DetailOK(all, u)
  BY <1>1 DEF PageOK, DetailOK
<1>7. ASSUME p = "logs" PROVE LogsOK(all, u, lg)
  <2>1. LogsOK(cs, u, lg)
    BY <1>7 DEF PageOK
  <2>2. AloneOK(cs, u, lg) => AloneOK(all, u, lg)
    BY <1>2, <1>3 DEF AloneOK
  <2> QED
    BY <2>1, <2>2 DEF LogsOK
<1> QED
  BY <1>4, <1>5, <1>6, <1>7 DEF PageOK, all

\* The page may change in what the invariant does not speak of.
LEMMA SameView ==
    ASSUME NEW cs, NEW u, NEW w, NEW p, NEW ver, NEW lg, PageOK(cs, u, p, ver, lg),
           w.main = u.main, w.filter = u.filter, w.acked = u.acked, w.overlap = u.overlap,
           DetailOK(cs, w)
    PROVE  PageOK(cs, w, p, ver, lg)
<1>1. LoadsOK(cs, w, p)
  BY DEF PageOK, LoadsOK, Current
<1>2. ViewOK(cs, w)
  BY DEF PageOK, ViewOK, Shown
<1>3. p = "logs" => LogsOK(cs, w, lg)
  BY DEF PageOK, LogsOK, AloneOK
<1> QED
  BY <1>1, <1>2, <1>3 DEF PageOK

LEMMA SameDetail ==
    ASSUME NEW cs, NEW u, NEW w, DetailOK(cs, u),
           w.detail = u.detail, w.detailRequest = u.detailRequest, w.asked = u.asked
    PROVE  DetailOK(cs, w)
BY DEF DetailOK

\* The page is left: of its requests none is live.
OrphanOne(c) ==
    [c EXCEPT !.live = FALSE, !.late = FALSE, !.arg = None,
              !.op = CASE @ \in Reloading \ {"clear"}        -> "change"
                       [] @ \in {"resetToken", "password"} -> "changeOnly"
                       [] @ \in {"clear", "changeOnly"}    -> @
                       [] OTHER                            -> "load",
              !.ans = IF @.kind = "ok" THEN Ok(None) ELSE @]

LEMMA OrphanOneIs ==
    ASSUME NEW c, Function(c, CallFields), NEW ver, NEW lg
    PROVE  OrphanOne(c).live = FALSE /\ OrphanOne(c).op # "login" /\ CallOK(OrphanOne(c), ver, lg)
<1> DEFINE o == OrphanOne(c)
           op == CASE c.op \in Reloading \ {"clear"}        -> "change"
                   [] c.op \in {"resetToken", "password"} -> "changeOnly"
                   [] c.op \in {"clear", "changeOnly"}    -> c.op
                   [] OTHER                               -> "load"
<1>1. op \in {"change", "changeOnly", "clear", "load"}
  BY DEF Reloading
<1>2. o = [c EXCEPT !.live = FALSE, !.late = FALSE, !.arg = None, !.op = op,
                    !.ans = IF @.kind = "ok" THEN Ok(None) ELSE @]
  BY DEF OrphanOne
<1> HIDE DEF op, o
<1>3. Function(o, CallFields) /\ o.live = FALSE /\ o.op = op
  BY <1>2 DEF Function, CallFields
<1>4. AnswerOK(o, ver, lg)
  BY <1>1, <1>3 DEF AnswerOK
<1> QED
  BY <1>1, <1>3, <1>4 DEF CallOK, o

LEMMA OrphanIs ==
    ASSUME NEW cs, NEW ver, NEW lg, CallsOK(cs, ver, lg)
    PROVE  /\ CallsOK(Orphan(cs), ver, lg)
           /\ \A i \in DOMAIN Orphan(cs) : ~Orphan(cs)[i].live /\ Orphan(cs)[i].op # "login"
<1> DEFINE o == Orphan(cs)
           E == {OrphanOne(cs[i]) : i \in DOMAIN cs}
<1>1. IsSeq(cs) /\ Len(cs) \in Nat /\ DOMAIN cs = 1..Len(cs)
  BY Places DEF CallsOK
<1>2. o = [i \in 1..Len(cs) |-> OrphanOne(cs[i])]
  BY <1>1 DEF Orphan, OrphanOne
<1>3. \A i \in 1..Len(cs) : OrphanOne(cs[i]) \in E
  BY <1>1
<1>4. \A i \in 1..Len(cs) : Function(cs[i], CallFields)
  BY <1>1 DEF CallsOK, CallOK
<1>5. \A i \in 1..Len(cs) : /\ OrphanOne(cs[i]).live = FALSE /\ OrphanOne(cs[i]).op # "login"
                            /\ CallOK(OrphanOne(cs[i]), ver, lg)
  BY <1>4, OrphanOneIs
<1> DEFINE G(i) == OrphanOne(cs[i])
<1>6. /\ o = [i \in 1..Len(cs) |-> G(i)] /\ \A i \in 1..Len(cs) : G(i) \in E
      /\ \A i \in 1..Len(cs) : G(i).live = FALSE /\ G(i).op # "login" /\ CallOK(G(i), ver, lg)
  BY <1>2, <1>3, <1>5
<1> HIDE DEF o, E, G
<1>7. o \in Seq(E) /\ DOMAIN o = 1..Len(cs) /\ \A i \in 1..Len(cs) : o[i] = G(i)
  BY <1>1, <1>6
<1>8. CallsOK(o, ver, lg)
  BY <1>6, <1>7, SeqOverElements DEF CallsOK
<1> QED
  BY <1>6, <1>7, <1>8 DEF o

\* The loads of the page are sent: the last of the table is current, so that all
\* that is said of older ones holds.
LEMMA LoadAppended ==
    ASSUME NEW cs, IsSeq(cs), NEW u, NEW p, NEW f, NEW token, NEW ver, NEW lg,
           \A i \in DOMAIN cs : Main(cs[i]) => cs[i].op = MainOp(p),
           u.filter = f, u.acked \in 0..ver, DetailOK(cs, u),
           p = "logs" => /\ Function(u.filter, {"query", "level", "page"})
                         /\ u.main.data # None /\ lg => PagesOK(u.main.data)
                         /\ ~u.overlap => /\ \A i \in DOMAIN cs : ~Main(cs[i])
                                          /\ u.main.loading /\ ~u.main.late
                                          /\ lg => u.filter.page \in 1..Many(u.filter)
    PROVE  PageOK(Append(cs, NewCall(MainOp(p), f, token)), u, p, ver, lg)
<1> DEFINE c == NewCall(MainOp(p), f, token)
           all == Append(cs, c)
<1>1. /\ IsSeq(all) /\ Len(cs) \in Nat
      /\ DOMAIN cs = 1..Len(cs) /\ DOMAIN all = 1..(Len(cs) + 1)
      /\ all[Len(cs) + 1] = c
      /\ \A j \in DOMAIN cs : all[j] = cs[j]
  BY AppendFacts
<1>2. c.op = MainOp(p) /\ c.arg = f /\ c.live = TRUE /\ c.late = FALSE /\ c.ans.kind = "wait"
  BY DEF NewCall, Waiting
<1> HIDE DEF c, all
<1>3. Main(c) /\ c.op # "detail" /\ Current(c, u)
  BY <1>2 DEF Main, MainOp, MainLoads, Current
<1>4. \A k \in Int : k < Len(cs) + 1 => LaterMain(all, k)
  BY <1>1, <1>3 DEF LaterMain
<1>5. LoadsOK(all, u, p)
  BY <1>1, <1>2, <1>3, <1>4 DEF LoadsOK
<1>6. ViewOK(all, u)
  BY <1>1, <1>4 DEF ViewOK
<1>7. DetailOK(all, u)
  BY <1>1, <1>3 DEF DetailOK
<1>8. ASSUME p = "logs" PROVE LogsOK(all, u, lg)
  <2>1. ASSUME ~u.overlap PROVE AloneOK(all, u, lg)
    BY <1>1, <1>2, <1>8, <2>1 DEF AloneOK
  <2> QED
    BY <1>8, <2>1 DEF LogsOK
<1>9. PageOK(all, u, p, ver, lg)
  BY <1>5, <1>6, <1>7, <1>8 DEF PageOK
<1> QED
  BY <1>9 DEF all, c

LEMMA WithLoadsPageOK ==
    ASSUME NEW cs, NEW s, NEW u, NEW p, NEW f, NEW ver, NEW lg, CallsOK(cs, ver, lg),
           \A i \in DOMAIN cs : Main(cs[i]) => cs[i].op = MainOp(p),
           u.filter = f, u.acked \in 0..ver, DetailOK(cs, u),
           p = "logs" => /\ Function(u.filter, {"query", "level", "page"})
                         /\ u.main.data # None /\ lg => PagesOK(u.main.data)
                         /\ ~u.overlap => /\ \A i \in DOMAIN cs : ~Main(cs[i])
                                          /\ u.main.loading /\ ~u.main.late
                                          /\ lg => u.filter.page \in 1..Many(u.filter)
    PROVE  /\ CallsOK(WithLoads(cs, s, p, f), ver, lg)
           /\ PageOK(WithLoads(cs, s, p, f), u, p, ver, lg)
<1> DEFINE token == getSession(s).token
           a == NewCall(MainOp(p), f, token)
           b == NewCall("load2", f, token)
           one == Append(cs, a)
<1>1. IsSeq(cs)
  BY DEF CallsOK
<1>2. PageOK(one, u, p, ver, lg)
  BY <1>1, LoadAppended
<1>3. CallsOK(one, ver, lg)
  BY NewIs, AppendCallsOK
<1>4. CallOK(b, ver, lg) /\ b.op = "load2"
  <2>1. b.op = "load2"
    BY DEF NewCall
  <2>2. CallOK(b, ver, lg)
    BY NewIs
  <2> QED
    BY <2>1, <2>2
<1>5. WithLoads(cs, s, p, f) = one \/ WithLoads(cs, s, p, f) = Append(one, b)
  BY <1>1, WithLoadsIs
<1> HIDE DEF one, b
<1>6. ~Main(b) /\ b.op # "detail"
  BY <1>4 DEF Main, MainLoads
<1>7. IsSeq(one)
  BY <1>3 DEF CallsOK
<1>8. PageOK(Append(one, b), u, p, ver, lg)
  BY <1>2, <1>6, <1>7, AppendPageOK
<1>9. CallsOK(Append(one, b), ver, lg)
  BY <1>3, <1>4, AppendCallsOK
<1> QED
  BY <1>2, <1>3, <1>5, <1>8, <1>9

\* No request for a login is among the loads.
LEMMA WithLoadsNoLogin ==
    ASSUME NEW cs, IsSeq(cs), NEW s, NEW p, NEW f,
           \A i \in DOMAIN cs : cs[i].op # "login"
    PROVE  LET all == WithLoads(cs, s, p, f) IN \A i \in DOMAIN all : all[i].op # "login"
<1> DEFINE token == getSession(s).token
           a == NewCall(MainOp(p), f, token)
           b == NewCall("load2", f, token)
           one == Append(cs, a)
           two == Append(one, b)
           all == WithLoads(cs, s, p, f)
<1>1. all = one \/ all = two
  BY WithLoadsIs
<1>2. a.op # "login" /\ b.op # "login"
  BY DEF NewCall, MainOp
<1> HIDE DEF a, b, all
<1>3. IsSeq(one) /\ \A i \in DOMAIN one : one[i].op # "login"
  BY <1>2, AppendFacts
<1> HIDE DEF one
<1>4. \A i \in DOMAIN two : two[i].op # "login"
  BY <1>2, <1>3, AppendFacts
<1> QED
  BY <1>1, <1>3, <1>4 DEF all

\* Marking a request late changes nothing else of it.
LEMMA LateOneIs ==
    ASSUME NEW c, Function(c, CallFields), NEW d
    PROVE  LET e == LateOne(c, d) IN
           /\ Function(e, CallFields)
           /\ e.op = c.op /\ e.arg = c.arg /\ e.live = c.live /\ e.ans = c.ans
           /\ d.live /\ c.live /\ c.op = d.op => e.late = TRUE
           /\ ~(d.live /\ c.live /\ c.op = d.op) => e = c
<1>1. CASE d.live /\ c.live /\ c.op = d.op
  <2>1. LateOne(c, d) = [c EXCEPT !.late = TRUE]
    BY <1>1 DEF LateOne
  <2> QED
    BY <1>1, <2>1 DEF Function, CallFields
<1>2. CASE ~(d.live /\ c.live /\ c.op = d.op)
  <2>1. LateOne(c, d) = c
    BY <1>2 DEF LateOne
  <2> QED
    BY <1>2, <2>1
<1> QED
  BY <1>1, <1>2

\* Where a request stands once calls[i] is gone, and where it stood.
To(k, i) == IF k < i THEN k ELSE k - 1
From(j, i) == IF j < i THEN j ELSE j + 1

LEMMA OthersMap ==
    ASSUME NEW ver, NEW lg, CallsOK(calls, ver, lg), NEW i \in DOMAIN calls
    PROVE  LET o == Others(i) IN
           /\ IsSeq(o) /\ DOMAIN o \subseteq Nat /\ DOMAIN calls \subseteq Nat \ {0}
           /\ \A j \in DOMAIN o : /\ From(j, i) \in DOMAIN calls \ {i} /\ To(From(j, i), i) = j
                                  /\ o[j] = IF j < i THEN LateOne(calls[j], calls[i])
                                            ELSE calls[From(j, i)]
           /\ \A k \in DOMAIN calls \ {i} : To(k, i) \in DOMAIN o /\ From(To(k, i), i) = k
           /\ \A k, l \in DOMAIN calls \ {i} : k < l => To(k, i) < To(l, i)
<1> DEFINE o == Others(i)
<1>1. IsSeq(calls)
  BY DEF CallsOK
<1>2. /\ IsSeq(o) /\ Len(o) = Len(calls) - 1
      /\ \A j \in 1..(Len(calls) - 1) :
            o[j] = IF j < i THEN LateOne(calls[j], calls[i]) ELSE calls[j + 1]
  BY <1>1, OthersIs
<1> HIDE DEF o
<1>3. /\ Len(calls) \in Nat /\ DOMAIN calls = 1..Len(calls) /\ i \in 1..Len(calls)
      /\ DOMAIN o = 1..(Len(calls) - 1)
  BY <1>1, <1>2, Places
<1>4. ASSUME NEW j \in DOMAIN o
      PROVE  /\ From(j, i) \in DOMAIN calls \ {i} /\ To(From(j, i), i) = j
             /\ o[j] = IF j < i THEN LateOne(calls[j], calls[i]) ELSE calls[From(j, i)]
  <2>1. j \in 1..(Len(calls) - 1) /\ j \in Int /\ i \in Int
    BY <1>3
  <2>2. CASE j < i
    <3>1. From(j, i) = j /\ To(j, i) = j /\ j \in DOMAIN calls \ {i}
      BY <1>3, <2>1, <2>2 DEF From, To
    <3> QED
      BY <1>2, <2>1, <2>2, <3>1
  <2>3. CASE ~(j < i)
    <3>1. From(j, i) = j + 1 /\ To(j + 1, i) = j /\ j + 1 \in DOMAIN calls \ {i}
      BY <1>3, <2>1, <2>3 DEF From, To
    <3> QED
      BY <1>2, <2>1, <2>3, <3>1
  <2> QED
    BY <2>2, <2>3
<1>5. ASSUME NEW k \in DOMAIN calls \ {i}
      PROVE  To(k, i) \in DOMAIN o /\ From(To(k, i), i) = k
  BY <1>3 DEF From, To
<1>6. ASSUME NEW k \in DOMAIN calls \ {i}, NEW l \in DOMAIN calls \ {i}, k < l
      PROVE  To(k, i) < To(l, i)
  BY <1>3, <1>6 DEF To
<1>7. IsSeq(o) /\ DOMAIN o \subseteq Nat /\ DOMAIN calls \subseteq Nat \ {0}
  BY <1>2, <1>3
<1> QED
  BY <1>4, <1>5, <1>6, <1>7 DEF o

\* The requests that stay are as they were, but for those that now come late.
LEMMA OthersSame ==
    ASSUME NEW ver, NEW lg, CallsOK(calls, ver, lg), NEW i \in DOMAIN calls
    PROVE  LET o == Others(i) IN
           \A j \in DOMAIN o : LET c == calls[From(j, i)] IN
              /\ CallOK(o[j], ver, lg)
              /\ o[j].op = c.op /\ o[j].arg = c.arg /\ o[j].live = c.live /\ o[j].ans = c.ans
              /\ Main(o[j]) <=> Main(c)
              /\ j < i /\ calls[i].live /\ c.live /\ c.op = calls[i].op => o[j].late = TRUE
              /\ ~(j < i /\ calls[i].live /\ c.live /\ c.op = calls[i].op) => o[j] = c
<1> DEFINE o == Others(i)
<1> SUFFICES ASSUME NEW j \in DOMAIN o
             PROVE  LET c == calls[From(j, i)] IN
                      /\ CallOK(o[j], ver, lg)
                      /\ o[j].op = c.op /\ o[j].arg = c.arg /\ o[j].live = c.live /\ o[j].ans = c.ans
                      /\ Main(o[j]) <=> Main(c)
                      /\ j < i /\ calls[i].live /\ c.live /\ c.op = calls[i].op => o[j].late = TRUE
                      /\ ~(j < i /\ calls[i].live /\ c.live /\ c.op = calls[i].op) => o[j] = c
  OBVIOUS
<1>1. /\ From(j, i) \in DOMAIN calls
      /\ o[j] = IF j < i THEN LateOne(calls[j], calls[i]) ELSE calls[From(j, i)]
  BY OthersMap
<1> HIDE DEF o
<1>2. CASE j < i
  <2> DEFINE c == calls[j]
  <2>1. From(j, i) = j /\ o[j] = LateOne(c, calls[i])
    BY <1>1, <1>2 DEF From
  <2>2. CallOK(c, ver, lg)
    BY <1>1, <2>1 DEF CallsOK
  <2> HIDE DEF c
  <2>3. /\ Function(o[j], CallFields)
        /\ o[j].op = c.op /\ o[j].arg = c.arg /\ o[j].live = c.live /\ o[j].ans = c.ans
        /\ calls[i].live /\ c.live /\ c.op = calls[i].op => o[j].late = TRUE
        /\ ~(calls[i].live /\ c.live /\ c.op = calls[i].op) => o[j] = c
    <3> DEFINE d == calls[i]
    <3>1. Function(c, CallFields) /\ o[j] = LateOne(c, d)
      BY <2>1, <2>2 DEF CallOK
    <3> HIDE DEF d
    <3>2. /\ Function(LateOne(c, d), CallFields)
          /\ LateOne(c, d).op = c.op /\ LateOne(c, d).arg = c.arg
          /\ LateOne(c, d).live = c.live /\ LateOne(c, d).ans = c.ans
          /\ d.live /\ c.live /\ c.op = d.op => LateOne(c, d).late = TRUE
          /\ ~(d.live /\ c.live /\ c.op = d.op) => LateOne(c, d) = c
      BY <3>1, LateOneIs
    <3> QED
      BY <3>1, <3>2 DEF d
  <2>4. CallOK(o[j], ver, lg)
    BY <2>2, <2>3 DEF CallOK, AnswerOK
  <2>5. Main(o[j]) <=> Main(c)
    BY <2>3 DEF Main
  <2> QED
    BY <1>2, <2>1, <2>3, <2>4, <2>5 DEF c
<1>3. CASE ~(j < i)
  <2>1. o[j] = calls[From(j, i)]
    BY <1>1, <1>3
  <2> QED
    BY <1>1, <1>3, <2>1 DEF CallsOK
<1> QED
  BY <1>2, <1>3

LEMMA OthersCallsOK ==
    ASSUME NEW ver, NEW lg, CallsOK(calls, ver, lg), NEW i \in DOMAIN calls
    PROVE  CallsOK(Others(i), ver, lg)
<1>1. IsSeq(Others(i))
  BY OthersMap
<1>2. \A j \in DOMAIN Others(i) : CallOK(Others(i)[j], ver, lg)
  BY OthersSame
<1> QED
  BY <1>1, <1>2 DEF CallsOK

\* A load that stood behind another one still does.
LEMMA OthersLater ==
    ASSUME NEW ver, NEW lg, CallsOK(calls, ver, lg), NEW i \in DOMAIN calls
    PROVE  /\ \A j \in DOMAIN Others(i) :
                 LaterMain(calls, From(j, i)) /\ ~(Main(calls[i]) /\ j < i) => LaterMain(Others(i), j)
           /\ LaterMain(calls, i) => LaterMain(Others(i), 0)
           /\ ~Main(calls[i]) => (LaterMain(calls, 0) <=> LaterMain(Others(i), 0))
<1> DEFINE o == Others(i)
<1>1. /\ IsSeq(o) /\ DOMAIN o \subseteq Nat /\ DOMAIN calls \subseteq Nat \ {0}
      /\ \A j \in DOMAIN o : From(j, i) \in DOMAIN calls \ {i} /\ To(From(j, i), i) = j
      /\ \A k \in DOMAIN calls \ {i} : To(k, i) \in DOMAIN o /\ From(To(k, i), i) = k
      /\ \A k, l \in DOMAIN calls \ {i} : k < l => To(k, i) < To(l, i)
  BY OthersMap
<1>2. \A j \in DOMAIN o : Main(o[j]) <=> Main(calls[From(j, i)])
  BY OthersSame
<1> HIDE DEF o
<1>3. DOMAIN o \subseteq Nat \ {0}
  <2>1. IsSeq(o)
    BY <1>1
  <2> QED
    BY <2>1, Places
<1>4. \A k \in DOMAIN calls \ {i} : Main(calls[k]) => Main(o[To(k, i)])
  BY <1>1, <1>2
<1>5. ASSUME NEW j \in DOMAIN o, LaterMain(calls, From(j, i)), ~(Main(calls[i]) /\ j < i)
      PROVE  LaterMain(o, j)
  <2> PICK l \in DOMAIN calls : l > From(j, i) /\ Main(calls[l])
    BY <1>5 DEF LaterMain
  <2>1. l # i
    BY <1>1, <1>3, <1>5 DEF From
  <2>2. To(From(j, i), i) < To(l, i) /\ To(From(j, i), i) = j
    BY <1>1, <2>1
  <2> QED
    BY <1>1, <1>4, <2>1, <2>2 DEF LaterMain
<1>6. ASSUME NEW q \in Nat, NEW l \in DOMAIN calls \ {i}, Main(calls[l])
      PROVE  LaterMain(o, 0)
  BY <1>1, <1>3, <1>4, <1>6 DEF LaterMain
<1>7. LaterMain(calls, i) => LaterMain(o, 0)
  BY <1>1, <1>6 DEF LaterMain
<1>8. ~Main(calls[i]) /\ LaterMain(calls, 0) => LaterMain(o, 0)
  BY <1>1, <1>6 DEF LaterMain
<1>9. LaterMain(o, 0) => LaterMain(calls, 0)
  BY <1>1, <1>2 DEF LaterMain
<1> QED
  BY <1>5, <1>7, <1>8, <1>9 DEF o

\* An answer that is not that of a load of the table is taken.
LEMMA OthersPageOK ==
    ASSUME NEW ver, NEW lg, CallsOK(calls, ver, lg), NEW i \in DOMAIN calls, ~Main(calls[i]),
           NEW u, NEW p, PageOK(calls, u, p, ver, lg)
    PROVE  PageOK(Others(i), u, p, ver, lg)
<1> DEFINE o == Others(i)
<1>1. /\ \A j \in DOMAIN o : From(j, i) \in DOMAIN calls \ {i} /\ To(From(j, i), i) = j
  BY OthersMap
<1>2. \A j \in DOMAIN o : /\ o[j].op = calls[From(j, i)].op /\ o[j].arg = calls[From(j, i)].arg
                          /\ o[j].live = calls[From(j, i)].live
                          /\ Main(o[j]) <=> Main(calls[From(j, i)])
  BY OthersSame
<1>3. ASSUME NEW j \in DOMAIN o, Main(o[j])
      PROVE  o[j] = calls[From(j, i)]
  <2>1. Main(calls[From(j, i)])
    BY <1>2, <1>3
  <2>2. ~(calls[i].live /\ calls[From(j, i)].op = calls[i].op)
    BY <2>1 DEF Main
  <2> QED
    BY <2>2, OthersSame
<1>4. /\ \A j \in DOMAIN o : LaterMain(calls, From(j, i)) => LaterMain(o, j)
      /\ LaterMain(calls, 0) <=> LaterMain(o, 0)
  BY OthersLater
<1> HIDE DEF o
<1>5. LoadsOK(o, u, p)
  BY <1>1, <1>3, <1>4 DEF PageOK, LoadsOK
<1>6. ViewOK(o, u)
  BY <1>4 DEF PageOK, ViewOK
<1>7. DetailOK(o, u)
  BY <1>1, <1>2 DEF PageOK, DetailOK
<1>8. ASSUME p = "logs" PROVE LogsOK(o, u, lg)
  <2>1. AloneOK(calls, u, lg) => AloneOK(o, u, lg)
    <3> SUFFICES ASSUME AloneOK(calls, u, lg) PROVE AloneOK(o, u, lg)
      OBVIOUS
    <3>1. ASSUME NEW j \in DOMAIN o, NEW k \in DOMAIN o, Main(o[j]), Main(o[k])
          PROVE  j = k
      <4>1. From(j, i) = From(k, i)
        BY <1>1, <1>2, <3>1 DEF AloneOK
      <4> QED
        BY <1>1, <4>1
    <3>2. \A j \in DOMAIN o : Main(o[j]) => ~o[j].late
      BY <1>1, <1>3 DEF AloneOK
    <3> QED
      BY <1>4, <3>1, <3>2 DEF AloneOK
  <2> QED
    BY <1>8, <2>1 DEF PageOK, LogsOK
<1>9. PageOK(o, u, p, ver, lg)
  BY <1>5, <1>6, <1>7, <1>8 DEF PageOK
<1> QED
  BY <1>9 DEF o

\* The answer of a load of the table is shown: older loads are late now, the page
\* shows what a timely answer held, and on the log page it was the only load.
LEMMA LoadTaken ==
    ASSUME NEW ver, NEW lg, CallsOK(calls, ver, lg), NEW i \in DOMAIN calls, Main(calls[i]),
           NEW u, NEW p, PageOK(calls, u, p, ver, lg), NEW w,
           w.main = FinishLoad(u.main, calls[i]),
           w.filter = u.filter, w.acked = u.acked, w.overlap = u.overlap,
           w.detail = u.detail, w.detailRequest = u.detailRequest, w.asked = u.asked
    PROVE  PageOK(Others(i), w, p, ver, lg)
<1> DEFINE o == Others(i)
           c == calls[i]
<1>1. /\ \A j \in DOMAIN o : From(j, i) \in DOMAIN calls \ {i} /\ To(From(j, i), i) = j
  BY OthersMap
<1>2. \A j \in DOMAIN o : /\ o[j].op = calls[From(j, i)].op /\ o[j].arg = calls[From(j, i)].arg
                          /\ o[j].live = calls[From(j, i)].live
                          /\ Main(o[j]) <=> Main(calls[From(j, i)])
  BY OthersSame
<1>3. \A j \in DOMAIN o :
         /\ Main(calls[From(j, i)]) /\ j < i => o[j].late = TRUE
         /\ ~(j < i) => o[j] = calls[From(j, i)]
  <2>1. ASSUME NEW j \in DOMAIN o, Main(calls[From(j, i)]), j < i
        PROVE  o[j].late = TRUE
    <3>1. /\ calls[i].live /\ calls[From(j, i)].live
          /\ calls[From(j, i)].op = calls[i].op
      BY <1>1, <2>1 DEF Main, PageOK, LoadsOK
    <3> QED
      BY <2>1, <3>1, OthersSame
  <2>2. ASSUME NEW j \in DOMAIN o, ~(j < i)
        PROVE  o[j] = calls[From(j, i)]
    BY <2>2, OthersSame
  <2> QED
    BY <2>1, <2>2
<1>4. /\ \A j \in DOMAIN o : LaterMain(calls, From(j, i)) /\ ~(j < i) => LaterMain(o, j)
      /\ LaterMain(calls, i) => LaterMain(o, 0)
  BY OthersLater
<1>5. /\ c.op = MainOp(p) /\ c.op \in MainLoads /\ c.live
      /\ c.late \/ Current(c, u) \/ LaterMain(calls, i)
      /\ c.ans.kind = "ok" => c.ans.value.key = c.arg
      /\ c.ans.kind = "ok" /\ c.op = "logs" /\ lg => PagesOK(c.ans.value)
  BY DEF PageOK, LoadsOK, Main, CallsOK, CallOK, AnswerOK
<1>6. /\ w.main.loading = FALSE /\ w.main.late = c.late
      /\ c.ans.kind = "ok" => w.main.data = c.ans.value
      /\ c.ans.kind # "ok" => w.main.data = None
  BY DEF FinishLoad
<1> HIDE DEF o, c
<1>7. LoadsOK(o, w, p)
  <2> SUFFICES ASSUME NEW j \in DOMAIN o, Main(o[j])
               PROVE  /\ o[j].op = MainOp(p)
                      /\ o[j].late \/ Current(o[j], w) \/ LaterMain(o, j)
    BY DEF LoadsOK
  <2>1. Main(calls[From(j, i)])
    BY <1>2
  <2>2. /\ calls[From(j, i)].op = MainOp(p)
        /\ calls[From(j, i)].late \/ Current(calls[From(j, i)], u) \/ LaterMain(calls, From(j, i))
    BY <1>1, <2>1 DEF PageOK, LoadsOK
  <2>3. CASE j < i
    BY <1>2, <1>3, <2>1, <2>2, <2>3
  <2>4. CASE ~(j < i)
    BY <1>3, <1>4, <2>2, <2>4 DEF Current
  <2> QED
    BY <2>3, <2>4
<1>8. ViewOK(o, w)
  <2>1. CASE c.ans.kind = "ok" /\ ~c.late
    <3>1. CASE Current(c, u)
      BY <1>5, <1>6, <2>1, <3>1 DEF Current, ViewOK, Shown
    <3>2. CASE LaterMain(calls, i)
      BY <1>4, <1>6, <3>2 DEF ViewOK
    <3> QED
      BY <1>5, <2>1, <3>1, <3>2
  <2>2. CASE c.ans.kind # "ok" \/ c.late
    BY <1>6, <2>2 DEF ViewOK
  <2> QED
    BY <2>1, <2>2
<1>9. DetailOK(o, w)
  BY <1>1, <1>2 DEF PageOK, DetailOK
<1>10. ASSUME p = "logs" PROVE LogsOK(o, w, lg)
  <2>1. LogsOK(calls, u, lg)
    BY <1>10 DEF PageOK
  <2>2. w.main.data # None /\ lg => PagesOK(w.main.data)
    BY <1>5, <1>6, <1>10 DEF MainOp
  <2>3. ASSUME ~w.overlap PROVE AloneOK(o, w, lg)
    <3>1. AloneOK(calls, u, lg)
      BY <2>1, <2>3 DEF LogsOK
    <3>2. ASSUME NEW j \in DOMAIN o PROVE ~Main(o[j])
      BY <1>1, <1>2, <3>1 DEF AloneOK
    <3>3. ~w.main.late
      BY <1>6, <3>1 DEF AloneOK, c
    <3>4. ~LaterMain(o, 0)
      BY <3>2 DEF LaterMain
    <3> QED
      BY <3>1, <3>2, <3>3, <3>4 DEF AloneOK
  <2> QED
    BY <2>1, <2>2, <2>3 DEF LogsOK
<1>11. PageOK(o, w, p, ver, lg)
  BY <1>7, <1>8, <1>9, <1>10 DEF PageOK
<1> QED
  BY <1>11 DEF o

\* The server answers: it may have changed meanwhile, and may have lost its logs.
LEMMA AnsweredOK ==
    ASSUME NEW ver \in Nat, NEW lg, CallsOK(calls, ver, lg), NEW i \in DOMAIN calls,
           NEW ans, NEW next \in Nat, next >= ver, NEW lgnext, lgnext => lg,
           AnswerOK([calls[i] EXCEPT !.ans = ans], next, lgnext)
    PROVE  LET cs == [calls EXCEPT ![i].ans = ans] IN
           /\ CallsOK(cs, next, lgnext)
           /\ DOMAIN cs = DOMAIN calls
           /\ \A j \in DOMAIN calls : cs[j].op = calls[j].op /\ cs[j].live = calls[j].live
           /\ \A u, p : PageOK(calls, u, p, ver, lg)
                           /\ (ans.kind = "ok" /\ Main(calls[i]) => ans.value.ver >= u.acked)
                        => PageOK(cs, u, p, next, lgnext)
<1> DEFINE c == [calls[i] EXCEPT !.ans = ans]
           cs == [calls EXCEPT ![i].ans = ans]
<1>1. Function(calls[i], CallFields) /\ IsSeq(calls)
  BY DEF CallsOK, CallOK
<1>2. /\ Function(c, CallFields) /\ c.ans = ans /\ c.op = calls[i].op /\ c.arg = calls[i].arg
      /\ c.live = calls[i].live /\ c.late = calls[i].late
  BY <1>1 DEF Function, CallFields
<1>3. CallOK(c, next, lgnext)
  BY <1>2 DEF CallOK
<1>4. cs = [calls EXCEPT ![i] = c]
  OBVIOUS
<1> HIDE DEF c, cs
<1>5. /\ IsSeq(cs) /\ DOMAIN cs = DOMAIN calls /\ DOMAIN calls \subseteq Int
      /\ \A j \in DOMAIN calls : cs[j] = IF j = i THEN c ELSE calls[j]
  <2>1. calls \in Seq(Elements(calls) \cup {c}) /\ c \in Elements(calls) \cup {c}
    BY <1>1 DEF IsSeq
  <2>2. cs \in Seq(Elements(calls) \cup {c})
    BY <1>4, <2>1
  <2>3. IsSeq(cs)
    BY <2>2, SeqOverElements
  <2>4. /\ DOMAIN cs = DOMAIN calls
        /\ \A j \in DOMAIN calls : cs[j] = IF j = i THEN c ELSE calls[j]
    BY <1>4
  <2>5. DOMAIN calls \subseteq Int
    BY <1>1, Places
  <2> QED
    BY <2>3, <2>4, <2>5
<1>6. \A j \in DOMAIN calls : CallOK(calls[j], next, lgnext)
  <2> SUFFICES ASSUME NEW j \in DOMAIN calls PROVE CallOK(calls[j], next, lgnext)
    OBVIOUS
  <2>1. CallOK(calls[j], ver, lg)
    BY DEF CallsOK
  <2>2. 0..ver \subseteq 0..next
    OBVIOUS
  <2> QED
    BY <2>1, <2>2 DEF CallOK, AnswerOK
<1>7. CallsOK(cs, next, lgnext)
  BY <1>3, <1>5, <1>6 DEF CallsOK
<1>8. \A j \in DOMAIN calls : /\ cs[j].op = calls[j].op /\ cs[j].live = calls[j].live
                              /\ cs[j].arg = calls[j].arg /\ cs[j].late = calls[j].late
                              /\ Main(cs[j]) <=> Main(calls[j])
  BY <1>2, <1>5 DEF Main
<1>9. \A k \in Int : LaterMain(cs, k) <=> LaterMain(calls, k)
  BY <1>5, <1>8 DEF LaterMain
<1>10. ASSUME NEW u, NEW p, PageOK(calls, u, p, ver, lg),
              ans.kind = "ok" /\ Main(calls[i]) => ans.value.ver >= u.acked
       PROVE  PageOK(cs, u, p, next, lgnext)
  <2>1. LoadsOK(cs, u, p)
    <3> SUFFICES ASSUME NEW j \in DOMAIN cs, Main(cs[j])
                 PROVE  /\ cs[j].op = MainOp(p)
                        /\ cs[j].late \/ Current(cs[j], u) \/ LaterMain(cs, j)
      BY DEF LoadsOK
    <3>1. /\ j \in DOMAIN calls /\ j \in Int /\ Main(calls[j]) /\ calls[j].op = MainOp(p)
          /\ calls[j].late \/ Current(calls[j], u) \/ LaterMain(calls, j)
      BY <1>5, <1>8, <1>10 DEF PageOK, LoadsOK
    <3>2. Current(calls[j], u) => Current(cs[j], u)
      <4>1. CASE j = i
        BY <1>2, <1>5, <1>10, <3>1, <4>1 DEF Current
      <4>2. CASE j # i
        BY <1>5, <3>1, <4>2
      <4> QED
        BY <4>1, <4>2
    <3> QED
      BY <1>8, <1>9, <3>1, <3>2
  <2>2. ViewOK(cs, u)
    <3>1. LaterMain(cs, 0) <=> LaterMain(calls, 0)
      BY <1>5, <1>8 DEF LaterMain
    <3> QED
      BY <1>10, <3>1 DEF PageOK, ViewOK
  <2>3. DetailOK(cs, u)
    BY <1>5, <1>8, <1>10 DEF PageOK, DetailOK
  <2>4. u.acked \in 0..next
    BY <1>10 DEF PageOK
  <2>5. ASSUME p = "logs" PROVE LogsOK(cs, u, lgnext)
    <3>1. LogsOK(calls, u, lg)
      BY <1>10, <2>5 DEF PageOK
    <3>2. AloneOK(calls, u, lg) => AloneOK(cs, u, lgnext)
      <4>1. LaterMain(cs, 0) <=> LaterMain(calls, 0)
        BY <1>5, <1>8 DEF LaterMain
      <4>2. \A j \in DOMAIN calls : cs[j].late = calls[j].late /\ (Main(cs[j]) <=> Main(calls[j]))
        BY <1>8
      <4> QED
        BY <1>5, <4>1, <4>2 DEF AloneOK
    <3> QED
      BY <3>1, <3>2 DEF LogsOK
  <2> QED
    BY <2>1, <2>2, <2>3, <2>4, <2>5 DEF PageOK
<1> QED
  BY <1>5, <1>7, <1>8, <1>10 DEF cs

(***************************************************************************)
(* The stored session.                                                     *)
(***************************************************************************)
Stored(s) == Function(s, {"session", "legacy"})

\* getSession may move or clear what is stored, but not change who is logged in.
LEMMA SessionMoved ==
    ASSUME NEW s, Stored(s)
    PROVE  /\ Stored(getSession(s).storage)
           /\ getSession(getSession(s).storage).token = getSession(s).token
<1> DEFINE raw == StoredSession(s)
           t == getSession(s).storage
<1>1. None \notin Tokens /\ Corrupt \notin Tokens
  BY ClientConstants DEF Tokens
<1>2. getSession(s).token = IF raw \in Tokens THEN raw ELSE None
  BY DEF getSession
<1>3. CASE raw = Corrupt
  <2>1. t = [session |-> None, legacy |-> None]
    BY <1>1, <1>3 DEF getSession, clearSession
  <2>2. Stored(t) /\ t.session = None /\ t.legacy = None
    BY <2>1 DEF Stored, Function
  <2> HIDE DEF t
  <2>3. getSession(t).token = None
    BY <1>1, <2>2 DEF getSession, StoredSession
  <2> QED
    BY <1>1, <1>2, <1>3, <2>2, <2>3 DEF t
<1>4. CASE raw \in Tokens /\ s.session = None
  <2>1. t = [session |-> raw, legacy |-> None]
    BY <1>1, <1>4 DEF getSession
  <2>2. Stored(t) /\ t.session = raw
    BY <2>1 DEF Stored, Function
  <2> HIDE DEF t, raw
  <2>3. getSession(t).token = raw
    BY <1>1, <1>4, <2>2 DEF getSession, StoredSession
  <2> QED
    BY <1>2, <1>4, <2>2, <2>3 DEF t
<1>5. CASE raw # Corrupt /\ ~(raw \in Tokens /\ s.session = None)
  <2>1. t = s
    BY <1>5 DEF getSession
  <2> QED
    BY <2>1
<1> QED
  BY <1>3, <1>4, <1>5

LEMMA SessionCleared ==
    ASSUME NEW s
    PROVE  Stored(clearSession(s)) /\ getSession(clearSession(s)).token = None
<1>1. None \notin Tokens
  BY ClientConstants DEF Tokens
<1>2. Stored(clearSession(s)) /\ clearSession(s).session = None /\ clearSession(s).legacy = None
  BY DEF Stored, Function, clearSession
<1> QED
  BY <1>1, <1>2 DEF getSession, StoredSession

LEMMA SessionSaved ==
    ASSUME NEW s, Stored(s), NEW token \in Tokens
    PROVE  Stored(saveSession(s, token)) /\ getSession(saveSession(s, token)).token = token
<1>1. None \notin Tokens
  BY ClientConstants DEF Tokens
<1>2. Stored(saveSession(s, token)) /\ saveSession(s, token).session = token
  BY DEF Stored, Function, saveSession
<1> QED
  BY <1>1, <1>2 DEF getSession, StoredSession

(***************************************************************************)
(* Steps of the mounted page.                                              *)
(***************************************************************************)
LEMMA PageFacts ==
    ASSUME IInv, authenticated
    PROVE  /\ PageOK(calls, ui, active, version, logs)
           /\ ~login.loading /\ \A i \in DOMAIN calls : calls[i].op # "login"
BY DEF IInv, PageInv, LoginInv, LoginOK

LEMMA PageStep ==
    ASSUME IInv, authenticated, SameShell, SameServer, Stored(storage'),
           CallsOK(calls', version, logs), UiOK(ui'),
           \A i \in DOMAIN calls' : calls'[i].op # "login",
           PageOK(calls', ui', active, version, logs)
    PROVE  IInv'
<1>1. ~login.loading
  BY PageFacts
<1>2. ServerInv' /\ StorageInv'
  BY DEF IInv, ServerInv, StorageInv, SameServer, Stored
<1>3. CallsInv' /\ UiInv'
  BY DEF CallsInv, UiInv, SameServer
<1>4. LoginInv'
  BY <1>1 DEF LoginInv, LoginOK, SameShell
<1>5. PageInv'
  BY DEF PageInv, SameShell, SameServer
<1> QED
  BY <1>2, <1>3, <1>4, <1>5 DEF IInv

\* A field of the page the loads do not depend on.
LEMMA MinorField ==
    ASSUME NEW u, UiOK(u), NEW f \in {"detail", "detailRequest", "asked", "editing",
                                      "dialog", "secret", "confirm"}, NEW v
    PROVE  LET w == [u EXCEPT ![f] = v] IN
           UiOK(w) /\ w[f] = v /\ \A g \in UiFields \ {f} : w[g] = u[g]
<1> DEFINE w == [u EXCEPT ![f] = v]
<1>1. f \in UiFields /\ f # "main" /\ f # "second"
  BY DEF UiFields
<1>2. Function(w, UiFields) /\ w[f] = v /\ \A g \in UiFields \ {f} : w[g] = u[g]
  BY <1>1 DEF UiOK, Function
<1>3. w.main = u.main /\ w.second = u.second
  <2>1. "main" \in UiFields \ {f} /\ "second" \in UiFields \ {f}
    BY <1>1 DEF UiFields
  <2> HIDE DEF w
  <2> QED
    BY <1>2, <2>1
<1> HIDE DEF w
<1>4. UiOK(w)
  BY <1>2, <1>3 DEF UiOK
<1> QED
  BY <1>2, <1>4 DEF w

LEMMA MinorPage ==
    ASSUME NEW cs, NEW u, UiOK(u), NEW p, NEW ver, NEW lg, PageOK(cs, u, p, ver, lg),
           NEW f \in {"editing", "dialog", "secret", "confirm"}, NEW v
    PROVE  LET w == [u EXCEPT ![f] = v] IN
           /\ UiOK(w) /\ PageOK(cs, w, p, ver, lg)
           /\ w.detailRequest = u.detailRequest /\ w.asked = u.asked
<1> DEFINE w == [u EXCEPT ![f] = v]
<1>1. UiOK(w) /\ \A g \in UiFields \ {f} : w[g] = u[g]
  BY MinorField
<1> HIDE DEF w
<1>2. /\ w.main = u.main /\ w.filter = u.filter /\ w.acked = u.acked /\ w.overlap = u.overlap
      /\ w.detail = u.detail /\ w.detailRequest = u.detailRequest /\ w.asked = u.asked
  BY <1>1 DEF UiFields
<1>3. DetailOK(cs, w)
  BY <1>2, SameDetail DEF PageOK
<1>4. PageOK(cs, w, p, ver, lg)
  BY <1>2, <1>3, SameView
<1> QED
  BY <1>1, <1>2, <1>4 DEF w

\* A request that is no load is sent, with or without a change of the page.
LEMMA SendKeeps ==
    ASSUME IInv, authenticated, SameShell, SameServer, NEW op, NEW arg, Send(op, arg),
           op \notin MainLoads, op # "login",
           UiOK(ui'), PageOK(calls, ui', active, version, logs),
           op = "detail" => /\ arg.request \in 0..ui'.detailRequest
                            /\ arg.request = ui'.detailRequest => arg.client = ui'.asked
    PROVE  IInv'
<1> DEFINE c == NewCall(op, arg, getSession(storage).token)
<1>1. calls' = Append(calls, c) /\ storage' = getSession(storage).storage
  BY DEF Send, request
<1>2. Stored(storage')
  BY <1>1, SessionMoved DEF IInv, StorageInv, Stored
<1>3. c.op = op /\ c.arg = arg
  BY DEF NewCall
<1>4. CallOK(c, version, logs)
  BY NewIs
<1> HIDE DEF c
<1>5. CallsOK(calls, version, logs) /\ IsSeq(calls)
  BY DEF IInv, CallsInv, CallsOK
<1>6. CallsOK(calls', version, logs)
  BY <1>1, <1>4, <1>5, AppendCallsOK
<1>7. ~Main(c)
  BY <1>3 DEF Main
<1>8. c.op = "detail" => /\ c.arg.request \in 0..ui'.detailRequest
                         /\ c.arg.request = ui'.detailRequest => c.arg.client = ui'.asked
  BY <1>3
<1>9. PageOK(calls', ui', active, version, logs)
  <2> DEFINE w == ui'
  <2>1. PageOK(calls, w, active, version, logs)
    OBVIOUS
  <2>2. c.op = "detail" => /\ c.arg.request \in 0..w.detailRequest
                           /\ c.arg.request = w.detailRequest => c.arg.client = w.asked
    BY <1>8
  <2> HIDE DEF w
  <2>3. PageOK(Append(calls, c), w, active, version, logs)
    BY <1>5, <1>7, <2>1, <2>2, AppendPageOK
  <2> QED
    BY <1>1, <2>3 DEF w
<1>10. \A i \in DOMAIN calls' : calls'[i].op # "login"
  <2>1. \A i \in DOMAIN calls : calls[i].op # "login"
    BY PageFacts
  <2> QED
    BY <1>1, <1>3, <1>5, <2>1, AppendFacts
<1> QED
  BY <1>2, <1>6, <1>9, <1>10, PageStep

\* The page changes and sends nothing.
LEMMA StayKeeps ==
    ASSUME IInv, authenticated, SameShell, UNCHANGED clientVars,
           UiOK(ui'), PageOK(calls, ui', active, version, logs)
    PROVE  IInv'
<1>1. SameServer /\ storage' = storage /\ calls' = calls
  BY DEF clientVars, SameServer
<1>2. Stored(storage') /\ CallsOK(calls', version, logs)
  BY <1>1 DEF IInv, StorageInv, CallsInv, Stored
<1>3. \A i \in DOMAIN calls' : calls'[i].op # "login"
  BY <1>1, PageFacts
<1> QED
  BY <1>1, <1>2, <1>3, PageStep

\* The loads of the mounted page are sent, for the filter f it now shows.  cs are
\* the other requests: all of them, or all but the one whose answer led here.
LEMMA LoadsSent ==
    ASSUME IInv, authenticated, SameShell, SameServer,
           NEW cs, CallsOK(cs, version, logs), NEW u, UiOK(u),
           PageOK(cs, u, active, version, logs),
           \A i \in DOMAIN cs : cs[i].op # "login",
           NEW f, calls' = WithLoads(cs, storage, active, f), Stored(storage'),
           UiOK(ui'), ui'.filter = f, ui'.acked \in 0..version,
           ui'.detail = u.detail, ui'.detailRequest = u.detailRequest, ui'.asked = u.asked,
           ui'.main.loading, ui'.main.data = u.main.data, ui'.main.late = u.main.late,
           active = "logs" =>
               /\ ~ui'.overlap => ~u.overlap /\ \A i \in DOMAIN cs : ~Main(cs[i])
               /\ Function(f, {"query", "level", "page"})
               /\ ~ui'.overlap /\ logs => f.page \in 1..Many(f)
    PROVE  IInv'
<1> DEFINE w == ui'
<1>1. /\ UiOK(w) /\ w.filter = f /\ w.acked \in 0..version
      /\ w.detail = u.detail /\ w.detailRequest = u.detailRequest /\ w.asked = u.asked
      /\ w.main.loading /\ w.main.data = u.main.data /\ w.main.late = u.main.late
      /\ active = "logs" =>
               /\ ~w.overlap => ~u.overlap /\ \A i \in DOMAIN cs : ~Main(cs[i])
               /\ Function(f, {"query", "level", "page"})
               /\ ~w.overlap /\ logs => f.page \in 1..Many(f)
  OBVIOUS
<1> HIDE DEF w
<1>2. DetailOK(cs, w)
  BY <1>1, SameDetail DEF PageOK
<1>3. w.acked \in 0..version /\ \A i \in DOMAIN cs : Main(cs[i]) => cs[i].op = MainOp(active)
  BY <1>1 DEF PageOK, LoadsOK
<1>4. active = "logs" => /\ Function(w.filter, {"query", "level", "page"})
                         /\ w.main.data # None /\ logs => PagesOK(w.main.data)
                         /\ ~w.overlap => /\ \A i \in DOMAIN cs : ~Main(cs[i])
                                          /\ w.main.loading /\ ~w.main.late
                                          /\ logs => w.filter.page \in 1..Many(w.filter)
  BY <1>1 DEF PageOK, LogsOK, AloneOK
<1>5. /\ CallsOK(calls', version, logs) /\ PageOK(calls', w, active, version, logs)
  BY <1>1, <1>2, <1>3, <1>4, WithLoadsPageOK
<1>6. \A i \in DOMAIN calls' : calls'[i].op # "login"
  BY WithLoadsNoLogin DEF CallsOK
<1> QED
  BY <1>5, <1>6, PageStep DEF w

\* load() up to its await.
LEMMA StartLoadIs ==
    ASSUME NEW v, Function(v, ViewFields)
    PROVE  LET n == StartLoad(v) IN
           Function(n, ViewFields) /\ n.loading = TRUE /\ n.data = v.data /\ n.late = v.late
BY DEF StartLoad, Function, ViewFields

LEMMA StartedIs ==
    ASSUME NEW u, UiOK(u)
    PROVE  LET w == Started(u) IN
           /\ UiOK(w)
           /\ w.main = StartLoad(u.main)
           /\ w.overlap <=> active = "logs" /\ (u.overlap \/ \E i \in DOMAIN calls : Main(calls[i]))
           /\ \A g \in UiFields \ {"main", "second", "overlap"} : w[g] = u[g]
<1> DEFINE b == active = "logs" /\ (u.overlap \/ \E i \in DOMAIN calls : calls[i].live /\ calls[i].op \in MainLoads)
           m == StartLoad(u.main)
           n == StartLoad(u.second)
           w == [u EXCEPT !.main = m, !.second = n, !.overlap = b]
<1>1. Started(u) = w
  BY DEF Started
<1>2. Function(m, ViewFields) /\ Function(n, ViewFields)
  BY StartLoadIs DEF UiOK
<1>3. b <=> active = "logs" /\ (u.overlap \/ \E i \in DOMAIN calls : Main(calls[i]))
  BY DEF Main
<1> HIDE DEF b, m, n
<1>4. /\ Function(w, UiFields) /\ w.main = m /\ w.second = n /\ w.overlap = b
      /\ \A g \in UiFields \ {"main", "second", "overlap"} : w[g] = u[g]
  BY DEF UiOK, Function, UiFields
<1> HIDE DEF w
<1>5. UiOK(w)
  BY <1>2, <1>4 DEF UiOK
<1> QED
  BY <1>1, <1>3, <1>4, <1>5 DEF m

\* A reload, or a new filter, of the page.
LEMMA FilteredIs ==
    ASSUME NEW u, UiOK(u), NEW f
    PROVE  LET w == [u EXCEPT !.filter = f] IN
           UiOK(w) /\ w.filter = f /\ \A g \in UiFields \ {"filter"} : w[g] = u[g]
<1> DEFINE w == [u EXCEPT !.filter = f]
<1>1. Function(w, UiFields) /\ w.filter = f /\ \A g \in UiFields \ {"filter"} : w[g] = u[g]
  BY DEF UiOK, Function, UiFields
<1> HIDE DEF w
<1>2. UiOK(w)
  BY <1>1 DEF UiOK, UiFields
<1> QED
  BY <1>1, <1>2 DEF w

LEMMA ReloadingKeeps ==
    ASSUME IInv, authenticated, SameShell, SameServer, NEW f, ReloadAll(f),
           ui' = [Started(ui) EXCEPT !.filter = f],
           active = "logs" =>
               /\ Function(f, {"query", "level", "page"})
               /\ AloneOK(calls, ui, logs) /\ (\A i \in DOMAIN calls : ~Main(calls[i])) /\ logs
                     => f.page \in 1..Many(f)
    PROVE  IInv'
<1>1. UiOK(ui) /\ PageOK(calls, ui, active, version, logs) /\ CallsOK(calls, version, logs)
  BY PageFacts DEF IInv, UiInv, CallsInv
<1>2. calls' = WithLoads(calls, storage, active, f) /\ Stored(storage')
  BY SessionMoved DEF ReloadAll, IInv, StorageInv, Stored
<1> DEFINE v == Started(ui)
<1>3. /\ UiOK(v) /\ v.main = StartLoad(ui.main)
      /\ v.overlap <=> active = "logs" /\ (ui.overlap \/ \E i \in DOMAIN calls : Main(calls[i]))
      /\ \A g \in UiFields \ {"main", "second", "overlap"} : v[g] = ui[g]
  BY <1>1, StartedIs
<1> HIDE DEF v
<1> DEFINE w == [v EXCEPT !.filter = f]
<1>4. UiOK(w) /\ w.filter = f /\ \A g \in UiFields \ {"filter"} : w[g] = v[g]
  BY <1>3, FilteredIs
<1>5. ui' = w
  BY DEF v
<1> HIDE DEF w
<1>6. /\ w.acked = ui.acked /\ w.detail = ui.detail /\ w.detailRequest = ui.detailRequest
      /\ w.asked = ui.asked /\ w.main = StartLoad(ui.main)
      /\ w.overlap = v.overlap
  BY <1>3, <1>4 DEF UiFields
<1>7. w.main.loading = TRUE /\ w.main.data = ui.main.data /\ w.main.late = ui.main.late
  BY <1>1, <1>6, StartLoadIs DEF UiOK
<1>8. active = "logs" =>
         /\ ~w.overlap => ~ui.overlap /\ \A i \in DOMAIN calls : ~Main(calls[i])
         /\ Function(f, {"query", "level", "page"})
         /\ ~w.overlap /\ logs => f.page \in 1..Many(f)
  <2> SUFFICES ASSUME active = "logs"
               PROVE /\ ~w.overlap => ~ui.overlap /\ \A i \in DOMAIN calls : ~Main(calls[i])
                     /\ ~w.overlap /\ logs => f.page \in 1..Many(f)
    OBVIOUS
  <2>1. ~w.overlap => ~ui.overlap /\ \A i \in DOMAIN calls : ~Main(calls[i])
    BY <1>3, <1>6
  <2>2. ~ui.overlap => AloneOK(calls, ui, logs)
    BY <1>1 DEF PageOK, LogsOK
  <2> QED
    BY <2>1, <2>2
<1>9. \A i \in DOMAIN calls : calls[i].op # "login"
  BY PageFacts
<1>10. /\ UiOK(ui') /\ ui'.filter = f /\ ui'.acked \in 0..version
       /\ ui'.detail = ui.detail /\ ui'.detailRequest = ui.detailRequest /\ ui'.asked = ui.asked
       /\ ui'.main.loading /\ ui'.main.data = ui.main.data /\ ui'.main.late = ui.main.late
       /\ active = "logs" =>
               /\ ~ui'.overlap => ~ui.overlap /\ \A i \in DOMAIN calls : ~Main(calls[i])
               /\ Function(f, {"query", "level", "page"})
               /\ ~ui'.overlap /\ logs => f.page \in 1..Many(f)
  BY <1>1, <1>4, <1>5, <1>6, <1>7, <1>8 DEF PageOK
<1> QED
  BY <1>1, <1>2, <1>9, <1>10, LoadsSent

LEMMA ReloadKeeps == ASSUME IInv, Reload PROVE IInv'
<1>1. authenticated /\ ReloadAll(ui.filter) /\ ui' = Started(ui) /\ SameShell /\ SameServer
  BY DEF Reload
<1>2. PageOK(calls, ui, active, version, logs) /\ UiOK(ui)
  BY <1>1, PageFacts DEF IInv, UiInv
<1> DEFINE v == Started(ui)
<1>3. UiOK(v) /\ v.filter = ui.filter
  <2>1. UiOK(v) /\ \A g \in UiFields \ {"main", "second", "overlap"} : v[g] = ui[g]
    BY <1>2, StartedIs
  <2> HIDE DEF v
  <2> QED
    BY <2>1 DEF UiFields
<1> HIDE DEF v
<1>4. v = [v EXCEPT !.filter = ui.filter]
  BY <1>3 DEF UiOK, Function, UiFields
<1>5. ui' = [Started(ui) EXCEPT !.filter = ui.filter]
  BY <1>1, <1>4 DEF v
<1>6. active = "logs" =>
         /\ Function(ui.filter, {"query", "level", "page"})
         /\ AloneOK(calls, ui, logs) /\ (\A i \in DOMAIN calls : ~Main(calls[i])) /\ logs
               => ui.filter.page \in 1..Many(ui.filter)
  BY <1>2 DEF PageOK, LogsOK, AloneOK
<1> QED
  BY <1>1, <1>5, <1>6, ReloadingKeeps

LEMMA SetRangeKeeps == ASSUME IInv, NEW r, SetRange(r) PROVE IInv'
<1>1. authenticated /\ active = "traffic" /\ FilterTo([range |-> r])
  BY DEF SetRange, CanClick
<1> QED
  BY <1>1, ReloadingKeeps DEF FilterTo

\* A new query or level starts again at the first page.
LEMMA FirstPageKeeps ==
    ASSUME IInv, authenticated, active = "logs", NEW f, FilterTo(f),
           Function(f, {"query", "level", "page"}), f.page = 1
    PROVE  IInv'
<1>1. 1 \in 1..Many(f)
  BY DEF Many
<1> QED
  BY <1>1, ReloadingKeeps DEF FilterTo

LEMMA SearchKeeps ==
    ASSUME IInv, NEW q, ApplySearch(q) \/ SetLevel(q)
    PROVE  IInv'
<1>1. authenticated /\ active = "logs"
  BY DEF ApplySearch, SetLevel, CanClick
<1>2. Function(ui.filter, {"query", "level", "page"})
  BY <1>1, PageFacts DEF PageOK, LogsOK
<1>3. CASE ApplySearch(q)
  <2> DEFINE f == [ui.filter EXCEPT !.query = q, !.page = 1]
  <2>1. FilterTo(f)
    BY <1>3 DEF ApplySearch
  <2>2. Function(f, {"query", "level", "page"}) /\ f.page = 1
    BY <1>2 DEF Function
  <2> HIDE DEF f
  <2> QED
    BY <1>1, <2>1, <2>2, FirstPageKeeps
<1>4. CASE SetLevel(q)
  <2> DEFINE f == [ui.filter EXCEPT !.level = q, !.page = 1]
  <2>1. FilterTo(f)
    BY <1>4 DEF SetLevel
  <2>2. Function(f, {"query", "level", "page"}) /\ f.page = 1
    BY <1>2 DEF Function
  <2> HIDE DEF f
  <2> QED
    BY <1>1, <2>1, <2>2, FirstPageKeeps
<1> QED
  BY <1>3, <1>4

\* The pager offers pages of a table that, without overlap, is the filter's.
LEMMA SetPageKeeps == ASSUME IInv, NEW p, SetPage(p) PROVE IInv'
<1> DEFINE f == [ui.filter EXCEPT !.page = p]
<1>1. /\ authenticated /\ active = "logs" /\ ui.main.data # None /\ p \in 1..ui.main.data.pages
      /\ FilterTo(f)
  BY DEF SetPage, CanClickRow, CanClickInside, CanClick
<1>2. LogsOK(calls, ui, logs) /\ ViewOK(calls, ui)
  BY <1>1, PageFacts DEF PageOK
<1>3. /\ Function(f, {"query", "level", "page"}) /\ f.page = p
      /\ f.query = ui.filter.query /\ f.level = ui.filter.level
  BY <1>2 DEF LogsOK, Function
<1> HIDE DEF f
<1>4. ASSUME AloneOK(calls, ui, logs), \A i \in DOMAIN calls : ~Main(calls[i]), logs
      PROVE  f.page \in 1..Many(f)
  <2>1. ~LaterMain(calls, 0) /\ ~ui.main.late
    BY <1>4 DEF LaterMain, AloneOK
  <2>2. ui.main.data.key = ui.filter
    BY <1>1, <1>2, <2>1 DEF ViewOK, Shown
  <2>3. ui.main.data.pages = Many(ui.filter)
    BY <1>1, <1>2, <1>4, <2>2 DEF LogsOK, PagesOK
  <2>4. Many(f) = Many(ui.filter)
    BY <1>3 DEF Many
  <2> QED
    BY <1>1, <1>3, <2>3, <2>4
<1> QED
  BY <1>1, <1>3, <1>4, ReloadingKeeps DEF FilterTo

\* A new number for every request of the drawer and every closing.
LEMMA ViewClientKeeps == ASSUME IInv, NEW c, ViewClient(c) PROVE IInv'
<1> DEFINE n == ui.detailRequest + 1
           w == [ui EXCEPT !.detailRequest = n, !.asked = c]
           arg == [client |-> c, request |-> n]
<1>1. /\ authenticated /\ ui.detail = None /\ Send("detail", arg) /\ ui' = w
      /\ SameShell /\ SameServer
  BY DEF ViewClient, CanClickRow, CanClickInside, CanClick, Overlay
<1>2. PageOK(calls, ui, active, version, logs) /\ UiOK(ui)
  BY <1>1, PageFacts DEF IInv, UiInv
<1>3. ui.detailRequest \in Nat /\ n \in Nat /\ n > ui.detailRequest
  BY <1>2 DEF PageOK, DetailOK
<1>4. arg.request = n /\ arg.client = c
  OBVIOUS
<1> HIDE DEF n, arg
<1>5. /\ Function(w, UiFields) /\ w.main = ui.main /\ w.second = ui.second
      /\ w.filter = ui.filter /\ w.acked = ui.acked /\ w.overlap = ui.overlap
      /\ w.detail = ui.detail /\ w.detailRequest = n /\ w.asked = c
  BY <1>2 DEF UiOK, Function, UiFields
<1> HIDE DEF w
<1>6. UiOK(w)
  BY <1>2, <1>5 DEF UiOK
<1>7. DetailOK(calls, w)
  BY <1>1, <1>2, <1>3, <1>5 DEF PageOK, DetailOK
<1>8. PageOK(calls, w, active, version, logs)
  BY <1>2, <1>5, <1>7, SameView
<1>9. /\ UiOK(ui') /\ PageOK(calls, ui', active, version, logs)
      /\ arg.request \in 0..ui'.detailRequest /\ arg.client = ui'.asked
  BY <1>1, <1>3, <1>4, <1>5, <1>6, <1>8
<1> QED
  BY <1>1, <1>9, SendKeeps DEF MainLoads

LEMMA CloseDetailKeeps == ASSUME IInv, CloseDetail PROVE IInv'
<1> DEFINE n == ui.detailRequest + 1
           w == [ui EXCEPT !.detailRequest = n, !.asked = None, !.detail = None]
<1>1. authenticated /\ ui' = w /\ SameShell /\ UNCHANGED clientVars
  BY DEF CloseDetail
<1>2. PageOK(calls, ui, active, version, logs) /\ UiOK(ui)
  BY <1>1, PageFacts DEF IInv, UiInv
<1>3. ui.detailRequest \in Nat /\ n \in Nat /\ n > ui.detailRequest
  BY <1>2 DEF PageOK, DetailOK
<1> HIDE DEF n
<1>5. /\ Function(w, UiFields) /\ w.main = ui.main /\ w.second = ui.second
      /\ w.filter = ui.filter /\ w.acked = ui.acked /\ w.overlap = ui.overlap
      /\ w.detail = None /\ w.detailRequest = n /\ w.asked = None
  BY <1>2 DEF UiOK, Function, UiFields
<1> HIDE DEF w
<1>6. UiOK(w)
  BY <1>2, <1>5 DEF UiOK
<1>7. DetailOK(calls, w)
  BY <1>2, <1>3, <1>5 DEF PageOK, DetailOK
<1>8. PageOK(calls, w, active, version, logs)
  BY <1>2, <1>5, <1>7, SameView
<1> QED
  BY <1>1, <1>6, <1>8, StayKeeps

\* Dialogs open and close.
LEMMA DialogKeeps ==
    ASSUME IInv, authenticated, SameShell, UNCHANGED clientVars,
           NEW f \in {"editing", "dialog", "secret", "confirm"}, NEW v,
           ui' = [ui EXCEPT ![f] = v]
    PROVE  IInv'
<1>1. PageOK(calls, ui, active, version, logs) /\ UiOK(ui)
  BY PageFacts DEF IInv, UiInv
<1>2. UiOK(ui') /\ PageOK(calls, ui', active, version, logs)
  BY <1>1, MinorPage
<1> QED
  BY <1>2, StayKeeps

LEMMA DialogsKeep ==
    ASSUME IInv, (\E c : OpenEditor(c)) \/ CancelEditor \/ CloseSecret \/ OpenCreate \/ CancelCreate
    PROVE  IInv'
<1>1. ASSUME NEW c, OpenEditor(c) PROVE IInv'
  <2>1. /\ authenticated /\ SameShell /\ UNCHANGED clientVars /\ ui' = [ui EXCEPT !["editing"] = c]
    BY <1>1 DEF OpenEditor, CanClickRow, CanClickInside, CanClick
  <2> QED
    BY <2>1, DialogKeeps
<1>2. CASE CancelEditor
  <2>1. /\ authenticated /\ SameShell /\ UNCHANGED clientVars /\ ui' = [ui EXCEPT !["editing"] = None]
    BY <1>2 DEF CancelEditor
  <2> QED
    BY <2>1, DialogKeeps
<1>3. CASE CloseSecret
  <2>1. /\ authenticated /\ SameShell /\ UNCHANGED clientVars /\ ui' = [ui EXCEPT !["secret"] = FALSE]
    BY <1>3 DEF CloseSecret
  <2> QED
    BY <2>1, DialogKeeps
<1>4. CASE OpenCreate
  <2>1. /\ authenticated /\ SameShell /\ UNCHANGED clientVars /\ ui' = [ui EXCEPT !["dialog"] = TRUE]
    BY <1>4 DEF OpenCreate, CanClick
  <2> QED
    BY <2>1, DialogKeeps
<1>5. CASE CancelCreate
  <2>1. /\ authenticated /\ SameShell /\ UNCHANGED clientVars /\ ui' = [ui EXCEPT !["dialog"] = FALSE]
    BY <1>5 DEF CancelCreate
  <2> QED
    BY <2>1, DialogKeeps
<1> QED
  BY <1>1, <1>2, <1>3, <1>4, <1>5

\* Requests of the page's buttons and dialogs.
LEMMA PlainSendKeeps ==
    ASSUME IInv, authenticated, SameShell, SameServer,
           NEW op \in Mutations \cup {"download"}, Send(op, None),
           UNCHANGED ui \/ ui' = [ui EXCEPT !["confirm"] = TRUE]
    PROVE  IInv'
<1>1. PageOK(calls, ui, active, version, logs) /\ UiOK(ui)
  BY PageFacts DEF IInv, UiInv
<1>2. UiOK(ui') /\ PageOK(calls, ui', active, version, logs)
  <2>1. CASE UNCHANGED ui
    BY <1>1, <2>1
  <2>2. CASE ui' = [ui EXCEPT !["confirm"] = TRUE]
    BY <1>1, <2>2, MinorPage
  <2> QED
    BY <2>1, <2>2
<1>3. op \notin MainLoads /\ op # "login" /\ op # "detail"
  BY DEF Mutations, MainLoads
<1> QED
  BY <1>2, <1>3, SendKeeps

LEMMA ButtonsKeep ==
    ASSUME IInv,
           \/ SaveEdit \/ ResetToken \/ (\E p : RemoveRow(p)) \/ Create \/ Disable
           \/ ClearLogs \/ Download \/ ChangePassword \/ SaveSetting
    PROVE  IInv'
<1> USE DEF CanClickRow, CanClickInside, CanClick, Mutations
<1>1. CASE SaveEdit
  BY <1>1, PlainSendKeeps DEF SaveEdit
<1>2. CASE ResetToken
  BY <1>2, PlainSendKeeps DEF ResetToken
<1>3. ASSUME NEW p, RemoveRow(p) PROVE IInv'
  BY <1>3, PlainSendKeeps DEF RemoveRow
<1>4. CASE Create
  BY <1>4, PlainSendKeeps DEF Create
<1>5. CASE Disable
  BY <1>5, PlainSendKeeps DEF Disable
<1>6. CASE ClearLogs
  BY <1>6, PlainSendKeeps DEF ClearLogs
<1>7. CASE Download
  BY <1>7, PlainSendKeeps DEF Download
<1>8. CASE ChangePassword
  BY <1>8, PlainSendKeeps DEF ChangePassword
<1>9. CASE SaveSetting
  BY <1>9, PlainSendKeeps DEF SaveSetting
<1> QED
  BY <1>1, <1>2, <1>3, <1>4, <1>5, <1>6, <1>7, <1>8, <1>9

LEMMA PageActionKeeps == ASSUME IInv, PageAction PROVE IInv'
BY ReloadKeeps, SetRangeKeeps, SearchKeeps, SetPageKeeps, ViewClientKeeps, CloseDetailKeeps,
   DialogsKeep, ButtonsKeep DEF PageAction

(***************************************************************************)
(* Answers that reach the page.                                            *)
(***************************************************************************)
\* What a request leaves among the others, for the login screen.
LEMMA OthersLogin ==
    ASSUME IInv, NEW i \in DOMAIN calls
    PROVE  /\ calls[i].op # "login" => LoginOK(Others(i), authenticated, login.loading)
           /\ calls[i].op = "login" =>
                 /\ ~authenticated
                 /\ \A j \in DOMAIN Others(i) : Others(i)[j].op # "login" /\ ~Others(i)[j].live
<1> DEFINE o == Others(i)
<1>1. CallsOK(calls, version, logs) /\ LoginOK(calls, authenticated, login.loading)
  BY DEF IInv, CallsInv, LoginInv
<1>2. /\ \A j \in DOMAIN o : From(j, i) \in DOMAIN calls \ {i} /\ To(From(j, i), i) = j
      /\ \A k \in DOMAIN calls \ {i} : To(k, i) \in DOMAIN o /\ From(To(k, i), i) = k
  BY <1>1, OthersMap
<1>3. \A j \in DOMAIN o : o[j].op = calls[From(j, i)].op /\ o[j].live = calls[From(j, i)].live
  BY <1>1, OthersSame
<1> HIDE DEF o
<1>4. ASSUME calls[i].op # "login" PROVE LoginOK(o, authenticated, login.loading)
  <2>1. ASSUME NEW j \in DOMAIN o, o[j].op = "login"
        PROVE  From(j, i) \in DOMAIN calls /\ calls[From(j, i)].op = "login" /\ login.loading
    BY <1>1, <1>2, <1>3, <2>1 DEF LoginOK
  <2>2. ASSUME NEW j \in DOMAIN o, NEW k \in DOMAIN o, o[j].op = "login", o[k].op = "login"
        PROVE  j = k
    <3>1. From(j, i) = From(k, i)
      BY <1>1, <2>1, <2>2 DEF LoginOK
    <3> QED
      BY <1>2, <3>1
  <2>3. ASSUME login.loading
        PROVE  ~authenticated /\ \E j \in DOMAIN o : o[j].op = "login"
    <3>1. PICK k \in DOMAIN calls : ~authenticated /\ calls[k].op = "login"
      BY <1>1, <2>3 DEF LoginOK
    <3>2. To(k, i) \in DOMAIN o /\ o[To(k, i)].op = "login"
      BY <1>2, <1>3, <1>4, <3>1
    <3> QED
      BY <3>1, <3>2
  <2>4. ASSUME ~authenticated, NEW j \in DOMAIN o, o[j].live
        PROVE  o[j].op = "login"
    BY <1>1, <1>2, <1>3, <2>4 DEF LoginOK
  <2> QED
    BY <2>1, <2>2, <2>3, <2>4 DEF LoginOK
<1>5. ASSUME calls[i].op = "login"
      PROVE  ~authenticated /\ \A j \in DOMAIN o : o[j].op # "login" /\ ~o[j].live
  <2>1. ~authenticated
    BY <1>1, <1>5 DEF LoginOK
  <2>2. \A j \in DOMAIN o : o[j].op # "login"
    BY <1>1, <1>2, <1>3, <1>5 DEF LoginOK
  <2>3. \A j \in DOMAIN o : ~o[j].live
    BY <1>1, <1>2, <1>3, <2>1, <2>2 DEF LoginOK
  <2> QED
    BY <2>1, <2>2, <2>3
<1> QED
  BY <1>4, <1>5 DEF o

\* A request of a mounted page is taken.
LEMMA Taking ==
    ASSUME IInv, NEW i \in DOMAIN calls, calls[i].live, calls[i].op # "login"
    PROVE  /\ authenticated /\ CallsOK(Others(i), version, logs)
           /\ PageOK(calls, ui, active, version, logs) /\ UiOK(ui)
           /\ ~Main(calls[i]) => PageOK(Others(i), ui, active, version, logs)
           /\ \A j \in DOMAIN Others(i) : Others(i)[j].op # "login"
<1>1. authenticated
  BY DEF IInv, LoginInv, LoginOK
<1>2. CallsOK(calls, version, logs) /\ UiOK(ui) /\ PageOK(calls, ui, active, version, logs)
  BY <1>1 DEF IInv, CallsInv, UiInv, PageInv
<1>3. CallsOK(Others(i), version, logs)
  BY <1>2, OthersCallsOK
<1>4. ~Main(calls[i]) => PageOK(Others(i), ui, active, version, logs)
  BY <1>2, OthersPageOK
<1>5. \A j \in DOMAIN Others(i) : Others(i)[j].op # "login"
  BY <1>1, OthersLogin DEF LoginOK
<1> QED
  BY <1>1, <1>2, <1>3, <1>4, <1>5

LEMMA TakenKeeps ==
    ASSUME IInv, NEW i \in DOMAIN calls, calls[i].live, calls[i].op # "login",
           calls' = Others(i), UNCHANGED storage, SameShell, SameServer,
           UiOK(ui'), PageOK(Others(i), ui', active, version, logs)
    PROVE  IInv'
<1>1. /\ authenticated /\ CallsOK(calls', version, logs)
      /\ \A j \in DOMAIN calls' : calls'[j].op # "login"
  BY Taking
<1>2. Stored(storage') /\ PageOK(calls', ui', active, version, logs)
  BY DEF IInv, StorageInv, Stored
<1> QED
  BY <1>1, <1>2, PageStep

\* load() after its await gives a new state.
LEMMA FinishLoadIs ==
    ASSUME NEW v, NEW c
    PROVE  Function(FinishLoad(v, c), ViewFields)
BY DEF FinishLoad, Function, ViewFields

LEMMA DeliverLoadKeeps == ASSUME IInv, NEW i \in DOMAIN calls, DeliverLoad(i) PROVE IInv'
<1> DEFINE c == calls[i]
<1>1. /\ c.live /\ c.op \in {"load", "logs", "load2"} /\ calls' = Others(i)
      /\ UNCHANGED storage /\ SameShell /\ SameServer
  BY DEF DeliverLoad, MainLoads
<1>2. /\ PageOK(calls, ui, active, version, logs) /\ UiOK(ui)
      /\ CallsOK(calls, version, logs)
      /\ ~Main(c) => PageOK(Others(i), ui, active, version, logs)
  BY <1>1, Taking DEF IInv, CallsInv
<1>3. CASE c.op = "load2"
  <2> DEFINE n == FinishLoad(ui.second, c)
             w == [ui EXCEPT !.second = n]
  <2>1. ui' = w /\ PageOK(Others(i), ui, active, version, logs)
    BY <1>2, <1>3 DEF DeliverLoad, Main, MainLoads
  <2>2. Function(n, ViewFields)
    BY FinishLoadIs
  <2> HIDE DEF n
  <2>3. /\ Function(w, UiFields) /\ w.main = ui.main /\ w.second = n
        /\ w.filter = ui.filter /\ w.acked = ui.acked /\ w.overlap = ui.overlap
        /\ w.detail = ui.detail /\ w.detailRequest = ui.detailRequest /\ w.asked = ui.asked
    BY <1>2 DEF UiOK, Function, UiFields
  <2> HIDE DEF w
  <2>4. UiOK(w)
    BY <1>2, <2>2, <2>3 DEF UiOK
  <2>5. DetailOK(Others(i), w)
    BY <2>1, <2>3, SameDetail DEF PageOK
  <2>6. PageOK(Others(i), w, active, version, logs)
    BY <2>1, <2>3, <2>5, SameView
  <2> QED
    BY <1>1, <1>3, <2>1, <2>4, <2>6, TakenKeeps
<1>4. CASE c.op # "load2"
  <2> DEFINE n == FinishLoad(ui.main, c)
             b == ui.confirm /\ \E j \in DOMAIN calls : calls[j].live /\ calls[j].op \in {"delete", "clear"}
             w == [ui EXCEPT !.main = n, !.confirm = b]
  <2>1. ui' = w /\ Main(c)
    BY <1>1, <1>4 DEF DeliverLoad, Main, MainLoads
  <2>2. Function(n, ViewFields)
    BY FinishLoadIs
  <2> HIDE DEF b
  <2>3. /\ Function(w, UiFields) /\ w.main = n /\ w.second = ui.second
        /\ w.filter = ui.filter /\ w.acked = ui.acked /\ w.overlap = ui.overlap
        /\ w.detail = ui.detail /\ w.detailRequest = ui.detailRequest /\ w.asked = ui.asked
    <3> HIDE DEF n
    <3> QED
      BY <1>2 DEF UiOK, Function, UiFields
  <2> HIDE DEF w
  <2>4. UiOK(w)
    <3> HIDE DEF n
    <3> QED
      BY <1>2, <2>2, <2>3 DEF UiOK
  <2>5. PageOK(Others(i), w, active, version, logs)
    BY <1>2, <2>1, <2>3, LoadTaken
  <2> QED
    BY <1>1, <1>4, <2>1, <2>4, <2>5, TakenKeeps
<1> QED
  BY <1>3, <1>4

\* Only the answer to the drawer's last request is shown, and it is for the client
\* asked for last.
LEMMA DeliverDetailKeeps == ASSUME IInv, NEW i \in DOMAIN calls, DeliverDetail(i) PROVE IInv'
<1> DEFINE c == calls[i]
<1>1. /\ c.live /\ c.op = "detail" /\ calls' = Others(i)
      /\ UNCHANGED storage /\ SameShell /\ SameServer
      /\ \/ ui' = ui
         \/ c.arg.request = ui.detailRequest /\ ui' = [ui EXCEPT !["detail"] = c.arg.client]
  BY DEF DeliverDetail, ShowDetail
<1>2. /\ PageOK(calls, ui, active, version, logs) /\ UiOK(ui)
      /\ PageOK(Others(i), ui, active, version, logs)
  BY <1>1, Taking DEF Main, MainLoads
<1>3. CASE ui' = ui
  BY <1>1, <1>2, <1>3, TakenKeeps
<1>4. CASE c.arg.request = ui.detailRequest /\ ui' = [ui EXCEPT !["detail"] = c.arg.client]
  <2> DEFINE v == c.arg.client
             w == [ui EXCEPT !["detail"] = v]
  <2>1. v = ui.asked
    BY <1>1, <1>2, <1>4 DEF PageOK, DetailOK
  <2>2. UiOK(w) /\ w.detail = v /\ \A g \in UiFields \ {"detail"} : w[g] = ui[g]
    <3> HIDE DEF v
    <3> QED
      BY <1>2, MinorField
  <2> HIDE DEF w, v
  <2>3. /\ w.main = ui.main /\ w.filter = ui.filter /\ w.acked = ui.acked
        /\ w.overlap = ui.overlap
        /\ w.detailRequest = ui.detailRequest /\ w.asked = ui.asked
    BY <2>2 DEF UiFields
  <2>4. DetailOK(Others(i), w)
    BY <1>2, <2>1, <2>2, <2>3 DEF PageOK, DetailOK
  <2>5. PageOK(Others(i), w, active, version, logs)
    BY <1>2, <2>3, <2>4, SameView
  <2>6. ui' = w
    BY <1>4 DEF w, v
  <2> QED
    BY <1>1, <2>2, <2>5, <2>6, TakenKeeps
<1> QED
  BY <1>1, <1>3, <1>4

\* What a handler does with the dialogs.
LEMMA AppliedIs ==
    ASSUME NEW c, UiOK(ui)
    PROVE  LET w == Applied(c) IN
           UiOK(w) /\ \A g \in UiFields \ {"editing", "dialog", "secret", "confirm"} : w[g] = ui[g]
<1>1. CASE c.op = "saveEdit"
  <2> DEFINE w == [ui EXCEPT !["editing"] = None]
  <2>1. Applied(c) = w
    BY <1>1 DEF Applied
  <2>2. UiOK(w) /\ \A g \in UiFields \ {"editing"} : w[g] = ui[g]
    BY MinorField
  <2> HIDE DEF w
  <2> QED
    BY <2>1, <2>2
<1>2. CASE c.op = "create"
  <2> DEFINE v == [ui EXCEPT !["secret"] = TRUE]
  <2>1. UiOK(v) /\ \A g \in UiFields \ {"secret"} : v[g] = ui[g]
    BY MinorField
  <2>2. Applied(c) = [v EXCEPT !["dialog"] = FALSE]
    BY <1>2 DEF Applied
  <2> HIDE DEF v
  <2> DEFINE w == [v EXCEPT !["dialog"] = FALSE]
  <2>3. UiOK(w) /\ \A g \in UiFields \ {"dialog"} : w[g] = v[g]
    BY <2>1, MinorField
  <2>4. Applied(c) = w
    BY <2>2
  <2> HIDE DEF w
  <2> QED
    BY <2>1, <2>3, <2>4
<1>3. CASE c.op = "resetToken"
  <2> DEFINE w == [ui EXCEPT !["secret"] = TRUE]
  <2>1. Applied(c) = w
    BY <1>3 DEF Applied
  <2>2. UiOK(w) /\ \A g \in UiFields \ {"secret"} : w[g] = ui[g]
    BY MinorField
  <2> HIDE DEF w
  <2> QED
    BY <2>1, <2>2
<1>4. CASE c.op = "clear"
  <2> DEFINE w == [ui EXCEPT !["confirm"] = FALSE]
  <2>1. Applied(c) = w
    BY <1>4 DEF Applied
  <2>2. UiOK(w) /\ \A g \in UiFields \ {"confirm"} : w[g] = ui[g]
    BY MinorField
  <2> HIDE DEF w
  <2> QED
    BY <2>1, <2>2
<1>5. CASE c.op \notin {"saveEdit", "create", "resetToken", "clear"}
  <2>1. Applied(c) = ui
    BY <1>5 DEF Applied
  <2> QED
    BY <2>1
<1> QED
  BY <1>1, <1>2, <1>3, <1>4, <1>5

LEMMA MaxIs ==
    ASSUME NEW n \in Nat, NEW a \in 0..n, NEW b \in 0..n
    PROVE  Max({a, b}) \in 0..n
<1>1. \E x \in {a, b} : \A y \in {a, b} : x >= y
  BY a >= b \/ b >= a
<1>2. Max({a, b}) \in {a, b}
  BY <1>1 DEF Max
<1> QED
  BY <1>2

\* A confirmed change: acked grows to what the server had after it.
LEMMA AckedIs ==
    ASSUME IInv, NEW c, UiOK(ui), ui.acked \in 0..version, c.ans.value \in 0..version
    PROVE  LET done == [Applied(c) EXCEPT
                          !.acked = IF c.op \in ShownChanges THEN Max({@, c.ans.value}) ELSE @] IN
           /\ UiOK(done) /\ done.acked \in 0..version
           /\ c.op \notin ShownChanges => done.acked = ui.acked
           /\ \A g \in UiFields \ {"acked", "editing", "dialog", "secret", "confirm"} : done[g] = ui[g]
<1> DEFINE u == Applied(c)
           a == IF c.op \in ShownChanges THEN Max({u.acked, c.ans.value}) ELSE u.acked
           w == [u EXCEPT !.acked = a]
<1>1. UiOK(u) /\ \A g \in UiFields \ {"editing", "dialog", "secret", "confirm"} : u[g] = ui[g]
  BY AppliedIs
<1> HIDE DEF u
<1>2. u.acked = ui.acked
  BY <1>1 DEF UiFields
<1>3. a \in 0..version /\ (c.op \notin ShownChanges => a = ui.acked)
  <2>1. Max({ui.acked, c.ans.value}) \in 0..version
    BY MaxIs DEF IInv, ServerInv
  <2> QED
    BY <1>2, <2>1
<1> HIDE DEF a
<1>4. /\ Function(w, UiFields) /\ w.acked = a
      /\ \A g \in UiFields \ {"acked"} : w[g] = u[g]
  BY <1>1 DEF UiOK, Function, UiFields
<1> HIDE DEF w
<1>5. UiOK(w)
  BY <1>1, <1>4 DEF UiOK, UiFields
<1>6. /\ UiOK(w) /\ w.acked \in 0..version /\ (c.op \notin ShownChanges => w.acked = ui.acked)
      /\ \A g \in UiFields \ {"acked", "editing", "dialog", "secret", "confirm"} : w[g] = ui[g]
  BY <1>1, <1>3, <1>4, <1>5
<1> QED
  BY <1>6 DEF w, a, u

\* A handler that changed something shows it by loading again, after the answer.
LEMMA DeliverChangeKeeps == ASSUME IInv, NEW i \in DOMAIN calls, DeliverChange(i) PROVE IInv'
<1> DEFINE c == calls[i]
           cs == Others(i)
           done == [Applied(c) EXCEPT
                       !.acked = IF c.op \in ShownChanges THEN Max({@, c.ans.value}) ELSE @]
<1>1. c.live /\ c.op \in Mutations \cup {"download"} /\ SameShell /\ SameServer
  BY DEF DeliverChange
<1>2. c.op # "login" /\ c.op # "detail" /\ ~Main(c)
  BY <1>1 DEF Mutations, Main, MainLoads
<1>3. /\ authenticated /\ CallsOK(cs, version, logs) /\ UiOK(ui)
      /\ PageOK(cs, ui, active, version, logs)
      /\ \A j \in DOMAIN cs : cs[j].op # "login"
  BY <1>1, <1>2, Taking
<1>4. CallsOK(calls, version, logs) /\ ui.acked \in 0..version
  BY <1>3 DEF IInv, CallsInv, PageOK
<1>5. ASSUME c.ans.kind = "ok", c.op \in Mutations
      PROVE  /\ UiOK(done) /\ done.acked \in 0..version
             /\ c.op \notin ShownChanges => done.acked = ui.acked
             /\ \A g \in UiFields \ {"acked", "editing", "dialog", "secret", "confirm"} : done[g] = ui[g]
  <2>1. c.ans.value \in 0..version
    BY <1>1, <1>4, <1>5 DEF CallsOK, CallOK, AnswerOK
  <2> HIDE DEF c
  <2> QED
    BY <1>3, <1>4, <2>1, AckedIs
<1>6. CASE /\ c.ans.kind = "ok" /\ c.op \in Reloading
           /\ ui' = Started(done)
           /\ calls' = WithLoads(Others(i), storage, active, ui.filter)
           /\ storage' = getSession(storage).storage
  <2>1. c.op \in Mutations
    BY <1>6 DEF Reloading, Mutations
  <2>2. /\ UiOK(done) /\ done.acked \in 0..version
        /\ \A g \in UiFields \ {"acked", "editing", "dialog", "secret", "confirm"} : done[g] = ui[g]
    BY <1>5, <1>6, <2>1
  <2>3. ui' = Started(done)
    BY <1>6
  <2>4. /\ \A j \in DOMAIN cs : From(j, i) \in DOMAIN calls
        /\ \A j \in DOMAIN cs : Main(cs[j]) <=> Main(calls[From(j, i)])
    BY <1>4, OthersMap, OthersSame
  <2>5. Stored(storage')
    BY <1>6, SessionMoved DEF IInv, StorageInv, Stored
  <2> HIDE DEF done
  <2> DEFINE w == Started(done)
  <2>6. /\ UiOK(w) /\ w.main = StartLoad(done.main)
        /\ w.overlap <=> active = "logs" /\ (done.overlap \/ \E k \in DOMAIN calls : Main(calls[k]))
        /\ \A g \in UiFields \ {"main", "second", "overlap"} : w[g] = done[g]
    BY <2>2, StartedIs
  <2> HIDE DEF w
  <2>7. /\ w.filter = ui.filter /\ w.acked \in 0..version
        /\ w.detail = ui.detail /\ w.detailRequest = ui.detailRequest /\ w.asked = ui.asked
        /\ done.main = ui.main /\ done.overlap = ui.overlap
    BY <2>2, <2>6 DEF UiFields
  <2>8. w.main.loading = TRUE /\ w.main.data = ui.main.data /\ w.main.late = ui.main.late
    <3> DEFINE m == ui.main
    <3>1. w.main = StartLoad(m) /\ Function(m, ViewFields)
      BY <1>3, <2>6, <2>7 DEF UiOK
    <3> HIDE DEF m
    <3>2. w.main.loading = TRUE /\ w.main.data = m.data /\ w.main.late = m.late
      BY <3>1, StartLoadIs
    <3> QED
      BY <3>2 DEF m
  <2> DEFINE f == ui.filter
  <2>9. active = "logs" =>
          /\ ~w.overlap => ~ui.overlap /\ \A j \in DOMAIN cs : ~Main(cs[j])
          /\ Function(f, {"query", "level", "page"})
          /\ ~w.overlap /\ logs => f.page \in 1..Many(f)
    <3> HIDE DEF cs
    <3>1. ~w.overlap /\ active = "logs" => ~ui.overlap /\ \A j \in DOMAIN cs : ~Main(cs[j])
      BY <2>4, <2>6, <2>7
    <3> QED
      BY <1>3, <3>1 DEF PageOK, LogsOK, AloneOK
  <2>10. /\ UiOK(ui') /\ ui'.filter = f /\ ui'.acked \in 0..version
         /\ ui'.detail = ui.detail /\ ui'.detailRequest = ui.detailRequest /\ ui'.asked = ui.asked
         /\ ui'.main.loading /\ ui'.main.data = ui.main.data /\ ui'.main.late = ui.main.late
         /\ active = "logs" =>
               /\ ~ui'.overlap => ~ui.overlap /\ \A j \in DOMAIN cs : ~Main(cs[j])
               /\ Function(f, {"query", "level", "page"})
               /\ ~ui'.overlap /\ logs => f.page \in 1..Many(f)
    <3>1. ui' = w
      BY <2>3 DEF w
    <3> HIDE DEF cs, f
    <3> QED
      BY <2>6, <2>7, <2>8, <2>9, <3>1 DEF f
  <2>11. calls' = WithLoads(cs, storage, active, f)
    BY <1>6
  <2> HIDE DEF cs, f
  <2> QED
    BY <1>1, <1>3, <2>5, <2>10, <2>11, LoadsSent
<1>7. CASE /\ c.ans.kind = "ok" /\ c.op \notin Reloading
           /\ ui' = done /\ calls' = Others(i) /\ UNCHANGED storage
  <2>1. c.op \notin ShownChanges
    BY <1>7 DEF ShownChanges, Reloading
  <2>2. /\ UiOK(done) /\ done.acked = ui.acked
        /\ \A g \in UiFields \ {"acked", "editing", "dialog", "secret", "confirm"} : done[g] = ui[g]
    <3>1. CASE c.op \in Mutations
      BY <1>5, <1>7, <2>1, <3>1
    <3>2. CASE c.op = "download"
      <4>1. Applied(c) = ui
        BY <3>2 DEF Applied
      <4>2. done = [ui EXCEPT !.acked = ui.acked]
        BY <2>1, <4>1
      <4>3. done = ui
        BY <1>3, <4>2 DEF UiOK, Function, UiFields
      <4> QED
        BY <1>3, <4>3
    <3> QED
      BY <1>1, <3>1, <3>2
  <2>3. ui' = done
    BY <1>7
  <2> HIDE DEF done
  <2>4. /\ done.main = ui.main /\ done.filter = ui.filter /\ done.overlap = ui.overlap
        /\ done.detail = ui.detail /\ done.detailRequest = ui.detailRequest /\ done.asked = ui.asked
    BY <2>2 DEF UiFields
  <2>5. DetailOK(cs, done)
    BY <1>3, <2>4, SameDetail DEF PageOK
  <2>6. PageOK(cs, done, active, version, logs)
    BY <1>3, <2>2, <2>4, <2>5, SameView
  <2> QED
    BY <1>1, <1>2, <1>7, <2>2, <2>3, <2>6, TakenKeeps
<1>8. CASE /\ ui' = [ui EXCEPT !.confirm = @ /\ c.op \notin {"delete", "clear"}]
           /\ calls' = Others(i) /\ UNCHANGED storage
  <2> DEFINE v == ui.confirm /\ c.op \notin {"delete", "clear"}
             w == [ui EXCEPT !["confirm"] = v]
  <2>1. ui' = w
    BY <1>8
  <2> HIDE DEF v
  <2>2. UiOK(w) /\ PageOK(cs, w, active, version, logs)
    <3> HIDE DEF cs
    <3> QED
      BY <1>3, MinorPage
  <2> HIDE DEF w
  <2> QED
    BY <1>1, <1>2, <1>8, <2>1, <2>2, TakenKeeps
<1> QED
  BY <1>6, <1>7, <1>8 DEF DeliverChange

\* The handlers of a page that is gone.
LEMMA DeliverDroppedKeeps == ASSUME IInv, NEW i \in DOMAIN calls, DeliverDropped(i) PROVE IInv'
<1> DEFINE o == Others(i)
           n == NewCall("load", None, getSession(storage).token)
           c == [n EXCEPT !.live = FALSE]
<1>1. ~calls[i].live /\ calls[i].op # "login" /\ UNCHANGED ui /\ SameShell /\ SameServer
  BY DEF DeliverDropped
<1>2. \/ calls' = o /\ storage' = storage
      \/ calls' = Append(o, c) /\ storage' = getSession(storage).storage
  BY DEF DeliverDropped
<1>3. CallsOK(calls, version, logs) /\ ~Main(calls[i])
  BY <1>1 DEF IInv, CallsInv, Main
<1>4. CallsOK(o, version, logs) /\ LoginOK(o, authenticated, login.loading)
  BY <1>1, <1>3, OthersCallsOK, OthersLogin
<1>5. authenticated => PageOK(o, ui, active, version, logs)
  BY <1>3, OthersPageOK DEF IInv, PageInv
<1>6. c.live = FALSE /\ c.op = "load" /\ CallOK(c, version, logs)
  <2>1. Function(c, CallFields) /\ c.live = FALSE /\ c.op = "load"
    BY DEF NewCall, Function, CallFields
  <2> HIDE DEF c
  <2> QED
    BY <2>1 DEF CallOK, AnswerOK
<1> HIDE DEF o, c
<1>7. CallsOK(calls', version, logs)
  BY <1>2, <1>4, <1>6, AppendCallsOK
<1>8. LoginOK(calls', authenticated, login.loading)
  <2>1. CASE calls' = o
    BY <1>4, <2>1
  <2>2. CASE calls' = Append(o, c)
    <3> DEFINE all == Append(o, c)
    <3>1. /\ Len(o) \in Nat /\ DOMAIN o = 1..Len(o) /\ DOMAIN all = 1..(Len(o) + 1)
          /\ all[Len(o) + 1] = c /\ \A j \in DOMAIN o : all[j] = o[j]
      BY <1>4, AppendFacts DEF CallsOK
    <3> HIDE DEF all
    <3>2. \A j \in DOMAIN all : all[j].op = "login" \/ all[j].live => j \in DOMAIN o /\ all[j] = o[j]
      BY <1>6, <3>1
    <3>3. DOMAIN o \subseteq DOMAIN all
      BY <3>1
    <3>4. LoginOK(all, authenticated, login.loading)
      BY <1>4, <3>1, <3>2, <3>3 DEF LoginOK
    <3> QED
      BY <2>2, <3>4 DEF all
  <2> QED
    BY <1>2, <2>1, <2>2
<1>9. authenticated => PageOK(calls', ui, active, version, logs)
  <2>1. ~Main(c) /\ c.op # "detail" /\ IsSeq(o)
    BY <1>4, <1>6 DEF Main, CallsOK
  <2> QED
    BY <1>2, <1>5, <2>1, AppendPageOK
<1>10. Stored(storage')
  BY <1>2, SessionMoved DEF IInv, StorageInv, Stored
<1> QED
  BY <1>1, <1>7, <1>8, <1>9, <1>10
  DEF IInv, ServerInv, StorageInv, Stored, CallsInv, UiInv, LoginInv, PageInv, SameShell, SameServer

(***************************************************************************)
(* Pages that mount, and the login screen.                                 *)
(***************************************************************************)
LEMMA FreshIs ==
    ASSUME NEW p
    PROVE  LET u == Fresh(p) IN
           /\ UiOK(u) /\ u.filter = FirstFilter(p) /\ u.acked = 0
           /\ u.main.data = None /\ u.main.loading = TRUE /\ u.main.late = FALSE
           /\ u.detail = None /\ u.detailRequest = 0 /\ u.overlap = FALSE
<1> DEFINE f == FirstFilter(p)
           u == Fresh(p)
<1>1. /\ Function(u, UiFields) /\ u.main = NewView /\ u.second = NewView
      /\ u.filter = f /\ u.acked = 0
      /\ u.detail = None /\ u.detailRequest = 0 /\ u.overlap = FALSE
  <2> HIDE DEF f
  <2> QED
    BY DEF Fresh, Function, UiFields, f
<1> HIDE DEF u
<1>2. /\ Function(NewView, ViewFields)
      /\ NewView.data = None /\ NewView.loading = TRUE /\ NewView.late = FALSE
  BY DEF NewView, Function, ViewFields
<1>3. UiOK(u)
  BY <1>1, <1>2 DEF UiOK
<1> QED
  BY <1>1, <1>2, <1>3 DEF u

\* A page mounts while no request of another one is live.
LEMMA Mounted ==
    ASSUME NEW cs, NEW ver \in Nat, NEW lg, CallsOK(cs, ver, lg), NEW s, NEW p,
           \A i \in DOMAIN cs : ~cs[i].live /\ cs[i].op # "login"
    PROVE  LET all == WithLoads(cs, s, p, FirstFilter(p)) IN
           /\ CallsOK(all, ver, lg) /\ PageOK(all, Fresh(p), p, ver, lg)
           /\ \A i \in DOMAIN all : all[i].op # "login"
<1> DEFINE u == Fresh(p)
           f == FirstFilter(p)
           all == WithLoads(cs, s, p, f)
<1>1. /\ u.filter = f /\ u.acked = 0
      /\ u.main.data = None /\ u.main.loading = TRUE /\ u.main.late = FALSE
      /\ u.detail = None /\ u.detailRequest = 0 /\ u.overlap = FALSE
  BY FreshIs
<1>2. p = "logs" => Function(f, {"query", "level", "page"}) /\ f.page = 1
  BY DEF FirstFilter, Function
<1> HIDE DEF u, f
<1>3. u.acked \in 0..ver /\ \A i \in DOMAIN cs : ~Main(cs[i])
  BY <1>1 DEF Main
<1>4. DetailOK(cs, u)
  BY <1>1 DEF DetailOK
<1>5. 1 \in 1..Many(f)
  BY DEF Many
<1>6. CallsOK(all, ver, lg) /\ PageOK(all, u, p, ver, lg)
  <2> HIDE DEF all
  <2>1. p = "logs" => /\ Function(u.filter, {"query", "level", "page"})
                      /\ u.main.data # None /\ lg => PagesOK(u.main.data)
                      /\ ~u.overlap => /\ \A i \in DOMAIN cs : ~Main(cs[i])
                                       /\ u.main.loading /\ ~u.main.late
                                       /\ lg => u.filter.page \in 1..Many(u.filter)
    BY <1>1, <1>2, <1>3, <1>5
  <2> QED
    BY <1>1, <1>3, <1>4, <2>1, WithLoadsPageOK DEF all
<1>7. \A i \in DOMAIN all : all[i].op # "login"
  BY WithLoadsNoLogin DEF CallsOK
<1> QED
  BY <1>6, <1>7 DEF u, f, all

\* The pages are shown from now on.
LEMMA ShownKeeps ==
    ASSUME IInv, Stored(storage'), SameServer, authenticated', ~login'.loading,
           CallsOK(calls', version, logs), UiOK(ui'),
           \A i \in DOMAIN calls' : calls'[i].op # "login",
           PageOK(calls', ui', active', version, logs)
    PROVE  IInv'
<1>1. ServerInv' /\ StorageInv' /\ CallsInv' /\ UiInv' /\ PageInv'
  BY DEF IInv, ServerInv, StorageInv, Stored, SameServer, CallsInv, UiInv, PageInv
<1>2. LoginInv'
  BY DEF LoginInv, LoginOK
<1> QED
  BY <1>1, <1>2 DEF IInv

\* The login screen is shown, and no login is awaited.
LEMMA LeftKeeps ==
    ASSUME IInv, Stored(storage'), SameServer, ~authenticated', ~login'.loading,
           CallsOK(calls', version, logs), UiOK(ui'),
           \A i \in DOMAIN calls' : ~calls'[i].live /\ calls'[i].op # "login"
    PROVE  IInv'
<1>1. ServerInv' /\ StorageInv' /\ CallsInv' /\ UiInv' /\ PageInv'
  BY DEF IInv, ServerInv, StorageInv, Stored, SameServer, CallsInv, UiInv, PageInv
<1>2. LoginInv'
  BY DEF LoginInv, LoginOK
<1> QED
  BY <1>1, <1>2 DEF IInv

LEMMA NotLoading ==
    ASSUME NEW error
    PROVE  ~NoLogin.loading /\ ~LoginError(error).loading
BY DEF NoLogin, LoginError

LEMMA DeliverUnauthorizedKeeps ==
    ASSUME IInv, NEW i \in DOMAIN calls, DeliverUnauthorized(i)
    PROVE  IInv'
<1> DEFINE o == Others(i)
<1>1. /\ storage' = clearSession(storage) /\ authenticated' = FALSE /\ SameServer
      /\ calls' = IF authenticated THEN Orphan(o) ELSE o
      /\ login' = IF calls[i].op = "login" THEN LoginError(WrongPassword)
                  ELSE IF authenticated THEN NoLogin ELSE login
      /\ ui' = IF authenticated THEN Fresh(active) ELSE ui
  BY DEF DeliverUnauthorized
<1>2. Stored(storage')
  BY <1>1, SessionCleared
<1>3. CallsOK(o, version, logs) /\ UiOK(ui')
  BY <1>1, OthersCallsOK, FreshIs DEF IInv, CallsInv, UiInv
<1>4. /\ calls[i].op # "login" => LoginOK(o, authenticated, login.loading)
      /\ calls[i].op = "login" => ~authenticated /\ \A j \in DOMAIN o : o[j].op # "login" /\ ~o[j].live
  BY OthersLogin
<1> HIDE DEF o
<1>5. CASE authenticated
  <2>1. calls[i].op # "login" /\ login' = NoLogin /\ calls' = Orphan(o)
    BY <1>1, <1>4, <1>5
  <2>2. CallsOK(calls', version, logs) /\ \A j \in DOMAIN calls' : ~calls'[j].live /\ calls'[j].op # "login"
    BY <1>3, <2>1, OrphanIs
  <2> QED
    BY <1>1, <1>2, <1>3, <2>1, <2>2, NotLoading, LeftKeeps
<1>6. CASE ~authenticated /\ calls[i].op = "login"
  BY <1>1, <1>2, <1>3, <1>4, <1>6, NotLoading, LeftKeeps
<1>7. CASE ~authenticated /\ calls[i].op # "login"
  <2>1. calls' = o /\ login' = login /\ LoginOK(o, authenticated, login.loading)
    BY <1>1, <1>4, <1>7
  <2>2. LoginInv'
    BY <1>1, <1>7, <2>1 DEF LoginInv, LoginOK
  <2> QED
    BY <1>1, <1>2, <1>3, <2>1, <2>2
    DEF IInv, ServerInv, StorageInv, Stored, SameServer, CallsInv, UiInv, PageInv
<1> QED
  BY <1>5, <1>6, <1>7

LEMMA DeliverLoginKeeps == ASSUME IInv, NEW i \in DOMAIN calls, DeliverLogin(i) PROVE IInv'
<1> DEFINE o == Others(i)
<1>1. calls[i].op = "login" /\ active' = active /\ SameServer
  BY DEF DeliverLogin
<1>2. CallsOK(calls, version, logs) /\ CallsOK(o, version, logs) /\ version \in Nat
  BY OthersCallsOK DEF IInv, CallsInv, ServerInv
<1>3. ~authenticated /\ \A j \in DOMAIN o : ~o[j].live /\ o[j].op # "login"
  BY <1>1, OthersLogin
<1>4. CASE /\ calls[i].ans.kind = "ok"
           /\ storage' = saveSession(storage, calls[i].ans.value)
           /\ authenticated' = TRUE /\ login' = NoLogin /\ ui' = Fresh(active)
           /\ calls' = WithLoads(Others(i), storage', active, FirstFilter(active))
  <2>1. calls[i].ans.value \in Tokens
    BY <1>1, <1>2, <1>4 DEF CallsOK, CallOK, AnswerOK
  <2>2. Stored(storage')
    BY <1>4, <2>1, SessionSaved DEF IInv, StorageInv, Stored
  <2> DEFINE s == storage'
  <2>3. calls' = WithLoads(o, s, active, FirstFilter(active))
    BY <1>4
  <2> HIDE DEF s, o
  <2>4. /\ CallsOK(calls', version, logs) /\ PageOK(calls', Fresh(active), active, version, logs)
        /\ \A j \in DOMAIN calls' : calls'[j].op # "login"
    BY <1>2, <1>3, <2>3, Mounted
  <2>5. UiOK(ui') /\ PageOK(calls', ui', active', version, logs)
    BY <1>1, <1>4, <2>4, FreshIs
  <2> QED
    BY <1>1, <1>4, <2>2, <2>4, <2>5, NotLoading, ShownKeeps
<1>5. ASSUME NEW error, login' = LoginError(error), calls' = o,
             UNCHANGED <<storage, authenticated, ui>>
      PROVE  IInv'
  <2>1. Stored(storage') /\ UiOK(ui')
    BY <1>5 DEF IInv, StorageInv, UiInv, Stored
  <2> QED
    BY <1>1, <1>2, <1>3, <1>5, <2>1, NotLoading, LeftKeeps
<1> QED
  BY <1>4, <1>5 DEF DeliverLogin

LEMMA DeliverKeeps == ASSUME IInv, NEW i \in DOMAIN calls, Deliver(i) PROVE IInv'
BY DeliverUnauthorizedKeeps, DeliverLoginKeeps, DeliverLoadKeeps, DeliverDetailKeeps,
   DeliverChangeKeeps, DeliverDroppedKeeps DEF Deliver

(***************************************************************************)
(* The shell, the browser and the server.                                  *)
(***************************************************************************)
LEMMA SubmitKeeps == ASSUME IInv, Submit PROVE IInv'
<1> DEFINE c == NewCall("login", None, getSession(storage).token)
           all == Append(calls, c)
<1>1. /\ ~authenticated /\ ~login.loading /\ authenticated' = authenticated
      /\ login' = [loading |-> TRUE, error |-> None]
      /\ calls' = all /\ storage' = getSession(storage).storage
      /\ UNCHANGED <<active, ui>> /\ SameServer
  BY DEF Submit, request
<1>2. CallsOK(calls, version, logs) /\ LoginOK(calls, authenticated, login.loading)
  BY DEF IInv, CallsInv, LoginInv
<1>3. c.op = "login" /\ CallOK(c, version, logs)
  <2>1. c.op = "login"
    BY DEF NewCall
  <2> QED
    BY <2>1, NewIs
<1> HIDE DEF c
<1>4. /\ Len(calls) \in Nat /\ DOMAIN calls = 1..Len(calls) /\ DOMAIN all = 1..(Len(calls) + 1)
      /\ all[Len(calls) + 1] = c /\ \A j \in DOMAIN calls : all[j] = calls[j]
  BY <1>2, AppendFacts DEF CallsOK
<1>5. CallsOK(all, version, logs)
  BY <1>2, <1>3, AppendCallsOK
<1> HIDE DEF all
<1>6. \A j \in DOMAIN calls : calls[j].op # "login" /\ ~calls[j].live
  BY <1>1, <1>2 DEF LoginOK
<1>7. /\ \A j \in DOMAIN all : all[j].op = "login" \/ all[j].live => j = Len(calls) + 1
      /\ Len(calls) + 1 \in DOMAIN all /\ all[Len(calls) + 1].op = "login"
  BY <1>3, <1>4, <1>6
<1>8. login'.loading = TRUE
  BY <1>1
<1>9. LoginInv'
  BY <1>1, <1>7, <1>8 DEF LoginInv, LoginOK
<1>10. Stored(storage')
  BY <1>1, SessionMoved DEF IInv, StorageInv, Stored
<1> QED
  BY <1>1, <1>5, <1>9, <1>10
  DEF IInv, ServerInv, StorageInv, Stored, SameServer, CallsInv, UiInv, PageInv

LEMMA LogoutKeeps == ASSUME IInv, Logout PROVE IInv'
<1>1. /\ storage' = clearSession(storage) /\ authenticated' = FALSE /\ login' = NoLogin
      /\ calls' = Orphan(calls) /\ ui' = Fresh(active) /\ SameServer
  BY DEF Logout
<1>2. /\ CallsOK(calls', version, logs)
      /\ \A i \in DOMAIN calls' : ~calls'[i].live /\ calls'[i].op # "login"
  BY <1>1, OrphanIs DEF IInv, CallsInv
<1>3. Stored(storage') /\ UiOK(ui')
  BY <1>1, SessionCleared, FreshIs
<1> QED
  BY <1>1, <1>2, <1>3, NotLoading, LeftKeeps

LEMMA NavigateKeeps == ASSUME IInv, NEW p, Navigate(p) PROVE IInv'
<1> DEFINE o == Orphan(calls)
<1>1. /\ authenticated /\ active' = p /\ ui' = Fresh(p) /\ SameServer
      /\ calls' = WithLoads(o, storage, p, FirstFilter(p))
      /\ storage' = getSession(storage).storage /\ authenticated' = authenticated /\ login' = login
  BY DEF Navigate, CanClick
<1>2. ~login.loading /\ version \in Nat /\ CallsOK(calls, version, logs)
  BY <1>1, PageFacts DEF IInv, ServerInv, CallsInv
<1>3. CallsOK(o, version, logs) /\ \A i \in DOMAIN o : ~o[i].live /\ o[i].op # "login"
  BY <1>2, OrphanIs
<1> HIDE DEF o
<1>4. /\ CallsOK(calls', version, logs) /\ PageOK(calls', Fresh(p), p, version, logs)
      /\ \A i \in DOMAIN calls' : calls'[i].op # "login"
  BY <1>1, <1>2, <1>3, Mounted
<1>5. Stored(storage') /\ UiOK(ui') /\ PageOK(calls', ui', active', version, logs)
  BY <1>1, <1>4, SessionMoved, FreshIs DEF IInv, StorageInv, Stored
<1> QED
  BY <1>1, <1>2, <1>4, <1>5, ShownKeeps

\* The tab as it is opened.
LEMMA OpenedIs ==
    ASSUME NEW s, Stored(s), NEW ver \in Nat, NEW lg
    PROVE  LET t == Opened(s) IN
           /\ Stored(t.storage) /\ getSession(t.storage).token = getSession(s).token
           /\ t.authenticated = (getSession(s).token # None)
           /\ CallsOK(t.calls, ver, lg) /\ \A i \in DOMAIN t.calls : t.calls[i].op # "login"
           /\ t.authenticated => PageOK(t.calls, Fresh("overview"), "overview", ver, lg)
           /\ ~t.authenticated => \A i \in DOMAIN t.calls : ~t.calls[i].live
<1> DEFINE stored == getSession(s).storage
           in == getSession(s).token # None
           all == WithLoads(<<>>, stored, "overview", None)
           t == Opened(s)
<1>1. /\ t.storage = stored /\ t.authenticated = in /\ t.calls = IF in THEN all ELSE <<>>
  BY DEF Opened
<1>2. Stored(stored) /\ getSession(stored).token = getSession(s).token
  BY SessionMoved
<1>3. IsSeq(<<>>) /\ DOMAIN <<>> = {}
  BY DEF IsSeq
<1>4. CallsOK(<<>>, ver, lg) /\ \A i \in DOMAIN <<>> : ~<<>>[i].live /\ <<>>[i].op # "login"
  BY <1>3 DEF CallsOK
<1>5. FirstFilter("overview") = None
  BY DEF FirstFilter
<1>6. /\ CallsOK(all, ver, lg) /\ PageOK(all, Fresh("overview"), "overview", ver, lg)
      /\ \A i \in DOMAIN all : all[i].op # "login"
  <2> DEFINE cs == <<>>
             p == "overview"
             f == FirstFilter(p)
  <2>1. CallsOK(cs, ver, lg) /\ \A i \in DOMAIN cs : ~cs[i].live /\ cs[i].op # "login"
    BY <1>4
  <2>2. all = WithLoads(cs, stored, p, f)
    BY <1>5
  <2> HIDE DEF cs, p, stored, all
  <2>3. /\ CallsOK(all, ver, lg) /\ PageOK(all, Fresh(p), p, ver, lg)
        /\ \A i \in DOMAIN all : all[i].op # "login"
    BY <2>1, <2>2, Mounted DEF f
  <2> QED
    BY <2>3 DEF p
<1> HIDE DEF all, t, stored
<1>7. CASE in
  <2>1. t.calls = all /\ t.authenticated = TRUE
    BY <1>1, <1>7
  <2> QED
    BY <1>1, <1>2, <1>6, <2>1 DEF t
<1>8. CASE ~in
  <2>1. t.calls = <<>> /\ t.authenticated = FALSE
    BY <1>1, <1>8
  <2> QED
    BY <1>1, <1>2, <1>3, <1>4, <2>1 DEF t
<1> QED
  BY <1>7, <1>8

LEMMA RefreshKeeps == ASSUME IInv, Refresh PROVE IInv'
<1> DEFINE t == Opened(storage)
<1>1. /\ storage' = t.storage /\ authenticated' = t.authenticated /\ calls' = t.calls
      /\ active' = "overview" /\ ui' = Fresh("overview") /\ login' = NoLogin /\ SameServer
  BY DEF Refresh
<1>2. /\ Stored(t.storage)
      /\ CallsOK(t.calls, version, logs) /\ \A i \in DOMAIN t.calls : t.calls[i].op # "login"
      /\ t.authenticated => PageOK(t.calls, Fresh("overview"), "overview", version, logs)
      /\ ~t.authenticated => \A i \in DOMAIN t.calls : ~t.calls[i].live
  BY OpenedIs DEF IInv, ServerInv, StorageInv, Stored
<1>3. UiOK(ui')
  BY <1>1, FreshIs
<1> HIDE DEF t
<1>4. CASE t.authenticated
  <2>1. PageOK(calls', ui', active', version, logs)
    BY <1>1, <1>2, <1>4
  <2> QED
    BY <1>1, <1>2, <1>3, <1>4, <2>1, NotLoading, ShownKeeps
<1>5. CASE ~t.authenticated
  BY <1>1, <1>2, <1>3, <1>5, NotLoading, LeftKeeps
<1> QED
  BY <1>4, <1>5

LEMMA OtherTabKeeps == ASSUME IInv, OtherTab PROVE IInv'
<1>1. /\ UNCHANGED <<version, logs, calls, authenticated, active, login, ui>>
      /\ \/ issued < MaxTokens /\ issued' = issued + 1 /\ storage' = saveSession(storage, issued + 1)
         \/ storage' = clearSession(storage) /\ issued' = issued
  BY DEF OtherTab
<1>2. MaxTokens \in Nat /\ issued \in 0..MaxTokens /\ Stored(storage)
  BY ClientConstants DEF IInv, ServerInv, StorageInv, Stored
<1>3. issued' \in 0..MaxTokens /\ Stored(storage')
  <2>1. CASE issued < MaxTokens /\ issued' = issued + 1 /\ storage' = saveSession(storage, issued + 1)
    <3>1. issued + 1 \in Tokens /\ issued' \in 0..MaxTokens
      BY <1>2, <2>1 DEF Tokens
    <3> QED
      BY <1>2, <2>1, <3>1, SessionSaved
  <2>2. CASE storage' = clearSession(storage) /\ issued' = issued
    BY <1>2, <2>2, SessionCleared
  <2> QED
    BY <1>1, <2>1, <2>2
<1> QED
  BY <1>1, <1>3 DEF IInv, ServerInv, StorageInv, Stored, CallsInv, UiInv, LoginInv, PageInv

\* A request is answered: with ans, while the server's data goes on to version'.
LEMMA AnsweredKeeps ==
    ASSUME IInv, NEW i \in DOMAIN calls, NEW ans, SetAnswer(i, ans),
           version' \in Nat, version' >= version, logs' => logs, issued' \in 0..MaxTokens,
           UNCHANGED <<storage, authenticated, active, login, ui>>,
           AnswerOK([calls[i] EXCEPT !.ans = ans], version', logs'),
           ans.kind = "ok" /\ Main(calls[i]) => ans.value.ver = version
    PROVE  IInv'
<1> DEFINE cs == [calls EXCEPT ![i].ans = ans]
           next == version'
           lgnext == logs'
<1>1. /\ calls' = cs /\ next \in Nat /\ next >= version
      /\ lgnext => logs
      /\ AnswerOK([calls[i] EXCEPT !.ans = ans], next, lgnext)
  BY DEF SetAnswer
<1>2. CallsOK(calls, version, logs) /\ version \in Nat
  BY DEF IInv, CallsInv, ServerInv
<1> HIDE DEF next, lgnext
<1>3. /\ CallsOK(cs, next, lgnext)
      /\ DOMAIN cs = DOMAIN calls
      /\ \A j \in DOMAIN calls : cs[j].op = calls[j].op /\ cs[j].live = calls[j].live
      /\ \A u, p : PageOK(calls, u, p, version, logs)
                      /\ (ans.kind = "ok" /\ Main(calls[i]) => ans.value.ver >= u.acked)
                   => PageOK(cs, u, p, next, lgnext)
  BY <1>1, <1>2, AnsweredOK
<1> HIDE DEF cs
<1>4. ASSUME authenticated PROVE PageOK(cs, ui, active, next, lgnext)
  <2>1. PageOK(calls, ui, active, version, logs) /\ ui.acked \in 0..version
    BY <1>4 DEF IInv, PageInv, PageOK
  <2>2. ASSUME ans.kind = "ok", Main(calls[i]) PROVE ans.value.ver >= ui.acked
    BY <1>2, <2>1, <2>2
  <2> QED
    BY <1>3, <2>1, <2>2
<1>5. LoginOK(cs, authenticated, login.loading)
  BY <1>3 DEF IInv, LoginInv, LoginOK
<1>6. CallsInv' /\ PageInv' /\ LoginInv'
  BY <1>1, <1>3, <1>4, <1>5 DEF CallsInv, PageInv, LoginInv, next, lgnext
<1> QED
  BY <1>6 DEF IInv, ServerInv, StorageInv, UiInv

LEMMA AnswerKeeps ==
    ASSUME IInv, NEW i \in DOMAIN calls, Answer(i), UNCHANGED <<authenticated, active, login, ui>>
    PROVE  IInv'
<1> DEFINE c == calls[i]
           With(ans) == [c EXCEPT !.ans = ans]
<1>1. /\ version \in Nat /\ issued \in 0..MaxTokens /\ MaxTokens \in Nat
      /\ Function(c, CallFields)
  BY ClientConstants DEF IInv, ServerInv, CallsInv, CallsOK, CallOK
<1>2. ASSUME NEW ans
      PROVE  /\ With(ans).op = c.op /\ With(ans).arg = c.arg /\ With(ans).live = c.live
             /\ With(ans).ans = ans
  BY <1>1 DEF Function, CallFields
<1>3. ASSUME NEW ans, ans.kind # "ok", NEW ver, NEW lg
      PROVE  AnswerOK(With(ans), ver, lg)
  <2> DEFINE w == With(ans)
  <2>1. w.ans = ans
    BY <1>2
  <2> HIDE DEF w
  <2>2. AnswerOK(w, ver, lg)
    BY <1>3, <2>1 DEF AnswerOK
  <2> QED
    BY <2>2 DEF w
<1>4. Unauthorized.kind # "ok" /\ Failed.kind # "ok"
  BY DEF Unauthorized, Failed
<1>5. CASE AnswerLogin(i)
  <2>1. /\ c.op = "login" /\ UNCHANGED <<storage, version, logs>>
        /\ \/ issued < MaxTokens /\ issued' = issued + 1 /\ SetAnswer(i, Ok(issued + 1))
           \/ SetAnswer(i, Unauthorized) /\ issued' = issued
    BY <1>5 DEF AnswerLogin
  <2>2. ~Main(c)
    BY <2>1 DEF Main, MainLoads
  <2>3. version' \in Nat /\ version' >= version /\ (logs' => logs)
    BY <1>1, <2>1
  <2>4. CASE issued < MaxTokens /\ issued' = issued + 1 /\ SetAnswer(i, Ok(issued + 1))
    <3> DEFINE ans == Ok(issued + 1)
               w == With(ans)
    <3>1. issued + 1 \in Tokens /\ issued' \in 0..MaxTokens /\ ans.value = issued + 1
      BY <1>1, <2>4 DEF Tokens, Ok
    <3>2. w.op = "login" /\ w.ans = ans
      BY <1>2, <2>1
    <3> HIDE DEF w, ans
    <3>3. AnswerOK(w, version', logs')
      BY <3>1, <3>2 DEF AnswerOK, Mutations, MainLoads
    <3> QED
      BY <2>1, <2>2, <2>3, <2>4, <3>1, <3>3, AnsweredKeeps DEF w, ans
  <2>5. CASE SetAnswer(i, Unauthorized) /\ issued' = issued
    <3> DEFINE ver == version'
               lg == logs'
    <3>1. AnswerOK(With(Unauthorized), ver, lg)
      <4> HIDE DEF ver, lg
      <4> QED
        BY <1>3, <1>4
    <3> QED
      BY <1>1, <2>1, <2>2, <2>3, <2>5, <3>1, AnsweredKeeps
  <2> QED
    BY <2>1, <2>4, <2>5
<1>6. CASE AnswerRefused(i)
  <2>1. SetAnswer(i, Unauthorized) /\ UNCHANGED <<storage, issued, version, logs>>
    BY <1>6 DEF AnswerRefused
  <2>2. version' \in Nat /\ version' >= version /\ (logs' => logs) /\ issued' \in 0..MaxTokens
    BY <1>1, <2>1
  <2> DEFINE ver == version'
             lg == logs'
  <2>3. AnswerOK(With(Unauthorized), ver, lg)
    <3> HIDE DEF ver, lg
    <3> QED
      BY <1>3, <1>4
  <2> QED
    BY <1>4, <2>1, <2>2, <2>3, AnsweredKeeps
<1>7. CASE AnswerServed(i)
  <2>1. /\ c.op # "login" /\ UNCHANGED <<storage, issued>> /\ logs' = (logs /\ c.op # "clear")
        /\ IF c.op \in Mutations THEN version' = version + 1 ELSE version' = version
        /\ SetAnswer(i, Ok(Answered(c))) \/ SetAnswer(i, Failed)
    BY <1>7 DEF AnswerServed
  <2>2. version' \in Nat /\ version' >= version /\ (logs' => logs) /\ issued' \in 0..MaxTokens
    <3>1. logs' => logs
      BY <2>1, Zenon
    <3> QED
      BY <1>1, <2>1, <3>1
  <2> DEFINE ver == version'
             lg == logs'
  <2>3. CASE SetAnswer(i, Failed)
    <3>1. AnswerOK(With(Failed), ver, lg)
      <4> HIDE DEF ver, lg
      <4> QED
        BY <1>3, <1>4
    <3> QED
      BY <1>4, <2>1, <2>2, <2>3, <3>1, AnsweredKeeps
  <2>4. CASE SetAnswer(i, Ok(Answered(c)))
    <3> DEFINE a == Answered(c)
               ans == Ok(a)
               w == With(ans)
    <3>1. /\ c.op = "logs" => /\ a.key = c.arg /\ a.ver = version
                              /\ a.rows = (c.arg.page <= LogPages(c.arg)) /\ a.pages = LogPages(c.arg)
          /\ c.op \in Mutations => a = ver
          /\ c.op = "load" => a.key = c.arg /\ a.ver = version
      BY DEF Answered, Mutations
    <3>2. w.op = c.op /\ w.arg = c.arg /\ w.live = c.live /\ w.ans = ans
      BY <1>2
    <3>3. ans.value = a
      BY DEF Ok
    <3> HIDE DEF a, w
    <3>4. c.op = "logs" /\ lg => PagesOK(a)
      <4> SUFFICES ASSUME c.op = "logs", lg PROVE PagesOK(a)
        OBVIOUS
      <4>1. logs
        BY <2>2
      <4>2. LogPages(c.arg) = Many(c.arg)
        BY <4>1 DEF LogPages, Many
      <4> QED
        BY <3>1, <4>2 DEF PagesOK
    <3> HIDE DEF ans, c
    <3>5. c.op \in MainLoads => a.key = c.arg /\ a.ver = version /\ version \in 0..ver
      BY <1>1, <2>2, <3>1 DEF MainLoads
    <3>6. c.op \in Mutations => a \in 0..ver
      BY <2>2, <3>1
    <3>7. AnswerOK(w, ver, lg)
      <4> HIDE DEF ver, lg
      <4> QED
        BY <2>1, <3>2, <3>3, <3>4, <3>5, <3>6 DEF AnswerOK
    <3>8. ans.kind = "ok" /\ Main(c) => ans.value.ver = version
      BY <3>3, <3>5 DEF Main
    <3>9. SetAnswer(i, ans) /\ UNCHANGED storage
      BY <2>1, <2>4 DEF ans, a
    <3> QED
      BY <2>2, <3>7, <3>8, <3>9, AnsweredKeeps DEF w, c
  <2> QED
    BY <2>1, <2>3, <2>4
<1> QED
  BY <1>5, <1>6, <1>7 DEF Answer

LEMMA ServerStepKeeps == ASSUME IInv, ServerStep PROVE IInv'
<1>1. CASE \E i \in DOMAIN calls : Answer(i)
  BY <1>1, AnswerKeeps DEF ServerStep
<1>2. CASE Expire
  BY <1>2 DEF Expire, ServerStep, IInv, ServerInv, StorageInv, CallsInv, UiInv, LoginInv, PageInv
<1> QED
  BY <1>1, <1>2 DEF ServerStep

LEMMA InitHolds == ASSUME Init PROVE IInv
<1>1. issued \in {0, 1} /\ version = 0 /\ logs = TRUE
      /\ active = "overview" /\ ui = Fresh("overview") /\ login = NoLogin
  BY DEF Init
<1>2. PICK s \in [session : {None, Corrupt, Tokenless} \cup 1..issued, legacy : {None} \cup 1..issued] :
         /\ storage = Opened(s).storage
         /\ authenticated = Opened(s).authenticated
         /\ calls = Opened(s).calls
  BY DEF Init
<1>3. Stored(s)
  BY <1>2 DEF Stored, Function
<1> DEFINE t == Opened(s)
<1>4. version \in Nat
  BY <1>1
<1>5. /\ Stored(t.storage)
      /\ CallsOK(t.calls, version, logs) /\ \A i \in DOMAIN t.calls : t.calls[i].op # "login"
      /\ t.authenticated => PageOK(t.calls, Fresh("overview"), "overview", version, logs)
      /\ ~t.authenticated => \A i \in DOMAIN t.calls : ~t.calls[i].live
  BY <1>3, <1>4, OpenedIs
<1>6. ServerInv
  BY <1>1, ClientConstants DEF ServerInv
<1>7. StorageInv /\ CallsInv /\ PageInv
  BY <1>1, <1>2, <1>5 DEF StorageInv, Stored, CallsInv, PageInv
<1>8. UiInv
  BY <1>1, FreshIs DEF UiInv
<1>9. ~login.loading
  BY <1>1, NotLoading
<1>10. LoginInv
  BY <1>2, <1>5, <1>9 DEF LoginInv, LoginOK
<1> QED
  BY <1>6, <1>7, <1>8, <1>10 DEF IInv

LEMMA NextKeeps == ASSUME IInv, [Next]_vars PROVE IInv'
<1>1. CASE UNCHANGED vars
  BY <1>1 DEF vars, clientVars, IInv, ServerInv, StorageInv, CallsInv, UiInv, LoginInv, PageInv
<1>2. CASE Next
  BY <1>2, PageActionKeeps, DeliverKeeps, SubmitKeeps, LogoutKeeps, RefreshKeeps, OtherTabKeeps,
     NavigateKeeps, ServerStepKeeps DEF Next
<1> QED
  BY <1>1, <1>2

\* The state of every action and answer is one the invariant describes.
THEOREM Invariance == Spec => []IInv
<1>1. Init => IInv
  BY InitHolds
<1>2. IInv /\ [Next]_vars => IInv'
  BY NextKeeps
<1> QED
  BY <1>1, <1>2, PTL DEF Spec

(***************************************************************************)
(* What it means for the user.                                             *)
(***************************************************************************)
\* ClientsPage.loadDetail: whatever the order of the answers, the drawer shows
\* the client asked for last, and nothing once it was closed.
THEOREM DrawerCorrect == Spec => []DrawerShowsAsked
<1>1. IInv => DrawerShowsAsked
  BY DEF IInv, PageInv, PageOK, DetailOK, DrawerShowsAsked
<1> QED
  BY <1>1, Invariance, PTL

\* A table at rest shows its filter and the page's own changes.
LEMMA AtRest ==
    ASSUME IInv, Settled
    PROVE  PageOK(calls, ui, active, version, logs) /\ Shown(ui)
<1>1. authenticated /\ ui.main.data # None /\ ~ui.main.late /\ ~LaterMain(calls, 0)
  BY DEF Settled, LaterMain, Main
<1>2. PageOK(calls, ui, active, version, logs)
  BY <1>1 DEF IInv, PageInv
<1> QED
  BY <1>1, <1>2 DEF PageOK, ViewOK

\* useAsync with the pages' filters: a table at rest belongs to the filter on the
\* screen, unless an older answer came last.
THEOREM FilterShown == Spec => []SettledShowsFilter
<1>1. IInv => SettledShowsFilter
  BY AtRest DEF Shown, SettledShowsFilter
<1> QED
  BY <1>1, Invariance, PTL

\* The handlers that reload after their change: a table at rest contains every
\* change of the page that was confirmed.
THEOREM ChangesShown == Spec => []OwnChangesShown
<1>1. IInv => OwnChangesShown
  BY AtRest DEF Shown, OwnChangesShown
<1> QED
  BY <1>1, Invariance, PTL

\* LogsPage: while loads do not overlap and nobody clears the table, the filter
\* stays on a page that has entries.
THEOREM LogsShown == Spec => []LogsNotHidden
<1>1. ASSUME IInv, Settled, active = "logs", logs, ~ui.overlap
      PROVE  ui.main.data.rows
  <2>1. LogsOK(calls, ui, logs) /\ ui.main.data.key = ui.filter /\ ui.main.data # None
    BY <1>1, AtRest DEF PageOK, Shown, Settled
  <2>2. PagesOK(ui.main.data) /\ ui.filter.page \in 1..Many(ui.filter)
    BY <1>1, <2>1 DEF LogsOK, AloneOK
  <2>3. ui.filter.page <= Many(ui.filter)
    BY <2>2 DEF Many
  <2> QED
    BY <2>1, <2>2, <2>3 DEF PagesOK
<1>2. IInv => LogsNotHidden
  BY <1>1 DEF LogsNotHidden
<1> QED
  BY <1>2, Invariance, PTL

\* useAsync and LoginPage: a spinner always has a request that will stop it.
THEOREM SpinnerStops == Spec => []SpinnerAwaited
<1>1. ASSUME IInv, authenticated, ui.main.loading
      PROVE  \E i \in DOMAIN calls : calls[i].live /\ calls[i].op \in MainLoads
  BY <1>1 DEF IInv, PageInv, PageOK, ViewOK, LaterMain, Main
<1>2. ASSUME IInv, login.loading
      PROVE  ~authenticated /\ \E i \in DOMAIN calls : calls[i].op = "login"
  BY <1>2 DEF IInv, LoginInv, LoginOK
<1>3. IInv => SpinnerAwaited
  BY <1>1, <1>2 DEF SpinnerAwaited
<1> QED
  BY <1>3, Invariance, PTL

(***************************************************************************)
(* What a step does with the session.                                      *)
(***************************************************************************)
Token(s) == getSession(s).token

\* The session is as it was, ended together with the pages, or started with them;
\* a reloaded tab shows the pages when there is one; another tab may do either.
SessionStep ==
    \/ Token(storage') = Token(storage) /\ authenticated' = authenticated
    \/ Token(storage') = None /\ ~authenticated'
    \/ Token(storage') # None /\ authenticated'
    \/ Token(storage') = Token(storage) /\ authenticated' = (Token(storage) # None)
    \/ OtherTab /\ authenticated' = authenticated

LEMMA SessionSteps == ASSUME IInv, [Next]_vars PROVE SessionStep
<1>1. Stored(storage)
  BY DEF IInv, StorageInv, Stored
<1>2. ASSUME storage' = storage \/ storage' = getSession(storage).storage,
             authenticated' = authenticated
      PROVE  SessionStep
  BY <1>1, <1>2, SessionMoved DEF SessionStep, Token
<1>3. ASSUME storage' = clearSession(storage), authenticated' = FALSE
      PROVE  SessionStep
  BY <1>3, SessionCleared DEF SessionStep, Token
<1>4. CASE UNCHANGED vars
  BY <1>2, <1>4 DEF vars, clientVars
<1>5. CASE PageAction
  BY <1>2, <1>5
  DEF PageAction, Reload, SetRange, ApplySearch, SetLevel, SetPage, FilterTo, ReloadAll, Send,
      ViewClient, OpenEditor, CloseDetail, CancelEditor, SaveEdit, ResetToken, CloseSecret,
      RemoveRow, OpenCreate, CancelCreate, Create, Disable, ClearLogs, Download, ChangePassword,
      SaveSetting, SameShell, clientVars
<1>6. ASSUME NEW i \in DOMAIN calls, Deliver(i) PROVE SessionStep
  <2>1. CASE DeliverUnauthorized(i)
    BY <1>3, <2>1 DEF DeliverUnauthorized
  <2>2. CASE DeliverLogin(i)
    <3>1. CASE UNCHANGED <<storage, authenticated>>
      BY <1>2, <3>1
    <3>2. CASE /\ calls[i].ans.kind = "ok" /\ authenticated' = TRUE
               /\ storage' = saveSession(storage, calls[i].ans.value)
      <4> DEFINE token == calls[i].ans.value
      <4>1. token \in Tokens
        BY <2>2, <3>2 DEF DeliverLogin, IInv, CallsInv, CallsOK, CallOK, AnswerOK
      <4>2. storage' = saveSession(storage, token)
        BY <3>2
      <4> HIDE DEF token
      <4>3. Token(storage') = token
        BY <1>1, <4>1, <4>2, SessionSaved DEF Token
      <4>4. token # None
        BY <4>1, ClientConstants DEF Tokens
      <4> QED
        BY <3>2, <4>3, <4>4 DEF SessionStep
    <3> QED
      BY <2>2, <3>1, <3>2 DEF DeliverLogin
  <2>3. CASE DeliverLoad(i) \/ DeliverDetail(i) \/ DeliverChange(i) \/ DeliverDropped(i)
    BY <1>2, <2>3 DEF DeliverLoad, DeliverDetail, DeliverChange, DeliverDropped, SameShell
  <2> QED
    BY <1>6, <2>1, <2>2, <2>3 DEF Deliver
<1>7. CASE Submit
  BY <1>2, <1>7 DEF Submit
<1>8. CASE Logout
  BY <1>3, <1>8 DEF Logout
<1>9. CASE Refresh
  <2>1. storage' = Opened(storage).storage /\ authenticated' = Opened(storage).authenticated
    BY <1>9 DEF Refresh
  <2>2. /\ Token(Opened(storage).storage) = Token(storage)
        /\ Opened(storage).authenticated = (Token(storage) # None)
    BY <1>1, OpenedIs, 0 \in Nat DEF Token
  <2> QED
    BY <2>1, <2>2 DEF SessionStep
<1>10. CASE OtherTab
  BY <1>10 DEF OtherTab, SessionStep
<1>11. ASSUME NEW p, Navigate(p) PROVE SessionStep
  BY <1>2, <1>11 DEF Navigate
<1>12. CASE ServerStep
  BY <1>2, <1>12 DEF ServerStep, Answer, AnswerLogin, AnswerRefused, AnswerServed, Expire
<1> QED
  BY <1>4, <1>5, <1>6, <1>7, <1>8, <1>9, <1>10, <1>11, <1>12 DEF Next

\* clearSession and DashboardApp: when the pages are left, nothing stored lets a
\* reloaded tab back in.
THEOREM LogoutFinal == Spec => LogoutIsFinal
<1>1. ASSUME IInv, [Next]_vars
      PROVE  authenticated /\ ~authenticated' => getSession(storage').token = None
  <2>1. SessionStep
    BY <1>1, SessionSteps
  <2> QED
    BY <2>1 DEF SessionStep, Token
<1>2. IInv /\ [Next]_vars => [authenticated /\ ~authenticated' => getSession(storage').token = None]_vars
  BY <1>1
<1> QED
  BY <1>2, Invariance, PTL DEF Spec, LogoutIsFinal

\* handleUnauthorized and getSession: this tab never loses its session and keeps
\* the pages; only another tab can take it away.
THEOREM PagesHaveSession == Spec => PagesNeedSession
<1>1. ASSUME IInv, [Next]_vars
      PROVE  getSession(storage).token # None /\ getSession(storage').token = None
                => ~authenticated' \/ OtherTab
  <2>1. SessionStep
    BY <1>1, SessionSteps
  <2> QED
    BY <2>1 DEF SessionStep, Token
<1>2. IInv /\ [Next]_vars =>
         [getSession(storage).token # None /\ getSession(storage').token = None
             => ~authenticated' \/ OtherTab]_vars
  BY <1>1
<1> QED
  BY <1>2, Invariance, PTL DEF Spec, PagesNeedSession

(***************************************************************************)
(* The error texts: mappedErrorMessage takes the first rule that applies.  *)
(***************************************************************************)
\* Rule j of the table applies to message m.
RuleApplies(j, m) == \E s \in mappedErrorRules[j].sets : s \subseteq m

\* The least member of a set of numbers.
LEMMA MinIs ==
    ASSUME NEW S \in SUBSET Nat, NEW i \in S, \A j \in S : i <= j
    PROVE  Min(S) = i
<1>1. \A x \in S : (\A y \in S : x =< y) => x = i
  OBVIOUS
<1> QED BY <1>1, Zenon DEF Min

\* The rule before which none applies gives the advice.
LEMMA FirstRule ==
    ASSUME NEW m, NEW i \in 1..Len(mappedErrorRules), Len(mappedErrorRules) \in Nat,
           RuleApplies(i, m), \A j \in 1..(i - 1) : ~RuleApplies(j, m)
    PROVE  mappedErrorMessage(m) = mappedErrorRules[i].advice
<1> DEFINE Applies(r) == \E s \in r.sets : s \subseteq m
           I == {j \in 1..Len(mappedErrorRules) : Applies(mappedErrorRules[j])}
<1>1. I \subseteq Nat /\ i \in I /\ \A j \in I : i <= j
  BY DEF RuleApplies
<1>2. Min(I) = i /\ i # 0
  BY <1>1, MinIs
<1>3. SelectInSeq(mappedErrorRules, Applies) = i
  BY <1>1, <1>2, Zenon DEF SelectInSeq
<1> QED BY <1>2, <1>3 DEF mappedErrorMessage

\* The table, row by row.
LEMMA Table ==
    /\ Len(mappedErrorRules) = 20
    /\ mappedErrorRules[1].advice = "unauthorized"
    /\ mappedErrorRules[1].sets = {{"unauthorized"}, {"unauthenticated"}}
    /\ mappedErrorRules[2].advice = "forbidden"
    /\ mappedErrorRules[2].sets = {{"forbidden"}, {"permission denied"}}
    /\ mappedErrorRules[3].advice = "not found" /\ mappedErrorRules[3].sets = {{"not found"}}
    /\ mappedErrorRules[4].advice = "server"
    /\ mappedErrorRules[4].sets = {{"internal server error"}}
    /\ mappedErrorRules[5].advice = "bad request"
    /\ mappedErrorRules[5].sets = {{"bad request"}, {"invalid request"}}
    /\ mappedErrorRules[6].advice = "credentials"
    /\ mappedErrorRules[6].sets = {{"invalid credentials"}, {"invalid username"}, {"invalid password"}}
    /\ mappedErrorRules[7].advice = "plain listen"
    /\ mappedErrorRules[7].sets = {{"plain_listen", "plain_data_listen", "required"}}
    /\ mappedErrorRules[8].advice = "certbot"
    /\ mappedErrorRules[8].sets = {{"certbot", "not found"}}
    /\ mappedErrorRules[9].advice = "base domain"
    /\ mappedErrorRules[9].sets = {{"base_domain", "required"}}
    /\ mappedErrorRules[10].advice = "subdomain"
    /\ mappedErrorRules[10].sets = {{"could not allocate", "subdomain"}}
    /\ mappedErrorRules[11].advice = "label"
    /\ mappedErrorRules[11].sets = {{"fully qualified"}, {"invalid label"}}
    /\ mappedErrorRules[12].advice = "domain"
    /\ mappedErrorRules[12].sets = {{"domain", "required"}}
    /\ mappedErrorRules[13].advice = "wildcard" /\ mappedErrorRules[13].sets = {{"wildcard"}}
    /\ mappedErrorRules[14].advice = "email"
    /\ mappedErrorRules[14].sets = {{"email", "required"}}
    /\ mappedErrorRules[15].advice = "dns" /\ mappedErrorRules[15].sets = {{"dns"}}
    /\ mappedErrorRules[16].advice = "port 80"
    /\ mappedErrorRules[16].sets = {{"port 80"}, {"tcp/80"}}
    /\ mappedErrorRules[17].advice = "certificate"
    /\ mappedErrorRules[17].sets = {{"certificate"}, {"letsencrypt"}}
    /\ mappedErrorRules[18].advice = "boolean"
    /\ mappedErrorRules[18].sets = {{"setting value must be a boolean"}}
    /\ mappedErrorRules[19].advice = "expired"
    /\ mappedErrorRules[19].sets = {{"token expired"}, {"expired token"}}
    /\ mappedErrorRules[20].advice = "network"
    /\ mappedErrorRules[20].sets = {{"network error"}, {"failed to fetch"}}
BY DEF mappedErrorRules, Rule

\* When each row applies.
Rows(m) ==
    /\ RuleApplies(1, m) <=> "unauthorized" \in m \/ "unauthenticated" \in m
    /\ RuleApplies(2, m) <=> "forbidden" \in m \/ "permission denied" \in m
    /\ RuleApplies(3, m) <=> "not found" \in m
    /\ RuleApplies(4, m) <=> "internal server error" \in m
    /\ RuleApplies(5, m) <=> "bad request" \in m \/ "invalid request" \in m
    /\ RuleApplies(6, m) <=> "invalid credentials" \in m \/ "invalid username" \in m \/ "invalid password" \in m
    /\ RuleApplies(7, m) <=> "plain_listen" \in m /\ "plain_data_listen" \in m /\ "required" \in m
    /\ RuleApplies(8, m) <=> "certbot" \in m /\ "not found" \in m
    /\ RuleApplies(9, m) <=> "base_domain" \in m /\ "required" \in m
    /\ RuleApplies(10, m) <=> "could not allocate" \in m /\ "subdomain" \in m
    /\ RuleApplies(11, m) <=> "fully qualified" \in m \/ "invalid label" \in m
    /\ RuleApplies(12, m) <=> "domain" \in m /\ "required" \in m
    /\ RuleApplies(13, m) <=> "wildcard" \in m
    /\ RuleApplies(14, m) <=> "email" \in m /\ "required" \in m
    /\ RuleApplies(15, m) <=> "dns" \in m
    /\ RuleApplies(16, m) <=> "port 80" \in m \/ "tcp/80" \in m
    /\ RuleApplies(17, m) <=> "certificate" \in m \/ "letsencrypt" \in m
    /\ RuleApplies(18, m) <=> "setting value must be a boolean" \in m
    /\ RuleApplies(19, m) <=> "token expired" \in m \/ "expired token" \in m
    /\ RuleApplies(20, m) <=> "network error" \in m \/ "failed to fetch" \in m

\* Which phrases a message needs for each row.
LEMMA Phrases == ASSUME NEW m PROVE Rows(m)
<1>1. RuleApplies(1, m) <=> "unauthorized" \in m \/ "unauthenticated" \in m
  <2>1. mappedErrorRules[1].sets = {{"unauthorized"}, {"unauthenticated"}}
    BY Table
  <2>2. RuleApplies(1, m) <=> \E s \in {{"unauthorized"}, {"unauthenticated"}} : s \subseteq m
    BY <2>1, Zenon DEF RuleApplies
  <2> QED
    BY <2>2, Zenon
<1>2. RuleApplies(2, m) <=> "forbidden" \in m \/ "permission denied" \in m
  <2>1. mappedErrorRules[2].sets = {{"forbidden"}, {"permission denied"}}
    BY Table
  <2>2. RuleApplies(2, m) <=> \E s \in {{"forbidden"}, {"permission denied"}} : s \subseteq m
    BY <2>1, Zenon DEF RuleApplies
  <2> QED
    BY <2>2, Zenon
<1>3. RuleApplies(3, m) <=> "not found" \in m
  <2>1. mappedErrorRules[3].sets = {{"not found"}}
    BY Table
  <2>2. RuleApplies(3, m) <=> \E s \in {{"not found"}} : s \subseteq m
    BY <2>1, Zenon DEF RuleApplies
  <2> QED
    BY <2>2, Zenon
<1>4. RuleApplies(4, m) <=> "internal server error" \in m
  <2>1. mappedErrorRules[4].sets = {{"internal server error"}}
    BY Table
  <2>2. RuleApplies(4, m) <=> \E s \in {{"internal server error"}} : s \subseteq m
    BY <2>1, Zenon DEF RuleApplies
  <2> QED
    BY <2>2, Zenon
<1>5. RuleApplies(5, m) <=> "bad request" \in m \/ "invalid request" \in m
  <2>1. mappedErrorRules[5].sets = {{"bad request"}, {"invalid request"}}
    BY Table
  <2>2. RuleApplies(5, m) <=> \E s \in {{"bad request"}, {"invalid request"}} : s \subseteq m
    BY <2>1, Zenon DEF RuleApplies
  <2> QED
    BY <2>2, Zenon
<1>6. RuleApplies(6, m) <=> "invalid credentials" \in m \/ "invalid username" \in m \/ "invalid password" \in m
  <2>1. mappedErrorRules[6].sets = {{"invalid credentials"}, {"invalid username"}, {"invalid password"}}
    BY Table
  <2>2. RuleApplies(6, m) <=> \E s \in {{"invalid credentials"}, {"invalid username"}, {"invalid password"}} : s \subseteq m
    BY <2>1, Zenon DEF RuleApplies
  <2> QED
    BY <2>2, Zenon
<1>7. RuleApplies(7, m) <=> "plain_listen" \in m /\ "plain_data_listen" \in m /\ "required" \in m
  <2>1. mappedErrorRules[7].sets = {{"plain_listen", "plain_data_listen", "required"}}
    BY Table
  <2>2. RuleApplies(7, m) <=> \E s \in {{"plain_listen", "plain_data_listen", "required"}} : s \subseteq m
    BY <2>1, Zenon DEF RuleApplies
  <2> QED
    BY <2>2, Zenon
<1>8. RuleApplies(8, m) <=> "certbot" \in m /\ "not found" \in m
  <2>1. mappedErrorRules[8].sets = {{"certbot", "not found"}}
    BY Table
  <2>2. RuleApplies(8, m) <=> \E s \in {{"certbot", "not found"}} : s \subseteq m
    BY <2>1, Zenon DEF RuleApplies
  <2> QED
    BY <2>2, Zenon
<1>9. RuleApplies(9, m) <=> "base_domain" \in m /\ "required" \in m
  <2>1. mappedErrorRules[9].sets = {{"base_domain", "required"}}
    BY Table
  <2>2. RuleApplies(9, m) <=> \E s \in {{"base_domain", "required"}} : s \subseteq m
    BY <2>1, Zenon DEF RuleApplies
  <2> QED
    BY <2>2, Zenon
<1>10. RuleApplies(10, m) <=> "could not allocate" \in m /\ "subdomain" \in m
  <2>1. mappedErrorRules[10].sets = {{"could not allocate", "subdomain"}}
    BY Table
  <2>2. RuleApplies(10, m) <=> \E s \in {{"could not allocate", "subdomain"}} : s \subseteq m
    BY <2>1, Zenon DEF RuleApplies
  <2> QED
    BY <2>2, Zenon
<1>11. RuleApplies(11, m) <=> "fully qualified" \in m \/ "invalid label" \in m
  <2>1. mappedErrorRules[11].sets = {{"fully qualified"}, {"invalid label"}}
    BY Table
  <2>2. RuleApplies(11, m) <=> \E s \in {{"fully qualified"}, {"invalid label"}} : s \subseteq m
    BY <2>1, Zenon DEF RuleApplies
  <2> QED
    BY <2>2, Zenon
<1>12. RuleApplies(12, m) <=> "domain" \in m /\ "required" \in m
  <2>1. mappedErrorRules[12].sets = {{"domain", "required"}}
    BY Table
  <2>2. RuleApplies(12, m) <=> \E s \in {{"domain", "required"}} : s \subseteq m
    BY <2>1, Zenon DEF RuleApplies
  <2> QED
    BY <2>2, Zenon
<1>13. RuleApplies(13, m) <=> "wildcard" \in m
  <2>1. mappedErrorRules[13].sets = {{"wildcard"}}
    BY Table
  <2>2. RuleApplies(13, m) <=> \E s \in {{"wildcard"}} : s \subseteq m
    BY <2>1, Zenon DEF RuleApplies
  <2> QED
    BY <2>2, Zenon
<1>14. RuleApplies(14, m) <=> "email" \in m /\ "required" \in m
  <2>1. mappedErrorRules[14].sets = {{"email", "required"}}
    BY Table
  <2>2. RuleApplies(14, m) <=> \E s \in {{"email", "required"}} : s \subseteq m
    BY <2>1, Zenon DEF RuleApplies
  <2> QED
    BY <2>2, Zenon
<1>15. RuleApplies(15, m) <=> "dns" \in m
  <2>1. mappedErrorRules[15].sets = {{"dns"}}
    BY Table
  <2>2. RuleApplies(15, m) <=> \E s \in {{"dns"}} : s \subseteq m
    BY <2>1, Zenon DEF RuleApplies
  <2> QED
    BY <2>2, Zenon
<1>16. RuleApplies(16, m) <=> "port 80" \in m \/ "tcp/80" \in m
  <2>1. mappedErrorRules[16].sets = {{"port 80"}, {"tcp/80"}}
    BY Table
  <2>2. RuleApplies(16, m) <=> \E s \in {{"port 80"}, {"tcp/80"}} : s \subseteq m
    BY <2>1, Zenon DEF RuleApplies
  <2> QED
    BY <2>2, Zenon
<1>17. RuleApplies(17, m) <=> "certificate" \in m \/ "letsencrypt" \in m
  <2>1. mappedErrorRules[17].sets = {{"certificate"}, {"letsencrypt"}}
    BY Table
  <2>2. RuleApplies(17, m) <=> \E s \in {{"certificate"}, {"letsencrypt"}} : s \subseteq m
    BY <2>1, Zenon DEF RuleApplies
  <2> QED
    BY <2>2, Zenon
<1>18. RuleApplies(18, m) <=> "setting value must be a boolean" \in m
  <2>1. mappedErrorRules[18].sets = {{"setting value must be a boolean"}}
    BY Table
  <2>2. RuleApplies(18, m) <=> \E s \in {{"setting value must be a boolean"}} : s \subseteq m
    BY <2>1, Zenon DEF RuleApplies
  <2> QED
    BY <2>2, Zenon
<1>19. RuleApplies(19, m) <=> "token expired" \in m \/ "expired token" \in m
  <2>1. mappedErrorRules[19].sets = {{"token expired"}, {"expired token"}}
    BY Table
  <2>2. RuleApplies(19, m) <=> \E s \in {{"token expired"}, {"expired token"}} : s \subseteq m
    BY <2>1, Zenon DEF RuleApplies
  <2> QED
    BY <2>2, Zenon
<1>20. RuleApplies(20, m) <=> "network error" \in m \/ "failed to fetch" \in m
  <2>1. mappedErrorRules[20].sets = {{"network error"}, {"failed to fetch"}}
    BY Table
  <2>2. RuleApplies(20, m) <=> \E s \in {{"network error"}, {"failed to fetch"}} : s \subseteq m
    BY <2>1, Zenon DEF RuleApplies
  <2> QED
    BY <2>2, Zenon
<1> QED
  BY <1>1, <1>2, <1>3, <1>4, <1>5, <1>6, <1>7, <1>8, <1>9, <1>10,
     <1>11, <1>12, <1>13, <1>14, <1>15, <1>16, <1>17, <1>18, <1>19, <1>20 DEF Rows

\* The phrases of a message.
LEMMA InMessage ==
    ASSUME NEW s, NEW x
    PROVE  x \in Message(s) <=>
              x \in s \/ (x = "domain" /\ ("base_domain" \in s \/ "subdomain" \in s))
BY DEF Message

\* Rule k is the first one that applies to m.
FirstFor(k, m) == k \in 1..20 /\ RuleApplies(k, m) /\ \A j \in 1..(k - 1) : ~RuleApplies(j, m)

\* The same for the twenty rows.
LEMMA FirstOfTable ==
    ASSUME NEW m, NEW i, FirstFor(i, m)
    PROVE  mappedErrorMessage(m) = mappedErrorRules[i].advice
<1>1. Len(mappedErrorRules) = 20 /\ 20 \in Nat
  BY Table
<1> QED
  BY <1>1, FirstRule DEF FirstFor

\* toMessage and errorMessage: an answer that is not ok is shown in the words of
\* its body, or of its status line when it has none.
LEMMA ApiText ==
    ASSUME NEW n, n # 404, NEW line, NEW s
    PROVE  /\ s # {} => toMessage(ApiError(n, line, s)) = localizedErrorMessage(Message(s), line)
           /\ s = {} => toMessage(ApiError(n, line, s)) = localizedErrorMessage(line, {})
<1> DEFINE e == ApiError(n, line, s)
           payload == [hasError |-> s # {}, text |-> s]
<1>1. e.kind = "api" /\ e.status = n /\ e.statusText = line /\ e.payload = payload
  BY DEF ApiError
<1>2. payload.text = s
  OBVIOUS
<1>3. payload.hasError = (s # {})
  BY Zenon
<1> HIDE DEF e, payload
<1>4. toMessage(e) = errorMessage(payload, line)
  BY <1>1 DEF toMessage
<1>5. /\ s # {} => errorMessage(payload, line) = localizedErrorMessage(Message(s), line)
      /\ s = {} => errorMessage(payload, line) = localizedErrorMessage(line, {})
  BY <1>2, <1>3, Zenon DEF errorMessage
<1> QED
  BY <1>4, <1>5 DEF e

\* A rule gave this text.
IsAdvice(text) == text # ""

\* localizedErrorMessage: the advice of a rule that the body's words select.
LEMMA MessageShown ==
    ASSUME NEW n, n # 404, NEW line, NEW s, s # {}, "chinese" \notin s,
           IsAdvice(mappedErrorMessage(Message(s)))
    PROVE  toMessage(ApiError(n, line, s)) = mappedErrorMessage(Message(s))
<1>1. "chinese" \notin Message(s)
  BY DEF Message
<1>2. s # {} => toMessage(ApiError(n, line, s)) = localizedErrorMessage(Message(s), line)
  BY ApiText
<1>3. toMessage(ApiError(n, line, s)) = localizedErrorMessage(Message(s), line)
  BY <1>2
<1> QED
  BY <1>1, <1>3, Zenon DEF localizedErrorMessage, IsAdvice

\* The advice of a rule that the status line selects.
LEMMA LineShown ==
    ASSUME NEW n, n # 404, NEW line, "chinese" \notin line,
           IsAdvice(mappedErrorMessage(line))
    PROVE  toMessage(ApiError(n, line, {})) = mappedErrorMessage(line)
<1>1. toMessage(ApiError(n, line, {})) = localizedErrorMessage(line, {})
  BY ApiText
<1> QED
  BY <1>1, Zenon DEF localizedErrorMessage, IsAdvice

\* A text that is not yet Chinese.
IsText(s) == s # {} /\ "chinese" \notin s

\* The first row that applies to an error text is the one shown.
LEMMA RowShown ==
    ASSUME NEW s, IsText(s), NEW k, FirstFor(k, Message(s)), IsAdvice(mappedErrorRules[k].advice)
    PROVE  toMessage(ApiError(400, {}, s)) = mappedErrorRules[k].advice
<1>1. mappedErrorMessage(Message(s)) = mappedErrorRules[k].advice
  BY FirstOfTable
<1>2. IsAdvice(mappedErrorMessage(Message(s))) /\ 400 # 404
  BY <1>1
<1>3. toMessage(ApiError(400, {}, s)) = mappedErrorMessage(Message(s))
  BY <1>2, MessageShown DEF IsText
<1> QED
  BY <1>1, <1>3

\* A row's own words select it, but for Certbot's.
LEMMA RowChosen ==
    ASSUME NEW i \in 1..20, NEW s \in mappedErrorRules[i].sets
    PROVE  toMessage(ApiError(400, {}, s)) =
              IF mappedErrorRules[i].advice = "certbot" THEN "not found"
              ELSE mappedErrorRules[i].advice
<1> DEFINE m == Message(s)
<1>a. \A x : x \in m <=> x \in s \/ (x = "domain" /\ ("base_domain" \in s \/ "subdomain" \in s))
  BY InMessage
<1> HIDE DEF m
<1>b. Rows(m)
  BY Phrases
<1>c. \/ i = 1 \/ i = 2 \/ i = 3 \/ i = 4 \/ i = 5 \/ i = 6 \/ i = 7 \/ i = 8
      \/ i = 9 \/ i = 10 \/ i = 11 \/ i = 12 \/ i = 13 \/ i = 14 \/ i = 15 \/ i = 16
      \/ i = 17 \/ i = 18 \/ i = 19 \/ i = 20
  OBVIOUS
<1>1. CASE i = 1
  <2>1. s \in {{"unauthorized"}, {"unauthenticated"}}
    BY <1>1, Table
  <2>2. m \subseteq {"unauthorized", "unauthenticated"} /\ IsText(s)
    BY <1>a, <2>1 DEF IsText
  <2>3. RuleApplies(1, m)
    BY <1>a, <1>b, <2>1 DEF Rows
  <2>5. FirstFor(1, m)
    BY <2>3 DEF FirstFor
  <2>6. mappedErrorRules[1].advice = "unauthorized"
    BY Table
  <2>7. IsAdvice(mappedErrorRules[1].advice)
    BY <2>6 DEF IsAdvice
  <2>8. toMessage(ApiError(400, {}, s)) = mappedErrorRules[1].advice
    BY <2>2, <2>5, <2>7, RowShown, Zenon DEF m
  <2> QED
    BY <1>1, <2>6, <2>8
<1>2. CASE i = 2
  <2>1. s \in {{"forbidden"}, {"permission denied"}}
    BY <1>2, Table
  <2>2. m \subseteq {"forbidden", "permission denied"} /\ IsText(s)
    BY <1>a, <2>1 DEF IsText
  <2>3. RuleApplies(2, m)
    BY <1>a, <1>b, <2>1 DEF Rows
  <2>4. /\ ~RuleApplies(1, m)
    BY <1>b, <2>2 DEF Rows
  <2>5. FirstFor(2, m)
    BY <2>3, <2>4 DEF FirstFor
  <2>6. mappedErrorRules[2].advice = "forbidden"
    BY Table
  <2>7. IsAdvice(mappedErrorRules[2].advice)
    BY <2>6 DEF IsAdvice
  <2>8. toMessage(ApiError(400, {}, s)) = mappedErrorRules[2].advice
    BY <2>2, <2>5, <2>7, RowShown, Zenon DEF m
  <2> QED
    BY <1>2, <2>6, <2>8
<1>3. CASE i = 3
  <2>1. s \in {{"not found"}}
    BY <1>3, Table
  <2>2. m \subseteq {"not found"} /\ IsText(s)
    BY <1>a, <2>1 DEF IsText
  <2>3. RuleApplies(3, m)
    BY <1>a, <1>b, <2>1 DEF Rows
  <2>4. /\ ~RuleApplies(1, m) /\ ~RuleApplies(2, m)
    BY <1>b, <2>2 DEF Rows
  <2>5. FirstFor(3, m)
    BY <2>3, <2>4 DEF FirstFor
  <2>6. mappedErrorRules[3].advice = "not found"
    BY Table
  <2>7. IsAdvice(mappedErrorRules[3].advice)
    BY <2>6 DEF IsAdvice
  <2>8. toMessage(ApiError(400, {}, s)) = mappedErrorRules[3].advice
    BY <2>2, <2>5, <2>7, RowShown, Zenon DEF m
  <2> QED
    BY <1>3, <2>6, <2>8
<1>4. CASE i = 4
  <2>1. s \in {{"internal server error"}}
    BY <1>4, Table
  <2>2. m \subseteq {"internal server error"} /\ IsText(s)
    BY <1>a, <2>1 DEF IsText
  <2>3. RuleApplies(4, m)
    BY <1>a, <1>b, <2>1 DEF Rows
  <2>4. /\ ~RuleApplies(1, m) /\ ~RuleApplies(2, m) /\ ~RuleApplies(3, m)
    BY <1>b, <2>2 DEF Rows
  <2>5. FirstFor(4, m)
    BY <2>3, <2>4 DEF FirstFor
  <2>6. mappedErrorRules[4].advice = "server"
    BY Table
  <2>7. IsAdvice(mappedErrorRules[4].advice)
    BY <2>6 DEF IsAdvice
  <2>8. toMessage(ApiError(400, {}, s)) = mappedErrorRules[4].advice
    BY <2>2, <2>5, <2>7, RowShown, Zenon DEF m
  <2> QED
    BY <1>4, <2>6, <2>8
<1>5. CASE i = 5
  <2>1. s \in {{"bad request"}, {"invalid request"}}
    BY <1>5, Table
  <2>2. m \subseteq {"bad request", "invalid request"} /\ IsText(s)
    BY <1>a, <2>1 DEF IsText
  <2>3. RuleApplies(5, m)
    BY <1>a, <1>b, <2>1 DEF Rows
  <2>4. /\ ~RuleApplies(1, m) /\ ~RuleApplies(2, m) /\ ~RuleApplies(3, m) /\ ~RuleApplies(4, m)
    BY <1>b, <2>2 DEF Rows
  <2>5. FirstFor(5, m)
    BY <2>3, <2>4 DEF FirstFor
  <2>6. mappedErrorRules[5].advice = "bad request"
    BY Table
  <2>7. IsAdvice(mappedErrorRules[5].advice)
    BY <2>6 DEF IsAdvice
  <2>8. toMessage(ApiError(400, {}, s)) = mappedErrorRules[5].advice
    BY <2>2, <2>5, <2>7, RowShown, Zenon DEF m
  <2> QED
    BY <1>5, <2>6, <2>8
<1>6. CASE i = 6
  <2>1. s \in {{"invalid credentials"}, {"invalid username"}, {"invalid password"}}
    BY <1>6, Table
  <2>2. m \subseteq {"invalid credentials", "invalid username", "invalid password"} /\ IsText(s)
    BY <1>a, <2>1 DEF IsText
  <2>3. RuleApplies(6, m)
    BY <1>a, <1>b, <2>1 DEF Rows
  <2>4. /\ ~RuleApplies(1, m) /\ ~RuleApplies(2, m) /\ ~RuleApplies(3, m) /\ ~RuleApplies(4, m)
        /\ ~RuleApplies(5, m)
    BY <1>b, <2>2 DEF Rows
  <2>5. FirstFor(6, m)
    BY <2>3, <2>4 DEF FirstFor
  <2>6. mappedErrorRules[6].advice = "credentials"
    BY Table
  <2>7. IsAdvice(mappedErrorRules[6].advice)
    BY <2>6 DEF IsAdvice
  <2>8. toMessage(ApiError(400, {}, s)) = mappedErrorRules[6].advice
    BY <2>2, <2>5, <2>7, RowShown, Zenon DEF m
  <2> QED
    BY <1>6, <2>6, <2>8
<1>7. CASE i = 7
  <2>1. s \in {{"plain_listen", "plain_data_listen", "required"}}
    BY <1>7, Table
  <2>2. m \subseteq {"plain_listen", "plain_data_listen", "required"} /\ IsText(s)
    BY <1>a, <2>1 DEF IsText
  <2>3. RuleApplies(7, m)
    BY <1>a, <1>b, <2>1 DEF Rows
  <2>4. /\ ~RuleApplies(1, m) /\ ~RuleApplies(2, m) /\ ~RuleApplies(3, m) /\ ~RuleApplies(4, m)
        /\ ~RuleApplies(5, m) /\ ~RuleApplies(6, m)
    BY <1>b, <2>2 DEF Rows
  <2>5. FirstFor(7, m)
    BY <2>3, <2>4 DEF FirstFor
  <2>6. mappedErrorRules[7].advice = "plain listen"
    BY Table
  <2>7. IsAdvice(mappedErrorRules[7].advice)
    BY <2>6 DEF IsAdvice
  <2>8. toMessage(ApiError(400, {}, s)) = mappedErrorRules[7].advice
    BY <2>2, <2>5, <2>7, RowShown, Zenon DEF m
  <2> QED
    BY <1>7, <2>6, <2>8
<1>8. CASE i = 8
  <2>1. s \in {{"certbot", "not found"}}
    BY <1>8, Table
  <2>2. m \subseteq {"certbot", "not found"} /\ IsText(s)
    BY <1>a, <2>1 DEF IsText
  <2>3. RuleApplies(3, m)
    BY <1>a, <1>b, <2>1 DEF Rows
  <2>4. /\ ~RuleApplies(1, m) /\ ~RuleApplies(2, m)
    BY <1>b, <2>2 DEF Rows
  <2>5. FirstFor(3, m)
    BY <2>3, <2>4 DEF FirstFor
  <2>6. mappedErrorRules[8].advice = "certbot" /\ mappedErrorRules[3].advice = "not found"
    BY Table
  <2>7. IsAdvice(mappedErrorRules[3].advice)
    BY <2>6 DEF IsAdvice
  <2>8. toMessage(ApiError(400, {}, s)) = mappedErrorRules[3].advice
    BY <2>2, <2>5, <2>7, RowShown, Zenon DEF m
  <2> QED
    BY <1>8, <2>6, <2>8
<1>9. CASE i = 9
  <2>1. s \in {{"base_domain", "required"}}
    BY <1>9, Table
  <2>2. m \subseteq {"base_domain", "required", "domain"} /\ IsText(s)
    BY <1>a, <2>1 DEF IsText
  <2>3. RuleApplies(9, m)
    BY <1>a, <1>b, <2>1 DEF Rows
  <2>4. /\ ~RuleApplies(1, m) /\ ~RuleApplies(2, m) /\ ~RuleApplies(3, m) /\ ~RuleApplies(4, m)
        /\ ~RuleApplies(5, m) /\ ~RuleApplies(6, m) /\ ~RuleApplies(7, m) /\ ~RuleApplies(8, m)
    BY <1>b, <2>2 DEF Rows
  <2>5. FirstFor(9, m)
    BY <2>3, <2>4 DEF FirstFor
  <2>6. mappedErrorRules[9].advice = "base domain"
    BY Table
  <2>7. IsAdvice(mappedErrorRules[9].advice)
    BY <2>6 DEF IsAdvice
  <2>8. toMessage(ApiError(400, {}, s)) = mappedErrorRules[9].advice
    BY <2>2, <2>5, <2>7, RowShown, Zenon DEF m
  <2> QED
    BY <1>9, <2>6, <2>8
<1>10. CASE i = 10
  <2>1. s \in {{"could not allocate", "subdomain"}}
    BY <1>10, Table
  <2>2. m \subseteq {"could not allocate", "subdomain", "domain"} /\ IsText(s)
    BY <1>a, <2>1 DEF IsText
  <2>3. RuleApplies(10, m)
    BY <1>a, <1>b, <2>1 DEF Rows
  <2>4. /\ ~RuleApplies(1, m) /\ ~RuleApplies(2, m) /\ ~RuleApplies(3, m) /\ ~RuleApplies(4, m)
        /\ ~RuleApplies(5, m) /\ ~RuleApplies(6, m) /\ ~RuleApplies(7, m) /\ ~RuleApplies(8, m)
        /\ ~RuleApplies(9, m)
    BY <1>b, <2>2 DEF Rows
  <2>5. FirstFor(10, m)
    BY <2>3, <2>4 DEF FirstFor
  <2>6. mappedErrorRules[10].advice = "subdomain"
    BY Table
  <2>7. IsAdvice(mappedErrorRules[10].advice)
    BY <2>6 DEF IsAdvice
  <2>8. toMessage(ApiError(400, {}, s)) = mappedErrorRules[10].advice
    BY <2>2, <2>5, <2>7, RowShown, Zenon DEF m
  <2> QED
    BY <1>10, <2>6, <2>8
<1>11. CASE i = 11
  <2>1. s \in {{"fully qualified"}, {"invalid label"}}
    BY <1>11, Table
  <2>2. m \subseteq {"fully qualified", "invalid label"} /\ IsText(s)
    BY <1>a, <2>1 DEF IsText
  <2>3. RuleApplies(11, m)
    BY <1>a, <1>b, <2>1 DEF Rows
  <2>4. /\ ~RuleApplies(1, m) /\ ~RuleApplies(2, m) /\ ~RuleApplies(3, m) /\ ~RuleApplies(4, m)
        /\ ~RuleApplies(5, m) /\ ~RuleApplies(6, m) /\ ~RuleApplies(7, m) /\ ~RuleApplies(8, m)
        /\ ~RuleApplies(9, m) /\ ~RuleApplies(10, m)
    BY <1>b, <2>2 DEF Rows
  <2>5. FirstFor(11, m)
    BY <2>3, <2>4 DEF FirstFor
  <2>6. mappedErrorRules[11].advice = "label"
    BY Table
  <2>7. IsAdvice(mappedErrorRules[11].advice)
    BY <2>6 DEF IsAdvice
  <2>8. toMessage(ApiError(400, {}, s)) = mappedErrorRules[11].advice
    BY <2>2, <2>5, <2>7, RowShown, Zenon DEF m
  <2> QED
    BY <1>11, <2>6, <2>8
<1>12. CASE i = 12
  <2>1. s \in {{"domain", "required"}}
    BY <1>12, Table
  <2>2. m \subseteq {"domain", "required"} /\ IsText(s)
    BY <1>a, <2>1 DEF IsText
  <2>3. RuleApplies(12, m)
    BY <1>a, <1>b, <2>1 DEF Rows
  <2>4. /\ ~RuleApplies(1, m) /\ ~RuleApplies(2, m) /\ ~RuleApplies(3, m) /\ ~RuleApplies(4, m)
        /\ ~RuleApplies(5, m) /\ ~RuleApplies(6, m) /\ ~RuleApplies(7, m) /\ ~RuleApplies(8, m)
        /\ ~RuleApplies(9, m) /\ ~RuleApplies(10, m) /\ ~RuleApplies(11, m)
    BY <1>b, <2>2 DEF Rows
  <2>5. FirstFor(12, m)
    BY <2>3, <2>4 DEF FirstFor
  <2>6. mappedErrorRules[12].advice = "domain"
    BY Table
  <2>7. IsAdvice(mappedErrorRules[12].advice)
    BY <2>6 DEF IsAdvice
  <2>8. toMessage(ApiError(400, {}, s)) = mappedErrorRules[12].advice
    BY <2>2, <2>5, <2>7, RowShown, Zenon DEF m
  <2> QED
    BY <1>12, <2>6, <2>8
<1>13. CASE i = 13
  <2>1. s \in {{"wildcard"}}
    BY <1>13, Table
  <2>2. m \subseteq {"wildcard"} /\ IsText(s)
    BY <1>a, <2>1 DEF IsText
  <2>3. RuleApplies(13, m)
    BY <1>a, <1>b, <2>1 DEF Rows
  <2>4. /\ ~RuleApplies(1, m) /\ ~RuleApplies(2, m) /\ ~RuleApplies(3, m) /\ ~RuleApplies(4, m)
        /\ ~RuleApplies(5, m) /\ ~RuleApplies(6, m) /\ ~RuleApplies(7, m) /\ ~RuleApplies(8, m)
        /\ ~RuleApplies(9, m) /\ ~RuleApplies(10, m) /\ ~RuleApplies(11, m) /\ ~RuleApplies(12, m)
    BY <1>b, <2>2 DEF Rows
  <2>5. FirstFor(13, m)
    BY <2>3, <2>4 DEF FirstFor
  <2>6. mappedErrorRules[13].advice = "wildcard"
    BY Table
  <2>7. IsAdvice(mappedErrorRules[13].advice)
    BY <2>6 DEF IsAdvice
  <2>8. toMessage(ApiError(400, {}, s)) = mappedErrorRules[13].advice
    BY <2>2, <2>5, <2>7, RowShown, Zenon DEF m
  <2> QED
    BY <1>13, <2>6, <2>8
<1>14. CASE i = 14
  <2>1. s \in {{"email", "required"}}
    BY <1>14, Table
  <2>2. m \subseteq {"email", "required"} /\ IsText(s)
    BY <1>a, <2>1 DEF IsText
  <2>3. RuleApplies(14, m)
    BY <1>a, <1>b, <2>1 DEF Rows
  <2>4. /\ ~RuleApplies(1, m) /\ ~RuleApplies(2, m) /\ ~RuleApplies(3, m) /\ ~RuleApplies(4, m)
        /\ ~RuleApplies(5, m) /\ ~RuleApplies(6, m) /\ ~RuleApplies(7, m) /\ ~RuleApplies(8, m)
        /\ ~RuleApplies(9, m) /\ ~RuleApplies(10, m) /\ ~RuleApplies(11, m) /\ ~RuleApplies(12, m)
        /\ ~RuleApplies(13, m)
    BY <1>b, <2>2 DEF Rows
  <2>5. FirstFor(14, m)
    BY <2>3, <2>4 DEF FirstFor
  <2>6. mappedErrorRules[14].advice = "email"
    BY Table
  <2>7. IsAdvice(mappedErrorRules[14].advice)
    BY <2>6 DEF IsAdvice
  <2>8. toMessage(ApiError(400, {}, s)) = mappedErrorRules[14].advice
    BY <2>2, <2>5, <2>7, RowShown, Zenon DEF m
  <2> QED
    BY <1>14, <2>6, <2>8
<1>15. CASE i = 15
  <2>1. s \in {{"dns"}}
    BY <1>15, Table
  <2>2. m \subseteq {"dns"} /\ IsText(s)
    BY <1>a, <2>1 DEF IsText
  <2>3. RuleApplies(15, m)
    BY <1>a, <1>b, <2>1 DEF Rows
  <2>4. /\ ~RuleApplies(1, m) /\ ~RuleApplies(2, m) /\ ~RuleApplies(3, m) /\ ~RuleApplies(4, m)
        /\ ~RuleApplies(5, m) /\ ~RuleApplies(6, m) /\ ~RuleApplies(7, m) /\ ~RuleApplies(8, m)
        /\ ~RuleApplies(9, m) /\ ~RuleApplies(10, m) /\ ~RuleApplies(11, m) /\ ~RuleApplies(12, m)
        /\ ~RuleApplies(13, m) /\ ~RuleApplies(14, m)
    BY <1>b, <2>2 DEF Rows
  <2>5. FirstFor(15, m)
    BY <2>3, <2>4 DEF FirstFor
  <2>6. mappedErrorRules[15].advice = "dns"
    BY Table
  <2>7. IsAdvice(mappedErrorRules[15].advice)
    BY <2>6 DEF IsAdvice
  <2>8. toMessage(ApiError(400, {}, s)) = mappedErrorRules[15].advice
    BY <2>2, <2>5, <2>7, RowShown, Zenon DEF m
  <2> QED
    BY <1>15, <2>6, <2>8
<1>16. CASE i = 16
  <2>1. s \in {{"port 80"}, {"tcp/80"}}
    BY <1>16, Table
  <2>2. m \subseteq {"port 80", "tcp/80"} /\ IsText(s)
    BY <1>a, <2>1 DEF IsText
  <2>3. RuleApplies(16, m)
    BY <1>a, <1>b, <2>1 DEF Rows
  <2>4. /\ ~RuleApplies(1, m) /\ ~RuleApplies(2, m) /\ ~RuleApplies(3, m) /\ ~RuleApplies(4, m)
        /\ ~RuleApplies(5, m) /\ ~RuleApplies(6, m) /\ ~RuleApplies(7, m) /\ ~RuleApplies(8, m)
        /\ ~RuleApplies(9, m) /\ ~RuleApplies(10, m) /\ ~RuleApplies(11, m) /\ ~RuleApplies(12, m)
        /\ ~RuleApplies(13, m) /\ ~RuleApplies(14, m) /\ ~RuleApplies(15, m)
    BY <1>b, <2>2 DEF Rows
  <2>5. FirstFor(16, m)
    BY <2>3, <2>4 DEF FirstFor
  <2>6. mappedErrorRules[16].advice = "port 80"
    BY Table
  <2>7. IsAdvice(mappedErrorRules[16].advice)
    BY <2>6 DEF IsAdvice
  <2>8. toMessage(ApiError(400, {}, s)) = mappedErrorRules[16].advice
    BY <2>2, <2>5, <2>7, RowShown, Zenon DEF m
  <2> QED
    BY <1>16, <2>6, <2>8
<1>17. CASE i = 17
  <2>1. s \in {{"certificate"}, {"letsencrypt"}}
    BY <1>17, Table
  <2>2. m \subseteq {"certificate", "letsencrypt"} /\ IsText(s)
    BY <1>a, <2>1 DEF IsText
  <2>3. RuleApplies(17, m)
    BY <1>a, <1>b, <2>1 DEF Rows
  <2>4. /\ ~RuleApplies(1, m) /\ ~RuleApplies(2, m) /\ ~RuleApplies(3, m) /\ ~RuleApplies(4, m)
        /\ ~RuleApplies(5, m) /\ ~RuleApplies(6, m) /\ ~RuleApplies(7, m) /\ ~RuleApplies(8, m)
        /\ ~RuleApplies(9, m) /\ ~RuleApplies(10, m) /\ ~RuleApplies(11, m) /\ ~RuleApplies(12, m)
        /\ ~RuleApplies(13, m) /\ ~RuleApplies(14, m) /\ ~RuleApplies(15, m) /\ ~RuleApplies(16, m)
    BY <1>b, <2>2 DEF Rows
  <2>5. FirstFor(17, m)
    BY <2>3, <2>4 DEF FirstFor
  <2>6. mappedErrorRules[17].advice = "certificate"
    BY Table
  <2>7. IsAdvice(mappedErrorRules[17].advice)
    BY <2>6 DEF IsAdvice
  <2>8. toMessage(ApiError(400, {}, s)) = mappedErrorRules[17].advice
    BY <2>2, <2>5, <2>7, RowShown, Zenon DEF m
  <2> QED
    BY <1>17, <2>6, <2>8
<1>18. CASE i = 18
  <2>1. s \in {{"setting value must be a boolean"}}
    BY <1>18, Table
  <2>2. m \subseteq {"setting value must be a boolean"} /\ IsText(s)
    BY <1>a, <2>1 DEF IsText
  <2>3. RuleApplies(18, m)
    BY <1>a, <1>b, <2>1 DEF Rows
  <2>4. /\ ~RuleApplies(1, m) /\ ~RuleApplies(2, m) /\ ~RuleApplies(3, m) /\ ~RuleApplies(4, m)
        /\ ~RuleApplies(5, m) /\ ~RuleApplies(6, m) /\ ~RuleApplies(7, m) /\ ~RuleApplies(8, m)
        /\ ~RuleApplies(9, m) /\ ~RuleApplies(10, m) /\ ~RuleApplies(11, m) /\ ~RuleApplies(12, m)
        /\ ~RuleApplies(13, m) /\ ~RuleApplies(14, m) /\ ~RuleApplies(15, m) /\ ~RuleApplies(16, m)
        /\ ~RuleApplies(17, m)
    BY <1>b, <2>2 DEF Rows
  <2>5. FirstFor(18, m)
    BY <2>3, <2>4 DEF FirstFor
  <2>6. mappedErrorRules[18].advice = "boolean"
    BY Table
  <2>7. IsAdvice(mappedErrorRules[18].advice)
    BY <2>6 DEF IsAdvice
  <2>8. toMessage(ApiError(400, {}, s)) = mappedErrorRules[18].advice
    BY <2>2, <2>5, <2>7, RowShown, Zenon DEF m
  <2> QED
    BY <1>18, <2>6, <2>8
<1>19. CASE i = 19
  <2>1. s \in {{"token expired"}, {"expired token"}}
    BY <1>19, Table
  <2>2. m \subseteq {"token expired", "expired token"} /\ IsText(s)
    BY <1>a, <2>1 DEF IsText
  <2>3. RuleApplies(19, m)
    BY <1>a, <1>b, <2>1 DEF Rows
  <2>4. /\ ~RuleApplies(1, m) /\ ~RuleApplies(2, m) /\ ~RuleApplies(3, m) /\ ~RuleApplies(4, m)
        /\ ~RuleApplies(5, m) /\ ~RuleApplies(6, m) /\ ~RuleApplies(7, m) /\ ~RuleApplies(8, m)
        /\ ~RuleApplies(9, m) /\ ~RuleApplies(10, m) /\ ~RuleApplies(11, m) /\ ~RuleApplies(12, m)
        /\ ~RuleApplies(13, m) /\ ~RuleApplies(14, m) /\ ~RuleApplies(15, m) /\ ~RuleApplies(16, m)
        /\ ~RuleApplies(17, m) /\ ~RuleApplies(18, m)
    BY <1>b, <2>2 DEF Rows
  <2>5. FirstFor(19, m)
    BY <2>3, <2>4 DEF FirstFor
  <2>6. mappedErrorRules[19].advice = "expired"
    BY Table
  <2>7. IsAdvice(mappedErrorRules[19].advice)
    BY <2>6 DEF IsAdvice
  <2>8. toMessage(ApiError(400, {}, s)) = mappedErrorRules[19].advice
    BY <2>2, <2>5, <2>7, RowShown, Zenon DEF m
  <2> QED
    BY <1>19, <2>6, <2>8
<1>20. CASE i = 20
  <2>1. s \in {{"network error"}, {"failed to fetch"}}
    BY <1>20, Table
  <2>2. m \subseteq {"network error", "failed to fetch"} /\ IsText(s)
    BY <1>a, <2>1 DEF IsText
  <2>3. RuleApplies(20, m)
    BY <1>a, <1>b, <2>1 DEF Rows
  <2>4. /\ ~RuleApplies(1, m) /\ ~RuleApplies(2, m) /\ ~RuleApplies(3, m) /\ ~RuleApplies(4, m)
        /\ ~RuleApplies(5, m) /\ ~RuleApplies(6, m) /\ ~RuleApplies(7, m) /\ ~RuleApplies(8, m)
        /\ ~RuleApplies(9, m) /\ ~RuleApplies(10, m) /\ ~RuleApplies(11, m) /\ ~RuleApplies(12, m)
        /\ ~RuleApplies(13, m) /\ ~RuleApplies(14, m) /\ ~RuleApplies(15, m) /\ ~RuleApplies(16, m)
        /\ ~RuleApplies(17, m) /\ ~RuleApplies(18, m) /\ ~RuleApplies(19, m)
    BY <1>b, <2>2 DEF Rows
  <2>5. FirstFor(20, m)
    BY <2>3, <2>4 DEF FirstFor
  <2>6. mappedErrorRules[20].advice = "network"
    BY Table
  <2>7. IsAdvice(mappedErrorRules[20].advice)
    BY <2>6 DEF IsAdvice
  <2>8. toMessage(ApiError(400, {}, s)) = mappedErrorRules[20].advice
    BY <2>2, <2>5, <2>7, RowShown, Zenon DEF m
  <2> QED
    BY <1>20, <2>6, <2>8
<1> QED
  BY <1>1, <1>2, <1>3, <1>4, <1>5, <1>6, <1>7, <1>8, <1>9, <1>10,
     <1>11, <1>12, <1>13, <1>14, <1>15, <1>16, <1>17, <1>18, <1>19, <1>20, <1>c

\* No rule is hidden behind an earlier one, but for Certbot's.
LEMMA TableReachable == AdviceReachable
<1>1. DOMAIN mappedErrorRules = 1..20
  BY DEF mappedErrorRules
<1>2. \A i \in 1..20 : \A s \in mappedErrorRules[i].sets :
        toMessage(ApiError(400, {}, s)) =
           IF mappedErrorRules[i].advice = "certbot" THEN "not found"
           ELSE mappedErrorRules[i].advice
  BY RowChosen
<1> QED
  BY <1>1, <1>2, Zenon DEF AdviceReachable



\* The answer to a wrong password is shown in the words of its body.
LEMMA PasswordShown ==
    ASSUME NEW s, IsText(s), IsAdvice(mappedErrorMessage(Message(s)))
    PROVE  toMessage(ApiError(401, {"unauthorized"}, s)) = mappedErrorMessage(Message(s))
<1>1. 401 # 404
  OBVIOUS
<1> QED
  BY <1>1, MessageShown DEF IsText

\* The answer of a broken server is shown in the words of its status line.
LEMMA LineOf500 ==
    ASSUME NEW line, IsText(line), IsAdvice(mappedErrorMessage(line))
    PROVE  toMessage(ApiError(500, line, {})) = mappedErrorMessage(line)
<1>1. 500 # 404
  OBVIOUS
<1> QED
  BY <1>1, LineShown DEF IsText

\* The texts the login screen can show.
LEMMA LoginTexts ==
    /\ toMessage(WrongPassword) = "credentials"
    /\ toMessage([kind |-> "fetch"]) = "browser text"
    /\ toMessage(ApiError(500, {"internal server error"}, {})) = "server"
<1>1. mappedErrorMessage(Message({"invalid username"})) = "credentials"
  <2> DEFINE m == Message({"invalid username"})
  <2>1. m = {"invalid username"}
    BY DEF Message
  <2> HIDE DEF m
  <2>2. Rows(m)
    BY Phrases
  <2>3. RuleApplies(6, m)
    BY <2>1, <2>2 DEF Rows
  <2>4. /\ ~RuleApplies(1, m) /\ ~RuleApplies(2, m) /\ ~RuleApplies(3, m)
        /\ ~RuleApplies(4, m) /\ ~RuleApplies(5, m)
    BY <2>1, <2>2 DEF Rows
  <2>5. FirstFor(6, m)
    BY <2>3, <2>4 DEF FirstFor
  <2>6. mappedErrorMessage(m) = mappedErrorRules[6].advice
    BY <2>5, FirstOfTable
  <2> QED
    BY <2>6, Table DEF m
<1>2. mappedErrorMessage({"internal server error"}) = "server"
  <2> DEFINE m == {"internal server error"}
  <2>1. m = {"internal server error"}
    OBVIOUS
  <2> HIDE DEF m
  <2>2. Rows(m)
    BY Phrases
  <2>3. RuleApplies(4, m)
    BY <2>1, <2>2 DEF Rows
  <2>4. ~RuleApplies(1, m) /\ ~RuleApplies(2, m) /\ ~RuleApplies(3, m)
    BY <2>1, <2>2 DEF Rows
  <2>5. FirstFor(4, m)
    BY <2>3, <2>4 DEF FirstFor
  <2>6. mappedErrorMessage(m) = mappedErrorRules[4].advice
    BY <2>5, FirstOfTable
  <2> QED
    BY <2>6, Table DEF m
<1>3. toMessage(WrongPassword) = "credentials"
  <2>1. IsText({"invalid username"})
    BY DEF IsText
  <2>2. IsAdvice(mappedErrorMessage(Message({"invalid username"})))
    BY <1>1 DEF IsAdvice
  <2>3. toMessage(ApiError(401, {"unauthorized"}, {"invalid username"})) =
           mappedErrorMessage(Message({"invalid username"}))
    BY <2>1, <2>2, PasswordShown, Zenon
  <2> QED
    BY <1>1, <2>3 DEF WrongPassword
<1>4. toMessage([kind |-> "fetch"]) = "browser text"
  BY DEF toMessage
<1>5. toMessage(ApiError(500, {"internal server error"}, {})) = "server"
  <2>1. IsText({"internal server error"})
    BY DEF IsText
  <2>2. IsAdvice(mappedErrorMessage({"internal server error"}))
    BY <1>2 DEF IsAdvice
  <2>3. toMessage(ApiError(500, {"internal server error"}, {})) =
           mappedErrorMessage({"internal server error"})
    BY <2>1, <2>2, LineOf500, Zenon
  <2> QED
    BY <1>2, <2>3
<1> QED
  BY <1>3, <1>4, <1>5

\* The text on the login screen.
LoginTextInv == login.error \in {None, "credentials", "server", "browser text"}

\* What a step leaves on the login screen.
LoginLeft ==
    \/ login' = login \/ login' = NoLogin
    \/ login' = [loading |-> TRUE, error |-> None]
    \/ login' = LoginError(WrongPassword)
    \/ login' = LoginError([kind |-> "fetch"])
    \/ login' = LoginError(ApiError(500, {"internal server error"}, {}))

\* Only the login's own handlers, and leaving the pages, touch its text.
LEMMA LoginSteps == ASSUME [Next]_vars PROVE LoginLeft
<1>1. CASE UNCHANGED vars
  BY <1>1 DEF vars, LoginLeft
<1>2. CASE PageAction
  BY <1>2 DEF PageAction, Reload, SetRange, ApplySearch, SetLevel, SetPage, ViewClient, OpenEditor,
     CloseDetail, CancelEditor, SaveEdit, ResetToken, CloseSecret, RemoveRow, OpenCreate,
     CancelCreate, Create, Disable, ClearLogs, Download, ChangePassword, SaveSetting,
     FilterTo, SameShell, LoginLeft
<1>3. ASSUME NEW i \in DOMAIN calls, Deliver(i) PROVE LoginLeft
  <2>1. CASE DeliverUnauthorized(i)
    BY <2>1 DEF DeliverUnauthorized, LoginLeft
  <2>2. CASE DeliverLogin(i)
    BY <2>2, Zenon DEF DeliverLogin, LoginLeft
  <2>3. CASE DeliverLoad(i) \/ DeliverDetail(i) \/ DeliverChange(i) \/ DeliverDropped(i)
    BY <2>3 DEF DeliverLoad, DeliverDetail, DeliverChange, DeliverDropped, SameShell, LoginLeft
  <2> QED
    BY <1>3, <2>1, <2>2, <2>3 DEF Deliver
<1>4. CASE Submit \/ Logout \/ Refresh \/ OtherTab \/ ServerStep
  BY <1>4 DEF Submit, Logout, Refresh, OtherTab, ServerStep, LoginLeft
<1>5. ASSUME NEW p, Navigate(p) PROVE LoginLeft
  BY <1>5 DEF Navigate, LoginLeft
<1> QED
  BY <1>1, <1>2, <1>3, <1>4, <1>5 DEF Next

\* Every text a step leaves is one of the four.
LEMMA LoginTextNext == LoginTextInv /\ [Next]_vars => LoginTextInv'
<1> SUFFICES ASSUME LoginTextInv, [Next]_vars PROVE LoginTextInv'
  OBVIOUS
<1>1. LoginLeft
  BY LoginSteps
<1>2. NoLogin.error = None /\ [loading |-> TRUE, error |-> None].error = None
  BY DEF NoLogin
<1>3. /\ LoginError(WrongPassword).error = "credentials"
      /\ LoginError([kind |-> "fetch"]).error = "browser text"
      /\ LoginError(ApiError(500, {"internal server error"}, {})).error = "server"
  <2>1. \A x : LoginError(x).error = toMessage(x)
    BY DEF LoginError
  <2> QED
    BY <2>1, LoginTexts, Zenon
<1>4. \/ login'.error = login.error \/ login'.error = None \/ login'.error = "credentials"
      \/ login'.error = "browser text" \/ login'.error = "server"
  <2>1. CASE login' = LoginError(WrongPassword)
    BY <2>1, <1>3
  <2>2. CASE login' = LoginError([kind |-> "fetch"])
    BY <2>2, <1>3
  <2>3. CASE login' = LoginError(ApiError(500, {"internal server error"}, {}))
    BY <2>3, <1>3
  <2> QED
    BY <1>1, <1>2, <2>1, <2>2, <2>3 DEF LoginLeft
<1> QED
  BY <1>4 DEF LoginTextInv

\* errors.ts and LoginPage: the login screen shows the advice about name and
\* password, about the server, or the browser's own words, never the advice about
\* an ended session; and every rule of mappedErrorMessage but Certbot's is reached
\* by its own words.
THEOREM ErrorTexts == Spec => []ErrorAdvice
<1>1. Init => LoginTextInv
  BY DEF Init, NoLogin, LoginTextInv
<1>2. LoginTextInv => ErrorAdvice
  BY TableReachable DEF LoginTextInv, ErrorAdvice
<1> QED
  BY <1>1, <1>2, LoginTextNext, PTL DEF Spec
==============================================================================
