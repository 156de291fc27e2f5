------------------------- MODULE DashboardPagesProofs -------------------------
(***************************************************************************)
(* Proofs about the two pages of the dashboard that have a module of their *)
(* own: the tunnels page (TunnelEditor), for any tunnels, any typed values *)
(* and any number of requests and changes; and the access and certificates *)
(* panel (TransportPanel), for any drafts and any number of requests and   *)
(* changes.                                                                *)
(***************************************************************************)
EXTENDS TunnelEditor, TransportPanel, TLAPS

(***************************************************************************)
(* Sequences of requests.                                                  *)
(***************************************************************************)
Elements(s) == {s[i] : i \in DOMAIN s}

IsSeq(s) == s \in Seq(Elements(s))

\* A sequence over some set is one over its own elements.
LEMMA SeqOverElements ==
    ASSUME NEW S, NEW s \in Seq(S)
    PROVE  IsSeq(s)
BY DEF IsSeq, Elements

\* Every element of a sequence has a place between 1 and the length.
LEMMA Places ==
    ASSUME NEW s, IsSeq(s)
    PROVE  Len(s) \in Nat /\ DOMAIN s = 1..Len(s)
BY DEF IsSeq

\* A request that is sent stands behind the others.
LEMMA AppendIs ==
    ASSUME NEW s, IsSeq(s), NEW e
    PROVE  /\ IsSeq(Append(s, e))
           /\ Len(Append(s, e)) = Len(s) + 1
           /\ Append(s, e)[Len(s) + 1] = e
           /\ \A j \in 1..Len(s) : Append(s, e)[j] = s[j]
<1>1. /\ s \in Seq(Elements(s) \cup {e}) /\ e \in Elements(s) \cup {e}
  BY DEF IsSeq
<1>2. Append(s, e) \in Seq(Elements(s) \cup {e})
  BY <1>1
<1>3. IsSeq(Append(s, e))
  BY <1>2, SeqOverElements
<1> QED
  BY <1>1, <1>3

\* The elements of a sequence without one of them.
LEMMA RemoveIs ==
    ASSUME NEW s, IsSeq(s), NEW i \in DOMAIN s
    PROVE  /\ IsSeq(RemoveAt(s, i))
           /\ Len(RemoveAt(s, i)) = Len(s) - 1
           /\ \A j \in 1..(Len(s) - 1) : RemoveAt(s, i)[j] = IF j < i THEN s[j] ELSE s[j + 1]
<1> DEFINE E == Elements(s)
           a == SubSeq(s, 1, i - 1)
           b == SubSeq(s, i + 1, Len(s))
<1>1. s \in Seq(E) /\ Len(s) \in Nat /\ i \in 1..Len(s)
  BY DEF IsSeq
<1>2. /\ a \in Seq(E) /\ Len(a) = i - 1
      /\ \A j \in 1..(i - 1) : a[j] = s[j]
  <2> HIDE DEF E
  <2> QED BY <1>1
<1>3. /\ b \in Seq(E) /\ Len(b) = Len(s) - i
      /\ \A j \in 1..(Len(s) - i) : b[j] = s[i + j]
  <2> HIDE DEF E
  <2> QED BY <1>1
<1> HIDE DEF E, a, b
<1>4. /\ a \o b \in Seq(E) /\ Len(a \o b) = Len(s) - 1
      /\ \A j \in 1..(Len(s) - 1) : (a \o b)[j] = IF j < i THEN s[j] ELSE s[j + 1]
  <2>1. a \o b \in Seq(E) /\ Len(a \o b) = Len(s) - 1
    BY <1>1, <1>2, <1>3
  <2>2. ASSUME NEW j \in 1..(Len(s) - 1)
        PROVE  (a \o b)[j] = IF j < i THEN s[j] ELSE s[j + 1]
    <3>1. CASE j < i
      <4>1. j \in 1..Len(a)
        BY <1>1, <1>2, <3>1
      <4> QED
        BY <1>1, <1>2, <1>3, <3>1, <4>1
    <3>2. CASE ~(j < i)
      <4>1. j - Len(a) \in 1..Len(b) /\ i + (j - Len(a)) = j + 1 /\ j > Len(a)
        BY <1>1, <1>2, <1>3, <3>2
      <4>2. (a \o b)[j] = b[j - Len(a)]
        <5>1. /\ a \in Seq(E) /\ b \in Seq(E)
              /\ j \in (Len(a) + 1)..(Len(a) + Len(b))
          BY <1>1, <1>2, <1>3, <3>2
        <5> QED
          BY <5>1
      <4>3. b[j - Len(a)] = s[i + (j - Len(a))]
        BY <1>3, <4>1
      <4> QED
        BY <4>1, <4>2, <4>3, <3>2
    <3> QED
      BY <3>1, <3>2
  <2> QED
    BY <2>1, <2>2
<1>5. RemoveAt(s, i) = a \o b
  BY DEF RemoveAt, a, b
<1> QED
  BY <1>4, <1>5, SeqOverElements

OutdatedOne(c) == IF c.op = "load" /\ c.ans = Ok THEN [c EXCEPT !.late = TRUE] ELSE c

\* The requests once the answer to one is taken: those before it are outdated.
LEMMA WithoutIs ==
    ASSUME IsSeq(calls), NEW i \in DOMAIN calls
    PROVE  /\ IsSeq(Without(i))
           /\ Len(Without(i)) = Len(calls) - 1
           /\ \A j \in 1..(Len(calls) - 1) :
                 Without(i)[j] = IF j < i THEN OutdatedOne(calls[j]) ELSE calls[j + 1]
<1> DEFINE F == Elements(calls)
           E == F \cup {OutdatedOne(calls[j]) : j \in DOMAIN calls}
           front == SubSeq(calls, 1, i - 1)
           a == Outdated(front)
           b == SubSeq(calls, i + 1, Len(calls))
<1>1. calls \in Seq(F) /\ Len(calls) \in Nat /\ i \in 1..Len(calls)
  BY DEF IsSeq
<1>2. /\ front \in Seq(F) /\ Len(front) = i - 1 /\ DOMAIN front = 1..(i - 1)
      /\ \A j \in 1..(i - 1) : front[j] = calls[j]
  <2> HIDE DEF F
  <2> QED BY <1>1
<1>3. /\ b \in Seq(F) /\ Len(b) = Len(calls) - i
      /\ \A j \in 1..(Len(calls) - i) : b[j] = calls[i + j]
  <2> HIDE DEF F
  <2> QED BY <1>1
<1>4. a = [j \in 1..(i - 1) |-> OutdatedOne(calls[j])]
  <2> HIDE DEF front, F
  <2> QED
    BY <1>2 DEF Outdated, OutdatedOne
<1>5. \A j \in 1..(i - 1) : OutdatedOne(calls[j]) \in E
  BY <1>1
<1>6. F \subseteq E
  OBVIOUS
<1> HIDE DEF F, E, front, a, b
<1>7. /\ a \in Seq(E) /\ Len(a) = i - 1
      /\ \A j \in 1..(i - 1) : a[j] = OutdatedOne(calls[j])
  <2> DEFINE G(j) == OutdatedOne(calls[j])
  <2>1. a = [j \in 1..(i - 1) |-> G(j)] /\ \A j \in 1..(i - 1) : G(j) \in E
    BY <1>4, <1>5
  <2> HIDE DEF G
  <2>2. /\ a \in Seq(E) /\ Len(a) = i - 1
        /\ \A j \in 1..(i - 1) : a[j] = G(j)
    BY <1>1, <2>1
  <2> QED
    BY <2>2 DEF G
<1>8. b \in Seq(E)
  BY <1>3, <1>6
<1>9. a \o b \in Seq(E) /\ Len(a \o b) = Len(calls) - 1
  BY <1>1, <1>3, <1>7, <1>8
<1>10. ASSUME NEW j \in 1..(Len(calls) - 1)
       PROVE  (a \o b)[j] = IF j < i THEN OutdatedOne(calls[j]) ELSE calls[j + 1]
  <2> HIDE DEF OutdatedOne
  <2>1. CASE j < i
    <3>1. a \in Seq(E) /\ b \in Seq(E) /\ j \in 1..Len(a)
      BY <1>1, <1>7, <1>8, <2>1
    <3>2. (a \o b)[j] = a[j]
      BY <3>1
    <3> QED
      BY <3>1, <3>2, <1>7, <2>1
  <2>2. CASE ~(j < i)
    <3>1. /\ a \in Seq(E) /\ b \in Seq(E)
          /\ j \in (Len(a) + 1)..(Len(a) + Len(b))
          /\ j - Len(a) \in 1..(Len(calls) - i) /\ i + (j - Len(a)) = j + 1
      BY <1>1, <1>3, <1>7, <1>8, <2>2
    <3>2. (a \o b)[j] = b[j - Len(a)]
      BY <3>1
    <3> QED
      BY <3>1, <3>2, <1>3, <2>2
  <2> QED
    BY <2>1, <2>2
<1>11. Without(i) = a \o b
  BY DEF Without, a, b, front
<1> QED
  BY <1>9, <1>10, <1>11, SeqOverElements

(***************************************************************************)
(* The invariant.  The tunnels the server has, those the page was sent and *)
(* the one being edited are well formed (Good); the form keeps a port for  *)
(* a protocol that needs one, open or closed; the first editor's untouched *)
(* fields are those of the tunnel; and every table that may still be shown *)
(* as current is the server's, or a request behind it will replace it.     *)
(***************************************************************************)
Function(g, S) == g = [x \in S |-> g[x]]

HasPort(t) == needsRemotePort(t.protocol) => t.remote_port # 0
VisitorEmpty(t) == t.protocol = "visitor_webrtc" => t.remote_port = 0 /\ t.domain = ""

Good(t) == Function(t, Fields) /\ HasPort(t) /\ VisitorEmpty(t)

Table(ts) == Function(ts, Ids) /\ \A id \in Ids : ts[id] # None => Good(ts[id])

TunnelsInv == Table(tunnels) /\ (list # None => Table(list))

CallFields == {"op", "id", "payload", "ans", "data", "late"}
Ops == {"load", "create", "update", "start", "stop", "delete"}

CallOK(c) ==
    /\ Function(c, CallFields)
    /\ c.op \in Ops /\ c.ans \in {Waiting, Ok, Fail}
    /\ c.payload # None => Good(c.payload)
    /\ c.op \in {"create", "update"} /\ c.ans = Waiting => Good(c.payload)
    /\ c.op \notin {"load", "create"} => c.id \in Ids
    /\ c.data # None => Table(c.data)

CallsInv == IsSeq(calls) /\ \A i \in DOMAIN calls : CallOK(calls[i])

EditingInv ==
    editing # None =>
        /\ Function(editing, Fields \cup {"id"})
        /\ editing.id # None => editing.id \in Ids
        /\ HasPort(editing) /\ VisitorEmpty(editing)

StoreInv == Function(store, Fields) /\ HasPort(store)

FirstInv ==
    /\ opens \in {0, 1, 2}
    /\ opens = 0 => editing = None /\ store = [f \in Fields |-> None]
    /\ opens = 1 /\ editing # None /\ editing.id # None => KeepsUntouched

\* A request that will change what is shown, or what is said of it.
Cure(c) == c.op = "load" \/ c.ans # Waiting

CureAfter(cs, p) == \E k \in DOMAIN cs : k > p /\ Cure(cs[k])

\* The answer of a load that nothing newer has overtaken.
Timely(c) == c.op = "load" /\ c.ans = Ok /\ ~c.late

DataInv ==
    \A p \in DOMAIN calls :
        Timely(calls[p]) => calls[p].data = tunnels \/ CureAfter(calls, p)

ShownInv == list # None /\ ~behind => list = tunnels \/ CureAfter(calls, 0)

IInv == /\ TunnelsInv /\ CallsInv /\ EditingInv /\ StoreInv /\ FirstInv
        /\ DataInv /\ ShownInv

LEMMA AnswersDiffer == Waiting # Ok /\ Waiting # Fail /\ Ok # Fail
BY DEF Waiting, Ok, Fail

(***************************************************************************)
(* The server's handlers keep the tunnels well formed.                     *)
(***************************************************************************)
\* Changing a tunnel's status alone keeps it well formed.
LEMMA StatusKeepsGood ==
    ASSUME NEW t, Good(t), NEW st
    PROVE  Good([t EXCEPT !.status = st])
BY DEF Good, Function, HasPort, VisitorEmpty, Fields

\* The server's table with one row written.
LEMMA WithKeepsTable ==
    ASSUME Table(tunnels), NEW id \in Ids, NEW t, t = None \/ Good(t)
    PROVE  Table(With(id, t))
BY DEF Table, Function, With

LEMMA OutcomeIs ==
    ASSUME NEW ts, NEW ok
    PROVE  Outcome(ts, ok).tunnels = ts /\ Outcome(ts, ok).ans \in {Ok, Fail}
BY DEF Outcome

\* A handler that writes one row.
LEMMA RowWritten ==
    ASSUME Table(tunnels), NEW id \in Ids, NEW t, t = None \/ Good(t), NEW ok,
           NEW o, o = Outcome(With(id, t), ok)
    PROVE  Table(o.tunnels) /\ o.ans \in {Ok, Fail}
<1>1. Table(With(id, t))
  BY WithKeepsTable
<1>2. o.tunnels = With(id, t) /\ o.ans \in {Ok, Fail}
  BY OutcomeIs, Zenon
<1> QED
  BY <1>1, <1>2

\* update: the old row with another status, or the accepted values.
LEMMA UpdateKeeps ==
    ASSUME Table(tunnels), NEW id \in Ids, tunnels[id] # None,
           NEW payload, Good(payload), NEW o \in Update(id, payload)
    PROVE  Table(o.tunnels) /\ o.ans \in {Ok, Fail}
<1> DEFINE old == tunnels[id]
           next == [payload EXCEPT !.status = old.status]
           started == IF old.status = "running" THEN StartResults(next) ELSE {old.status}
           stopped == [old EXCEPT !.status = IF @ = "running" THEN "stopped" ELSE @]
<1>1. Good(old) /\ Good(next)
  BY StatusKeepsGood DEF Table
<1>2. Good(stopped)
  BY <1>1, StatusKeepsGood
<1>3. \A st : Good([next EXCEPT !.status = st])
  BY <1>1, StatusKeepsGood
<1>4. \/ o = Outcome(With(id, stopped), FALSE)
      \/ \E st \in started :
            o = Outcome(With(id, [next EXCEPT !.status = st]), st # "error" \/ old.status = "error")
  BY Zenon DEF Update
<1> HIDE DEF next, started, stopped, old
<1>5. \E ok, t : Good(t) /\ o = Outcome(With(id, t), ok)
  BY <1>2, <1>3, <1>4, Zenon
<1> QED
  BY <1>5, RowWritten

\* create: nothing, or a new row with the accepted values.
LEMMA CreateKeeps ==
    ASSUME Table(tunnels), \E j \in Ids : tunnels[j] = None,
           NEW payload, Good(payload), NEW o \in Create(payload)
    PROVE  Table(o.tunnels) /\ o.ans \in {Ok, Fail}
<1> DEFINE automatic == payload.protocol = "http" /\ payload.domain = "" /\ AutoDomain
           next == IF automatic THEN [payload EXCEPT !.domain = "auto"] ELSE payload
           started == IF next.status = "running" THEN StartResults(next) ELSE {"stopped"}
           id == CHOOSE j \in Ids : tunnels[j] = None
<1>1. Good(next)
  <2>1. CASE automatic
    BY <2>1 DEF Good, Function, HasPort, VisitorEmpty, Fields, needsRemotePort
  <2> QED
    BY <2>1
<1>2. id \in Ids
  OBVIOUS
<1>3. \A st : Good([next EXCEPT !.status = st])
  BY <1>1, StatusKeepsGood
<1>4. \/ o = Outcome(tunnels, FALSE)
      \/ \E st \in started : o = Outcome(With(id, [next EXCEPT !.status = st]), st # "error")
  BY Zenon DEF Create
<1> HIDE DEF automatic, next, started, id
<1>5. \E ok, ts : Table(ts) /\ o = Outcome(ts, ok)
  BY <1>2, <1>3, <1>4, WithKeepsTable, Zenon
<1> QED
  BY <1>5, OutcomeIs, Zenon

\* Every handler; a load leaves the tunnels alone.
LEMMA OutcomesKeep ==
    ASSUME Table(tunnels), NEW c, CallOK(c), c.ans = Waiting,
           c.op = "create" => \E j \in Ids : tunnels[j] = None,
           NEW o \in Outcomes(c)
    PROVE  /\ Table(o.tunnels) /\ o.ans \in {Ok, Fail}
           /\ c.op = "load" => o.tunnels = tunnels
<1> DEFINE Row(st) == [tunnels[c.id] EXCEPT !.status = st]
<1>1. c.op \in Ops
  BY DEF CallOK
<1>2. CASE c.op = "load"
  <2>1. o = Outcome(tunnels, TRUE)
    BY <1>2 DEF Outcomes
  <2> QED
    BY <2>1, OutcomeIs
<1>3. CASE c.op = "create"
  <2>1. o \in Create(c.payload)
    BY <1>3 DEF Outcomes
  <2> QED
    BY <2>1, <1>3, CreateKeeps DEF CallOK
<1>4. CASE c.op \notin {"load", "create"}
  <2>1. c.id \in Ids
    BY <1>4 DEF CallOK
  <2>2. CASE tunnels[c.id] = None
    <3>1. o = Outcome(tunnels, FALSE)
      BY <1>4, <2>2 DEF Outcomes
    <3> QED
      BY <1>4, <3>1, OutcomeIs
  <2>3. CASE tunnels[c.id] # None
    <3>1. \A st : Good(Row(st))
      BY <2>1, <2>3, StatusKeepsGood DEF Table
    <3>2. CASE c.op = "update"
      <4>1. o \in Update(c.id, c.payload)
        BY <1>4, <2>3, <3>2 DEF Outcomes
      <4> QED
        BY <1>4, <2>1, <2>3, <3>2, <4>1, UpdateKeeps DEF CallOK
    <3>3. CASE c.op = "start"
      <4>1. \E st \in StartResults(tunnels[c.id]) : o = Outcome(With(c.id, Row(st)), st # "error")
        BY <1>4, <2>3, <3>3 DEF Outcomes, StartTunnel
      <4> HIDE DEF Row
      <4>2. \E ok, t : Good(t) /\ o = Outcome(With(c.id, t), ok)
        BY <3>1, <4>1, Zenon
      <4> QED
        BY <1>4, <2>1, <4>2, RowWritten
    <3>4. CASE c.op = "stop"
      <4>1. o = Outcome(With(c.id, Row("stopped")), TRUE)
        BY <1>4, <2>3, <3>4 DEF Outcomes
      <4> HIDE DEF Row
      <4>2. \E ok, t : Good(t) /\ o = Outcome(With(c.id, t), ok)
        BY <3>1, <4>1, Zenon
      <4> QED
        BY <1>4, <2>1, <4>2, RowWritten
    <3>5. CASE c.op = "delete"
      <4>1. o = Outcome(With(c.id, None), TRUE)
        BY <1>4, <2>3, <3>5 DEF Outcomes
      <4> QED
        BY <1>4, <2>1, <4>1, RowWritten
    <3> QED
      BY <1>1, <1>4, <3>2, <3>3, <3>4, <3>5 DEF Ops
  <2> QED
    BY <2>2, <2>3
<1> QED
  BY <1>2, <1>3, <1>4

(***************************************************************************)
(* How the requests may change, and what that means for the invariant.     *)
(***************************************************************************)
\* A new request is well formed and waits for its answer.
LEMMA NewCallOK ==
    ASSUME NEW op \in Ops, NEW id, NEW payload,
           payload = None \/ Good(payload),
           op \in {"create", "update"} => Good(payload),
           op \notin {"load", "create"} => id \in Ids
    PROVE  /\ CallOK(NewCall(op, id, payload)) /\ ~Timely(NewCall(op, id, payload))
           /\ NewCall(op, id, payload).op = op
BY AnswersDiffer DEF CallOK, NewCall, Function, CallFields, Timely

\* A request is sent.
LEMMA SentKeeps ==
    ASSUME CallsInv, DataInv, ShownInv, NEW c, CallOK(c), ~Timely(c),
           calls' = Append(calls, c), UNCHANGED <<tunnels, list, behind>>
    PROVE  CallsInv' /\ DataInv' /\ ShownInv'
<1> USE DEF CallsInv
<1>1. /\ IsSeq(calls') /\ Len(calls') = Len(calls) + 1
      /\ Len(calls) \in Nat /\ DOMAIN calls = 1..Len(calls)
      /\ DOMAIN calls' = 1..(Len(calls) + 1)
      /\ calls'[Len(calls) + 1] = c
      /\ \A j \in DOMAIN calls : calls'[j] = calls[j]
  BY AppendIs, Places
<1>2. CallsInv'
  BY <1>1
<1>3. \A p \in Int : CureAfter(calls, p) => CureAfter(calls', p)
  BY <1>1 DEF CureAfter
<1>4. DataInv'
  BY <1>1, <1>3 DEF DataInv
<1>5. ShownInv'
  BY <1>3 DEF ShownInv
<1> QED
  BY <1>2, <1>4, <1>5

\* A handler ran, or a handler's reload replaces its request: the last request is
\* a cure for every table but its own, and its own is the server's.
LEMMA MovedKeeps ==
    ASSUME CallsInv, NEW i \in DOMAIN calls, NEW c, CallOK(c), Cure(c),
           Timely(c) => c.data = tunnels',
           calls' = Append(RemoveAt(calls, i), c)
    PROVE  CallsInv' /\ DataInv' /\ ShownInv'
<1> USE DEF CallsInv
<1>1. /\ IsSeq(calls') /\ Len(calls') = Len(calls)
      /\ Len(calls) \in Nat /\ i \in 1..Len(calls) /\ DOMAIN calls = 1..Len(calls)
      /\ DOMAIN calls' = 1..Len(calls)
      /\ calls'[Len(calls)] = c
      /\ \A j \in 1..(Len(calls) - 1) : calls'[j] = IF j < i THEN calls[j] ELSE calls[j + 1]
  <2>1. /\ IsSeq(RemoveAt(calls, i)) /\ Len(RemoveAt(calls, i)) = Len(calls) - 1
        /\ Len(calls) \in Nat /\ i \in 1..Len(calls) /\ DOMAIN calls = 1..Len(calls)
        /\ \A j \in 1..(Len(calls) - 1) :
              RemoveAt(calls, i)[j] = IF j < i THEN calls[j] ELSE calls[j + 1]
    BY RemoveIs, Places
  <2>2. /\ IsSeq(calls') /\ Len(calls') = Len(calls)
        /\ calls'[Len(calls)] = c
        /\ \A j \in 1..(Len(calls) - 1) : calls'[j] = RemoveAt(calls, i)[j]
    <3> DEFINE r == RemoveAt(calls, i)
    <3>1. IsSeq(r) /\ Len(r) = Len(calls) - 1 /\ calls' = Append(r, c)
      BY <2>1
    <3> HIDE DEF r
    <3>2. /\ IsSeq(calls') /\ Len(calls') = Len(r) + 1 /\ calls'[Len(r) + 1] = c
          /\ \A j \in 1..Len(r) : calls'[j] = r[j]
      BY <3>1, AppendIs
    <3> QED
      BY <2>1, <3>1, <3>2 DEF r
  <2> QED
    BY <2>1, <2>2, Places
<1>2. CallsInv'
  <2>1. ASSUME NEW j \in DOMAIN calls'
        PROVE  CallOK(calls'[j])
    <3>1. j = Len(calls) \/ j \in 1..(Len(calls) - 1)
      BY <1>1
    <3>2. CASE j \in 1..(Len(calls) - 1)
      <4>1. j \in DOMAIN calls /\ j + 1 \in DOMAIN calls
        BY <1>1, <3>2
      <4> QED
        BY <1>1, <3>2, <4>1
    <3> QED
      BY <1>1, <3>1, <3>2
  <2> QED
    BY <1>1, <2>1
<1>3. \A p \in Int : p < Len(calls) => CureAfter(calls', p)
  BY <1>1 DEF CureAfter
<1>4. DataInv'
  BY <1>1, <1>3 DEF DataInv
<1>5. ShownInv'
  BY <1>1, <1>3 DEF ShownInv
<1> QED
  BY <1>2, <1>4, <1>5

\* The answer to a request is taken: earlier answers of loads come too late.
LEMMA OutdatedOK ==
    ASSUME NEW c, CallOK(c)
    PROVE  /\ CallOK(OutdatedOne(c)) /\ ~Timely(OutdatedOne(c))
BY DEF CallOK, OutdatedOne, Timely, Function, CallFields, Ops, Table, Good

LEMMA TakenKeeps ==
    ASSUME CallsInv, DataInv, NEW i \in DOMAIN calls,
           calls' = Without(i), tunnels' = tunnels
    PROVE  /\ CallsInv' /\ DataInv'
           /\ CureAfter(calls, i) => CureAfter(calls', 0)
<1> USE DEF CallsInv
<1>1. /\ IsSeq(calls') /\ Len(calls') = Len(calls) - 1
      /\ Len(calls) \in Nat /\ i \in 1..Len(calls) /\ DOMAIN calls = 1..Len(calls)
      /\ DOMAIN calls' = 1..(Len(calls) - 1)
      /\ \A j \in 1..(Len(calls) - 1) :
            calls'[j] = IF j < i THEN OutdatedOne(calls[j]) ELSE calls[j + 1]
  BY WithoutIs, Places
<1>2. CallsInv'
  <2>1. ASSUME NEW j \in DOMAIN calls'
        PROVE  CallOK(calls'[j])
    <3>1. j \in DOMAIN calls /\ j + 1 \in DOMAIN calls
      BY <1>1
    <3>2. CallOK(OutdatedOne(calls[j])) /\ CallOK(calls[j + 1])
      BY <3>1, OutdatedOK
    <3> QED
      BY <1>1, <3>2
  <2> QED
    BY <1>1, <2>1
<1>3. ASSUME NEW p \in Int, p >= i, CureAfter(calls, p)
      PROVE  CureAfter(calls', p - 1)
  <2> PICK k \in DOMAIN calls : k > p /\ Cure(calls[k])
    BY <1>3 DEF CureAfter
  <2>1. k - 1 \in DOMAIN calls' /\ k - 1 > p - 1 /\ ~(k - 1 < i) /\ (k - 1) + 1 = k
    BY <1>1, <1>3
  <2>2. calls'[k - 1] = calls[k]
    BY <1>1, <2>1
  <2> QED
    BY <2>1, <2>2 DEF CureAfter
<1>4. ASSUME NEW p \in DOMAIN calls', Timely(calls'[p])
      PROVE  calls'[p].data = tunnels' \/ CureAfter(calls', p)
  <2>1. p \in DOMAIN calls /\ p + 1 \in DOMAIN calls /\ p \in Int
    BY <1>1
  <2>2. ~(p < i)
    BY <1>1, <1>4, <2>1, OutdatedOK
  <2>3. calls'[p] = calls[p + 1] /\ p + 1 >= i /\ (p + 1) - 1 = p
    <3>1. p \in 1..(Len(calls) - 1) /\ i \in Int
      BY <1>1
    <3>2. calls'[p] = calls[p + 1]
      BY <1>1, <2>2, <3>1
    <3> QED
      BY <2>2, <3>1, <3>2
  <2>4. calls[p + 1].data = tunnels \/ CureAfter(calls, p + 1)
    BY <1>4, <2>1, <2>3 DEF DataInv
  <2>5. CureAfter(calls, p + 1) => CureAfter(calls', p)
    BY <1>3, <2>1, <2>3
  <2> QED
    BY <2>3, <2>4, <2>5
<1>5. CureAfter(calls, i) => CureAfter(calls', 0)
  <2> SUFFICES ASSUME CureAfter(calls, i) PROVE CureAfter(calls', 0)
    OBVIOUS
  <2>1. i \in Int /\ i >= i
    BY <1>1
  <2>2. CureAfter(calls', i - 1)
    BY <1>3, <2>1
  <2> QED
    BY <1>1, <2>2 DEF CureAfter
<1> QED
  BY <1>2, <1>4, <1>5 DEF DataInv

\* A request or its answer is lost.
LEMMA LostKeeps ==
    ASSUME CallsInv, DataInv, ShownInv, NEW i \in DOMAIN calls, Lost(i)
    PROVE  CallsInv' /\ DataInv' /\ ShownInv'
<1> USE DEF CallsInv
<1> DEFINE c == [calls[i] EXCEPT !.ans = Fail, !.payload = None, !.data = None]
<1>1. /\ calls' = [calls EXCEPT ![i] = c]
      /\ UNCHANGED <<tunnels, list, behind>>
  BY DEF Lost
<1>2. CallOK(calls[i])
  OBVIOUS
<1>3. CallOK(c) /\ ~Timely(c) /\ Cure(c)
  BY <1>2, AnswersDiffer DEF CallOK, Timely, Cure, Function, CallFields, Ops
<1> HIDE DEF c
<1>4. /\ IsSeq(calls') /\ DOMAIN calls' = DOMAIN calls
      /\ \A j \in DOMAIN calls : calls'[j] = IF j = i THEN c ELSE calls[j]
  <2>1. calls \in Seq(Elements(calls) \cup {c}) /\ c \in Elements(calls) \cup {c}
    BY DEF IsSeq
  <2>2. calls' \in Seq(Elements(calls) \cup {c})
    BY <1>1, <2>1
  <2> QED
    BY <1>1, <2>1, <2>2, SeqOverElements
<1>5. CallsInv'
  BY <1>3, <1>4
<1>6. \A p \in Int : CureAfter(calls, p) => CureAfter(calls', p)
  BY <1>3, <1>4 DEF CureAfter
<1>7. DOMAIN calls \subseteq Int
  BY Places
<1>8. DataInv'
  BY <1>1, <1>3, <1>4, <1>6, <1>7 DEF DataInv
<1>9. ShownInv'
  <2>1. CureAfter(calls, 0) => CureAfter(calls', 0)
    BY <1>6
  <2> QED
    BY <1>1, <2>1 DEF ShownInv
<1> QED
  BY <1>5, <1>8, <1>9

(***************************************************************************)
(* The form.                                                               *)
(***************************************************************************)
\* The values e of the form after its effect saw the protocol, s being those before.
AfterEffect(protocol, s, e) ==
    /\ Function(e, Fields)
    /\ e.name = s.name /\ e.protocol = s.protocol /\ e.status = s.status
    /\ protocol # "visitor_webrtc" =>
          /\ e.remote_port # 0 /\ e.domain = s.domain
          /\ s.remote_port # 0 => e.remote_port = s.remote_port
    /\ protocol = "visitor_webrtc" => e.remote_port = 0 /\ e.domain = ""

\* What the effect on the protocol does to the form's values.
LEMMA EffectIs ==
    ASSUME NEW protocol, NEW s, Function(s, Fields)
    PROVE  AfterEffect(protocol, s, ProtocolEffect(protocol, s))
<1> DEFINE e == ProtocolEffect(protocol, s)
<1>0. SUFFICES
        /\ Function(e, Fields)
        /\ e.name = s.name /\ e.protocol = s.protocol /\ e.status = s.status
        /\ protocol # "visitor_webrtc" =>
              /\ e.remote_port # 0 /\ e.domain = s.domain
              /\ s.remote_port # 0 => e.remote_port = s.remote_port
        /\ protocol = "visitor_webrtc" => e.remote_port = 0 /\ e.domain = ""
  BY DEF AfterEffect
<1>1. CASE protocol = "visitor_webrtc"
  <2>1. ProtocolEffect(protocol, s) = [s EXCEPT !.remote_port = 0, !.domain = ""]
    BY <1>1 DEF ProtocolEffect
  <2> QED
    BY <1>1, <2>1 DEF Function, Fields
<1>2. CASE protocol # "visitor_webrtc" /\ s.remote_port = 0
  <2>1. ProtocolEffect(protocol, s) = [s EXCEPT !.remote_port = DefaultPort]
    BY <1>2 DEF ProtocolEffect
  <2>2. DefaultPort # 0
    BY DEF DefaultPort
  <2> QED
    BY <1>2, <2>1, <2>2 DEF Function, Fields
<1>3. CASE protocol # "visitor_webrtc" /\ s.remote_port # 0
  <2>1. ProtocolEffect(protocol, s) = s
    BY <1>3 DEF ProtocolEffect
  <2> QED
    BY <1>3, <2>1
<1> QED
  BY <1>1, <1>2, <1>3

\* What normalize does.
LEMMA NormalizeIs ==
    ASSUME NEW s, Function(s, Fields), NEW n, n = normalize(s)
    PROVE  /\ Function(n, Fields)
           /\ n.name = s.name /\ n.protocol = s.protocol /\ n.status = s.status
           /\ s.protocol # "visitor_webrtc" => n.remote_port = s.remote_port /\ n.domain = s.domain
           /\ s.protocol = "visitor_webrtc" => n.remote_port = 0 /\ n.domain = ""
BY DEF Function, Fields, normalize

\* What the editor sends is well formed.
LEMMA NormalizeGood ==
    ASSUME StoreInv
    PROVE  Good(normalize(store))
<1>1. Function(store, Fields)
  BY DEF StoreInv
<1>2. /\ Function(normalize(store), Fields)
      /\ normalize(store).protocol = store.protocol
      /\ store.protocol # "visitor_webrtc" => normalize(store).remote_port = store.remote_port
      /\ store.protocol = "visitor_webrtc" =>
            normalize(store).remote_port = 0 /\ normalize(store).domain = ""
  BY <1>1, NormalizeIs
<1> QED
  BY <1>2 DEF StoreInv, Good, HasPort, VisitorEmpty, needsRemotePort

\* Opening the editor for a well-formed tunnel: a port is there where the protocol
\* the form now shows needs one, and a page's first editor shows the tunnel.
LEMMA OpenKeeps ==
    ASSUME StoreInv, FirstInv, NEW t, Function(t, Fields \cup {"id"}),
           t.id # None => t.id \in Ids, HasPort(t), VisitorEmpty(t), Open(t)
    PROVE  EditingInv' /\ StoreInv' /\ FirstInv'
<1> DEFINE kept == ProtocolEffect(t.protocol, store)
           shown == Mounted(kept, t)
           again == ProtocolEffect(shown.protocol, shown)
<1>1. /\ editing' = t /\ store' = (IF shown.protocol # t.protocol THEN again ELSE shown)
      /\ touched' = {} /\ opens' = IF opens = 0 THEN 1 ELSE 2
  BY DEF Open, Opened
<1>2. EditingInv'
  BY <1>1 DEF EditingInv
<1>3. Function(store, Fields) /\ HasPort(store)
  BY DEF StoreInv
<1>4. /\ Function(kept, Fields)
      /\ kept.name = store.name /\ kept.protocol = store.protocol
      /\ t.protocol # "visitor_webrtc" =>
            /\ kept.remote_port # 0 /\ kept.domain = store.domain
            /\ store.remote_port # 0 => kept.remote_port = store.remote_port
      /\ t.protocol = "visitor_webrtc" => kept.remote_port = 0 /\ kept.domain = ""
  <2>1. AfterEffect(t.protocol, store, kept)
    BY <1>3, EffectIs
  <2> QED
    BY <2>1 DEF AfterEffect
<1> HIDE DEF kept
<1>5. /\ Function(shown, Fields)
      /\ shown.name = IF kept.name # None THEN kept.name ELSE t.name
      /\ shown.protocol = IF kept.protocol # None THEN kept.protocol ELSE t.protocol
      /\ shown.remote_port = IF kept.remote_port # None THEN kept.remote_port ELSE t.remote_port
      /\ shown.domain = IF kept.domain # None THEN kept.domain ELSE t.domain
  BY DEF Mounted, Function, Fields
<1> HIDE DEF shown
<1>6. Function(again, Fields) /\ again.protocol = shown.protocol
      /\ (shown.protocol # "visitor_webrtc" => again.remote_port # 0)
  <2>1. AfterEffect(shown.protocol, shown, again)
    BY <1>5, EffectIs
  <2> QED
    BY <2>1 DEF AfterEffect
<1> HIDE DEF again
<1>7. StoreInv'
  <2>1. CASE shown.protocol # t.protocol
    BY <1>1, <1>6, <2>1 DEF StoreInv, HasPort, needsRemotePort
  <2>2. CASE shown.protocol = t.protocol
    <3>1. HasPort(shown)
      BY <1>4, <1>5, <2>2, EditorConstants DEF HasPort, needsRemotePort
    <3> QED
      BY <1>1, <1>5, <2>2, <3>1 DEF StoreInv
  <2> QED
    BY <2>1, <2>2
<1>8. opens' \in {0, 1, 2} /\ opens' # 0
  BY <1>1
<1>9. ASSUME opens' = 1
      PROVE  KeepsUntouched'
  <2>1. store = [f \in Fields |-> None]
    BY <1>1, <1>9 DEF FirstInv
  <2>2. /\ store.name = None /\ store.protocol = None /\ store.remote_port = None
        /\ store.domain = None
    BY <2>1 DEF Fields
  <2>3. shown.protocol = t.protocol /\ shown.name = t.name
    BY <1>4, <1>5, <2>2
  <2>4. store' = shown
    BY <1>1, <2>3
  <2>5. CASE t.protocol = "visitor_webrtc"
    <3>1. /\ normalize(shown).name = t.name /\ normalize(shown).protocol = t.protocol
          /\ normalize(shown).remote_port = t.remote_port /\ normalize(shown).domain = t.domain
      BY <1>5, <2>3, <2>5, NormalizeIs DEF VisitorEmpty
    <3> QED
      BY <1>1, <2>4, <3>1 DEF KeepsUntouched, Kept, Fields
  <2>6. CASE t.protocol # "visitor_webrtc"
    <3>1. shown.remote_port = t.remote_port /\ shown.domain = t.domain
      BY <1>4, <1>5, <2>2, <2>6, EditorConstants
    <3>2. /\ normalize(shown).name = t.name /\ normalize(shown).protocol = t.protocol
          /\ normalize(shown).remote_port = t.remote_port /\ normalize(shown).domain = t.domain
      BY <1>5, <2>3, <2>6, <3>1, NormalizeIs
    <3> QED
      BY <1>1, <2>4, <3>2 DEF KeepsUntouched, Kept, Fields
  <2> QED
    BY <2>5, <2>6
<1>10. FirstInv'
  BY <1>8, <1>9 DEF FirstInv
<1> QED
  BY <1>2, <1>7, <1>10

\* Closing it.
LEMMA ClosedKeeps ==
    ASSUME StoreInv, FirstInv, editing # None, Closed
    PROVE  EditingInv' /\ StoreInv' /\ FirstInv'
<1>1. EditingInv'
  BY DEF Closed, EditingInv
<1>2. Function(store', Fields) /\ store'.remote_port # 0
  <2>1. store' = ProtocolEffect(None, store) /\ Function(store, Fields)
    BY DEF Closed, StoreInv
  <2>2. AfterEffect(None, store, store')
    BY <2>1, EffectIs
  <2>3. None # "visitor_webrtc"
    BY EditorConstants DEF Protocols
  <2> QED
    BY <2>2, <2>3 DEF AfterEffect
<1>3. StoreInv'
  BY <1>2 DEF StoreInv, HasPort
<1>4. FirstInv'
  BY DEF Closed, FirstInv
<1> QED
  BY <1>1, <1>3, <1>4

\* Typing or choosing a value.
LEMMA EditKeeps ==
    ASSUME EditingInv, StoreInv, FirstInv, NEW f \in Fields, NEW v, Edit(f, v)
    PROVE  EditingInv' /\ StoreInv' /\ FirstInv'
<1> DEFINE s == [store EXCEPT ![f] = v]
<1>1. /\ editing' = editing /\ opens' = opens /\ editing # None
      /\ store' = (IF f = "protocol" THEN ProtocolEffect(v, s) ELSE s)
      /\ touched' = IF editing.id = None THEN {} ELSE touched \cup ({f} \ {"status"})
  BY DEF Edit
<1>2. EditingInv'
  BY <1>1 DEF EditingInv
<1>3. /\ Function(store, Fields) /\ HasPort(store)
  BY DEF StoreInv
<1>4. Function(s, Fields) /\ \A g \in Fields : s[g] = IF g = f THEN v ELSE store[g]
  BY <1>3 DEF Function
<1> HIDE DEF s
<1>5. CASE f = "protocol"
  <2>1. s.protocol = v /\ s.name = store.name
    BY <1>4, <1>5 DEF Fields
  <2>2. /\ Function(store', Fields) /\ store'.name = store.name /\ store'.protocol = v
        /\ v # "visitor_webrtc" => store'.remote_port # 0
    <3>1. AfterEffect(v, s, store')
      BY <1>1, <1>4, <1>5, EffectIs
    <3> QED
      BY <2>1, <3>1 DEF AfterEffect
  <2>3. StoreInv'
    BY <2>2 DEF StoreInv, HasPort, needsRemotePort
  <2>4. ASSUME opens = 1, editing.id # None
        PROVE  KeepsUntouched'
    <3>1. normalize(store').name = store.name /\ normalize(store).name = store.name
      BY <1>3, <2>2, NormalizeIs
    <3>2. Kept' \subseteq {"name"} /\ ("name" \in Kept' => "name" \in Kept)
      BY <1>1, <1>5, <2>4 DEF Kept, Fields
    <3>3. \A g \in Kept : normalize(store)[g] = editing[g]
      BY <1>1, <2>4 DEF FirstInv, KeepsUntouched
    <3> QED
      BY <1>1, <3>1, <3>2, <3>3 DEF KeepsUntouched
  <2> QED
    BY <1>1, <1>2, <2>3, <2>4 DEF FirstInv
<1>6. CASE f # "protocol"
  <2>1. /\ store' = s /\ store'.protocol = store.protocol
    BY <1>1, <1>4, <1>6 DEF Fields
  <2>2. StoreInv'
    <3>1. CASE f = "remote_port"
      <4>1. s.remote_port = v /\ (needsRemotePort(store.protocol) => v # 0)
        BY <1>4, <3>1 DEF Edit, Fields
      <4> QED
        BY <1>4, <2>1, <4>1 DEF StoreInv, HasPort
    <3>2. CASE f # "remote_port"
      <4>1. s.remote_port = store.remote_port
        BY <1>4, <3>2 DEF Fields
      <4> QED
        BY <1>3, <1>4, <2>1, <4>1 DEF StoreInv, HasPort
    <3> QED
      BY <3>1, <3>2
  <2>3. ASSUME opens = 1, editing.id # None
        PROVE  KeepsUntouched'
    <3>1. \A g \in Kept' : g \in Kept /\ g # f /\ g \in Fields /\ g # "status"
      BY <1>1, <1>6, <2>3 DEF Kept
    <3>2. \A g \in Fields \ {"status"} : g # f => normalize(s)[g] = normalize(store)[g]
      <4>1. store.protocol = s.protocol
        BY <2>1
      <4>2. /\ normalize(s).name = s.name /\ normalize(store).name = store.name
            /\ normalize(s).protocol = s.protocol /\ normalize(store).protocol = store.protocol
            /\ s.protocol # "visitor_webrtc" =>
                 /\ normalize(s).remote_port = s.remote_port /\ normalize(s).domain = s.domain
                 /\ normalize(store).remote_port = store.remote_port
                 /\ normalize(store).domain = store.domain
            /\ s.protocol = "visitor_webrtc" =>
                 /\ normalize(s).remote_port = 0 /\ normalize(s).domain = ""
                 /\ normalize(store).remote_port = 0 /\ normalize(store).domain = ""
        BY <1>3, <1>4, <4>1, NormalizeIs
      <4>3. /\ f # "name" => s.name = store.name
            /\ f # "remote_port" => s.remote_port = store.remote_port
            /\ f # "domain" => s.domain = store.domain
        BY <1>4 DEF Fields
      <4> QED
        BY <1>6, <4>1, <4>2, <4>3 DEF Fields
    <3>3. \A g \in Kept : normalize(store)[g] = editing[g]
      BY <1>1, <2>3 DEF FirstInv, KeepsUntouched
    <3> QED
      BY <1>1, <2>1, <3>1, <3>2, <3>3 DEF KeepsUntouched
  <2> QED
    BY <1>1, <1>2, <2>2, <2>3 DEF FirstInv
<1> QED
  BY <1>5, <1>6

(***************************************************************************)
(* The invariant holds at first, and every step keeps it.                  *)
(***************************************************************************)
LEMMA InitEstablishes == Init => IInv
<1> SUFFICES ASSUME Init PROVE IInv
  OBVIOUS
<1> DEFINE c == NewCall("load", None, None)
<1>1. CallOK(c) /\ ~Timely(c) /\ c.op = "load"
  BY NewCallOK DEF Ops
<1>2. calls = <<c>> /\ list = None /\ editing = None /\ opens = 0
      /\ store = [f \in Fields |-> None] /\ tunnels = InitTunnels
  BY DEF Init
<1> HIDE DEF c
<1>3. IsSeq(calls) /\ DOMAIN calls = {1} /\ calls[1] = c
  <2>1. calls \in Seq({c}) /\ DOMAIN calls = {1} /\ calls[1] = c
    BY <1>2
  <2> QED
    BY <2>1, SeqOverElements
<1>4. CallsInv /\ DataInv
  BY <1>1, <1>3 DEF CallsInv, DataInv
<1>5. EditingInv /\ FirstInv /\ ShownInv
  BY <1>2 DEF EditingInv, FirstInv, ShownInv
<1>6. StoreInv
  <2>1. store.protocol = None /\ Function(store, Fields)
    BY <1>2 DEF Fields, Function
  <2> QED
    BY <2>1, EditorConstants DEF StoreInv, HasPort, needsRemotePort, Protocols
<1>7. TunnelsInv
  <2>1. Function(tunnels, Ids)
    BY <1>2, EditorConstants DEF Function
  <2>2. ASSUME NEW id \in Ids, tunnels[id] # None
        PROVE  Good(tunnels[id])
    <3> DEFINE t == InitTunnels[id]
    <3>1. /\ t = [f \in Fields |-> t[f]] /\ Valid(t)
          /\ t.protocol = "visitor_webrtc" => t.domain = ""
      BY <1>2, <2>2, TunnelsAssumption
    <3> HIDE DEF t
    <3>2. HasPort(t) /\ VisitorEmpty(t)
      BY <3>1 DEF Valid, HasPort, VisitorEmpty
    <3>3. Function(t, Fields)
      BY <3>1 DEF Function
    <3> QED
      BY <1>2, <3>2, <3>3 DEF Good, t
  <2> QED
    BY <1>2, <2>1, <2>2 DEF TunnelsInv, Table
<1> QED
  BY <1>4, <1>5, <1>6, <1>7 DEF IInv

\* A handler of the server runs.
LEMMA ServedKeeps ==
    ASSUME IInv, NEW i \in DOMAIN calls, Served(i)
    PROVE  IInv'
<1> USE DEF IInv
<1> DEFINE c == calls[i]
<1>1. CallOK(c) /\ c.ans = Waiting
  BY DEF CallsInv, Served
<1>2. PICK o \in Outcomes(c) :
        /\ tunnels' = o.tunnels
        /\ calls' = Append(RemoveAt(calls, i),
                           [c EXCEPT !.ans = o.ans, !.payload = None,
                                     !.data = IF c.op = "load" THEN tunnels ELSE None])
  BY DEF Served
<1>3. UNCHANGED <<list, spinning, formVars, sends, behind>>
  BY DEF Served
<1>4. /\ Table(o.tunnels) /\ o.ans \in {Ok, Fail}
      /\ c.op = "load" => o.tunnels = tunnels
  BY <1>1, <1>2, OutcomesKeep DEF Served, TunnelsInv
<1>5. TunnelsInv'
  BY <1>2, <1>3, <1>4 DEF TunnelsInv
<1>6. EditingInv' /\ StoreInv' /\ FirstInv'
  BY <1>3 DEF formVars, EditingInv, StoreInv, FirstInv, KeepsUntouched, Kept
<1> DEFINE d == [c EXCEPT !.ans = o.ans, !.payload = None,
                          !.data = IF c.op = "load" THEN tunnels ELSE None]
<1> HIDE DEF c
<1>7. /\ Function(d, CallFields)
      /\ d.op = c.op /\ d.id = c.id /\ d.payload = None /\ d.ans = o.ans
      /\ d.data = IF c.op = "load" THEN tunnels ELSE None
  BY <1>1 DEF CallOK, Function, CallFields
<1>8. calls' = Append(RemoveAt(calls, i), d)
  BY <1>2
<1> HIDE DEF d
<1>9. CallOK(d) /\ Cure(d) /\ (Timely(d) => d.data = tunnels')
  <2>1. CallOK(d)
    BY <1>1, <1>4, <1>7, AnswersDiffer DEF CallOK, TunnelsInv
  <2>2. Cure(d)
    BY <1>4, <1>7, AnswersDiffer DEF Cure
  <2>3. Timely(d) => d.data = tunnels'
    BY <1>2, <1>4, <1>7 DEF Timely
  <2> QED
    BY <2>1, <2>2, <2>3
<1>10. CallsInv' /\ DataInv' /\ ShownInv'
  BY <1>8, <1>9, MovedKeeps
<1> QED
  BY <1>5, <1>6, <1>10

\* The steps that leave the server's table, the page's and the form alone.
LEMMA FormUnchanged ==
    ASSUME IInv, UNCHANGED formVars
    PROVE  EditingInv' /\ StoreInv' /\ FirstInv'
BY DEF IInv, formVars, EditingInv, StoreInv, FirstInv, KeepsUntouched, Kept

LEMMA TablesUnchanged ==
    ASSUME IInv, UNCHANGED <<tunnels, list>>
    PROVE  TunnelsInv'
BY DEF IInv, TunnelsInv, Table

LEMMA DeliverLoadKeeps ==
    ASSUME IInv, NEW i \in DOMAIN calls, DeliverLoad(i)
    PROVE  IInv'
<1> DEFINE c == calls[i]
<1>1. /\ c.op = "load" /\ c.ans # Waiting /\ calls' = Without(i)
      /\ list' = IF c.ans = Ok THEN c.data ELSE None
      /\ behind' = c.late /\ UNCHANGED <<tunnels, formVars>>
  BY DEF DeliverLoad
<1>2. CallOK(c)
  BY DEF IInv, CallsInv
<1>3. TunnelsInv'
  BY <1>1, <1>2 DEF IInv, TunnelsInv, CallOK
<1>4. /\ CallsInv' /\ DataInv'
      /\ CureAfter(calls, i) => CureAfter(calls', 0)
  BY <1>1, TakenKeeps DEF IInv
<1>5. ASSUME list' # None, ~behind'
      PROVE  list' = tunnels' \/ CureAfter(calls', 0)
  <2>1. c.ans = Ok /\ list' = c.data
    BY <1>1, <1>5
  <2>2. Timely(c)
    BY <1>1, <1>5, <2>1 DEF Timely
  <2>3. c.data = tunnels \/ CureAfter(calls, i)
    BY <2>2 DEF IInv, DataInv
  <2> QED
    BY <1>1, <1>4, <2>1, <2>3
<1>6. EditingInv' /\ StoreInv' /\ FirstInv'
  BY <1>1, FormUnchanged
<1> QED
  BY <1>3, <1>4, <1>5, <1>6 DEF IInv, ShownInv

LEMMA DeliverChangeKeeps ==
    ASSUME IInv, NEW i \in DOMAIN calls, DeliverChange(i)
    PROVE  IInv'
<1> DEFINE c == ReloadAfter(calls[i])
<1>1. /\ calls' = Append(RemoveAt(calls, i), c) /\ UNCHANGED <<tunnels, list, behind>>
      /\ \/ editing # None /\ Closed
         \/ UNCHANGED formVars
  BY DEF DeliverChange, AfterChange
<1>2. CallOK(c) /\ ~Timely(c) /\ c.op = "load"
  BY NewCallOK DEF ReloadAfter, Ops
<1> HIDE DEF c
<1>3. CallsInv' /\ DataInv' /\ ShownInv'
  BY <1>1, <1>2, MovedKeeps DEF IInv, Cure
<1>4. EditingInv' /\ StoreInv' /\ FirstInv'
  BY <1>1, ClosedKeeps, FormUnchanged DEF IInv
<1>5. TunnelsInv'
  BY <1>1, TablesUnchanged
<1> QED
  BY <1>3, <1>4, <1>5 DEF IInv

LEMMA DeliverFailureKeeps ==
    ASSUME IInv, NEW i \in DOMAIN calls, DeliverFailure(i)
    PROVE  IInv'
<1>1. /\ calls' = Without(i) /\ behind' = TRUE /\ UNCHANGED <<tunnels, list, formVars>>
  BY DEF DeliverFailure
<1>2. CallsInv' /\ DataInv'
  BY <1>1, TakenKeeps DEF IInv
<1>3. ShownInv'
  BY <1>1 DEF ShownInv
<1> QED
  BY <1>1, <1>2, <1>3, FormUnchanged, TablesUnchanged DEF IInv

\* A request is sent by a button of the page or of the editor.
LEMMA SendKeeps ==
    ASSUME IInv, NEW op \in Ops, NEW id, NEW payload,
           payload = None \/ Good(payload),
           op \in {"create", "update"} => Good(payload),
           op \notin {"load", "create"} => id \in Ids,
           calls' = Append(calls, NewCall(op, id, payload)),
           UNCHANGED <<tunnels, list, formVars, behind>>
    PROVE  IInv'
<1>1. CallOK(NewCall(op, id, payload)) /\ ~Timely(NewCall(op, id, payload))
  BY NewCallOK
<1>2. CallsInv' /\ DataInv' /\ ShownInv'
  BY <1>1, SentKeeps DEF IInv
<1> QED
  BY <1>2, FormUnchanged, TablesUnchanged DEF IInv

\* The editor opens, closes or takes a value.
LEMMA FormKeeps ==
    ASSUME IInv, UNCHANGED <<tunnels, list, calls, behind>>,
           EditingInv' /\ StoreInv' /\ FirstInv'
    PROVE  IInv'
<1>1. CallsInv' /\ DataInv' /\ ShownInv'
  BY DEF IInv, CallsInv, DataInv, ShownInv
<1> QED
  BY <1>1, TablesUnchanged DEF IInv

LEMMA OpenEditKeeps ==
    ASSUME IInv, NEW id \in Ids, OpenEdit(id)
    PROVE  IInv'
<1> DEFINE t == [f \in Fields \cup {"id"} |-> IF f = "id" THEN id ELSE list[id][f]]
<1>1. id \in Rows /\ Open(t)
  BY DEF OpenEdit
<1>2. list # None /\ list[id] # None /\ Good(list[id])
  BY <1>1 DEF Rows, IInv, TunnelsInv, Table
<1>3. /\ Function(t, Fields \cup {"id"}) /\ t.id = id
      /\ t.protocol = list[id].protocol /\ t.remote_port = list[id].remote_port
      /\ t.domain = list[id].domain
  BY DEF Function, Fields
<1> HIDE DEF t
<1>4. HasPort(t) /\ VisitorEmpty(t)
  BY <1>2, <1>3 DEF Good, HasPort, VisitorEmpty
<1>5. EditingInv' /\ StoreInv' /\ FirstInv'
  BY <1>1, <1>3, <1>4, OpenKeeps DEF IInv
<1>6. UNCHANGED <<tunnels, list, calls, behind>>
  BY <1>1 DEF Open
<1> QED
  BY <1>5, <1>6, FormKeeps

LEMMA OpenCreateKeeps ==
    ASSUME IInv, OpenCreate
    PROVE  IInv'
<1>1. Open(emptyTunnel)
  BY DEF OpenCreate
<1>2. /\ Function(emptyTunnel, Fields \cup {"id"})
      /\ emptyTunnel.id = None /\ emptyTunnel.protocol = "tcp"
      /\ emptyTunnel.remote_port # 0
  <2>1. DefaultPort # 0
    BY DEF DefaultPort
  <2>2. /\ emptyTunnel.id = None /\ emptyTunnel.protocol = "tcp"
        /\ emptyTunnel.remote_port = DefaultPort
    BY DEF emptyTunnel
  <2>3. Function(emptyTunnel, {"id", "name", "protocol", "remote_port", "domain", "status"})
    BY DEF emptyTunnel, Function
  <2>4. {"id", "name", "protocol", "remote_port", "domain", "status"} = Fields \cup {"id"}
    BY DEF Fields
  <2> QED
    BY <2>1, <2>2, <2>3, <2>4
<1>3. HasPort(emptyTunnel) /\ VisitorEmpty(emptyTunnel)
  BY <1>2 DEF HasPort, VisitorEmpty
<1>4. EditingInv' /\ StoreInv' /\ FirstInv'
  BY <1>1, <1>2, <1>3, OpenKeeps DEF IInv
<1>5. UNCHANGED <<tunnels, list, calls, behind>>
  BY <1>1 DEF Open
<1> QED
  BY <1>4, <1>5, FormKeeps

\* Every step keeps the invariant.
LEMMA StepKeeps == IInv /\ [Next]_vars => IInv'
<1> SUFFICES ASSUME IInv, [Next]_vars PROVE IInv'
  OBVIOUS
<1>1. ASSUME NEW i \in DOMAIN calls, Served(i) PROVE IInv'
  BY <1>1, ServedKeeps
<1>2. ASSUME NEW i \in DOMAIN calls, Lost(i) PROVE IInv'
  <2>1. CallsInv' /\ DataInv' /\ ShownInv'
    BY <1>2, LostKeeps DEF IInv
  <2>2. UNCHANGED <<tunnels, list, formVars>>
    BY <1>2 DEF Lost
  <2> QED
    BY <2>1, <2>2, FormUnchanged, TablesUnchanged DEF IInv
<1>3. ASSUME NEW i \in DOMAIN calls, DeliverLoad(i) \/ DeliverChange(i) \/ DeliverFailure(i)
      PROVE  IInv'
  BY <1>3, DeliverLoadKeeps, DeliverChangeKeeps, DeliverFailureKeeps
<1>4. CASE OpenCreate
  BY <1>4, OpenCreateKeeps
<1>5. CASE Cancel
  <2>1. EditingInv' /\ StoreInv' /\ FirstInv'
    BY <1>5, ClosedKeeps DEF IInv, Cancel
  <2> QED
    BY <1>5, <2>1, FormKeeps DEF Cancel
<1>6. CASE Submit
  <2> DEFINE op == IF editing.id = None THEN "create" ELSE "update"
  <2>1. Good(normalize(store))
    BY NormalizeGood DEF IInv
  <2>2. /\ calls' = Append(calls, NewCall(op, editing.id, normalize(store)))
        /\ UNCHANGED <<tunnels, list, formVars, behind>> /\ editing # None
    BY <1>6 DEF Submit, SendChange
  <2>3. op \in Ops /\ (op \notin {"load", "create"} => editing.id \in Ids)
    BY <2>2 DEF IInv, EditingInv, Ops
  <2> HIDE DEF op
  <2> QED
    BY <2>1, <2>2, <2>3, SendKeeps
<1>7. CASE Reload
  BY <1>7, SendKeeps DEF Reload, Ops
<1>8. ASSUME NEW id \in Ids, OpenEdit(id) PROVE IInv'
  BY <1>8, OpenEditKeeps
<1>9. ASSUME NEW id \in Ids, Toggle(id) PROVE IInv'
  <2> DEFINE op == IF list[id].status = "running" THEN "stop" ELSE "start"
  <2>1. /\ calls' = Append(calls, NewCall(op, id, None))
        /\ UNCHANGED <<tunnels, list, formVars, behind>>
    BY <1>9 DEF Toggle, SendChange
  <2>2. op \in Ops /\ op \notin {"create", "update"}
    BY DEF Ops
  <2> HIDE DEF op
  <2> QED
    BY <2>1, <2>2, SendKeeps
<1>10. ASSUME NEW id \in Ids, RemoveTunnel(id) PROVE IInv'
  BY <1>10, SendKeeps DEF RemoveTunnel, SendChange, Ops
<1>11. ASSUME NEW e \in Edits, Edit(e[1], e[2]) PROVE IInv'
  <2>1. e[1] \in Fields
    BY EditorConstants
  <2>2. EditingInv' /\ StoreInv' /\ FirstInv'
    BY <1>11, <2>1, EditKeeps DEF IInv
  <2> QED
    BY <1>11, <2>2, FormKeeps DEF Edit
<1>12. CASE UNCHANGED vars
  <2>1. EditingInv' /\ StoreInv' /\ FirstInv'
    BY <1>12, FormUnchanged DEF vars
  <2> QED
    BY <1>12, <2>1, FormKeeps DEF vars
<1> QED
  BY <1>1, <1>2, <1>3, <1>4, <1>5, <1>6, <1>7, <1>8, <1>9, <1>10, <1>11, <1>12 DEF Next

(***************************************************************************)
(* The theorems.                                                           *)
(***************************************************************************)
\* The inductive invariant of the tunnels page.
THEOREM Invariance == Spec => []IInv
BY InitEstablishes, StepKeeps, PTL DEF Spec

\* Whatever is opened, switched, closed and opened again, the editor sends a port
\* where validateTunnel wants one and none for a visitor tunnel.
THEOREM PortsAccepted == Spec => []PortAccepted
<1>1. IInv => PortAccepted
  BY DEF IInv, CallsInv, CallOK, Good, HasPort, VisitorEmpty, PortAccepted
<1> QED
  BY <1>1, Invariance, PTL

\* With nothing in flight, an undisturbed table shows the server's tunnels.
THEOREM TableShown == Spec => []TunnelsShown
<1>1. IInv => TunnelsShown
  <2> SUFFICES ASSUME IInv, calls = <<>>, list # None, ~behind
               PROVE  list = tunnels
    BY DEF TunnelsShown
  <2>1. ~CureAfter(calls, 0)
    BY DEF CureAfter
  <2> QED
    BY <2>1 DEF IInv, ShownInv
<1> QED
  BY <1>1, Invariance, PTL

\* The first editor of a page saves what the tunnel has, except for what was
\* changed in it.
THEOREM FirstEditKeeps == Spec => FirstEditKeepsUntouched
<1>1. IInv /\ [Next]_vars => [(Submit /\ editing.id # None /\ opens = 1) => KeepsUntouched]_vars
  BY DEF IInv, FirstInv, Submit
<1> QED
  BY <1>1, Invariance, PTL DEF Spec, FirstEditKeepsUntouched

(***************************************************************************)
(* The access and certificates panel (TransportPanel), the other page of   *)
(* the dashboard that talks to the server on its own.                      *)
(***************************************************************************)
ServerRecords ==
    [tls : BOOLEAN, plain : BOOLEAN, sub : SubConfig, cert : BOOLEAN,
     pending : BOOLEAN, pendingOld : BOOLEAN, queued : BOOLEAN,
     job : {"none", "running", "success", "failed"}, jobOld : BOOLEAN,
     fresh : BOOLEAN, applied : BOOLEAN]

PanelAnswers ==
    {Waiting, Failed}
        \cup [kind : {"ok"}, status : TransportStatus, clean : BOOLEAN]

PanelOps == {"load", "poll", "tls", "plain", "sub", "cert"}

\* A request of the panel, with the argument its handler expects; the answer to
\* a saved form holds what was saved.
PanelCallOK(c) ==
    /\ Function(c, {"op", "arg", "live", "ans"})
    /\ c.op \in PanelOps /\ c.live \in BOOLEAN /\ c.ans \in PanelAnswers
    /\ c.op \in {"tls", "plain"} => c.arg \in BOOLEAN
    /\ c.op = "sub" => c.arg \in Draft
    /\ c.op = "sub" /\ c.ans.kind = "ok" => c.ans.status.sub = Normalized(c.arg)

PanelCallsOK(cs) == IsSeq(cs) /\ \A j \in DOMAIN cs : PanelCallOK(cs[j])

PanelTypeInv ==
    /\ srv \in ServerRecords
    /\ status # None => status \in TransportStatus
    /\ draft \in Draft /\ behind \in BOOLEAN
    /\ PanelCallsOK(calls)

(***************************************************************************)
(* The invariant.  A status is right when it announces certificate work    *)
(* (the poll will replace it), or when it is the server's and the server   *)
(* has no certificate work left.  What is shown, and each answer that was  *)
(* still clean when given, is right or an answer behind it will replace it.*)
(***************************************************************************)
Announces(st) == st.certificate \in {"pending", "running"}

AtRest(sv) == ~Unsettled(sv) /\ Certificate(sv) \notin {"pending", "running"}

Right(st, sv) == Announces(st) \/ (st = StatusLocked(sv) /\ AtRest(sv))

\* An answer the panel will still show.
Coming(c) == c.live /\ c.ans.kind = "ok"

ComingAfter(cs, p) == \E k \in DOMAIN cs : k > p /\ Coming(cs[k])

AnswersInv(cs, sv) ==
    \A j \in DOMAIN cs :
        Coming(cs[j]) /\ cs[j].ans.clean => Right(cs[j].ans.status, sv) \/ ComingAfter(cs, j)

PanelInv ==
    /\ PanelTypeInv
    /\ AnswersInv(calls, srv)
    /\ status # None /\ ~behind =>
          Right(status, srv) \/ ComingAfter(calls, 0)

(***************************************************************************)
(* The requests.                                                           *)
(***************************************************************************)
\* Taking away a request without an answer to show leaves the rest right.
LEMMA RemoveKeepsRight ==
    ASSUME NEW cs, PanelCallsOK(cs), NEW i \in DOMAIN cs, ~Coming(cs[i]), NEW sv
    PROVE  /\ PanelCallsOK(RemoveAt(cs, i))
           /\ ComingAfter(cs, 0) => ComingAfter(RemoveAt(cs, i), 0)
           /\ AnswersInv(cs, sv) => AnswersInv(RemoveAt(cs, i), sv)
<1> DEFINE r == RemoveAt(cs, i)
           n == Len(cs)
           From(j) == IF j < i THEN j ELSE j + 1
<1>1. IsSeq(cs) /\ n \in Nat /\ DOMAIN cs = 1..n /\ i \in 1..n
  BY Places DEF PanelCallsOK
<1>2. IsSeq(r) /\ Len(r) = n - 1 /\ \A j \in 1..(n - 1) : r[j] = cs[From(j)]
  BY <1>1, RemoveIs
<1>3. DOMAIN r = 1..(n - 1)
  BY <1>2, Places
<1> HIDE DEF r
<1>4. \A j \in DOMAIN r : From(j) \in DOMAIN cs /\ r[j] = cs[From(j)]
  BY <1>1, <1>2, <1>3
<1>5. PanelCallsOK(r)
  BY <1>2, <1>4 DEF PanelCallsOK
<1>6. ASSUME NEW p \in Nat, NEW k \in DOMAIN cs, k > p, Coming(cs[k])
      PROVE  \E l \in DOMAIN r : From(l) = k /\ Coming(r[l])
  <2>1. k # i
    BY <1>6
  <2>2. CASE k < i
    <3>1. k \in DOMAIN r /\ From(k) = k
      BY <1>1, <1>3, <2>2
    <3> QED
      BY <1>4, <1>6, <3>1
  <2>3. CASE k > i
    <3>1. k - 1 \in DOMAIN r /\ From(k - 1) = k
      BY <1>1, <1>3, <2>3
    <3> QED
      BY <1>4, <1>6, <3>1
  <2> QED
    BY <1>1, <2>1, <2>2, <2>3
<1>7. ComingAfter(cs, 0) => ComingAfter(r, 0)
  BY <1>3, <1>6, 0 \in Nat DEF ComingAfter
<1>8. ASSUME AnswersInv(cs, sv), NEW j \in DOMAIN r, Coming(r[j]), r[j].ans.clean
      PROVE  Right(r[j].ans.status, sv) \/ ComingAfter(r, j)
  <2>1. From(j) \in DOMAIN cs /\ r[j] = cs[From(j)] /\ From(j) \in Nat
    BY <1>1, <1>4, <1>8
  <2>2. Right(r[j].ans.status, sv) \/ ComingAfter(cs, From(j))
    BY <1>8, <2>1 DEF AnswersInv
  <2>3. ASSUME ComingAfter(cs, From(j)) PROVE ComingAfter(r, j)
    <3>1. PICK k \in DOMAIN cs : k > From(j) /\ Coming(cs[k])
      BY <2>3 DEF ComingAfter
    <3>2. PICK l \in DOMAIN r : From(l) = k /\ Coming(r[l])
      BY <1>6, <2>1, <3>1
    <3>3. l > j
      BY <1>1, <1>3, <3>1, <3>2
    <3> QED
      BY <3>2, <3>3 DEF ComingAfter
  <2> QED
    BY <2>2, <2>3
<1>9. AnswersInv(cs, sv) => AnswersInv(r, sv)
  BY <1>8 DEF AnswersInv
<1> QED
  BY <1>5, <1>7, <1>9 DEF r

\* A request that is sent is behind the others and has no answer yet.
LEMMA AppendKeepsRight ==
    ASSUME NEW cs, PanelCallsOK(cs), NEW c, PanelCallOK(c), NEW sv
    PROVE  /\ PanelCallsOK(Append(cs, c))
           /\ ComingAfter(cs, 0) => ComingAfter(Append(cs, c), 0)
           /\ ~Coming(c) /\ AnswersInv(cs, sv) => AnswersInv(Append(cs, c), sv)
           /\ Coming(c) => ComingAfter(Append(cs, c), 0)
           /\ Coming(c) /\ (c.ans.clean => Right(c.ans.status, sv))
                 => AnswersInv(Append(cs, c), sv)
<1> DEFINE a == Append(cs, c)
           n == Len(cs)
<1>1. IsSeq(cs) /\ n \in Nat /\ DOMAIN cs = 1..n
  BY Places DEF PanelCallsOK
<1>2. IsSeq(a) /\ Len(a) = n + 1 /\ a[n + 1] = c /\ \A j \in 1..n : a[j] = cs[j]
  BY <1>1, AppendIs
<1>3. DOMAIN a = 1..(n + 1)
  BY <1>2, Places
<1> HIDE DEF a
<1>4. PanelCallsOK(a)
  BY <1>1, <1>2, <1>3 DEF PanelCallsOK
<1>5. \A p \in Nat : ComingAfter(cs, p) => ComingAfter(a, p)
  BY <1>1, <1>2, <1>3 DEF ComingAfter
<1>6. ASSUME ~Coming(c), AnswersInv(cs, sv) PROVE AnswersInv(a, sv)
  <2> SUFFICES ASSUME NEW j \in DOMAIN a, Coming(a[j]), a[j].ans.clean
               PROVE  Right(a[j].ans.status, sv) \/ ComingAfter(a, j)
    BY DEF AnswersInv
  <2>1. j \in DOMAIN cs /\ a[j] = cs[j] /\ j \in Nat
    BY <1>1, <1>2, <1>3, <1>6
  <2> QED
    BY <1>5, <1>6, <2>1 DEF AnswersInv
<1>7. ASSUME Coming(c) PROVE \A p \in 0..n : ComingAfter(a, p)
  BY <1>1, <1>2, <1>3, <1>7 DEF ComingAfter
<1>8. ASSUME Coming(c), c.ans.clean => Right(c.ans.status, sv) PROVE AnswersInv(a, sv)
  <2> SUFFICES ASSUME NEW j \in DOMAIN a, Coming(a[j]), a[j].ans.clean
               PROVE  Right(a[j].ans.status, sv) \/ ComingAfter(a, j)
    BY DEF AnswersInv
  <2>1. CASE j \in 0..n
    BY <1>7, <1>8, <2>1
  <2>2. CASE j = n + 1
    BY <1>2, <1>8, <2>2
  <2> QED
    BY <1>1, <1>3, <2>1, <2>2
<1> QED
  BY <1>1, <1>4, <1>5, <1>6, <1>7, <1>8, 0 \in Nat DEF a

\* An answer that is marked as overtaken.
OutdatedAnswer(c) == IF c.ans.kind = "ok" THEN [c EXCEPT !.ans.clean = FALSE] ELSE c

\* It stays an answer to be shown, no longer a clean one.
LEMMA OutdatedAnswerIs ==
    ASSUME NEW c, PanelCallOK(c)
    PROVE  /\ PanelCallOK(OutdatedAnswer(c))
           /\ Coming(OutdatedAnswer(c)) <=> Coming(c)
           /\ Coming(OutdatedAnswer(c)) => ~OutdatedAnswer(c).ans.clean
           /\ OutdatedAnswer(c).ans = Waiting <=> c.ans = Waiting
<1>1. CASE c.ans.kind = "ok"
  <2>1. c.ans \in [kind : {"ok"}, status : TransportStatus, clean : BOOLEAN]
    BY <1>1 DEF PanelCallOK, PanelAnswers, Waiting, Failed
  <2> DEFINE o == [c.ans EXCEPT !.clean = FALSE]
  <2>2. /\ o \in [kind : {"ok"}, status : TransportStatus, clean : BOOLEAN]
        /\ o.kind = "ok" /\ o.clean = FALSE /\ o.status = c.ans.status
    BY <2>1
  <2>3. o # Waiting /\ c.ans # Waiting
    <3>1. Waiting.kind # "ok"
      BY DEF Waiting
    <3> QED
      BY <1>1, <2>2, <3>1
  <2>4. OutdatedAnswer(c) = [c EXCEPT !.ans = o]
    BY <1>1 DEF OutdatedAnswer
  <2> HIDE DEF o
  <2>5. /\ OutdatedAnswer(c).ans = o /\ OutdatedAnswer(c).op = c.op
        /\ OutdatedAnswer(c).arg = c.arg /\ OutdatedAnswer(c).live = c.live
        /\ Function(OutdatedAnswer(c), {"op", "arg", "live", "ans"})
    BY <2>4 DEF PanelCallOK, Function
  <2> QED
    BY <1>1, <2>2, <2>3, <2>5 DEF PanelCallOK, PanelAnswers, Coming
<1>2. CASE c.ans.kind # "ok"
  BY <1>2 DEF OutdatedAnswer, Coming
<1> QED
  BY <1>1, <1>2

\* The requests once their answers are overtaken.
LEMMA OutdatedIs ==
    ASSUME NEW cs, PanelCallsOK(cs)
    PROVE  /\ PanelCallsOK(Unclean(cs)) /\ Len(Unclean(cs)) = Len(cs)
           /\ DOMAIN Unclean(cs) = DOMAIN cs
           /\ \A j \in DOMAIN cs : Unclean(cs)[j] = OutdatedAnswer(cs[j])
           /\ \A sv : AnswersInv(Unclean(cs), sv)
<1> DEFINE o == Unclean(cs)
           n == Len(cs)
           G(j) == OutdatedAnswer(cs[j])
<1>1. IsSeq(cs) /\ n \in Nat /\ DOMAIN cs = 1..n
  BY Places DEF PanelCallsOK
<1>2. o = [j \in 1..n |-> G(j)]
  BY <1>1 DEF Unclean, OutdatedAnswer
<1>3. \A j \in 1..n : /\ PanelCallOK(G(j))
                      /\ Coming(G(j)) => ~G(j).ans.clean
  BY <1>1, OutdatedAnswerIs DEF PanelCallsOK
<1> HIDE DEF o, G
<1>4. DOMAIN o = 1..n /\ \A j \in 1..n : o[j] = G(j)
  BY <1>2
<1>5. o \in Seq(Elements(o)) /\ Len(o) = n
  BY <1>1, <1>4, <1>2 DEF Elements
<1>6. PanelCallsOK(o)
  BY <1>3, <1>4, <1>5 DEF PanelCallsOK, IsSeq
<1>7. \A sv : AnswersInv(o, sv)
  BY <1>3, <1>4 DEF AnswersInv
<1> QED
  BY <1>1, <1>4, <1>5, <1>6, <1>7 DEF o, G

\* The requests once the answer to one is shown: those before it are overtaken.
Shown(cs, i) ==
    RemoveAt(Unclean(SubSeq(cs, 1, i)) \o SubSeq(cs, i + 1, Len(cs)), i)

\* They stay right, and those behind the shown one keep coming.
LEMMA ShownKeepsRight ==
    ASSUME NEW cs, PanelCallsOK(cs), NEW i \in DOMAIN cs, NEW sv
    PROVE  /\ PanelCallsOK(Shown(cs, i))
           /\ ComingAfter(cs, i) => ComingAfter(Shown(cs, i), 0)
           /\ AnswersInv(cs, sv) => AnswersInv(Shown(cs, i), sv)
<1> DEFINE n == Len(cs)
           E == Elements(cs)
           a == SubSeq(cs, 1, i)
           o == Unclean(a)
           b == SubSeq(cs, i + 1, n)
           w == o \o b
           r == RemoveAt(w, i)
<1>1. IsSeq(cs) /\ n \in Nat /\ DOMAIN cs = 1..n /\ i \in 1..n /\ cs \in Seq(E)
  BY Places DEF PanelCallsOK, IsSeq
<1>2. /\ a \in Seq(E) /\ Len(a) = i
      /\ \A j \in 1..i : a[j] = cs[j]
  <2> HIDE DEF E
  <2> QED BY <1>1
<1>3. /\ b \in Seq(E) /\ Len(b) = n - i
      /\ \A j \in 1..(n - i) : b[j] = cs[i + j]
  <2> HIDE DEF E
  <2> QED BY <1>1
<1> HIDE DEF E, a, b
<1>4. PanelCallsOK(a) /\ DOMAIN a = 1..i
  BY <1>1, <1>2, SeqOverElements DEF PanelCallsOK
<1>5. /\ IsSeq(o) /\ Len(o) = i
      /\ \A j \in 1..i : o[j] = OutdatedAnswer(cs[j])
  BY <1>2, <1>4, OutdatedIs DEF PanelCallsOK
<1> HIDE DEF o
<1>6. /\ IsSeq(w) /\ Len(w) = n
      /\ \A j \in 1..n : w[j] = IF j <= i THEN OutdatedAnswer(cs[j]) ELSE cs[j]
  <2> DEFINE S == Elements(o) \cup E
  <2>1. o \in Seq(S) /\ b \in Seq(S)
    BY <1>3, <1>5 DEF IsSeq
  <2> HIDE DEF S
  <2>2. w \in Seq(S) /\ Len(w) = n
    <3>1. w \in Seq(S) /\ Len(w) = Len(o) + Len(b)
      BY <2>1
    <3> HIDE DEF w
    <3> QED
      BY <1>1, <1>3, <1>5, <3>1
  <2>3. ASSUME NEW j \in 1..n, j <= i PROVE w[j] = OutdatedAnswer(cs[j])
    <3>1. j \in 1..Len(o)
      BY <1>1, <1>5, <2>3
    <3>2. w[j] = o[j]
      BY <2>1, <3>1
    <3> QED
      BY <1>5, <3>1, <3>2
  <2>4. ASSUME NEW j \in 1..n, ~(j <= i) PROVE w[j] = cs[j]
    <3>1. /\ j \in (Len(o) + 1)..(Len(o) + Len(b))
          /\ j - Len(o) \in 1..(n - i) /\ i + (j - Len(o)) = j
      BY <1>1, <1>3, <1>5, <2>4
    <3>2. w[j] = b[j - Len(o)]
      BY <2>1, <3>1
    <3> QED
      BY <1>3, <3>1, <3>2
  <2>5. IsSeq(w)
    BY <2>2, SeqOverElements
  <2> HIDE DEF w
  <2> QED
    BY <2>2, <2>3, <2>4, <2>5
<1> HIDE DEF w
<1>7. DOMAIN w = 1..n
  BY <1>6, Places
<1>8. /\ IsSeq(r) /\ Len(r) = n - 1
      /\ \A j \in 1..(n - 1) : r[j] = IF j < i THEN w[j] ELSE w[j + 1]
  BY <1>1, <1>6, <1>7, RemoveIs
<1> HIDE DEF r
<1>9. DOMAIN r = 1..(n - 1)
  BY <1>8, Places
<1>10. /\ \A j \in 1..(n - 1) : j < i => j \in DOMAIN cs /\ r[j] = OutdatedAnswer(cs[j])
       /\ \A j \in 1..(n - 1) : ~(j < i) => j + 1 \in DOMAIN cs /\ r[j] = cs[j + 1]
  BY <1>1, <1>6, <1>8
<1>11. PanelCallsOK(r)
  <2>1. ASSUME NEW j \in 1..(n - 1) PROVE PanelCallOK(r[j])
    BY <1>10, OutdatedAnswerIs DEF PanelCallsOK
  <2> QED
    BY <1>8, <1>9, <2>1 DEF PanelCallsOK
<1>12. ASSUME NEW p \in DOMAIN cs, p >= i, ComingAfter(cs, p) PROVE ComingAfter(r, p - 1)
  <2>1. PICK k \in DOMAIN cs : k > p /\ Coming(cs[k])
    BY <1>12 DEF ComingAfter
  <2>2. k - 1 \in 1..(n - 1) /\ ~(k - 1 < i) /\ k - 1 > p - 1 /\ (k - 1) + 1 = k
    BY <1>1, <1>12, <2>1
  <2>3. r[k - 1] = cs[k]
    BY <1>10, <2>2
  <2> QED
    BY <1>9, <2>1, <2>2, <2>3 DEF ComingAfter
<1>13. ASSUME ComingAfter(cs, i) PROVE ComingAfter(r, 0)
  <2>1. ComingAfter(r, i - 1)
    BY <1>1, <1>12, <1>13
  <2> QED
    BY <1>1, <1>9, <2>1 DEF ComingAfter
<1>14. ASSUME AnswersInv(cs, sv), NEW j \in DOMAIN r, Coming(r[j]), r[j].ans.clean
       PROVE  Right(r[j].ans.status, sv) \/ ComingAfter(r, j)
  <2>1. ~(j < i)
    BY <1>9, <1>10, <1>14, OutdatedAnswerIs DEF PanelCallsOK
  <2>2. j + 1 \in DOMAIN cs /\ r[j] = cs[j + 1] /\ j + 1 >= i /\ (j + 1) - 1 = j
    BY <1>1, <1>9, <1>10, <1>14, <2>1
  <2>3. Right(r[j].ans.status, sv) \/ ComingAfter(cs, j + 1)
    BY <1>14, <2>2 DEF AnswersInv
  <2>4. ComingAfter(cs, j + 1) => ComingAfter(r, j)
    BY <1>12, <2>2
  <2> QED
    BY <2>3, <2>4
<1>15. AnswersInv(cs, sv) => AnswersInv(r, sv)
  BY <1>14 DEF AnswersInv
<1>16. Shown(cs, i) = r
  BY DEF Shown, r, w, o, a, b
<1> QED
  BY <1>11, <1>13, <1>15, <1>16

(***************************************************************************)
(* The server.                                                             *)
(***************************************************************************)
\* The status of a server.
LEMMA StatusIs ==
    ASSUME NEW sv \in ServerRecords
    PROVE  /\ StatusLocked(sv) \in TransportStatus
           /\ StatusLocked(sv).certificate = Certificate(sv)
<1>1. Certificate(sv) \in CertificateStates
  <2>1. sv.job \in {"none", "running", "success", "failed"}
    BY DEF ServerRecords
  <2> QED
    BY <2>1 DEF Certificate, CertificateStates
<1> QED
  BY <1>1 DEF StatusLocked, TransportStatus, ServerRecords

\* certificateStatusLocked: reading the status does not change what it says.
LEMMA ReadKeeps ==
    ASSUME NEW sv \in ServerRecords
    PROVE  /\ StatusRead(sv) \in ServerRecords
           /\ \A st : Right(st, StatusRead(sv)) <=> Right(st, sv)
<1>1. CASE ~(sv.pending /\ sv.fresh)
  BY <1>1 DEF StatusRead
<1>2. CASE sv.pending /\ sv.fresh
  <2> DEFINE s2 == [sv EXCEPT !.pending = FALSE]
  <2>1. StatusRead(sv) = s2
    BY <1>2 DEF StatusRead
  <2>2. /\ s2 \in ServerRecords
        /\ s2.tls = sv.tls /\ s2.plain = sv.plain /\ s2.sub = sv.sub
        /\ s2.job = sv.job /\ s2.jobOld = sv.jobOld /\ s2.cert = sv.cert
        /\ s2.queued = sv.queued /\ s2.applied = sv.applied /\ s2.pending = FALSE
    BY DEF ServerRecords
  <2> HIDE DEF s2
  <2>3. ~NotReported(sv) /\ ~NotReported(s2)
    BY <1>2, <2>2 DEF NotReported
  <2>4. Certificate(s2) = Certificate(sv)
    BY <2>2, <2>3 DEF Certificate
  <2>5. StatusLocked(s2) = StatusLocked(sv)
    BY <2>2, <2>4 DEF StatusLocked
  <2>6. AtRest(s2) <=> AtRest(sv)
    BY <2>2, <2>4 DEF AtRest, Unsettled
  <2> QED
    BY <2>1, <2>2, <2>5, <2>6 DEF Right
<1> QED
  BY <1>1, <1>2

\* Every handler leaves a server; the reads leave it alone.
LEMMA ChangedIs ==
    ASSUME PanelTypeInv, NEW c, PanelCallOK(c), Changed(c) # None
    PROVE  /\ Changed(c) \in ServerRecords
           /\ c.op \in Reads => Changed(c) = srv
           /\ c.op = "sub" => Changed(c).sub = Normalized(c.arg)
<1>1. srv \in ServerRecords /\ c.op \in PanelOps
  BY DEF PanelTypeInv, PanelCallOK
<1>2. CASE c.op \in Reads
  BY <1>1, <1>2 DEF Changed, Reads
<1>3. CASE c.op = "tls"
  <2>1. c.arg \in BOOLEAN /\ c.op \notin Reads
    BY <1>3 DEF PanelCallOK, Reads
  <2>2. Changed(c) = [srv EXCEPT !.tls = c.arg]
    BY <1>3, <2>1 DEF Changed, Reads
  <2> QED
    BY <1>1, <1>3, <2>1, <2>2 DEF ServerRecords
<1>4. CASE c.op = "plain"
  <2>1. c.arg \in BOOLEAN /\ c.op \notin Reads
    BY <1>4 DEF PanelCallOK, Reads
  <2>2. Changed(c) = [srv EXCEPT !.plain = c.arg]
    BY <1>4, <2>1 DEF Changed, Reads
  <2> QED
    BY <1>1, <1>4, <2>1, <2>2 DEF ServerRecords
<1>5. CASE c.op = "sub"
  <2>1. c.arg \in Draft /\ c.op \notin Reads
    BY <1>5 DEF PanelCallOK, Reads
  <2>2. Changed(c) = [srv EXCEPT !.sub = Normalized(c.arg)]
    BY <1>5, <2>1 DEF Changed, Reads
  <2>3. Normalized(c.arg) \in SubConfig
    BY <2>1 DEF Normalized, SubConfig, Draft
  <2> QED
    BY <1>1, <2>1, <2>2, <2>3 DEF ServerRecords
<1>6. CASE c.op = "cert"
  <2>1. c.op \notin Reads
    BY <1>6 DEF Reads
  <2>2. Changed(c) = [srv EXCEPT !.pending = TRUE, !.pendingOld = FALSE,
                                            !.queued = TRUE, !.fresh = FALSE]
    BY <1>6, <2>1 DEF Changed, Reads
  <2> QED
    BY <1>1, <1>6, <2>1, <2>2 DEF ServerRecords
<1> QED
  BY <1>1, <1>2, <1>3, <1>4, <1>5, <1>6 DEF PanelOps, Reads

\* A server at rest has nothing for the helper, the clock or the monitor to do.
LEMMA RestIsQuiet ==
    ASSUME NEW sv \in ServerRecords, AtRest(sv)
    PROVE  /\ ~sv.queued /\ sv.job # "running" /\ ~(sv.job = "success" /\ ~sv.applied)
           /\ ~(NotReported(sv) /\ ~sv.pendingOld)
BY DEF AtRest, Unsettled, Certificate

\* Their steps leave a server, and found one that was not at rest.
LEMMA WorkSteps ==
    ASSUME PanelTypeInv,
           HelperRefuses \/ HelperStarts \/ HelperEnds \/ TimeOut \/ MonitorApplies
    PROVE  /\ srv' \in ServerRecords /\ ~AtRest(srv)
           /\ UNCHANGED <<status, draft, calls, behind>>
<1>1. srv \in ServerRecords
  BY DEF PanelTypeInv
<1>2. CASE HelperStarts
  BY <1>1, <1>2, RestIsQuiet DEF HelperStarts, ServerRecords, panelVars
<1>6. CASE HelperRefuses
  BY <1>1, <1>6, RestIsQuiet DEF HelperRefuses, ServerRecords, panelVars
<1>3. CASE HelperEnds
  <2>1. PICK result \in {"success", "failed"} :
           srv' = [srv EXCEPT !.job = result, !.jobOld = FALSE, !.fresh = TRUE,
                                        !.applied = result # "success"]
    BY <1>3 DEF HelperEnds
  <2>2. (result # "success") \in BOOLEAN
    OBVIOUS
  <2>3. srv' \in ServerRecords
    BY <1>1, <2>1, <2>2 DEF ServerRecords
  <2> QED
    BY <1>1, <1>3, <2>3, RestIsQuiet DEF HelperEnds, panelVars
<1>4. CASE TimeOut
  <2>1. srv' \in ServerRecords
    BY <1>1, <1>4 DEF TimeOut, ServerRecords
  <2> QED
    BY <1>1, <1>4, <2>1, RestIsQuiet DEF TimeOut, panelVars
<1>5. CASE MonitorApplies
  BY <1>1, <1>5, RestIsQuiet DEF MonitorApplies, ServerRecords, panelVars
<1> QED
  BY <1>2, <1>3, <1>4, <1>5, <1>6

(***************************************************************************)
(* The steps.                                                              *)
(***************************************************************************)
\* What is shown stays right when the server stays as it is and no answer to be
\* shown is lost.
LEMMA ShownStays ==
    ASSUME PanelInv, PanelTypeInv', AnswersInv(calls', srv'),
           ComingAfter(calls, 0) => ComingAfter(calls', 0),
           \A st : Right(st, srv) => Right(st, srv'),
           status' = status, behind' = behind
    PROVE  PanelInv'
BY DEF PanelInv, AnswersInv, ComingAfter, Coming

\* A request that was just sent.
LEMMA NewCallIs ==
    ASSUME NEW op \in PanelOps, NEW arg, op \in {"tls", "plain"} => arg \in BOOLEAN,
           op = "sub" => arg \in Draft
    PROVE  PanelCallOK(NewRequest(op, arg)) /\ ~Coming(NewRequest(op, arg))
<1> DEFINE c == NewRequest(op, arg)
<1>1. /\ Function(c, {"op", "arg", "live", "ans"})
      /\ c.op = op /\ c.arg = arg /\ c.live = TRUE /\ c.ans = Waiting
  BY DEF NewRequest, Function
<1>2. Waiting \in PanelAnswers /\ Waiting.kind # "ok"
  BY DEF PanelAnswers, Waiting
<1> HIDE DEF c
<1>3. PanelCallOK(c) /\ ~Coming(c)
  BY <1>1, <1>2 DEF PanelCallOK, Coming
<1> QED
  BY <1>3 DEF c

\* Sending a request.
LEMMA SendKeepsPanel ==
    ASSUME PanelInv, NEW op \in PanelOps, NEW arg, Send(op, arg),
           op \in {"tls", "plain"} => arg \in BOOLEAN, op = "sub" => arg \in Draft,
           status' = status, draft' = draft
    PROVE  PanelInv'
<1> DEFINE c == NewRequest(op, arg)
<1>1. PanelCallOK(c) /\ ~Coming(c)
  BY NewCallIs
<1>2. calls' = Append(calls, c) /\ srv' = srv /\ behind' = behind
  BY DEF Send
<1>3. PanelTypeInv /\ PanelCallsOK(calls) /\ AnswersInv(calls, srv)
  BY DEF PanelInv, PanelTypeInv
<1> HIDE DEF c
<1>4. /\ PanelCallsOK(Append(calls, c))
      /\ ComingAfter(calls, 0) => ComingAfter(Append(calls, c), 0)
      /\ AnswersInv(Append(calls, c), srv)
  BY <1>1, <1>3, AppendKeepsRight
<1>5. PanelCallsOK(calls') /\ AnswersInv(calls', srv')
  BY <1>2, <1>4
<1>6. PanelTypeInv'
  BY <1>2, <1>3, <1>5 DEF PanelTypeInv, PanelCallsOK
<1> QED
  BY <1>2, <1>4, <1>5, <1>6, ShownStays

\* The controls of the panel.
LEMMA ControlsKeep ==
    ASSUME PanelInv,
           \/ Poll \/ ToggleTLS \/ TogglePlain
           \/ RequestCertificate \/ SaveDraft
    PROVE  PanelInv'
<1>1. /\ "poll" \in PanelOps /\ "tls" \in PanelOps /\ "plain" \in PanelOps
      /\ "cert" \in PanelOps /\ "sub" \in PanelOps
  BY DEF PanelOps
<1>2. CASE Poll
  <2>1. Send("poll", None) /\ status' = status /\ draft' = draft
    BY <1>2 DEF Poll, panelVars
  <2> QED
    BY <1>1, <2>1, SendKeepsPanel
<1>3. CASE ToggleTLS
  <2>1. /\ Send("tls", nextTLSState(status))
        /\ status' = status /\ draft' = draft
    BY <1>3 DEF ToggleTLS, SendSetting
  <2>2. nextTLSState(status) \in BOOLEAN
    BY DEF nextTLSState
  <2> QED
    BY <1>1, <2>1, <2>2, SendKeepsPanel
<1>4. CASE TogglePlain
  <2>1. /\ Send("plain", nextPlainState(status))
        /\ status' = status /\ draft' = draft
    BY <1>4 DEF TogglePlain, SendSetting
  <2>2. nextPlainState(status) \in BOOLEAN
    BY DEF nextPlainState
  <2> QED
    BY <1>1, <2>1, <2>2, SendKeepsPanel
<1>5. CASE RequestCertificate
  <2>1. Send("cert", None) /\ status' = status /\ draft' = draft
    BY <1>5 DEF RequestCertificate, SendSetting
  <2> QED
    BY <1>1, <2>1, SendKeepsPanel
<1>6. CASE SaveDraft
  <2>1. Send("sub", draft) /\ status' = status /\ draft' = draft
    BY <1>6 DEF SaveDraft, SendSetting
  <2>2. draft \in Draft
    BY DEF PanelInv, PanelTypeInv
  <2> QED
    BY <1>1, <2>1, <2>2, SendKeepsPanel
<1> QED
  BY <1>2, <1>3, <1>4, <1>5, <1>6

\* Typing, under the assumption that only drafts are typed.
LEMMA TypingKeeps ==
    ASSUME PanelInv, NEW d \in Drafts, EditDraft(d)
    PROVE  PanelInv'
<1>1. d \in Draft
  BY PanelConstants
<1>2. /\ draft' = d /\ status' = status /\ calls' = calls
      /\ srv' = srv /\ behind' = behind
  BY DEF EditDraft
<1> QED
  BY <1>1, <1>2 DEF PanelInv, PanelTypeInv, PanelCallsOK, AnswersInv, ComingAfter

\* The helper, the clock and the monitor: what was right without announcing work
\* would have stopped them.
LEMMA WorkKeeps ==
    ASSUME PanelInv,
           HelperRefuses \/ HelperStarts \/ HelperEnds \/ TimeOut \/ MonitorApplies
    PROVE  PanelInv'
<1>1. /\ srv' \in ServerRecords /\ ~AtRest(srv)
      /\ status' = status /\ draft' = draft
      /\ calls' = calls /\ behind' = behind
  BY WorkSteps DEF PanelInv
<1>2. \A st : Right(st, srv) => Right(st, srv')
  BY <1>1 DEF Right
<1>3. AnswersInv(calls', srv')
  BY <1>1, <1>2 DEF PanelInv, AnswersInv
<1>4. PanelTypeInv'
  BY <1>1 DEF PanelInv, PanelTypeInv, PanelCallsOK
<1> QED
  BY <1>1, <1>2, <1>3, <1>4, ShownStays

\* A request that ends without a status to show.
LEMMA EndedKeeps ==
    ASSUME PanelInv, NEW i \in DOMAIN calls, ~Coming(calls[i]),
           calls' = RemoveAt(calls, i),
           UNCHANGED <<status, draft, srv, behind>>
    PROVE  PanelInv'
<1>1. PanelTypeInv /\ PanelCallsOK(calls) /\ AnswersInv(calls, srv)
  BY DEF PanelInv, PanelTypeInv
<1>2. /\ PanelCallsOK(RemoveAt(calls, i))
      /\ ComingAfter(calls, 0) => ComingAfter(RemoveAt(calls, i), 0)
      /\ AnswersInv(RemoveAt(calls, i), srv)
  BY <1>1, RemoveKeepsRight
<1>3. PanelCallsOK(calls') /\ AnswersInv(calls', srv')
  BY <1>2
<1>4. PanelTypeInv'
  BY <1>1, <1>3 DEF PanelTypeInv, PanelCallsOK
<1> QED
  BY <1>2, <1>3, <1>4, ShownStays

\* An answer that is delivered holds a status.
LEMMA DeliveredIs ==
    ASSUME NEW c, PanelCallOK(c), c.ans.kind = "ok"
    PROVE  c.ans.status \in TransportStatus /\ c.ans.clean \in BOOLEAN
<1>1. Waiting.kind # "ok" /\ Failed.kind # "ok"
  BY DEF Waiting, Failed
<1>2. c.ans \in [kind : {"ok"}, status : TransportStatus, clean : BOOLEAN]
  BY <1>1 DEF PanelCallOK, PanelAnswers
<1> QED
  BY <1>2

\* An answer is shown: it is right, or one behind it will be.
LEMMA DeliverStatusKeeps ==
    ASSUME PanelInv, NEW i \in DOMAIN calls, DeliverStatus(i)
    PROVE  PanelInv'
<1> DEFINE c == calls[i]
<1>1. PanelTypeInv /\ PanelCallsOK(calls) /\ AnswersInv(calls, srv) /\ PanelCallOK(c)
  BY DEF PanelInv, PanelTypeInv, PanelCallsOK
<1>2. Coming(c) /\ c.ans.status \in TransportStatus /\ c.ans.clean \in BOOLEAN
  BY <1>1, DeliveredIs DEF DeliverStatus, Coming
<1>3. /\ status' = c.ans.status /\ behind' = ~c.ans.clean /\ srv' = srv
      /\ draft' = DraftAfter(c.ans.status)
  BY DEF DeliverStatus, ShowStatus
<1>4. calls' = Shown(calls, i)
  BY DEF DeliverStatus, Shown
<1>5. draft' \in Draft
  <2>1. \A st : st \in TransportStatus => FormOf(st) \in Draft
    BY DEF FormOf, TransportStatus, SubConfig, Draft
  <2> QED
    BY <1>1, <1>2, <1>3, <2>1 DEF DraftAfter, PanelTypeInv
<1>6. /\ PanelCallsOK(Shown(calls, i)) /\ AnswersInv(Shown(calls, i), srv)
      /\ ComingAfter(calls, i) => ComingAfter(Shown(calls, i), 0)
  BY <1>1, ShownKeepsRight
<1>7. c.ans.clean => Right(c.ans.status, srv) \/ ComingAfter(calls, i)
  BY <1>1, <1>2 DEF AnswersInv
<1> HIDE DEF c
<1>8. PanelTypeInv'
  BY <1>1, <1>2, <1>3, <1>4, <1>5, <1>6 DEF PanelTypeInv, PanelCallsOK
<1>9. /\ AnswersInv(calls', srv')
      /\ ComingAfter(calls, i) => ComingAfter(calls', 0)
  BY <1>3, <1>4, <1>6
<1>10. ~behind' => Right(status', srv') \/ ComingAfter(calls', 0)
  BY <1>3, <1>7, <1>9
<1> QED
  BY <1>8, <1>9, <1>10 DEF PanelInv, AnswersInv, ComingAfter

\* The request that was answered, with its answer.
LEMMA AnsweredIs ==
    ASSUME NEW c, PanelCallOK(c), NEW st \in TransportStatus, NEW clean \in BOOLEAN,
           c.op = "sub" => st.sub = Normalized(c.arg),
           NEW d, d = [c EXCEPT !.ans = [kind |-> "ok", status |-> st, clean |-> clean]]
    PROVE  PanelCallOK(d) /\ d.ans.status = st /\ d.ans.clean = clean /\ (Coming(d) <=> c.live)
<1> DEFINE a == [kind |-> "ok", status |-> st, clean |-> clean]
<1>1. /\ a \in [kind : {"ok"}, status : TransportStatus, clean : BOOLEAN]
      /\ a.kind = "ok" /\ a.status = st /\ a.clean = clean
  OBVIOUS
<1>2. a \in PanelAnswers
  BY <1>1 DEF PanelAnswers
<1> HIDE DEF a
<1>3. d = [c EXCEPT !.ans = a]
  BY DEF a
<1>4. /\ d.ans = a /\ d.op = c.op /\ d.arg = c.arg /\ d.live = c.live
      /\ Function(d, {"op", "arg", "live", "ans"})
  BY <1>3 DEF PanelCallOK, Function
<1> QED
  BY <1>1, <1>2, <1>4 DEF PanelCallOK, Coming

\* A handler answers.  The answer to a live request stands behind all others; a
\* change nobody awaits marks them all as overtaken, and what is shown as behind.
LEMMA PanelServedKeeps ==
    ASSUME PanelInv, NEW i \in DOMAIN calls, StatusServed(i)
    PROVE  PanelInv'
<1> DEFINE c == calls[i]
           sv == Changed(c)
           st == StatusLocked(sv)
           clean == ~Unsettled(sv)
           d == [c EXCEPT !.ans = [kind |-> "ok", status |-> st, clean |-> clean]]
           before == IF Orphan(c) THEN Unclean(calls) ELSE calls
           rest == RemoveAt(before, i)
<1>1. PanelTypeInv /\ PanelCallsOK(calls) /\ AnswersInv(calls, srv) /\ PanelCallOK(c)
  BY DEF PanelInv, PanelTypeInv, PanelCallsOK
<1>2. c.ans = Waiting /\ sv # None /\ srv' = StatusRead(sv)
  BY DEF StatusServed
<1>3. calls' = Append(rest, d)
  BY DEF StatusServed
<1>4. /\ behind' = (behind \/ Orphan(c))
      /\ status' = status /\ draft' = draft
  BY DEF StatusServed, panelVars
<1>5. sv \in ServerRecords /\ (c.op \in Reads => sv = srv)
  BY <1>1, <1>2, ChangedIs
<1>6. srv' \in ServerRecords /\ \A s : Right(s, srv') <=> Right(s, sv)
  BY <1>2, <1>5, ReadKeeps
<1>7. /\ st \in TransportStatus /\ st.certificate = Certificate(sv) /\ clean \in BOOLEAN
      /\ c.op = "sub" => st.sub = Normalized(c.arg)
  BY <1>1, <1>2, <1>5, StatusIs, ChangedIs DEF StatusLocked
<1> HIDE DEF sv
<1>8. clean => Right(st, sv)
  BY <1>7 DEF Right, Announces, AtRest
<1> HIDE DEF st, clean
<1>9. PanelCallOK(d) /\ d.ans.status = st /\ d.ans.clean = clean /\ (Coming(d) <=> c.live)
  BY <1>1, <1>7, AnsweredIs
<1>10. d.ans.clean => Right(d.ans.status, srv')
  BY <1>6, <1>8, <1>9
<1>11. ~Coming(c)
  BY <1>2 DEF Coming, Waiting
<1>12. /\ PanelCallsOK(before) /\ DOMAIN before = DOMAIN calls /\ ~Coming(before[i])
       /\ Orphan(c) => \A s : AnswersInv(before, s)
       /\ ~Orphan(c) => before = calls
  <2>1. CASE Orphan(c)
    BY <1>1, <1>11, <2>1, OutdatedIs, OutdatedAnswerIs
  <2>2. CASE ~Orphan(c)
    BY <1>1, <1>11, <2>2
  <2> QED
    BY <2>1, <2>2
<1> HIDE DEF c, d, before
<1>13. /\ PanelCallsOK(rest)
       /\ \A s : AnswersInv(before, s) => AnswersInv(rest, s)
       /\ ComingAfter(before, 0) => ComingAfter(rest, 0)
  BY <1>12, RemoveKeepsRight
<1> HIDE DEF rest
<1>14. /\ PanelCallsOK(Append(rest, d))
       /\ ComingAfter(rest, 0) => ComingAfter(Append(rest, d), 0)
       /\ ~Coming(d) /\ AnswersInv(rest, srv') => AnswersInv(Append(rest, d), srv')
       /\ Coming(d) => /\ ComingAfter(Append(rest, d), 0)
                       /\ AnswersInv(Append(rest, d), srv')
  BY <1>9, <1>10, <1>13, AppendKeepsRight
<1>15. PanelTypeInv'
  BY <1>1, <1>3, <1>4, <1>6, <1>14 DEF PanelTypeInv, PanelCallsOK
<1>16. CASE c.live
  <2>1. ComingAfter(calls', 0) /\ AnswersInv(calls', srv')
    BY <1>3, <1>9, <1>14, <1>16
  <2> QED
    BY <1>15, <2>1 DEF PanelInv, AnswersInv, ComingAfter
<1>17. CASE ~c.live /\ Orphan(c)
  <2>1. AnswersInv(calls', srv')
    BY <1>3, <1>9, <1>12, <1>13, <1>14, <1>17
  <2>2. behind'
    BY <1>4, <1>17
  <2> QED
    BY <1>15, <2>1, <2>2 DEF PanelInv, AnswersInv
<1>18. CASE ~c.live /\ ~Orphan(c)
  <2>1. sv = srv
    BY <1>5, <1>18 DEF Orphan
  <2>2. \A s : Right(s, srv) <=> Right(s, srv')
    BY <1>6, <2>1
  <2>3. AnswersInv(calls, srv')
    BY <1>1, <2>2 DEF AnswersInv
  <2>4. AnswersInv(calls', srv')
    BY <1>3, <1>9, <1>12, <1>13, <1>14, <1>18, <2>3
  <2>5. ComingAfter(calls, 0) => ComingAfter(calls', 0)
    BY <1>3, <1>12, <1>13, <1>14, <1>18
  <2>6. behind' = behind
    BY <1>1, <1>4, <1>18 DEF PanelTypeInv
  <2> QED
    BY <1>4, <1>15, <2>2, <2>4, <2>5, <2>6, ShownStays
<1> QED
  BY <1>16, <1>17, <1>18, Zenon

\* A change was made and its answer got lost: everything is marked.
LEMMA AnswerLostKeeps ==
    ASSUME PanelInv, NEW i \in DOMAIN calls, AnswerLost(i)
    PROVE  PanelInv'
<1> DEFINE c == calls[i]
           o == Unclean(calls)
           d == [o[i] EXCEPT !.ans = Failed]
<1>1. PanelTypeInv /\ PanelCallsOK(calls) /\ PanelCallOK(c)
  BY DEF PanelInv, PanelTypeInv, PanelCallsOK
<1>2. /\ c.ans = Waiting /\ Changed(c) # None
      /\ srv' = StatusRead(Changed(c))
  BY DEF AnswerLost
<1>3. /\ calls' = [o EXCEPT ![i] = d] /\ behind' = TRUE
      /\ status' = status /\ draft' = draft
  BY DEF AnswerLost, panelVars
<1>4. srv' \in ServerRecords
  BY <1>1, <1>2, ChangedIs, ReadKeeps
<1>5. PanelCallsOK(o) /\ DOMAIN o = DOMAIN calls /\ \A s : AnswersInv(o, s)
  BY <1>1, OutdatedIs
<1>6. \A j \in DOMAIN o : Coming(o[j]) => ~o[j].ans.clean
  BY <1>1, OutdatedIs, OutdatedAnswerIs DEF PanelCallsOK
<1> HIDE DEF o
<1>7. Failed \in PanelAnswers /\ Failed.kind # "ok"
  BY DEF PanelAnswers, Failed
<1>8. /\ d.ans = Failed /\ d.op = o[i].op /\ d.arg = o[i].arg /\ d.live = o[i].live
      /\ Function(d, {"op", "arg", "live", "ans"})
  BY <1>5 DEF PanelCallsOK, PanelCallOK, Function
<1>9. PanelCallOK(d) /\ ~Coming(d)
  BY <1>5, <1>7, <1>8 DEF PanelCallsOK, PanelCallOK, Coming
<1> HIDE DEF c, d
<1>10. IsSeq(calls') /\ DOMAIN calls' = DOMAIN o
  <2>1. o \in Seq(Elements(o) \cup {d}) /\ d \in Elements(o) \cup {d}
    BY <1>5 DEF PanelCallsOK, IsSeq
  <2>2. calls' \in Seq(Elements(o) \cup {d})
    BY <1>3, <1>5, <2>1
  <2> QED
    BY <1>3, <2>2, SeqOverElements
<1>11. \A j \in DOMAIN calls' : calls'[j] = IF j = i THEN d ELSE o[j]
  BY <1>3, <1>5, <1>10
<1>12. PanelCallsOK(calls')
  BY <1>5, <1>9, <1>10, <1>11 DEF PanelCallsOK
<1>13. AnswersInv(calls', srv')
  BY <1>6, <1>9, <1>10, <1>11 DEF AnswersInv
<1>14. PanelTypeInv'
  BY <1>1, <1>3, <1>4, <1>12 DEF PanelTypeInv, PanelCallsOK
<1> QED
  BY <1>3, <1>13, <1>14 DEF PanelInv, AnswersInv

\* The page is opened anew: nothing is shown, no old answer will be.
LEMMA RemountKeeps ==
    ASSUME PanelInv, Remount
    PROVE  PanelInv'
<1> DEFINE G(j) == [calls[j] EXCEPT !.live = FALSE]
           old == [j \in DOMAIN calls |-> G(j)]
           c == NewRequest("load", None)
           n == Len(calls)
<1>1. /\ PanelTypeInv /\ PanelCallsOK(calls)
      /\ n \in Nat /\ DOMAIN calls = 1..n
  BY Places DEF PanelInv, PanelTypeInv, PanelCallsOK
<1>2. /\ status' = None /\ draft' = FormOf(None)
      /\ calls' = Append(old, c) /\ srv' = srv /\ behind' = behind
  BY DEF Remount
<1>3. FormOf(None) \in Draft
  BY DEF FormOf, Draft
<1>4. PanelCallOK(c) /\ ~Coming(c)
  BY NewCallIs DEF PanelOps
<1>5. \A j \in 1..n : PanelCallOK(G(j)) /\ ~Coming(G(j))
  <2> SUFFICES ASSUME NEW j \in 1..n PROVE PanelCallOK(G(j)) /\ ~Coming(G(j))
    OBVIOUS
  <2>1. PanelCallOK(calls[j])
    BY <1>1 DEF PanelCallsOK
  <2>2. /\ G(j).live = FALSE /\ G(j).op = calls[j].op /\ G(j).arg = calls[j].arg
        /\ G(j).ans = calls[j].ans /\ Function(G(j), {"op", "arg", "live", "ans"})
    BY <2>1 DEF PanelCallOK, Function
  <2> QED
    BY <2>1, <2>2 DEF PanelCallOK, Coming
<1> HIDE DEF G
<1>6. DOMAIN old = 1..n /\ \A j \in 1..n : old[j] = G(j)
  BY <1>1
<1>7. IsSeq(old)
  BY <1>1, <1>6 DEF IsSeq, Elements
<1> HIDE DEF old, c
<1>8. PanelCallsOK(old) /\ AnswersInv(old, srv)
  BY <1>5, <1>6, <1>7 DEF PanelCallsOK, AnswersInv
<1>9. PanelCallsOK(Append(old, c)) /\ AnswersInv(Append(old, c), srv)
  BY <1>4, <1>8, AppendKeepsRight
<1>10. PanelTypeInv'
  BY <1>1, <1>2, <1>3, <1>9 DEF PanelTypeInv, PanelCallsOK
<1> QED
  BY <1>2, <1>9, <1>10 DEF PanelInv, AnswersInv

\* The panel as it opens.
LEMMA PanelInitially ==
    ASSUME TransportInit
    PROVE  PanelInv
<1> DEFINE c == NewRequest("load", None)
<1>1. PanelCallOK(c) /\ ~Coming(c)
  BY NewCallIs DEF PanelOps
<1>2. /\ status = None /\ draft = FormOf(None) /\ calls = <<c>>
      /\ srv = InitServer /\ behind = FALSE
  BY DEF TransportInit
<1>3. InitServer \in ServerRecords
  BY DEF InitServer, ServerRecords, SubConfig
<1>4. FormOf(None) \in Draft
  BY DEF FormOf, Draft
<1> HIDE DEF c
<1>5. DOMAIN calls = {1} /\ calls[1] = c /\ calls \in Seq({c})
  BY <1>2
<1>6. PanelCallsOK(calls) /\ AnswersInv(calls, srv)
  BY <1>1, <1>5, SeqOverElements DEF PanelCallsOK, AnswersInv
<1> QED
  BY <1>2, <1>3, <1>4, <1>6 DEF PanelInv, PanelTypeInv

\* One step of each kind.
LEMMA PanelNext ==
    ASSUME PanelInv, [TransportNext]_transportVars
    PROVE  PanelInv'
<1>1. CASE UNCHANGED transportVars
  <2>1. UNCHANGED <<status, draft, calls, srv, behind>>
    BY <1>1 DEF transportVars, panelVars
  <2> QED
    BY <2>1 DEF PanelInv, PanelTypeInv, PanelCallsOK, AnswersInv, ComingAfter
<1>2. ASSUME NEW i \in DOMAIN calls, Deliver(i) PROVE PanelInv'
  <2>1. CASE DeliverStatus(i)
    BY <2>1, DeliverStatusKeeps
  <2>2. CASE ShowFailure(i)
    <3>1. /\ calls' = RemoveAt(calls, i)
          /\ UNCHANGED <<status, draft, srv, behind>>
      BY <2>2 DEF ShowFailure
    <3>2. ~Coming(calls[i])
      BY <2>2 DEF ShowFailure, Coming, Waiting, Failed
    <3> QED
      BY <3>1, <3>2, EndedKeeps
  <2>3. CASE DeliverDropped(i)
    <3>1. /\ calls' = RemoveAt(calls, i) /\ ~Coming(calls[i])
          /\ UNCHANGED <<status, draft, srv, behind>>
      BY <2>3 DEF DeliverDropped, Coming, panelVars
    <3> QED
      BY <3>1, EndedKeeps
  <2> QED
    BY <1>2, <2>1, <2>2, <2>3 DEF Deliver
<1>3. ASSUME NEW i \in DOMAIN calls, StatusServed(i) \/ AnswerLost(i) PROVE PanelInv'
  BY <1>3, PanelServedKeeps, AnswerLostKeeps
<1>4. CASE HelperRefuses \/ HelperStarts \/ HelperEnds \/ TimeOut \/ MonitorApplies
  BY <1>4, WorkKeeps
<1>5. CASE \/ Poll \/ ToggleTLS \/ TogglePlain
           \/ RequestCertificate \/ SaveDraft
  BY <1>5, ControlsKeep
<1>6. ASSUME NEW d \in Drafts, EditDraft(d) PROVE PanelInv'
  BY <1>6, TypingKeeps
<1>7. CASE Remount
  BY <1>7, RemountKeeps
<1> QED
  BY <1>1, <1>2, <1>3, <1>4, <1>5, <1>6, <1>7 DEF TransportNext

\* The invariant of the panel, for every bound and all drafts.
THEOREM PanelInvariance == TransportSpec => []PanelInv
<1>1. TransportInit => PanelInv
  BY PanelInitially
<1>2. PanelInv /\ [TransportNext]_transportVars => PanelInv'
  BY PanelNext
<1> QED
  BY <1>1, <1>2, PTL DEF TransportSpec

\* TransportSettings.tsx: with nothing in flight and no certificate work
\* announced, the panel shows the configuration the server has.
THEOREM PanelTruth == TransportSpec => []PanelTellsTruth
<1>1. ASSUME PanelInv PROVE PanelTellsTruth
  <2> SUFFICES ASSUME calls = <<>>, status # None, ~behind,
                      ~certificatePending(status)
               PROVE  status = StatusLocked(srv)
    BY DEF PanelTellsTruth
  <2>1. ~ComingAfter(calls, 0)
    BY DEF ComingAfter
  <2>2. Right(status, srv)
    BY <1>1, <2>1 DEF PanelInv
  <2>3. ~Announces(status)
    BY DEF certificatePending, Announces
  <2> QED
    BY <2>2, <2>3 DEF Right
<1>2. PanelInv => PanelTellsTruth
  BY <1>1
<1> QED
  BY <1>2, PanelInvariance, PTL

(***************************************************************************)
(* The auto-subdomain form: it holds what was typed, or the setting of the *)
(* status that is shown.                                                   *)
(***************************************************************************)
FormInv ==
    /\ typed # None => draft = typed
    /\ typed = None => Normalized(draft) = FormOf(status)

LEMMA FormInitially ==
    ASSUME TransportInit
    PROVE  FormInv
BY DEF TransportInit, FormInv, FormOf, Normalized

\* An answer is shown: a new setting fills the form, an old one leaves it.
LEMMA FormShown ==
    ASSUME PanelInv, FormInv, NEW i \in DOMAIN calls, DeliverStatus(i)
    PROVE  FormInv'
<1> DEFINE c == calls[i]
           next == c.ans.status
<1>1. PanelCallOK(c) /\ draft \in Draft
  BY DEF PanelInv, PanelTypeInv, PanelCallsOK
<1>2. /\ c.ans.kind = "ok" /\ status' = next /\ draft' = DraftAfter(next)
      /\ typed' = TypedAfter(c, next)
  BY DEF DeliverStatus, ShowStatus
<1>3. next \in TransportStatus
  BY <1>1, <1>2, DeliveredIs
<1>4. /\ next # None /\ next.sub \in SubConfig /\ next.sub.enabled # None
      /\ FormOf(next) = next.sub /\ Normalized(next.sub) = next.sub
  <2>1. next # None /\ next.sub \in SubConfig
    BY <1>3, PanelConstants DEF TransportStatus
  <2>2. next.sub.enabled # None
    BY <2>1, PanelConstants DEF SubConfig
  <2> QED
    BY <2>1, <2>2 DEF FormOf, Normalized, SubConfig
<1>5. c.op = "sub" => next.sub = Normalized(c.arg)
  BY <1>1, <1>2 DEF PanelCallOK
<1> HIDE DEF c, next
<1>6. CASE status = None \/ next.sub # status.sub
  <2>1. SubDeps(next) # SubDeps(status)
    <3>1. CASE status = None
      BY <1>4, <3>1 DEF SubDeps
    <3>2. CASE status # None /\ next.sub # status.sub
      <4>1. status.sub \in SubConfig
        BY <3>2 DEF PanelInv, PanelTypeInv, TransportStatus
      <4>2. \A a, b \in SubConfig : a.enabled = b.enabled /\ a.base = b.base => a = b
        <5>1. ASSUME NEW a \in SubConfig PROVE a = [enabled |-> a.enabled, base |-> a.base]
          BY DEF SubConfig
        <5> QED
          BY <5>1
      <4> QED
        BY <1>4, <3>2, <4>1, <4>2 DEF SubDeps
    <3> QED
      BY <1>6, <3>1, <3>2
  <2>2. draft' = next.sub /\ typed' = None
    BY <1>2, <1>4, <1>6, <2>1 DEF DraftAfter, TypedAfter
  <2> QED
    BY <1>2, <1>4, <2>2 DEF FormInv
<1>7. CASE status # None /\ next.sub = status.sub
  <2>1. SubDeps(next) = SubDeps(status) /\ FormOf(status) = next.sub
    BY <1>4, <1>7 DEF SubDeps, FormOf
  <2>2. /\ draft' = draft
        /\ typed' = IF c.op = "sub" /\ c.arg = draft THEN None ELSE typed
    BY <1>2, <1>7, <2>1 DEF DraftAfter, TypedAfter
  <2> QED
    BY <1>2, <1>4, <1>5, <2>1, <2>2 DEF FormInv
<1> QED
  BY <1>6, <1>7

\* Every other step types, opens the page anew or leaves the form alone.
LEMMA FormNext ==
    ASSUME PanelInv, FormInv, [TransportNext]_transportVars
    PROVE  FormInv'
<1>1. ASSUME UNCHANGED <<status, draft, typed>> PROVE FormInv'
  BY <1>1 DEF FormInv
<1>2. ASSUME NEW i \in DOMAIN calls, StatusServed(i) \/ AnswerLost(i) \/ Deliver(i)
      PROVE  FormInv'
  BY <1>1, <1>2, FormShown
     DEF StatusServed, AnswerLost, Deliver, ShowFailure, DeliverDropped, panelVars
<1>3. CASE HelperRefuses \/ HelperStarts \/ HelperEnds \/ TimeOut \/ MonitorApplies
  BY <1>1, <1>3
     DEF HelperRefuses, HelperStarts, HelperEnds, TimeOut, MonitorApplies, panelVars
<1>4. CASE Poll \/ ToggleTLS \/ TogglePlain \/ RequestCertificate \/ SaveDraft
  BY <1>1, <1>4 DEF Poll, ToggleTLS, TogglePlain, RequestCertificate, SaveDraft, panelVars
<1>5. ASSUME NEW d \in Drafts, EditDraft(d) PROVE FormInv'
  <2>1. d # None
    BY PanelConstants
  <2> QED
    BY <1>5, <2>1 DEF EditDraft, FormInv
<1>6. CASE Remount
  BY <1>6 DEF Remount, FormInv, FormOf, Normalized
<1>7. CASE UNCHANGED transportVars
  BY <1>1, <1>7 DEF transportVars, panelVars
<1> QED
  BY <1>2, <1>3, <1>4, <1>5, <1>6, <1>7 DEF TransportNext

\* AutoSubdomainControl: the form shows what was typed into it, or else, with
\* nothing in flight and no certificate work announced, the server's setting.
THEOREM FormTruth == TransportSpec => []FormTellsTruth
<1>1. TransportInit => FormInv
  BY FormInitially
<1>2. PanelInv /\ FormInv /\ [TransportNext]_transportVars => FormInv'
  BY FormNext
<1>3. ASSUME FormInv, PanelTellsTruth PROVE FormTellsTruth
  <2>1. typed # None => draft = typed
    BY <1>3 DEF FormInv
  <2>2. ASSUME calls = <<>>, status # None, ~behind, ~certificatePending(status), typed = None
        PROVE  Normalized(draft) = srv.sub
    <3>1. status = StatusLocked(srv)
      BY <1>3, <2>2 DEF PanelTellsTruth
    <3>2. FormOf(status) = srv.sub
      BY <2>2, <3>1 DEF FormOf, StatusLocked
    <3> QED
      BY <1>3, <2>2, <3>2 DEF FormInv
  <2> QED
    BY <2>1, <2>2 DEF FormTellsTruth
<1>4. FormInv /\ PanelTellsTruth => FormTellsTruth
  BY <1>3
<1> QED
  BY <1>1, <1>2, <1>4, PanelInvariance, PanelTruth, PTL DEF TransportSpec
===============================================================================
