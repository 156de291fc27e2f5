---------------------- MODULE ControlWriteQueueProofs ----------------------
(***************************************************************************)
(* Proofs about ControlWriteQueue, for every set of messages, every limit  *)
(* and every number of callers and closers.                                *)
(***************************************************************************)
EXTENDS ControlWriteQueue, FiniteSetTheorems, TLAPS

Distinct(s) == \A i, j \in 1 .. Len(s) : s[i] = s[j] => i = j

DistinctPending ==
    \A i, j \in 1 .. Len(pending) : pending[i].msg = pending[j].msg => i = j

Owned(m) == InLanes(m) \/ InFlight(m) \/ InPending(m)

(* Each lane holds messages of its own class, each of them once.           *)
LanesInv ==
    /\ \A m : Contains(critical, m) => InCritical(m)
    /\ \A m : Contains(urgent, m) => InUrgent(m)
    /\ \A m : Contains(normal, m) => InNormal(m)
    /\ Distinct(critical) /\ Distinct(urgent) /\ Distinct(normal)
    /\ DistinctPending

(* The writer has a message exactly while it writes or completes it.       *)
FlightInv ==
    /\ item # NoMessage <=> writer \in {"writing", "completing"}
    /\ writer = "completing" /\ writeErr = "nil" => Contains(wire, item)
    /\ writer = "failing" => writeErr = "broken"

(* Ownership of a message, and what its caller may be told.                *)
OwnerInv ==
    \A m \in Messages :
        /\ ~(InLanes(m) /\ InFlight(m))
        /\ ~(InLanes(m) /\ InPending(m))
        /\ ~(InFlight(m) /\ InPending(m))
        /\ Owned(m) => done[m] = "none" /\ call[m] \in {"waiting", "accepted", "timeout"}
        /\ InLanes(m) \/ InPending(m) \/ call[m] = "new" => ~Contains(wire, m)

AnswerInv ==
    \A m \in Messages :
        /\ done[m] = "nil" => Contains(wire, m)
        /\ done[m] = "closed" => ~Contains(wire, m)
        /\ done[m] # "none" => call[m] \in {"waiting", "accepted", "timeout"}

IInv == /\ TypeOK /\ QueueAccounting /\ LanesInv /\ FlightInv /\ OwnerInv
        /\ AnswerInv /\ TruthfulAnswer

----------------------------------------------------------------------------
(* What the operations on lanes do to their contents.                      *)

LEMMA AppendFacts ==
    ASSUME NEW S, NEW s \in Seq(S), NEW e \in S
    PROVE  /\ Append(s, e) \in Seq(S)
           /\ Len(Append(s, e)) = Len(s) + 1
           /\ \A m : Contains(Append(s, e), m) <=> Contains(s, m) \/ m = e
           /\ Distinct(s) /\ ~Contains(s, e) => Distinct(Append(s, e))
<1>1. /\ Append(s, e) \in Seq(S)
      /\ Len(Append(s, e)) = Len(s) + 1
      /\ \A i \in 1 .. Len(s) : Append(s, e)[i] = s[i]
      /\ Append(s, e)[Len(s) + 1] = e
      /\ Len(s) \in Nat
  OBVIOUS
<1>2. \A m : Contains(Append(s, e), m) <=> Contains(s, m) \/ m = e
  BY <1>1 DEF Contains
<1>3. Distinct(s) /\ ~Contains(s, e) => Distinct(Append(s, e))
  BY <1>1 DEF Contains, Distinct
<1> QED BY <1>1, <1>2, <1>3

LEMMA TailFacts ==
    ASSUME NEW S, NEW s \in Seq(S), s # <<>>
    PROVE  /\ Tail(s) \in Seq(S) /\ Head(s) \in S
           /\ Len(Tail(s)) = Len(s) - 1 /\ Len(s) \in Nat /\ Len(s) > 0
           /\ \A m : Contains(s, m) <=> m = Head(s) \/ Contains(Tail(s), m)
           /\ Distinct(s) => Distinct(Tail(s)) /\ ~Contains(Tail(s), Head(s))
<1>1. /\ Tail(s) \in Seq(S) /\ Head(s) \in S /\ Head(s) = s[1]
      /\ Len(Tail(s)) = Len(s) - 1 /\ Len(s) \in Nat /\ Len(s) > 0
      /\ \A i \in 1 .. Len(s) - 1 : Tail(s)[i] = s[i + 1]
  OBVIOUS
<1>2. \A m : Contains(Tail(s), m) => Contains(s, m)
  BY <1>1 DEF Contains
<1>3. Contains(s, Head(s))
  BY <1>1 DEF Contains
<1>4. ASSUME NEW m, Contains(s, m), m # Head(s) PROVE Contains(Tail(s), m)
  <2>1. PICK i \in 1 .. Len(s) : s[i] = m
    BY <1>4 DEF Contains
  <2>2. i # 1 /\ i - 1 \in 1 .. Len(Tail(s))
    BY <1>1, <1>4, <2>1
  <2>3. Tail(s)[i - 1] = m
    BY <1>1, <2>1, <2>2
  <2> QED BY <2>2, <2>3 DEF Contains
<1>5. Distinct(s) => Distinct(Tail(s)) /\ ~Contains(Tail(s), Head(s))
  BY <1>1 DEF Contains, Distinct
<1> QED BY <1>1, <1>2, <1>3, <1>4, <1>5

LEMMA ConcatElements ==
    ASSUME NEW S, NEW s \in Seq(S), NEW t \in Seq(S)
    PROVE  /\ s \o t \in Seq(S) /\ Len(s \o t) = Len(s) + Len(t)
           /\ Len(s) \in Nat /\ Len(t) \in Nat
           /\ \A i \in 1 .. Len(s) : (s \o t)[i] = s[i]
           /\ \A i \in 1 .. Len(t) : (s \o t)[Len(s) + i] = t[i]
  OBVIOUS

LEMMA ConcatFacts ==
    ASSUME NEW S, NEW s \in Seq(S), NEW t \in Seq(S)
    PROVE  /\ s \o t \in Seq(S)
           /\ Len(s \o t) = Len(s) + Len(t)
           /\ \A m : Contains(s \o t, m) <=> Contains(s, m) \/ Contains(t, m)
           /\ Distinct(s) /\ Distinct(t) /\ (\A m : ~(Contains(s, m) /\ Contains(t, m)))
                => Distinct(s \o t)
<1>1. /\ s \o t \in Seq(S) /\ Len(s \o t) = Len(s) + Len(t)
      /\ Len(s) \in Nat /\ Len(t) \in Nat
      /\ \A i \in 1 .. Len(s) : (s \o t)[i] = s[i]
      /\ \A i \in 1 .. Len(t) : (s \o t)[Len(s) + i] = t[i]
  BY ConcatElements
<1>2. \A i \in 1 .. Len(s) + Len(t) :
          i \in 1 .. Len(s) \/ \E j \in 1 .. Len(t) : i = Len(s) + j
  <2> SUFFICES ASSUME NEW i \in 1 .. Len(s) + Len(t), i \notin 1 .. Len(s)
               PROVE  \E j \in 1 .. Len(t) : i = Len(s) + j
    OBVIOUS
  <2>1. i - Len(s) \in 1 .. Len(t) /\ i = Len(s) + (i - Len(s))
    BY <1>1
  <2> QED BY <2>1
<1>3. ASSUME NEW m PROVE Contains(s \o t, m) <=> Contains(s, m) \/ Contains(t, m)
  <2>1. Contains(s \o t, m) => Contains(s, m) \/ Contains(t, m)
    BY <1>1, <1>2 DEF Contains
  <2>2. Contains(s, m) => Contains(s \o t, m)
    BY <1>1 DEF Contains
  <2>3. ASSUME Contains(t, m) PROVE Contains(s \o t, m)
    <3>1. PICK j \in 1 .. Len(t) : t[j] = m
      BY <2>3 DEF Contains
    <3>2. Len(s) + j \in 1 .. Len(s \o t) /\ (s \o t)[Len(s) + j] = m
      BY <1>1, <3>1
    <3> QED BY <3>2 DEF Contains
  <2> QED BY <2>1, <2>2, <2>3
<1>4. ASSUME Distinct(s), Distinct(t), \A m : ~(Contains(s, m) /\ Contains(t, m)),
             NEW i \in 1 .. Len(s \o t), NEW j \in 1 .. Len(s \o t),
             (s \o t)[i] = (s \o t)[j]
      PROVE  i = j
  <2>1. CASE i \in 1 .. Len(s) /\ j \in 1 .. Len(s)
    BY <1>1, <1>4, <2>1 DEF Distinct
  <2>2. CASE i \notin 1 .. Len(s) /\ j \notin 1 .. Len(s)
    <3>1. PICK a \in 1 .. Len(t) : i = Len(s) + a
      BY <1>1, <1>2, <2>2
    <3>2. PICK b \in 1 .. Len(t) : j = Len(s) + b
      BY <1>1, <1>2, <2>2
    <3>3. t[a] = t[b]
      BY <1>1, <1>4, <3>1, <3>2
    <3> QED BY <1>4, <3>1, <3>2, <3>3 DEF Distinct
  <2>3. CASE i \in 1 .. Len(s) /\ j \notin 1 .. Len(s)
    <3>1. PICK b \in 1 .. Len(t) : j = Len(s) + b
      BY <1>1, <1>2, <2>3
    <3>2. s[i] = t[b]
      BY <1>1, <1>4, <2>3, <3>1
    <3> QED BY <1>4, <2>3, <3>2 DEF Contains
  <2>4. CASE i \notin 1 .. Len(s) /\ j \in 1 .. Len(s)
    <3>1. PICK a \in 1 .. Len(t) : i = Len(s) + a
      BY <1>1, <1>2, <2>4
    <3>2. t[a] = s[j]
      BY <1>1, <1>4, <2>4, <3>1
    <3> QED BY <1>4, <2>4, <3>2 DEF Contains
  <2> QED BY <2>1, <2>2, <2>3, <2>4
<1>5. Distinct(s) /\ Distinct(t) /\ (\A m : ~(Contains(s, m) /\ Contains(t, m)))
        => Distinct(s \o t)
  BY <1>4 DEF Distinct
<1> QED BY <1>1, <1>3, <1>5

----------------------------------------------------------------------------
(* A lane only holds its own class, so the lanes are disjoint.             *)
LEMMA LanesDisjoint ==
    ASSUME LanesInv
    PROVE  \A m : /\ ~(Contains(critical, m) /\ Contains(urgent, m))
                  /\ ~(Contains(critical, m) /\ Contains(normal, m))
                  /\ ~(Contains(urgent, m) /\ Contains(normal, m))
                  /\ Contains(critical, m) => InCritical(m)
                  /\ Contains(urgent, m) => InUrgent(m)
                  /\ Contains(normal, m) => InNormal(m)
  BY DEF LanesInv, InCritical, InUrgent, InNormal

(* Everything queued is in the drained sequence, once.                     *)
LEMMA QueuedFacts ==
    ASSUME TypeOK, LanesInv
    PROVE  /\ Queued \in Seq(Messages)
           /\ \A m : Contains(Queued, m) <=> InLanes(m)
           /\ Distinct(Queued)
<1>1. critical \in Seq(Messages) /\ urgent \in Seq(Messages) /\ normal \in Seq(Messages)
  BY DEF TypeOK
<1>2. Distinct(critical) /\ Distinct(urgent) /\ Distinct(normal)
  BY DEF LanesInv
<1>3. /\ critical \o urgent \in Seq(Messages)
      /\ \A m : Contains(critical \o urgent, m) <=> Contains(critical, m) \/ Contains(urgent, m)
      /\ Distinct(critical \o urgent)
  BY <1>1, <1>2, LanesDisjoint, ConcatFacts
<1>4. \A m : ~(Contains(critical \o urgent, m) /\ Contains(normal, m))
  BY <1>3, LanesDisjoint
<1>5. /\ (critical \o urgent) \o normal \in Seq(Messages)
      /\ \A m : Contains((critical \o urgent) \o normal, m)
                  <=> Contains(critical \o urgent, m) \/ Contains(normal, m)
      /\ Distinct((critical \o urgent) \o normal)
  BY <1>1, <1>2, <1>3, <1>4, ConcatFacts
<1>6. Queued = (critical \o urgent) \o normal
  BY DEF Queued
<1> QED BY <1>3, <1>5, <1>6 DEF InLanes

HoldsMsg(p, m) == \E i \in 1 .. Len(p) : p[i].msg = m
DistinctMsgs(p) == \A i, j \in 1 .. Len(p) : p[i].msg = p[j].msg => i = j

(* Appending a drained sequence to the pending completions.                *)
LEMMA DrainedFacts ==
    ASSUME NEW P, NEW p \in Seq(P), NEW f \in Seq(P)
    PROVE  /\ p \o f \in Seq(P)
           /\ \A m : HoldsMsg(p \o f, m) <=> HoldsMsg(p, m) \/ HoldsMsg(f, m)
           /\ DistinctMsgs(p) /\ DistinctMsgs(f)
                /\ (\A m : ~(HoldsMsg(p, m) /\ HoldsMsg(f, m))) => DistinctMsgs(p \o f)
<1>1. /\ p \o f \in Seq(P) /\ Len(p \o f) = Len(p) + Len(f)
      /\ Len(p) \in Nat /\ Len(f) \in Nat
      /\ \A i \in 1 .. Len(p) : (p \o f)[i] = p[i]
      /\ \A i \in 1 .. Len(f) : (p \o f)[Len(p) + i] = f[i]
  BY ConcatElements
<1>2. \A i \in 1 .. Len(p) + Len(f) :
          i \in 1 .. Len(p) \/ \E j \in 1 .. Len(f) : i = Len(p) + j
  <2> SUFFICES ASSUME NEW i \in 1 .. Len(p) + Len(f), i \notin 1 .. Len(p)
               PROVE  \E j \in 1 .. Len(f) : i = Len(p) + j
    OBVIOUS
  <2>1. i - Len(p) \in 1 .. Len(f) /\ i = Len(p) + (i - Len(p))
    BY <1>1
  <2> QED BY <2>1
<1>3. ASSUME NEW m PROVE HoldsMsg(p \o f, m) <=> HoldsMsg(p, m) \/ HoldsMsg(f, m)
  <2>1. HoldsMsg(p \o f, m) => HoldsMsg(p, m) \/ HoldsMsg(f, m)
    BY <1>1, <1>2 DEF HoldsMsg
  <2>2. HoldsMsg(p, m) => HoldsMsg(p \o f, m)
    BY <1>1 DEF HoldsMsg
  <2>3. ASSUME HoldsMsg(f, m) PROVE HoldsMsg(p \o f, m)
    <3>1. PICK j \in 1 .. Len(f) : f[j].msg = m
      BY <2>3 DEF HoldsMsg
    <3>2. Len(p) + j \in 1 .. Len(p \o f) /\ (p \o f)[Len(p) + j].msg = m
      BY <1>1, <3>1
    <3> QED BY <3>2 DEF HoldsMsg
  <2> QED BY <2>1, <2>2, <2>3
<1>4. ASSUME DistinctMsgs(p), DistinctMsgs(f), \A m : ~(HoldsMsg(p, m) /\ HoldsMsg(f, m)),
             NEW i \in 1 .. Len(p \o f), NEW j \in 1 .. Len(p \o f),
             (p \o f)[i].msg = (p \o f)[j].msg
      PROVE  i = j
  <2>1. CASE i \in 1 .. Len(p) /\ j \in 1 .. Len(p)
    BY <1>1, <1>4, <2>1 DEF DistinctMsgs
  <2>2. CASE i \notin 1 .. Len(p) /\ j \notin 1 .. Len(p)
    <3>1. PICK a \in 1 .. Len(f) : i = Len(p) + a
      BY <1>1, <1>2, <2>2
    <3>2. PICK b \in 1 .. Len(f) : j = Len(p) + b
      BY <1>1, <1>2, <2>2
    <3>3. f[a].msg = f[b].msg
      BY <1>1, <1>4, <3>1, <3>2
    <3> QED BY <1>4, <3>1, <3>2, <3>3 DEF DistinctMsgs
  <2>3. CASE i \in 1 .. Len(p) /\ j \notin 1 .. Len(p)
    <3>1. PICK b \in 1 .. Len(f) : j = Len(p) + b
      BY <1>1, <1>2, <2>3
    <3>2. p[i].msg = f[b].msg
      BY <1>1, <1>4, <2>3, <3>1
    <3> QED BY <1>4, <2>3, <3>2 DEF HoldsMsg
  <2>4. CASE i \notin 1 .. Len(p) /\ j \in 1 .. Len(p)
    <3>1. PICK a \in 1 .. Len(f) : i = Len(p) + a
      BY <1>1, <1>2, <2>4
    <3>2. f[a].msg = p[j].msg
      BY <1>1, <1>4, <2>4, <3>1
    <3> QED BY <1>4, <2>4, <3>2 DEF HoldsMsg
  <2> QED BY <2>1, <2>2, <2>3, <2>4
<1>5. DistinctMsgs(p) /\ DistinctMsgs(f)
        /\ (\A m : ~(HoldsMsg(p, m) /\ HoldsMsg(f, m))) => DistinctMsgs(p \o f)
  BY <1>4 DEF DistinctMsgs
<1> QED BY <1>1, <1>3, <1>5

(* Completing the first of the pending messages.                           *)
LEMMA TailMsgFacts ==
    ASSUME NEW P, NEW p \in Seq(P), p # <<>>
    PROVE  /\ Tail(p) \in Seq(P) /\ Head(p) \in P
           /\ \A m : HoldsMsg(p, m) <=> m = Head(p).msg \/ HoldsMsg(Tail(p), m)
           /\ DistinctMsgs(p) => DistinctMsgs(Tail(p)) /\ ~HoldsMsg(Tail(p), Head(p).msg)
<1>1. /\ Tail(p) \in Seq(P) /\ Head(p) \in P /\ Head(p) = p[1]
      /\ Len(Tail(p)) = Len(p) - 1 /\ Len(p) \in Nat /\ Len(p) > 0
      /\ \A i \in 1 .. Len(p) - 1 : Tail(p)[i] = p[i + 1]
  OBVIOUS
<1>2. \A m : HoldsMsg(Tail(p), m) => HoldsMsg(p, m)
  BY <1>1 DEF HoldsMsg
<1>3. HoldsMsg(p, Head(p).msg)
  BY <1>1 DEF HoldsMsg
<1>4. ASSUME NEW m, HoldsMsg(p, m), m # Head(p).msg PROVE HoldsMsg(Tail(p), m)
  <2>1. PICK i \in 1 .. Len(p) : p[i].msg = m
    BY <1>4 DEF HoldsMsg
  <2>2. i # 1 /\ i - 1 \in 1 .. Len(Tail(p))
    BY <1>1, <1>4, <2>1
  <2>3. Tail(p)[i - 1].msg = m
    BY <1>1, <2>1, <2>2
  <2> QED BY <2>2, <2>3 DEF HoldsMsg
<1>5. DistinctMsgs(p) => DistinctMsgs(Tail(p)) /\ ~HoldsMsg(Tail(p), Head(p).msg)
  BY <1>1 DEF HoldsMsg, DistinctMsgs
<1> QED BY <1>1, <1>2, <1>3, <1>4, <1>5

LEMMA FailedFacts ==
    ASSUME NEW M, NEW E, NEW s \in Seq(M), NEW cause \in E
    PROVE  /\ Failed(s, cause) \in Seq([msg : M, err : E])
           /\ \A m : HoldsMsg(Failed(s, cause), m) <=> Contains(s, m)
           /\ Distinct(s) => DistinctMsgs(Failed(s, cause))
<1>1. /\ Failed(s, cause) \in Seq([msg : M, err : E])
      /\ Len(Failed(s, cause)) = Len(s)
      /\ \A i \in 1 .. Len(s) : Failed(s, cause)[i].msg = s[i]
  BY DEF Failed
<1> QED BY <1>1 DEF HoldsMsg, Contains, Distinct, DistinctMsgs

(* A drain moves what the lanes hold to pending, and nothing else.         *)
LEMMA DrainFacts ==
    ASSUME TypeOK, LanesInv, OwnerInv, NEW cause \in Failures, Drain(cause)
    PROVE  /\ pending' \in Seq([msg : Messages, err : Failures])
           /\ \A m : InPending(m)' <=> InPending(m) \/ InLanes(m)
           /\ \A m : ~InLanes(m)'
           /\ DistinctPending'
<1>1. /\ Queued \in Seq(Messages) /\ Distinct(Queued)
      /\ \A m : Contains(Queued, m) <=> InLanes(m)
  BY QueuedFacts
<1>2. pending \in Seq([msg : Messages, err : Failures])
  BY DEF TypeOK
<1>3. PICK f : f = Failed(Queued, cause)
  OBVIOUS
<1>4. /\ f \in Seq([msg : Messages, err : Failures])
      /\ \A m : HoldsMsg(f, m) <=> InLanes(m)
      /\ DistinctMsgs(f)
  BY <1>1, <1>3, FailedFacts
<1>5. \A m : HoldsMsg(pending, m) <=> InPending(m)
  BY DEF HoldsMsg, InPending
<1>6. ASSUME NEW m PROVE ~(InPending(m) /\ InLanes(m))
  <2>1. InLanes(m) => m \in Messages
    BY DEF InLanes, Contains, TypeOK
  <2> QED BY <2>1 DEF OwnerInv
<1>7. DistinctMsgs(pending)
  BY DEF LanesInv, DistinctPending, DistinctMsgs
<1>8. /\ pending \o f \in Seq([msg : Messages, err : Failures])
      /\ \A m : HoldsMsg(pending \o f, m) <=> HoldsMsg(pending, m) \/ HoldsMsg(f, m)
      /\ DistinctMsgs(pending \o f)
  BY <1>2, <1>4, <1>5, <1>6, <1>7, DrainedFacts
<1>9. pending' = pending \o f
  BY <1>3 DEF Drain
<1>10. DistinctPending' /\ \A m : InPending(m)' <=> HoldsMsg(pending', m)
  BY <1>8, <1>9 DEF DistinctPending, DistinctMsgs, InPending, HoldsMsg
<1>11. \A m : ~InLanes(m)'
  BY DEF Drain, InLanes, Contains
<1> QED BY <1>4, <1>5, <1>8, <1>9, <1>10, <1>11

----------------------------------------------------------------------------
(* The inductive invariant.                                                *)

LEMMA InitInv == Init => IInv
<1> SUFFICES ASSUME Init PROVE IInv
  OBVIOUS
<1>1. TypeOK
  <2>1. done \in [Messages -> Errors \cup {"none"}]
    BY DEF Init
  <2>2. call \in [Messages -> Outcomes \cup {"new", "waiting"}]
    BY DEF Init
  <2>3. \A S : <<>> \in Seq(S)
    OBVIOUS
  <2>4. /\ critical \in Seq(Messages) /\ urgent \in Seq(Messages)
        /\ normal \in Seq(Messages) /\ wire \in Seq(Messages)
        /\ pending \in Seq([msg : Messages, err : Failures])
        /\ accepted \in Seq([msg : Messages, at : Nat])
    BY <2>3, Zenon DEF Init
  <2>5. queuedCount \in Nat /\ queuedBytes \in Int /\ urgentBudget \in Nat
    BY DEF Init
  <2>6. closed \in BOOLEAN
    BY Zenon DEF Init
  <2>7. /\ writer \in {"next", "waiting", "writing", "completing", "failing",
                       "reporting", "reported", "stopped"}
        /\ item \in Messages \cup {NoMessage}
        /\ writeErr \in {"nil", "broken"}
    BY DEF Init
  <2> QED BY <2>1, <2>2, <2>4, <2>5, <2>7, <2>6, Zenon DEF TypeOK
<1>2. \A m : ~InLanes(m) /\ ~InPending(m) /\ ~Contains(wire, m)
  BY DEF Init, InLanes, InPending, Contains
<1>3. \A m \in Messages : ~InFlight(m)
  BY QueueAssumption DEF Init, InFlight
<1>4. QueueAccounting /\ LanesInv /\ FlightInv
  BY DEF Init, QueueAccounting, LanesInv, FlightInv, Distinct, DistinctPending, Contains
<1>5. OwnerInv /\ AnswerInv /\ TruthfulAnswer
  BY <1>2, <1>3 DEF Init, OwnerInv, AnswerInv, TruthfulAnswer, Owned
<1> QED BY <1>1, <1>4, <1>5 DEF IInv

(* Steps of callers that touch neither lanes, item, pending nor wire.      *)
LEMMA CallerInv ==
    ASSUME IInv, NEW m \in Messages,
           RefuseClosed(m) \/ RefuseFull(m) \/ ReceiveDone(m) \/ ContextDone(m)
    PROVE  IInv'
<1> USE DEF IInv
<1>1. UNCHANGED <<critical, urgent, normal, queuedCount, queuedBytes, urgentBudget,
                  closed, writer, item, writeErr, pending, wire, accepted>>
  BY DEF RefuseClosed, RefuseFull, ReceiveDone, ContextDone, lanes, counters
<1>2. /\ call' \in [Messages -> Outcomes \cup {"new", "waiting"}]
      /\ done' \in [Messages -> Errors \cup {"none"}]
  BY DEF TypeOK, RefuseClosed, RefuseFull, ReceiveDone, ContextDone, Errors, Outcomes
<1>3. TypeOK' /\ QueueAccounting' /\ LanesInv' /\ FlightInv'
  BY <1>1, <1>2 DEF TypeOK, QueueAccounting, LanesInv, FlightInv, Distinct,
                    DistinctPending, Contains
<1>4. \A n : /\ InLanes(n)' <=> InLanes(n)
             /\ InPending(n)' <=> InPending(n)
             /\ InFlight(n)' <=> InFlight(n)
             /\ Contains(wire, n)' <=> Contains(wire, n)
  BY <1>1 DEF InLanes, InPending, InFlight, Contains
<1>5. \A n \in Messages \ {m} : call'[n] = call[n] /\ done'[n] = done[n]
  BY DEF TypeOK, RefuseClosed, RefuseFull, ReceiveDone, ContextDone
<1>6. \/ call[m] = "new" /\ call'[m] \in {"closed", "full"} /\ done'[m] = done[m]
      \/ call[m] = "waiting" /\ done[m] # "none" /\ call'[m] = done[m] /\ done'[m] = "none"
      \/ call[m] = "waiting" /\ call'[m] = "timeout" /\ done'[m] = done[m]
  BY DEF TypeOK, RefuseClosed, RefuseFull, ReceiveDone, ContextDone
<1>7. OwnerInv'
  BY <1>4, <1>5, <1>6 DEF OwnerInv, Owned, TypeOK, Errors
<1>8. AnswerInv'
  BY <1>4, <1>5, <1>6 DEF AnswerInv
<1>9. TruthfulAnswer'
  <2> SUFFICES ASSUME NEW n \in Messages
               PROVE  /\ call'[n] = "nil" => Contains(wire, n)
                      /\ call'[n] \in {"closed", "full"} => ~Contains(wire, n)
    BY <1>4 DEF TruthfulAnswer
  <2>1. CASE n # m
    BY <1>5, <2>1 DEF TruthfulAnswer
  <2>2. CASE n = m
    <3>1. done[m] # "full"
      BY DEF TypeOK, Errors
    <3> QED BY <1>6, <2>2, <3>1 DEF AnswerInv, OwnerInv
  <2> QED BY <2>1, <2>2
<1> QED BY <1>3, <1>7, <1>8, <1>9

(* An accepted message gets its first owner: its lane.                     *)
LEMMA EnqueueInv ==
    ASSUME IInv, NEW m \in Messages, enqueueItem(m)
    PROVE  IInv'
<1> USE DEF IInv
<1>1. /\ call[m] = "new" /\ ~closed
      /\ UNCHANGED <<urgentBudget, closed, item, writeErr, pending, done, wire>>
      /\ critical' = AppendIf(critical, m, InCritical(m))
      /\ urgent' = AppendIf(urgent, m, InUrgent(m))
      /\ normal' = AppendIf(normal, m, InNormal(m))
      /\ queuedCount' = queuedCount + 1 /\ queuedBytes' = queuedBytes + Size[m]
      /\ accepted' = Append(accepted, [msg |-> m, at |-> Len(wire)])
      /\ call' = [call EXCEPT ![m] = IF m \in Waits THEN "waiting" ELSE "accepted"]
      /\ writer' = IF writer = "waiting" THEN "next" ELSE writer
  BY DEF enqueueItem, Admit, WakeWriter
<1>2. ~Owned(m) /\ ~Contains(wire, m) /\ done[m] = "none"
  BY <1>1 DEF OwnerInv, AnswerInv
<1>3. /\ InCritical(m) \in BOOLEAN /\ InUrgent(m) \in BOOLEAN /\ InNormal(m) \in BOOLEAN
      /\ \/ InCritical(m) /\ ~InUrgent(m) /\ ~InNormal(m)
         \/ ~InCritical(m) /\ InUrgent(m) /\ ~InNormal(m)
         \/ ~InCritical(m) /\ ~InUrgent(m) /\ InNormal(m)
  BY DEF InCritical, InUrgent, InNormal, isCriticalControlMessage, isUrgentControlMessage
<1>4. ~Contains(critical, m) /\ ~Contains(urgent, m) /\ ~Contains(normal, m)
  BY <1>2 DEF Owned, InLanes
<1>5. /\ critical' \in Seq(Messages) /\ Distinct(critical')
      /\ InCritical(m) => Len(critical') = Len(critical) + 1
      /\ ~InCritical(m) => Len(critical') = Len(critical)
      /\ \A n : Contains(critical', n) <=> Contains(critical, n) \/ (InCritical(m) /\ n = m)
  <2>1. critical \in Seq(Messages) /\ Distinct(critical)
    BY DEF TypeOK, LanesInv
  <2>2. CASE InCritical(m)
    <3>1. critical' = Append(critical, m)
      BY <1>1, <2>2 DEF AppendIf
    <3> QED BY <1>4, <2>1, <2>2, <3>1, AppendFacts
  <2>3. CASE ~InCritical(m)
    <3>1. critical' = critical
      BY <1>1, <2>3 DEF AppendIf
    <3> QED BY <2>1, <2>3, <3>1
  <2> QED BY <2>2, <2>3
<1>6. /\ urgent' \in Seq(Messages) /\ Distinct(urgent')
      /\ InUrgent(m) => Len(urgent') = Len(urgent) + 1
      /\ ~InUrgent(m) => Len(urgent') = Len(urgent)
      /\ \A n : Contains(urgent', n) <=> Contains(urgent, n) \/ (InUrgent(m) /\ n = m)
  <2>1. urgent \in Seq(Messages) /\ Distinct(urgent)
    BY DEF TypeOK, LanesInv
  <2>2. CASE InUrgent(m)
    <3>1. urgent' = Append(urgent, m)
      BY <1>1, <2>2 DEF AppendIf
    <3> QED BY <1>4, <2>1, <2>2, <3>1, AppendFacts
  <2>3. CASE ~InUrgent(m)
    <3>1. urgent' = urgent
      BY <1>1, <2>3 DEF AppendIf
    <3> QED BY <2>1, <2>3, <3>1
  <2> QED BY <2>2, <2>3
<1>7. /\ normal' \in Seq(Messages) /\ Distinct(normal')
      /\ InNormal(m) => Len(normal') = Len(normal) + 1
      /\ ~InNormal(m) => Len(normal') = Len(normal)
      /\ \A n : Contains(normal', n) <=> Contains(normal, n) \/ (InNormal(m) /\ n = m)
  <2>1. normal \in Seq(Messages) /\ Distinct(normal)
    BY DEF TypeOK, LanesInv
  <2>2. CASE InNormal(m)
    <3>1. normal' = Append(normal, m)
      BY <1>1, <2>2 DEF AppendIf
    <3> QED BY <1>4, <2>1, <2>2, <3>1, AppendFacts
  <2>3. CASE ~InNormal(m)
    <3>1. normal' = normal
      BY <1>1, <2>3 DEF AppendIf
    <3> QED BY <2>1, <2>3, <3>1
  <2> QED BY <2>2, <2>3
<1>8. TypeOK'
  <2>1. call' \in [Messages -> Outcomes \cup {"new", "waiting"}]
    BY <1>1 DEF TypeOK, Outcomes
  <2>2. accepted' \in Seq([msg : Messages, at : Nat])
    BY <1>1 DEF TypeOK
  <2>3. queuedCount' \in Nat /\ queuedBytes' \in Int
    BY <1>1, QueueAssumption DEF TypeOK
  <2>4. writer' \in {"next", "waiting", "writing", "completing", "failing",
                     "reporting", "reported", "stopped"}
    BY <1>1 DEF TypeOK
  <2> QED BY <1>1, <1>5, <1>6, <1>7, <2>1, <2>2, <2>3, <2>4 DEF TypeOK
<1>9. QueueAccounting'
  <2>1. Len(critical) \in Nat /\ Len(urgent) \in Nat /\ Len(normal) \in Nat
    BY DEF TypeOK
  <2>2. Len(critical') + Len(urgent') + Len(normal')
          = Len(critical) + Len(urgent) + Len(normal) + 1
    BY <1>3, <1>5, <1>6, <1>7, <2>1
  <2>3. queuedCount' = Len(critical') + Len(urgent') + Len(normal') /\ ~closed'
    BY <1>1, <2>1, <2>2 DEF QueueAccounting
  <2> QED BY <2>3 DEF QueueAccounting
<1>10. LanesInv'
  BY <1>1, <1>5, <1>6, <1>7 DEF LanesInv, DistinctPending, InCritical, InUrgent, InNormal,
     isCriticalControlMessage, isUrgentControlMessage
<1>11. FlightInv'
  BY <1>1 DEF FlightInv, TypeOK
<1>12. \A n : /\ InLanes(n)' <=> InLanes(n) \/ n = m
              /\ InPending(n)' <=> InPending(n)
              /\ InFlight(n)' <=> InFlight(n)
              /\ Contains(wire, n)' <=> Contains(wire, n)
  BY <1>1, <1>3, <1>5, <1>6, <1>7 DEF InLanes, InPending, InFlight
<1>13. /\ call'[m] \in {"waiting", "accepted"}
       /\ \A n \in Messages : n # m => call'[n] = call[n]
  BY <1>1 DEF TypeOK
<1>14. OwnerInv' /\ AnswerInv' /\ TruthfulAnswer'
  BY <1>1, <1>2, <1>12, <1>13 DEF OwnerInv, AnswerInv, TruthfulAnswer, Owned
<1> QED BY <1>8, <1>9, <1>10, <1>11, <1>14

(* close() and fail(): what the lanes held changes owner, nothing else.    *)
LEMMA DrainInv ==
    ASSUME IInv, NEW cause \in Failures, Drain(cause),
           UNCHANGED <<urgentBudget, item, writeErr, done, call, wire, accepted>>,
           writer' \in {"next", "waiting", "writing", "completing", "failing",
                       "reporting", "reported", "stopped"},
           writer' \in {"writing", "completing"} <=> writer \in {"writing", "completing"},
           writer' \in {"completing", "failing"} => writer' = writer
    PROVE  IInv'
<1> USE DEF IInv
<1>1. /\ pending' \in Seq([msg : Messages, err : Failures])
      /\ \A m : InPending(m)' <=> InPending(m) \/ InLanes(m)
      /\ \A m : ~InLanes(m)'
      /\ DistinctPending'
  BY DrainFacts
<1>2. /\ critical' = <<>> /\ urgent' = <<>> /\ normal' = <<>>
      /\ queuedCount' = 0 /\ queuedBytes' = 0 /\ closed' = TRUE
  BY DEF Drain
<1>3. TypeOK'
  <2>1. critical' \in Seq(Messages) /\ urgent' \in Seq(Messages) /\ normal' \in Seq(Messages)
    BY <1>2
  <2>2. closed' \in BOOLEAN
    BY <1>2, Zenon
  <2>3. queuedCount' \in Nat /\ queuedBytes' \in Int
    BY <1>2
  <2> QED BY <1>1, <2>1, <2>2, <2>3 DEF TypeOK
<1>4. QueueAccounting'
  BY <1>2 DEF QueueAccounting
<1>5. LanesInv'
  BY <1>1, <1>2 DEF LanesInv, Distinct, Contains
<1>6. FlightInv'
  BY DEF FlightInv
<1>7. \A n : /\ InFlight(n)' <=> InFlight(n)
             /\ Contains(wire, n)' <=> Contains(wire, n)
  BY DEF InFlight
<1>8. OwnerInv' /\ AnswerInv' /\ TruthfulAnswer'
  BY <1>1, <1>7 DEF OwnerInv, AnswerInv, TruthfulAnswer, Owned
<1> QED BY <1>3, <1>4, <1>5, <1>6, <1>8

LEMMA CloseInv == ASSUME IInv, close PROVE IInv'
<1>1. "closed" \in Failures
  BY DEF Failures
<1>2. /\ Drain("closed")
      /\ writer' = IF writer = "waiting" THEN "next" ELSE writer
      /\ UNCHANGED <<urgentBudget, item, writeErr, done, call, wire, accepted>>
  BY DEF close, WakeWriter
<1>3. /\ writer' \in {"next", "waiting", "writing", "completing", "failing",
                     "reporting", "reported", "stopped"}
      /\ writer' \in {"writing", "completing"} <=> writer \in {"writing", "completing"}
      /\ writer' \in {"completing", "failing"} => writer' = writer
  BY <1>2 DEF IInv, TypeOK
<1> QED BY <1>1, <1>2, <1>3, DrainInv

LEMMA FailInv == ASSUME IInv, fail PROVE IInv'
<1>1. writeErr \in Failures
  BY DEF fail, IInv, FlightInv, Failures
<1>2. /\ Drain(writeErr)
      /\ writer = "failing" /\ writer' = "reporting"
      /\ UNCHANGED <<urgentBudget, item, writeErr, done, call, wire, accepted>>
  BY DEF fail
<1>3. /\ writer' \in {"next", "waiting", "writing", "completing", "failing",
                     "reporting", "reported", "stopped"}
      /\ writer' \in {"writing", "completing"} <=> writer \in {"writing", "completing"}
      /\ writer' \in {"completing", "failing"} => writer' = writer
  BY <1>2
<1> QED BY <1>1, <1>2, <1>3, DrainInv

(* Completing a drained message takes its last owner away.                 *)
LEMMA CompletePendingInv == ASSUME IInv, completeQueuedMessages PROVE IInv'
<1> USE DEF IInv
<1>1. /\ pending # <<>> /\ pending' = Tail(pending)
      /\ completeQueuedMessage(Head(pending).msg, Head(pending).err)
      /\ UNCHANGED <<critical, urgent, normal, queuedCount, queuedBytes, urgentBudget,
                     closed, writer, item, writeErr, call, wire, accepted>>
  BY DEF completeQueuedMessages, lanes, counters
<1>2. PICK h \in [msg : Messages, err : Failures] : h = Head(pending)
  BY <1>1, TailMsgFacts DEF TypeOK
<1>3. DistinctMsgs(pending) /\ \A n : InPending(n) <=> HoldsMsg(pending, n)
  BY DEF LanesInv, DistinctPending, DistinctMsgs, InPending, HoldsMsg
<1>4. /\ Tail(pending) \in Seq([msg : Messages, err : Failures])
      /\ \A n : HoldsMsg(pending, n) <=> n = h.msg \/ HoldsMsg(Tail(pending), n)
      /\ DistinctMsgs(Tail(pending)) /\ ~HoldsMsg(Tail(pending), h.msg)
  BY <1>1, <1>2, <1>3, TailMsgFacts DEF TypeOK
<1>5. DistinctPending' /\ \A n : InPending(n)' <=> HoldsMsg(Tail(pending), n)
  BY <1>1, <1>4 DEF DistinctPending, DistinctMsgs, InPending, HoldsMsg
<1>6. /\ done' \in [Messages -> Errors \cup {"none"}]
      /\ \A n \in Messages : n # h.msg => done'[n] = done[n]
      /\ done'[h.msg] \in {done[h.msg], "broken", "closed"}
  BY <1>1, <1>2 DEF TypeOK, completeQueuedMessage, Errors, Failures
<1>7. TypeOK' /\ QueueAccounting' /\ FlightInv'
  BY <1>1, <1>4, <1>6 DEF TypeOK, QueueAccounting, FlightInv
<1>8. LanesInv'
  BY <1>1, <1>5 DEF LanesInv
<1>9. \A n : /\ InLanes(n)' <=> InLanes(n)
             /\ InFlight(n)' <=> InFlight(n)
             /\ Contains(wire, n)' <=> Contains(wire, n)
             /\ InPending(n)' <=> InPending(n) /\ n # h.msg
  BY <1>1, <1>3, <1>4, <1>5 DEF InLanes, InFlight
<1>10. h.msg \in Messages /\ InPending(h.msg)
  BY <1>2, <1>3, <1>4
<1>11. OwnerInv' /\ AnswerInv' /\ TruthfulAnswer'
  BY <1>1, <1>6, <1>9, <1>10 DEF OwnerInv, AnswerInv, TruthfulAnswer, Owned
<1> QED BY <1>7, <1>8, <1>11

(* The writer takes the head of a lane: the three cases of next().         *)
LEMMA TakeInv ==
    ASSUME IInv, nextCritical \/ nextUrgent \/ nextNormal
    PROVE  IInv'
<1> USE DEF IInv
<1>1. PICK m :
        /\ Take(m)
        /\ \/ /\ critical # <<>> /\ m = Head(critical) /\ critical' = Tail(critical)
              /\ urgent' = urgent /\ normal' = normal
           \/ /\ urgent # <<>> /\ m = Head(urgent) /\ urgent' = Tail(urgent)
              /\ critical' = critical /\ normal' = normal
           \/ /\ normal # <<>> /\ m = Head(normal) /\ normal' = Tail(normal)
              /\ critical' = critical /\ urgent' = urgent
  BY DEF nextCritical, nextUrgent, nextNormal
<1>2. writer = "next" /\ ~closed /\ urgentBudget' \in Nat
  BY DEF nextCritical, nextUrgent, nextNormal, TypeOK
<1>3. /\ item' = m /\ writer' = "writing"
      /\ queuedCount' = queuedCount - 1 /\ queuedBytes' = queuedBytes - Size[m]
      /\ UNCHANGED <<closed, writeErr, pending, done, call, wire, accepted>>
  BY <1>1 DEF Take
<1>4. /\ critical \in Seq(Messages) /\ urgent \in Seq(Messages) /\ normal \in Seq(Messages)
      /\ Distinct(critical) /\ Distinct(urgent) /\ Distinct(normal)
      /\ Len(critical) \in Nat /\ Len(urgent) \in Nat /\ Len(normal) \in Nat
  BY DEF TypeOK, LanesInv
<1>5. \A n : /\ ~(Contains(critical, n) /\ Contains(urgent, n))
             /\ ~(Contains(critical, n) /\ Contains(normal, n))
             /\ ~(Contains(urgent, n) /\ Contains(normal, n))
  BY LanesDisjoint
<1>6. /\ critical' \in Seq(Messages) /\ urgent' \in Seq(Messages) /\ normal' \in Seq(Messages)
      /\ Distinct(critical') /\ Distinct(urgent') /\ Distinct(normal')
      /\ m \in Messages /\ InLanes(m)
      /\ Len(critical') + Len(urgent') + Len(normal') = Len(critical) + Len(urgent) + Len(normal) - 1
      /\ queuedCount - 1 \in Nat
      /\ \A n : /\ Contains(critical', n) => Contains(critical, n)
                /\ Contains(urgent', n) => Contains(urgent, n)
                /\ Contains(normal', n) => Contains(normal, n)
      /\ \A n : Contains(critical', n) \/ Contains(urgent', n) \/ Contains(normal', n)
                 <=> InLanes(n) /\ n # m
  <2>1. CASE critical # <<>> /\ m = Head(critical) /\ critical' = Tail(critical)
             /\ urgent' = urgent /\ normal' = normal
    <3>1. /\ Tail(critical) \in Seq(Messages) /\ m \in Messages
          /\ Len(Tail(critical)) = Len(critical) - 1 /\ Len(critical) > 0
          /\ \A n : Contains(critical, n) <=> n = m \/ Contains(Tail(critical), n)
          /\ Distinct(Tail(critical)) /\ ~Contains(Tail(critical), m)
      BY <1>4, <2>1, TailFacts
    <3> QED BY <1>4, <1>5, <2>1, <3>1 DEF InLanes, QueueAccounting
  <2>2. CASE urgent # <<>> /\ m = Head(urgent) /\ urgent' = Tail(urgent)
             /\ critical' = critical /\ normal' = normal
    <3>1. /\ Tail(urgent) \in Seq(Messages) /\ m \in Messages
          /\ Len(Tail(urgent)) = Len(urgent) - 1 /\ Len(urgent) > 0
          /\ \A n : Contains(urgent, n) <=> n = m \/ Contains(Tail(urgent), n)
          /\ Distinct(Tail(urgent)) /\ ~Contains(Tail(urgent), m)
      BY <1>4, <2>2, TailFacts
    <3> QED BY <1>4, <1>5, <2>2, <3>1 DEF InLanes, QueueAccounting
  <2>3. CASE normal # <<>> /\ m = Head(normal) /\ normal' = Tail(normal)
             /\ critical' = critical /\ urgent' = urgent
    <3>1. /\ Tail(normal) \in Seq(Messages) /\ m \in Messages
          /\ Len(Tail(normal)) = Len(normal) - 1 /\ Len(normal) > 0
          /\ \A n : Contains(normal, n) <=> n = m \/ Contains(Tail(normal), n)
          /\ Distinct(Tail(normal)) /\ ~Contains(Tail(normal), m)
      BY <1>4, <2>3, TailFacts
    <3> QED BY <1>4, <1>5, <2>3, <3>1 DEF InLanes, QueueAccounting
  <2> QED BY <1>1, <2>1, <2>2, <2>3
<1>7. TypeOK'
  <2>1. queuedCount' \in Nat /\ queuedBytes' \in Int
    BY <1>3, <1>6, QueueAssumption DEF TypeOK
  <2> QED BY <1>2, <1>3, <1>6, <2>1 DEF TypeOK
<1>8. QueueAccounting'
  <2>1. queuedCount' = Len(critical') + Len(urgent') + Len(normal') /\ ~closed'
    BY <1>2, <1>3, <1>4, <1>6 DEF QueueAccounting
  <2> QED BY <2>1 DEF QueueAccounting
<1>9. LanesInv'
  BY <1>3, <1>6 DEF LanesInv, DistinctPending, InCritical, InUrgent, InNormal,
     isCriticalControlMessage, isUrgentControlMessage
<1>10. FlightInv'
  BY <1>3, <1>6, QueueAssumption DEF FlightInv
<1>11. \A n : /\ InLanes(n)' <=> InLanes(n) /\ n # m
              /\ InPending(n)' <=> InPending(n)
              /\ InFlight(n)' <=> n = m
              /\ Contains(wire, n)' <=> Contains(wire, n)
  BY <1>3, <1>6 DEF InLanes, InPending, InFlight
<1>12. OwnerInv' /\ AnswerInv' /\ TruthfulAnswer'
  BY <1>3, <1>6, <1>11 DEF OwnerInv, AnswerInv, TruthfulAnswer, Owned
<1> QED BY <1>7, <1>8, <1>9, <1>10, <1>12

(* The transport may take the message the writer owns, and only that one.  *)
LEMMA WriteInv == ASSUME IInv, WriteJSON PROVE IInv'
<1> USE DEF IInv
<1>1. /\ writer = "writing" /\ writer' = "completing"
      /\ \/ writeErr' = "nil" /\ wire' = Append(wire, item)
         \/ writeErr' = "broken" /\ wire' \in {wire, Append(wire, item)}
      /\ UNCHANGED <<critical, urgent, normal, queuedCount, queuedBytes, urgentBudget,
                     closed, item, pending, done, call, accepted>>
  BY DEF WriteJSON, lanes, counters
<1>2. item \in Messages
  BY <1>1 DEF FlightInv, TypeOK
<1>3. /\ wire' \in Seq(Messages)
      /\ \A n : Contains(wire, n) => Contains(wire', n)
      /\ \A n : Contains(wire', n) => Contains(wire, n) \/ n = item
      /\ writeErr' = "nil" => Contains(wire', item)
  <2>1. wire \in Seq(Messages)
    BY DEF TypeOK
  <2>2. /\ Append(wire, item) \in Seq(Messages)
        /\ \A n : Contains(Append(wire, item), n) <=> Contains(wire, n) \/ n = item
    BY <1>2, <2>1, AppendFacts
  <2> QED BY <1>1, <2>1, <2>2
<1>4. TypeOK' /\ QueueAccounting'
  BY <1>1, <1>3 DEF TypeOK, QueueAccounting
<1>5. LanesInv'
  BY <1>1 DEF LanesInv, DistinctPending
<1>6. FlightInv'
  BY <1>1, <1>2, <1>3, QueueAssumption DEF FlightInv
<1>7. \A n : /\ InLanes(n)' <=> InLanes(n)
             /\ InPending(n)' <=> InPending(n)
             /\ InFlight(n)' <=> InFlight(n)
  BY <1>1 DEF InLanes, InPending, InFlight
<1>8. OwnerInv' /\ AnswerInv' /\ TruthfulAnswer'
  <2>1. InFlight(item)
    BY DEF InFlight
  <2> QED BY <1>1, <1>2, <1>3, <1>7, <2>1 DEF OwnerInv, AnswerInv, TruthfulAnswer, Owned
<1> QED BY <1>4, <1>5, <1>6, <1>8

LEMMA CompleteWrittenInv == ASSUME IInv, CompleteWritten PROVE IInv'
<1> USE DEF IInv
<1>1. /\ writer = "completing" /\ item' = NoMessage
      /\ writer' = IF writeErr = "nil" THEN "next" ELSE "failing"
      /\ completeQueuedMessage(item, writeErr)
      /\ UNCHANGED <<critical, urgent, normal, queuedCount, queuedBytes, urgentBudget,
                     closed, writeErr, pending, call, wire, accepted>>
  BY DEF CompleteWritten, lanes, counters
<1>2. item \in Messages /\ writeErr \in {"nil", "broken"}
  BY <1>1 DEF FlightInv, TypeOK
<1>3. /\ done' \in [Messages -> Errors \cup {"none"}]
      /\ \A n \in Messages : n # item => done'[n] = done[n]
      /\ done'[item] \in {done[item], writeErr}
  BY <1>1, <1>2 DEF TypeOK, completeQueuedMessage, Errors
<1>4. TypeOK' /\ QueueAccounting'
  BY <1>1, <1>3 DEF TypeOK, QueueAccounting
<1>5. LanesInv'
  BY <1>1 DEF LanesInv, DistinctPending
<1>6. FlightInv'
  BY <1>1, <1>2 DEF FlightInv
<1>7. \A n : /\ InLanes(n)' <=> InLanes(n)
             /\ InPending(n)' <=> InPending(n)
             /\ Contains(wire, n)' <=> Contains(wire, n)
  BY <1>1 DEF InLanes, InPending
<1>8. \A n \in Messages : ~InFlight(n)'
  BY <1>1, QueueAssumption DEF InFlight
<1>9. InFlight(item) /\ (writeErr = "nil" => Contains(wire, item))
  BY <1>1 DEF InFlight, FlightInv
<1>10. OwnerInv' /\ AnswerInv' /\ TruthfulAnswer'
  BY <1>1, <1>2, <1>3, <1>7, <1>8, <1>9 DEF OwnerInv, AnswerInv, TruthfulAnswer, Owned
<1> QED BY <1>4, <1>5, <1>6, <1>10

(* Steps that only move the writer goroutine.                              *)
LEMMA WriterMovesInv ==
    ASSUME IInv, nextWaits \/ nextStops \/ failClosed \/ onError
    PROVE  IInv'
<1> USE DEF IInv
<1>1. /\ writer \in {"next", "failing", "reporting"}
      /\ writer' \in {"waiting", "stopped", "reported"}
      /\ UNCHANGED <<critical, urgent, normal, queuedCount, queuedBytes, urgentBudget,
                     closed, item, writeErr, pending, done, call, wire, accepted>>
  BY DEF nextWaits, nextStops, failClosed, onError, lanes, counters
<1>2. TypeOK' /\ QueueAccounting' /\ FlightInv'
  BY <1>1 DEF TypeOK, QueueAccounting, FlightInv
<1>3. LanesInv'
  BY <1>1 DEF LanesInv, DistinctPending
<1>4. OwnerInv' /\ AnswerInv' /\ TruthfulAnswer'
  BY <1>1 DEF OwnerInv, AnswerInv, TruthfulAnswer, Owned, InLanes, InPending, InFlight
<1> QED BY <1>2, <1>3, <1>4

LEMMA StutterInv == ASSUME IInv, UNCHANGED vars PROVE IInv'
<1> USE DEF IInv
<1>1. UNCHANGED <<critical, urgent, normal, queuedCount, queuedBytes, urgentBudget, closed,
                  writer, item, writeErr, pending, done, call, wire, accepted>>
  BY DEF vars
<1>2. TypeOK' /\ QueueAccounting' /\ FlightInv'
  BY <1>1 DEF TypeOK, QueueAccounting, FlightInv
<1>3. LanesInv'
  BY <1>1 DEF LanesInv, DistinctPending
<1>4. OwnerInv' /\ AnswerInv' /\ TruthfulAnswer'
  BY <1>1 DEF OwnerInv, AnswerInv, TruthfulAnswer, Owned, InLanes, InPending, InFlight
<1> QED BY <1>2, <1>3, <1>4

LEMMA NextInv == IInv /\ [Next]_vars => IInv'
<1> SUFFICES ASSUME IInv, [Next]_vars PROVE IInv'
  OBVIOUS
<1>1. CASE \E m \in Messages : enqueueItem(m)
  BY <1>1, EnqueueInv
<1>2. CASE \E m \in Messages :
             RefuseClosed(m) \/ RefuseFull(m) \/ ReceiveDone(m) \/ ContextDone(m)
  BY <1>2, CallerInv
<1>3. CASE close
  BY <1>3, CloseInv
<1>4. CASE completeQueuedMessages
  BY <1>4, CompletePendingInv
<1>5. CASE nextCritical \/ nextUrgent \/ nextNormal
  BY <1>5, TakeInv
<1>6. CASE WriteJSON
  BY <1>6, WriteInv
<1>7. CASE CompleteWritten
  BY <1>7, CompleteWrittenInv
<1>8. CASE nextWaits \/ nextStops \/ failClosed \/ onError
  BY <1>8, WriterMovesInv
<1>9. CASE fail
  BY <1>9, FailInv
<1>10. CASE UNCHANGED vars
  BY <1>10, StutterInv
<1> QED BY <1>1, <1>2, <1>3, <1>4, <1>5, <1>6, <1>7, <1>8, <1>9, <1>10 DEF Next, Writer

----------------------------------------------------------------------------
(* The strengthened invariant holds throughout: every reachable state of   *)
(* the write queue, for any callers and limits, satisfies IInv.            *)
THEOREM Invariance == Spec => []IInv
<1>1. Init => IInv
  BY InitInv
<1>2. IInv /\ [Next]_vars => IInv'
  BY NextInv
<1> QED BY <1>1, <1>2, PTL DEF Spec

(* Every variable of the queue keeps its type; the admission counter never *)
(* goes negative, whatever order enqueue, dequeue, close and fail take.    *)
THEOREM TypeCorrect == Spec => []TypeOK
<1>1. IInv => TypeOK
  BY DEF IInv
<1> QED BY <1>1, Invariance, PTL

(* The admission counter of enqueueItem counts the queued messages, and a  *)
(* closed queue holds none.                                                *)
THEOREM AccountingCorrect == Spec => []QueueAccounting
<1>1. IInv => QueueAccounting
  BY DEF IInv
<1> QED BY <1>1, Invariance, PTL

(* No waiter is answered twice, so completeQueuedMessage never blocks the  *)
(* writer goroutine or close() on a full done channel.                     *)
THEOREM AnswersAreSingle == Spec => []AnsweredOnce
<1>1. IInv => AnsweredOnce
  BY DEF IInv, OwnerInv, AnsweredOnce, Owned
<1> QED BY <1>1, Invariance, PTL

(* What enqueueWait returns is true of the transport.                      *)
THEOREM AnswersAreTruthful == Spec => []TruthfulAnswer
<1>1. IInv => TruthfulAnswer
  BY DEF IInv
<1> QED BY <1>1, Invariance, PTL

----------------------------------------------------------------------------
(* The queue implements ControlDelivery, step by step.  Beside IInv the    *)
(* argument needs that a call is made once, and that the writer takes no   *)
(* message after a failed write.                                           *)

HistoryInv ==
    /\ \A i \in 1 .. Len(accepted) : call[accepted[i].msg] # "new"
    /\ writer \in {"next", "waiting", "writing"} => writeErr = "nil"

LEMMA AcceptedElement ==
    ASSUME NEW h \in Seq([msg : Messages, at : Nat]), NEW i \in 1 .. Len(h)
    PROVE  h[i].msg \in Messages
<1>1. ASSUME NEW S, NEW g \in Seq(S), NEW j \in 1 .. Len(g) PROVE g[j] \in S
  OBVIOUS
<1>2. h[i] \in [msg : Messages, at : Nat]
  BY <1>1
<1> QED BY <1>2

LEMMA HistoryNext == IInv /\ HistoryInv /\ [Next]_vars => HistoryInv'
<1> SUFFICES ASSUME IInv, HistoryInv, [Next]_vars PROVE HistoryInv'
  OBVIOUS
<1>1. writer' \in {"next", "waiting", "writing"} => writeErr' = "nil"
  BY DEF HistoryInv, Next, vars, RefuseClosed, RefuseFull, enqueueItem, ReceiveDone,
         ContextDone, close, completeQueuedMessages, Writer, nextWaits, nextStops,
         nextCritical, nextUrgent, nextNormal, Take, WriteJSON, CompleteWritten,
         failClosed, fail, onError, WakeWriter
<1>2. ASSUME NEW i \in 1 .. Len(accepted'), accepted' # accepted
      PROVE  call'[accepted'[i].msg] # "new"
  <2>1. PICK m \in Messages : enqueueItem(m)
    BY <1>2 DEF Next, vars, RefuseClosed, RefuseFull, ReceiveDone, ContextDone, close,
           completeQueuedMessages, Writer, nextWaits, nextStops, nextCritical,
           nextUrgent, nextNormal, Take, WriteJSON, CompleteWritten, failClosed, fail,
           onError
  <2>2. /\ call' = [call EXCEPT ![m] = IF m \in Waits THEN "waiting" ELSE "accepted"]
        /\ accepted' = Append(accepted, [msg |-> m, at |-> Len(wire)])
    BY <2>1 DEF enqueueItem
  <2>3. /\ accepted \in Seq([msg : Messages, at : Nat]) /\ Len(wire) \in Nat
        /\ call \in [Messages -> Outcomes \cup {"new", "waiting"}]
    BY DEF IInv, TypeOK
  <2>4. CASE i \in 1 .. Len(accepted)
    <3>1. accepted'[i] = accepted[i]
      BY <2>2, <2>3, <2>4
    <3>2a. accepted[i].msg \in Messages
      BY <2>3, <2>4, AcceptedElement
    <3>2. call[accepted[i].msg] # "new"
      BY <2>4 DEF HistoryInv
    <3> QED BY <2>2, <2>3, <3>1, <3>2, <3>2a
  <2>5. CASE i \notin 1 .. Len(accepted)
    <3>1. i = Len(accepted) + 1
      BY <2>2, <2>3, <2>5
    <3>2. accepted'[i] = [msg |-> m, at |-> Len(wire)]
      BY <2>2, <2>3, <3>1
    <3>3. accepted'[i].msg = m
      BY <3>2
    <3> QED BY <2>2, <2>3, <3>3
  <2> QED BY <2>4, <2>5
<1>3. ASSUME NEW m \in Messages, call[m] # "new" PROVE call'[m] # "new"
  <2>1. call \in [Messages -> Outcomes \cup {"new", "waiting"}]
        /\ done \in [Messages -> Errors \cup {"none"}]
    BY DEF IInv, TypeOK
  <2>2. \/ UNCHANGED call
        \/ \E n \in Messages, v \in Errors \cup {"closed", "full", "waiting", "accepted", "timeout"} :
              call' = [call EXCEPT ![n] = v]
    <3>1. CASE \E n \in Messages : ReceiveDone(n)
      BY <2>1, <3>1 DEF ReceiveDone
    <3>2. CASE \E n \in Messages : RefuseClosed(n) \/ RefuseFull(n) \/ enqueueItem(n) \/ ContextDone(n)
      BY <3>2 DEF RefuseClosed, RefuseFull, enqueueItem, ContextDone
    <3>3. CASE close \/ completeQueuedMessages \/ Writer \/ UNCHANGED vars
      BY <3>3 DEF vars, close, completeQueuedMessages, Writer, nextWaits, nextStops,
             nextCritical, nextUrgent, nextNormal, Take, WriteJSON, CompleteWritten,
             failClosed, fail, onError
    <3> QED BY <3>1, <3>2, <3>3 DEF Next
  <2> QED BY <1>3, <2>1, <2>2 DEF Errors
<1>4. ASSUME NEW i \in 1 .. Len(accepted), UNCHANGED accepted
      PROVE  call'[accepted'[i].msg] # "new"
  <2>1. accepted[i].msg \in Messages
    BY AcceptedElement DEF IInv, TypeOK
  <2> QED BY <1>3, <1>4, <2>1 DEF HistoryInv
<1> QED BY <1>1, <1>2, <1>4 DEF HistoryInv

(* A message put before, or taken from before, a lane.                     *)
LEMMA LaneFacts ==
    ASSUME NEW s \in Seq(Messages), NEW t \in Seq(Messages), NEW e \in Messages
    PROVE  /\ <<>> \o s = s /\ <<e>> \in Seq(Messages) /\ <<e>> \o <<>> = <<e>>
           /\ <<e>> \o s # <<>> /\ Head(<<e>> \o s) = e /\ Tail(<<e>> \o s) = s
           /\ s # <<>> => <<Head(s)>> \o Tail(s) = s /\ Head(s) \in Messages
           /\ t \o Append(s, e) = Append(t \o s, e)
<1>1. <<>> \o s = s /\ <<e>> \in Seq(Messages) /\ <<e>> \o <<>> = <<e>>
  OBVIOUS
<1>2. <<e>> \o s # <<>> /\ Head(<<e>> \o s) = e
  OBVIOUS
<1>3. Tail(<<e>> \o s) = s
  OBVIOUS
<1>4. s # <<>> => <<Head(s)>> \o Tail(s) = s /\ Head(s) \in Messages
  OBVIOUS
<1>5. t \o Append(s, e) = Append(t \o s, e)
  OBVIOUS
<1> QED BY <1>1, <1>2, <1>3, <1>4, <1>5

(* The variables of ControlDelivery as functions of those of the queue.    *)
CriticalWaiting == BeingWritten(InCritical) \o critical
UrgentWaiting == BeingWritten(InUrgent) \o urgent
NormalWaiting == BeingWritten(InNormal) \o normal
Waiting == [critical |-> CriticalWaiting, urgent |-> UrgentWaiting,
            normal |-> NormalWaiting]
Taken == {accepted[i].msg : i \in 1 .. Len(accepted)}

LEMMA DeliveryInit == Init => Delivery!Init
  BY DEF Init, Delivery!Init, Delivery!Lanes, BeingWritten

(* Most steps of the queue leave what it promises alone.                   *)
LEMMA DeliveryStutters ==
    ASSUME UNCHANGED <<Waiting, accepted, wire, closed, writeErr>>
    PROVE  UNCHANGED Delivery!vars
  BY DEF Delivery!vars, Waiting, CriticalWaiting, UrgentWaiting, NormalWaiting, BeingWritten

LEMMA StutterSteps ==
    ASSUME IInv,
           \/ \E m \in Messages : RefuseClosed(m) \/ RefuseFull(m) \/ ReceiveDone(m)
                                   \/ ContextDone(m)
           \/ completeQueuedMessages \/ nextWaits \/ nextStops \/ CompleteWritten
           \/ failClosed \/ onError \/ UNCHANGED vars
    PROVE  UNCHANGED Delivery!vars
<1>1. /\ UNCHANGED <<critical, urgent, normal, accepted, wire, closed, writeErr>>
      /\ writer = "writing" <=> writer' = "writing"
      /\ writer = "writing" => UNCHANGED item
  BY DEF RefuseClosed, RefuseFull, ReceiveDone, ContextDone, completeQueuedMessages,
         nextWaits, nextStops, CompleteWritten, failClosed, onError, vars, lanes
<1>2. UNCHANGED <<CriticalWaiting, UrgentWaiting, NormalWaiting>>
  BY <1>1 DEF CriticalWaiting, UrgentWaiting, NormalWaiting, BeingWritten, InCritical, InUrgent, InNormal,
         isCriticalControlMessage, isUrgentControlMessage
<1>3. UNCHANGED Waiting
  BY <1>2 DEF Waiting
<1> QED BY <1>1, <1>3, DeliveryStutters

(* Taking a message out of its lane to write it changes nothing: it is     *)
(* still the first one the lane has yet to deliver.                        *)
LEMMA TakeStutters ==
    ASSUME IInv, nextCritical \/ nextUrgent \/ nextNormal
    PROVE  UNCHANGED Delivery!vars
<1>1. /\ writer = "next" /\ writer' = "writing"
      /\ UNCHANGED <<accepted, wire, closed, writeErr>>
  BY DEF nextCritical, nextUrgent, nextNormal, Take
<1>2. critical \in Seq(Messages) /\ urgent \in Seq(Messages) /\ normal \in Seq(Messages)
  BY DEF IInv, TypeOK
<1>3. CriticalWaiting = critical /\ UrgentWaiting = urgent /\ NormalWaiting = normal
  BY <1>1, <1>2 DEF CriticalWaiting, UrgentWaiting, NormalWaiting, BeingWritten
<1>4. ASSUME NEW s \in Seq(Messages), s # <<>>
      PROVE  /\ <<Head(s)>> \o Tail(s) = s
             /\ Contains(s, Head(s))
  <2>1. Head(s) \in Messages
    BY <1>4
  <2> QED BY <1>4, <2>1, LaneFacts, TailFacts
<1>5. CASE nextCritical
  <2>1. /\ critical # <<>> /\ critical' = Tail(critical) /\ item' = Head(critical)
        /\ UNCHANGED <<urgent, normal>>
    BY <1>5 DEF nextCritical, Take
  <2>2. <<Head(critical)>> \o Tail(critical) = critical /\ Contains(critical, Head(critical))
    BY <1>2, <1>4, <2>1
  <2>3. InCritical(item') /\ ~InUrgent(item') /\ ~InNormal(item')
    BY <2>1, <2>2, LanesDisjoint DEF IInv, InCritical, InUrgent, InNormal
  <2>4. /\ CriticalWaiting' = <<item'>> \o critical' /\ UrgentWaiting' = <<>> \o urgent'
        /\ NormalWaiting' = <<>> \o normal'
    BY <1>1, <2>3 DEF CriticalWaiting, UrgentWaiting, NormalWaiting, BeingWritten,
           InCritical, InUrgent, InNormal, isCriticalControlMessage, isUrgentControlMessage
  <2>5. UNCHANGED Waiting
    BY <1>2, <1>3, <2>1, <2>2, <2>4 DEF Waiting
  <2> QED BY <1>1, <2>5, DeliveryStutters
<1>6. CASE nextUrgent
  <2>1. /\ urgent # <<>> /\ urgent' = Tail(urgent) /\ item' = Head(urgent)
        /\ UNCHANGED <<critical, normal>>
    BY <1>6 DEF nextUrgent, Take
  <2>2. <<Head(urgent)>> \o Tail(urgent) = urgent /\ Contains(urgent, Head(urgent))
    BY <1>2, <1>4, <2>1
  <2>3. InUrgent(item') /\ ~InCritical(item') /\ ~InNormal(item')
    BY <2>1, <2>2, LanesDisjoint DEF IInv, InCritical, InUrgent, InNormal
  <2>4. /\ UrgentWaiting' = <<item'>> \o urgent' /\ CriticalWaiting' = <<>> \o critical'
        /\ NormalWaiting' = <<>> \o normal'
    BY <1>1, <2>3 DEF CriticalWaiting, UrgentWaiting, NormalWaiting, BeingWritten,
           InCritical, InUrgent, InNormal, isCriticalControlMessage, isUrgentControlMessage
  <2>5. UNCHANGED Waiting
    BY <1>2, <1>3, <2>1, <2>2, <2>4 DEF Waiting
  <2> QED BY <1>1, <2>5, DeliveryStutters
<1>7. CASE nextNormal
  <2>1. /\ normal # <<>> /\ normal' = Tail(normal) /\ item' = Head(normal)
        /\ UNCHANGED <<critical, urgent>>
    BY <1>7 DEF nextNormal, Take
  <2>2. <<Head(normal)>> \o Tail(normal) = normal /\ Contains(normal, Head(normal))
    BY <1>2, <1>4, <2>1
  <2>3. InNormal(item') /\ ~InCritical(item') /\ ~InUrgent(item')
    BY <2>1, <2>2, LanesDisjoint DEF IInv, InCritical, InUrgent, InNormal
  <2>4. /\ NormalWaiting' = <<item'>> \o normal' /\ CriticalWaiting' = <<>> \o critical'
        /\ UrgentWaiting' = <<>> \o urgent'
    BY <1>1, <2>3 DEF CriticalWaiting, UrgentWaiting, NormalWaiting, BeingWritten,
           InCritical, InUrgent, InNormal, isCriticalControlMessage, isUrgentControlMessage
  <2>5. UNCHANGED Waiting
    BY <1>2, <1>3, <2>1, <2>2, <2>4 DEF Waiting
  <2> QED BY <1>1, <2>5, DeliveryStutters
<1> QED BY <1>5, <1>6, <1>7

LEMMA CriticalField ==
    ASSUME NEW a, NEW b, NEW c, NEW d
    PROVE  [[critical |-> a, urgent |-> b, normal |-> c] EXCEPT !["critical"] = d]
             = [critical |-> d, urgent |-> b, normal |-> c]
  OBVIOUS

LEMMA UrgentField ==
    ASSUME NEW a, NEW b, NEW c, NEW d
    PROVE  [[critical |-> a, urgent |-> b, normal |-> c] EXCEPT !["urgent"] = d]
             = [critical |-> a, urgent |-> d, normal |-> c]
  OBVIOUS

LEMMA NormalField ==
    ASSUME NEW a, NEW b, NEW c, NEW d
    PROVE  [[critical |-> a, urgent |-> b, normal |-> c] EXCEPT !["normal"] = d]
             = [critical |-> a, urgent |-> b, normal |-> d]
  OBVIOUS

(* WriteJSON delivers or loses the first message of the lane of item.      *)
LEMMA WriteDelivers ==
    ASSUME IInv, HistoryInv, WriteJSON
    PROVE  Delivery!Next
<1>1. /\ writer = "writing" /\ writer' = "completing" /\ writeErr = "nil"
      /\ UNCHANGED <<critical, urgent, normal, accepted, closed>>
      /\ \/ wire' = Append(wire, item) /\ writeErr' \in {"nil", "broken"}
         \/ wire' = wire /\ writeErr' = "broken"
  BY DEF WriteJSON, HistoryInv, lanes
<1>2. /\ critical \in Seq(Messages) /\ urgent \in Seq(Messages) /\ normal \in Seq(Messages)
      /\ item \in Messages
  BY <1>1 DEF IInv, TypeOK, FlightInv
<1>3. /\ CriticalWaiting' = critical /\ UrgentWaiting' = urgent
      /\ NormalWaiting' = normal
  BY <1>1, <1>2 DEF CriticalWaiting, UrgentWaiting, NormalWaiting, BeingWritten
<1>4. \/ InCritical(item) /\ ~InUrgent(item) /\ ~InNormal(item)
      \/ InUrgent(item) /\ ~InCritical(item) /\ ~InNormal(item)
      \/ InNormal(item) /\ ~InCritical(item) /\ ~InUrgent(item)
  BY DEF InCritical, InUrgent, InNormal
<1>5. PICK l \in {"critical", "urgent", "normal"} :
        /\ Waiting[l] # <<>> /\ Head(Waiting[l]) = item
        /\ Waiting' = [Waiting EXCEPT ![l] = Tail(@)]
  <2>1. CASE InCritical(item) /\ ~InUrgent(item) /\ ~InNormal(item)
    <3>1. /\ CriticalWaiting = <<item>> \o critical /\ UrgentWaiting = urgent
          /\ NormalWaiting = normal
      BY <1>1, <1>2, <2>1 DEF CriticalWaiting, UrgentWaiting, NormalWaiting, BeingWritten
    <3>2. /\ CriticalWaiting # <<>> /\ Head(CriticalWaiting) = item
          /\ Tail(CriticalWaiting) = critical
      BY <1>2, <3>1, LaneFacts
    <3>3. Waiting["critical"] = CriticalWaiting
      BY DEF Waiting
    <3>4. Waiting' = [critical |-> critical, urgent |-> urgent, normal |-> normal]
      BY <1>3 DEF Waiting
    <3>5. Waiting = [critical |-> CriticalWaiting, urgent |-> urgent, normal |-> normal]
      BY <3>1 DEF Waiting
    <3>6. Waiting' = [Waiting EXCEPT !["critical"] = critical]
      BY <3>4, <3>5, CriticalField
    <3>7. Waiting' = [Waiting EXCEPT !["critical"] = Tail(@)]
      BY <3>2, <3>3, <3>6
    <3> QED BY <3>2, <3>3, <3>7
  <2>2. CASE InUrgent(item) /\ ~InCritical(item) /\ ~InNormal(item)
    <3>1. /\ UrgentWaiting = <<item>> \o urgent /\ CriticalWaiting = critical
          /\ NormalWaiting = normal
      BY <1>1, <1>2, <2>2 DEF CriticalWaiting, UrgentWaiting, NormalWaiting, BeingWritten
    <3>2. /\ UrgentWaiting # <<>> /\ Head(UrgentWaiting) = item
          /\ Tail(UrgentWaiting) = urgent
      BY <1>2, <3>1, LaneFacts
    <3>3. Waiting["urgent"] = UrgentWaiting
      BY DEF Waiting
    <3>4. Waiting' = [critical |-> critical, urgent |-> urgent, normal |-> normal]
      BY <1>3 DEF Waiting
    <3>5. Waiting = [critical |-> critical, urgent |-> UrgentWaiting, normal |-> normal]
      BY <3>1 DEF Waiting
    <3>6. Waiting' = [Waiting EXCEPT !["urgent"] = urgent]
      BY <3>4, <3>5, UrgentField
    <3>7. Waiting' = [Waiting EXCEPT !["urgent"] = Tail(@)]
      BY <3>2, <3>3, <3>6
    <3> QED BY <3>2, <3>3, <3>7
  <2>3. CASE InNormal(item) /\ ~InCritical(item) /\ ~InUrgent(item)
    <3>1. /\ NormalWaiting = <<item>> \o normal /\ CriticalWaiting = critical
          /\ UrgentWaiting = urgent
      BY <1>1, <1>2, <2>3 DEF CriticalWaiting, UrgentWaiting, NormalWaiting, BeingWritten
    <3>2. /\ NormalWaiting # <<>> /\ Head(NormalWaiting) = item
          /\ Tail(NormalWaiting) = normal
      BY <1>2, <3>1, LaneFacts
    <3>3. Waiting["normal"] = NormalWaiting
      BY DEF Waiting
    <3>4. Waiting' = [critical |-> critical, urgent |-> urgent, normal |-> normal]
      BY <1>3 DEF Waiting
    <3>5. Waiting = [critical |-> critical, urgent |-> urgent, normal |-> NormalWaiting]
      BY <3>1 DEF Waiting
    <3>6. Waiting' = [Waiting EXCEPT !["normal"] = normal]
      BY <3>4, <3>5, NormalField
    <3>7. Waiting' = [Waiting EXCEPT !["normal"] = Tail(@)]
      BY <3>2, <3>3, <3>6
    <3> QED BY <3>2, <3>3, <3>7
  <2> QED BY <1>4, <2>1, <2>2, <2>3
<1>6. CASE wire' = Append(wire, item) /\ writeErr' \in {"nil", "broken"}
  <2>1. Delivery!Send(l)
    BY <1>1, <1>5, <1>6 DEF Delivery!Send, Waiting, CriticalWaiting, UrgentWaiting, NormalWaiting
  <2> QED BY <2>1 DEF Delivery!Next, Delivery!Lanes
<1>7. CASE wire' = wire /\ writeErr' = "broken"
  <2>1. Delivery!Lose(l)
    BY <1>1, <1>5, <1>7 DEF Delivery!Lose, Waiting, CriticalWaiting, UrgentWaiting, NormalWaiting
  <2> QED BY <2>1 DEF Delivery!Next, Delivery!Lanes
<1> QED BY <1>1, <1>6, <1>7

(* enqueueItem accepts a message that was not accepted before.             *)
LEMMA EnqueueAccepts ==
    ASSUME IInv, HistoryInv, NEW m \in Messages, enqueueItem(m)
    PROVE  Delivery!Next
<1> DEFINE lane == IF InCritical(m) THEN "critical" ELSE IF InUrgent(m) THEN "urgent" ELSE "normal"
<1>1. /\ ~closed /\ call[m] = "new" /\ UNCHANGED <<wire, closed, writeErr, item>>
      /\ accepted' = Append(accepted, [msg |-> m, at |-> Len(wire)])
      /\ writer = "writing" <=> writer' = "writing"
  BY DEF enqueueItem, WakeWriter
<1>2. /\ critical \in Seq(Messages) /\ urgent \in Seq(Messages) /\ normal \in Seq(Messages)
      /\ accepted \in Seq([msg : Messages, at : Nat]) /\ Len(wire) \in Nat
      /\ writer = "writing" => item \in Messages
  BY DEF IInv, TypeOK, FlightInv
<1>3. /\ UNCHANGED <<BeingWritten(InCritical), BeingWritten(InUrgent)>>
      /\ UNCHANGED BeingWritten(InNormal)
  BY <1>1 DEF BeingWritten, InCritical, InUrgent, InNormal, isCriticalControlMessage,
         isUrgentControlMessage
<1>4. /\ BeingWritten(InCritical) \in Seq(Messages) /\ BeingWritten(InUrgent) \in Seq(Messages)
      /\ BeingWritten(InNormal) \in Seq(Messages)
  BY <1>2 DEF BeingWritten
<1>5. \/ InCritical(m) /\ ~InUrgent(m) /\ ~InNormal(m)
      \/ InUrgent(m) /\ ~InCritical(m) /\ ~InNormal(m)
      \/ InNormal(m) /\ ~InCritical(m) /\ ~InUrgent(m)
  BY DEF InCritical, InUrgent, InNormal
<1>6. SUFFICES Waiting' = [Waiting EXCEPT ![lane] = Append(Waiting[lane], m)]
  <2>1. m \notin Taken
    BY <1>1 DEF HistoryInv, Taken
  <2>2. Taken' = Taken \cup {m}
    <3> DEFINE e == [msg |-> m, at |-> Len(wire)]
    <3>1. e.msg = m /\ e \in [msg : Messages, at : Nat]
      BY <1>2
    <3> HIDE DEF e
    <3>2. ASSUME NEW S, NEW h \in Seq(S), NEW x \in S
          PROVE  /\ Len(Append(h, x)) = Len(h) + 1 /\ Len(h) \in Nat
                 /\ \A i \in 1 .. Len(h) : Append(h, x)[i] = h[i]
                 /\ Append(h, x)[Len(h) + 1] = x
      OBVIOUS
    <3>3. /\ Len(accepted') = Len(accepted) + 1 /\ Len(accepted) \in Nat
          /\ \A i \in 1 .. Len(accepted) : accepted'[i] = accepted[i]
          /\ accepted'[Len(accepted) + 1] = e
      BY <1>1, <1>2, <3>1, <3>2 DEF e
    <3>4. 1 .. Len(accepted) + 1 = 1 .. Len(accepted) \cup {Len(accepted) + 1}
      BY <3>3
    <3> QED BY <3>1, <3>3, <3>4 DEF Taken
  <2>3. Delivery!Accept(m)
    BY <1>1, <1>6, <2>1, <2>2 DEF Delivery!Accept, Waiting, CriticalWaiting,
           UrgentWaiting, NormalWaiting, Taken, lane
  <2> QED BY <2>3 DEF Delivery!Next
<1> HIDE DEF lane
<1>7. CASE InCritical(m) /\ ~InUrgent(m) /\ ~InNormal(m)
  <2>1. critical' = Append(critical, m) /\ UNCHANGED <<urgent, normal>>
    BY <1>7 DEF enqueueItem, AppendIf
  <2>2. BeingWritten(InCritical) \o Append(critical, m) = Append(CriticalWaiting, m)
    BY <1>2, <1>4, LaneFacts DEF CriticalWaiting
  <2>3. /\ CriticalWaiting' = Append(CriticalWaiting, m)
        /\ UNCHANGED <<UrgentWaiting, NormalWaiting>>
    BY <1>3, <2>1, <2>2 DEF CriticalWaiting, UrgentWaiting, NormalWaiting
  <2>4. Waiting' = [critical |-> Append(CriticalWaiting, m), urgent |-> UrgentWaiting,
                     normal |-> NormalWaiting]
    BY <2>3 DEF Waiting
  <2>5. Waiting' = [Waiting EXCEPT !["critical"] = Append(CriticalWaiting, m)]
    BY <2>4, CriticalField DEF Waiting
  <2>6. Waiting["critical"] = CriticalWaiting
    BY DEF Waiting
  <2>7. lane = "critical"
    BY <1>7 DEF lane
  <2> QED BY <2>5, <2>6, <2>7
<1>8. CASE InUrgent(m) /\ ~InCritical(m) /\ ~InNormal(m)
  <2>1. urgent' = Append(urgent, m) /\ UNCHANGED <<critical, normal>>
    BY <1>8 DEF enqueueItem, AppendIf
  <2>2. BeingWritten(InUrgent) \o Append(urgent, m) = Append(UrgentWaiting, m)
    BY <1>2, <1>4, LaneFacts DEF UrgentWaiting
  <2>3. /\ UrgentWaiting' = Append(UrgentWaiting, m)
        /\ UNCHANGED <<CriticalWaiting, NormalWaiting>>
    BY <1>3, <2>1, <2>2 DEF CriticalWaiting, UrgentWaiting, NormalWaiting
  <2>4. Waiting' = [critical |-> CriticalWaiting, urgent |-> Append(UrgentWaiting, m),
                     normal |-> NormalWaiting]
    BY <2>3 DEF Waiting
  <2>5. Waiting' = [Waiting EXCEPT !["urgent"] = Append(UrgentWaiting, m)]
    BY <2>4, UrgentField DEF Waiting
  <2>6. Waiting["urgent"] = UrgentWaiting
    BY DEF Waiting
  <2>7. lane = "urgent"
    BY <1>8 DEF lane
  <2> QED BY <2>5, <2>6, <2>7
<1>9. CASE InNormal(m) /\ ~InCritical(m) /\ ~InUrgent(m)
  <2>1. normal' = Append(normal, m) /\ UNCHANGED <<critical, urgent>>
    BY <1>9 DEF enqueueItem, AppendIf
  <2>2. BeingWritten(InNormal) \o Append(normal, m) = Append(NormalWaiting, m)
    BY <1>2, <1>4, LaneFacts DEF NormalWaiting
  <2>3. /\ NormalWaiting' = Append(NormalWaiting, m)
        /\ UNCHANGED <<CriticalWaiting, UrgentWaiting>>
    BY <1>3, <2>1, <2>2 DEF CriticalWaiting, UrgentWaiting, NormalWaiting
  <2>4. Waiting' = [critical |-> CriticalWaiting, urgent |-> UrgentWaiting,
                     normal |-> Append(NormalWaiting, m)]
    BY <2>3 DEF Waiting
  <2>5. Waiting' = [Waiting EXCEPT !["normal"] = Append(NormalWaiting, m)]
    BY <2>4, NormalField DEF Waiting
  <2>6. Waiting["normal"] = NormalWaiting
    BY DEF Waiting
  <2>7. lane = "normal"
    BY <1>9 DEF lane
  <2> QED BY <2>5, <2>6, <2>7
<1> QED BY <1>5, <1>7, <1>8, <1>9

(* A drain closes the queue; the message being written is kept.            *)
LEMMA DrainCloses ==
    ASSUME IInv, NEW cause, Drain(cause), UNCHANGED <<item, writeErr, wire, accepted>>,
           writer = "writing" <=> writer' = "writing"
    PROVE  Delivery!Next
<1>1. closed' = TRUE /\ critical' = <<>> /\ urgent' = <<>> /\ normal' = <<>>
  BY DEF Drain
<1>2. /\ critical \in Seq(Messages) /\ urgent \in Seq(Messages) /\ normal \in Seq(Messages)
      /\ writer = "writing" => item \in Messages
  BY DEF IInv, TypeOK, FlightInv
<1>3. CASE writer # "writing"
  <2>1. CriticalWaiting' = <<>> /\ UrgentWaiting' = <<>> /\ NormalWaiting' = <<>>
    BY <1>1, <1>3 DEF CriticalWaiting, UrgentWaiting, NormalWaiting, BeingWritten
  <2>2. Waiting' = [l \in {"critical", "urgent", "normal"} |-> <<>>]
    BY <2>1 DEF Waiting
  <2>3. Delivery!Close({})
    BY <1>1, <2>2 DEF Delivery!Close, Delivery!Lanes, Waiting, CriticalWaiting,
           UrgentWaiting, NormalWaiting
  <2> QED BY <2>3 DEF Delivery!Next
<1>4. CASE writer = "writing" /\ InCritical(item) /\ ~InUrgent(item) /\ ~InNormal(item)
  <2>1. /\ CriticalWaiting' = <<item>> \o <<>> /\ CriticalWaiting = <<item>> \o critical
        /\ UrgentWaiting' = <<>> \o <<>> /\ NormalWaiting' = <<>> \o <<>>
    BY <1>1, <1>4 DEF CriticalWaiting, UrgentWaiting, NormalWaiting, BeingWritten,
           InCritical, InUrgent, InNormal, isCriticalControlMessage, isUrgentControlMessage
  <2>2. /\ CriticalWaiting' = <<item>> /\ CriticalWaiting # <<>> /\ Head(CriticalWaiting) = item
        /\ UrgentWaiting' = <<>> /\ NormalWaiting' = <<>>
    BY <1>2, <1>4, <2>1, LaneFacts
  <2>3. Waiting["critical"] = CriticalWaiting
    BY DEF Waiting
  <2>4. Waiting' = [l \in {"critical", "urgent", "normal"} |->
                       IF l \in {"critical"} THEN <<Head(Waiting[l])>> ELSE <<>>]
    BY <2>2, <2>3 DEF Waiting
  <2>5. Waiting["critical"] # <<>> /\ Delivery!Close({"critical"})
    BY <1>1, <2>2, <2>3, <2>4 DEF Delivery!Close, Delivery!Lanes, Waiting,
           CriticalWaiting, UrgentWaiting, NormalWaiting
  <2> QED BY <2>5 DEF Delivery!Next, Delivery!Lanes, Waiting, CriticalWaiting,
                 UrgentWaiting, NormalWaiting
<1>5. CASE writer = "writing" /\ InUrgent(item) /\ ~InCritical(item) /\ ~InNormal(item)
  <2>1. /\ UrgentWaiting' = <<item>> \o <<>> /\ UrgentWaiting = <<item>> \o urgent
        /\ CriticalWaiting' = <<>> \o <<>> /\ NormalWaiting' = <<>> \o <<>>
    BY <1>1, <1>5 DEF CriticalWaiting, UrgentWaiting, NormalWaiting, BeingWritten,
           InCritical, InUrgent, InNormal, isCriticalControlMessage, isUrgentControlMessage
  <2>2. /\ UrgentWaiting' = <<item>> /\ UrgentWaiting # <<>> /\ Head(UrgentWaiting) = item
        /\ CriticalWaiting' = <<>> /\ NormalWaiting' = <<>>
    BY <1>2, <1>5, <2>1, LaneFacts
  <2>3. Waiting["urgent"] = UrgentWaiting
    BY DEF Waiting
  <2>4. Waiting' = [l \in {"critical", "urgent", "normal"} |->
                       IF l \in {"urgent"} THEN <<Head(Waiting[l])>> ELSE <<>>]
    BY <2>2, <2>3 DEF Waiting
  <2>5. Waiting["urgent"] # <<>> /\ Delivery!Close({"urgent"})
    BY <1>1, <2>2, <2>3, <2>4 DEF Delivery!Close, Delivery!Lanes, Waiting,
           CriticalWaiting, UrgentWaiting, NormalWaiting
  <2> QED BY <2>5 DEF Delivery!Next, Delivery!Lanes, Waiting, CriticalWaiting,
                 UrgentWaiting, NormalWaiting
<1>6. CASE writer = "writing" /\ InNormal(item) /\ ~InCritical(item) /\ ~InUrgent(item)
  <2>1. /\ NormalWaiting' = <<item>> \o <<>> /\ NormalWaiting = <<item>> \o normal
        /\ CriticalWaiting' = <<>> \o <<>> /\ UrgentWaiting' = <<>> \o <<>>
    BY <1>1, <1>6 DEF CriticalWaiting, UrgentWaiting, NormalWaiting, BeingWritten,
           InCritical, InUrgent, InNormal, isCriticalControlMessage, isUrgentControlMessage
  <2>2. /\ NormalWaiting' = <<item>> /\ NormalWaiting # <<>> /\ Head(NormalWaiting) = item
        /\ CriticalWaiting' = <<>> /\ UrgentWaiting' = <<>>
    BY <1>2, <1>6, <2>1, LaneFacts
  <2>3. Waiting["normal"] = NormalWaiting
    BY DEF Waiting
  <2>4. Waiting' = [l \in {"critical", "urgent", "normal"} |->
                       IF l \in {"normal"} THEN <<Head(Waiting[l])>> ELSE <<>>]
    BY <2>2, <2>3 DEF Waiting
  <2>5. Waiting["normal"] # <<>> /\ Delivery!Close({"normal"})
    BY <1>1, <2>2, <2>3, <2>4 DEF Delivery!Close, Delivery!Lanes, Waiting,
           CriticalWaiting, UrgentWaiting, NormalWaiting
  <2> QED BY <2>5 DEF Delivery!Next, Delivery!Lanes, Waiting, CriticalWaiting,
                 UrgentWaiting, NormalWaiting
<1> QED BY <1>3, <1>4, <1>5, <1>6 DEF InCritical, InUrgent, InNormal

(* Every step of the queue is a step of ControlDelivery or leaves its      *)
(* variables alone.                                                        *)
LEMMA DeliveryStep ==
    ASSUME IInv, HistoryInv, [Next]_vars
    PROVE  [Delivery!Next]_Delivery!vars
<1>1. ASSUME NEW m \in Messages, enqueueItem(m) PROVE Delivery!Next
  BY <1>1, EnqueueAccepts
<1>2. CASE close
  BY <1>2, DrainCloses DEF close, WakeWriter
<1>3. CASE fail
  BY <1>3, DrainCloses DEF fail
<1>4. CASE WriteJSON
  BY <1>4, WriteDelivers
<1>5. CASE nextCritical \/ nextUrgent \/ nextNormal
  BY <1>5, TakeStutters
<1> QED BY <1>1, <1>2, <1>3, <1>4, <1>5, StutterSteps DEF Next, Writer

(* The queue keeps the promise of ControlDelivery: messages are accepted   *)
(* once, delivered at most once and in the order of their lane, nothing is *)
(* delivered after a failed write, and a close leaves at most the message  *)
(* already being written.                                                  *)
THEOREM Refinement == Spec => ImplementsDelivery
<1>1. Init => HistoryInv
  BY DEF Init, HistoryInv
<1>2. IInv /\ HistoryInv /\ [Next]_vars => HistoryInv'
  BY HistoryNext
<1>3. IInv /\ HistoryInv /\ [Next]_vars => [Delivery!Next]_Delivery!vars
  BY DeliveryStep
<1> QED BY <1>1, <1>2, <1>3, DeliveryInit, Invariance, PTL
        DEF Spec, ImplementsDelivery, Delivery!Spec

----------------------------------------------------------------------------
(* The normal lane is not starved.                                         *)

NormalsIn(h, n) == {j \in 1 .. n : InNormal(h[j].msg)}
UrgentIn(w, a) == {b \in (a + 1) .. Len(w) : InUrgent(w[b])}

(* The writer is about to deliver an urgent message.                       *)
Flying == IF writer = "writing" /\ InUrgent(item) THEN 1 ELSE 0

(* The urgent messages that passed a normal one that has p places to go, k *)
(* normal ones having been accepted up to it: a full round for each normal *)
(* one that left before, and what was taken of the current round.          *)
InShare(passed, k, p, fly, budget) ==
    passed + fly <= UrgentLimit * (k - p)
                    + (IF budget < UrgentLimit THEN budget ELSE UrgentLimit)

ShareInv ==
    \A i \in 1 .. Len(accepted), p \in 1 .. Len(normal) :
        normal[p] = accepted[i].msg =>
            LET k == Cardinality(NormalsIn(accepted, i))
            IN  /\ p <= k
                /\ InShare(Cardinality(UrgentIn(wire, accepted[i].at)), k, p, Flying, urgentBudget)

StarveInv ==
    /\ Flying = 1 => urgentBudget > 0
    /\ Len(normal) <= Cardinality(NormalsIn(accepted, Len(accepted)))
    /\ \A i \in 1 .. Len(accepted) : accepted[i].at \in 0 .. Len(wire)
    /\ ShareInv

LEMMA Counted ==
    ASSUME NEW h, NEW n \in Nat, NEW w \in Seq(Messages), NEW a \in Nat
    PROVE  /\ IsFiniteSet(NormalsIn(h, n)) /\ Cardinality(NormalsIn(h, n)) \in Nat
           /\ IsFiniteSet(UrgentIn(w, a)) /\ Cardinality(UrgentIn(w, a)) \in Nat
<1>1. IsFiniteSet(1 .. n) /\ IsFiniteSet((a + 1) .. Len(w))
  BY FS_Interval
<1>2. NormalsIn(h, n) \subseteq 1 .. n /\ UrgentIn(w, a) \subseteq (a + 1) .. Len(w)
  BY DEF NormalsIn, UrgentIn
<1>3. IsFiniteSet(NormalsIn(h, n)) /\ IsFiniteSet(UrgentIn(w, a))
  BY <1>1, <1>2, FS_Subset
<1> QED BY <1>3, FS_CardinalityType

(* One more accepted message.                                              *)
LEMMA NormalsGrow ==
    ASSUME NEW h \in Seq([msg : Messages, at : Nat]), NEW e \in [msg : Messages, at : Nat],
           NEW g, g = Append(h, e)
    PROVE  /\ \A n \in 1 .. Len(h) : NormalsIn(g, n) = NormalsIn(h, n)
           /\ InNormal(e.msg) =>
                 Cardinality(NormalsIn(g, Len(h) + 1)) = Cardinality(NormalsIn(h, Len(h))) + 1
           /\ ~InNormal(e.msg) => NormalsIn(g, Len(h) + 1) = NormalsIn(h, Len(h))
<1>1. /\ Len(h) \in Nat /\ g[Len(h) + 1] = e /\ \A j \in 1 .. Len(h) : g[j] = h[j]
  OBVIOUS
<1>2. \A n \in 1 .. Len(h) : NormalsIn(g, n) = NormalsIn(h, n)
  BY <1>1 DEF NormalsIn
<1>3. ASSUME InNormal(e.msg)
      PROVE  Cardinality(NormalsIn(g, Len(h) + 1)) = Cardinality(NormalsIn(h, Len(h))) + 1
  <2>1. NormalsIn(g, Len(h) + 1) = NormalsIn(h, Len(h)) \cup {Len(h) + 1}
    BY <1>1, <1>3 DEF NormalsIn
  <2>2. Len(h) + 1 \notin NormalsIn(h, Len(h))
    BY <1>1 DEF NormalsIn
  <2>3. IsFiniteSet(NormalsIn(h, Len(h)))
    <3>1. <<>> \in Seq(Messages) /\ 0 \in Nat
      OBVIOUS
    <3> QED BY <1>1, <3>1, Counted
  <2> QED BY <2>1, <2>2, <2>3, FS_AddElement
<1>4. ~InNormal(e.msg) => NormalsIn(g, Len(h) + 1) = NormalsIn(h, Len(h))
  BY <1>1 DEF NormalsIn
<1> QED BY <1>2, <1>3, <1>4

(* One more delivered message.                                             *)
LEMMA UrgentGrow ==
    ASSUME NEW w \in Seq(Messages), NEW m \in Messages, NEW a \in 0 .. Len(w),
           NEW v, v = Append(w, m)
    PROVE  Cardinality(UrgentIn(v, a)) = Cardinality(UrgentIn(w, a)) + (IF InUrgent(m) THEN 1 ELSE 0)
<1>1. /\ Len(w) \in Nat /\ Len(v) = Len(w) + 1 /\ v[Len(w) + 1] = m
      /\ \A j \in 1 .. Len(w) : v[j] = w[j]
  OBVIOUS
<1>2. IsFiniteSet(UrgentIn(w, a)) /\ Cardinality(UrgentIn(w, a)) \in Nat
  BY Counted, 0 \in Nat
<1>3. CASE InUrgent(m)
  <2>1. UrgentIn(v, a) = UrgentIn(w, a) \cup {Len(w) + 1} /\ Len(w) + 1 \notin UrgentIn(w, a)
    BY <1>1, <1>3 DEF UrgentIn
  <2> QED BY <1>2, <1>3, <2>1, FS_AddElement
<1>4. CASE ~InUrgent(m)
  <2>1. UrgentIn(v, a) = UrgentIn(w, a)
    BY <1>1, <1>4 DEF UrgentIn
  <2> QED BY <1>2, <1>4, <2>1
<1> QED BY <1>3, <1>4

(* The arithmetic of the share.                                            *)
LEMMA Products ==
    ASSUME NEW l \in Nat, NEW x \in Nat
    PROVE  l * x \in Nat /\ l * (x + 1) = l * x + l
OBVIOUS

LEMMA ShareFacts ==
    ASSUME NEW u \in Nat, NEW k \in Nat, NEW p \in 1 .. k, NEW b \in Nat
    PROVE  /\ InShare(0, k, p, 0, b)
           /\ b > 0 => InShare(0, k, p, 1, b)
           /\ InShare(u, k, p, 1, b) => InShare(u, k, p, 0, b) /\ InShare(u + 1, k, p, 0, b)
           /\ InShare(u, k, p, 0, b) /\ b < UrgentLimit => InShare(u, k, p, 1, b + 1)
           /\ InShare(u, k, p, 0, b) => InShare(u, k, p - 1, 0, 0)
           /\ InShare(u, k, p, 0, b) => u <= UrgentLimit * k
<1> DEFINE L == UrgentLimit
           x == k - p
           y == L * x
           s == IF b < L THEN b ELSE L
<1>1. L \in Nat /\ L > 0 /\ x \in Nat
  BY QueueAssumption
<1>2. y \in Nat /\ L * (x + 1) = y + L
  BY <1>1, Products
<1>3. k - (p - 1) = x + 1
  OBVIOUS
<1>4. s \in Nat /\ s <= L /\ (b > 0 => s > 0)
  BY <1>1
<1>5. \A v, f : InShare(v, k, p, f, b) <=> v + f <= y + s
  BY DEF InShare
<1>6. \A v : InShare(v, k, p - 1, 0, 0) <=> v + 0 <= (y + L) + 0
  BY <1>1, <1>2, <1>3 DEF InShare
<1>7. \A v : b < L => (InShare(v, k, p, 1, b + 1) <=> v + 1 <= y + (b + 1))
  BY <1>1 DEF InShare
<1>8. y + L <= L * k
  <2>1. PICK z \in Nat : k = (x + 1) + z
    <3>1. k = (x + 1) + (p - 1) /\ p - 1 \in Nat
      OBVIOUS
    <3> QED BY <3>1
  <2>2. L * ((x + 1) + z) = L * (x + 1) + L * z /\ L * z \in Nat
    BY <1>1
  <2> QED BY <1>1, <1>2, <2>1, <2>2
<1>9. L * k \in Int
  BY <1>1
<1> HIDE DEF y, s, L, x
<1>10. InShare(0, k, p, 0, b) /\ (b > 0 => InShare(0, k, p, 1, b))
  BY <1>2, <1>4, <1>5
<1>11. InShare(u, k, p, 1, b) => InShare(u, k, p, 0, b) /\ InShare(u + 1, k, p, 0, b)
  BY <1>2, <1>4, <1>5
<1>12. InShare(u, k, p, 0, b) /\ b < UrgentLimit => InShare(u, k, p, 1, b + 1)
  BY <1>2, <1>5, <1>7 DEF L, s
<1>13. InShare(u, k, p, 0, b) => InShare(u, k, p - 1, 0, 0)
  BY <1>1, <1>2, <1>4, <1>5, <1>6
<1>14. InShare(u, k, p, 0, b) => u <= UrgentLimit * k
  <2>1. InShare(u, k, p, 0, b) => u <= L * k
    BY <1>1, <1>2, <1>4, <1>5, <1>8, <1>9
  <2> QED BY <2>1 DEF L
<1> QED BY <1>10, <1>11, <1>12, <1>13, <1>14

LEMMA FlyingFacts == Flying \in {0, 1} /\ (Flying = 1 <=> writer = "writing" /\ InUrgent(item))
  BY DEF Flying

(* The share of one waiting normal message.                                *)
LEMMA ShareOf ==
    ASSUME TypeOK, StarveInv, NEW i \in 1 .. Len(accepted), NEW p \in 1 .. Len(normal),
           normal[p] = accepted[i].msg
    PROVE  /\ accepted[i].at \in 0 .. Len(wire)
           /\ Cardinality(NormalsIn(accepted, i)) \in Nat
           /\ Cardinality(UrgentIn(wire, accepted[i].at)) \in Nat
           /\ p \in 1 .. Cardinality(NormalsIn(accepted, i))
           /\ InShare(Cardinality(UrgentIn(wire, accepted[i].at)),
                      Cardinality(NormalsIn(accepted, i)), p, Flying, urgentBudget)
<1>1. accepted[i].at \in 0 .. Len(wire)
  BY DEF StarveInv
<1>2. wire \in Seq(Messages) /\ i \in Nat /\ accepted[i].at \in Nat
  BY <1>1 DEF TypeOK
<1>3. /\ Cardinality(NormalsIn(accepted, i)) \in Nat
      /\ Cardinality(UrgentIn(wire, accepted[i].at)) \in Nat
  BY <1>2, Counted
<1>4. /\ p <= Cardinality(NormalsIn(accepted, i))
      /\ InShare(Cardinality(UrgentIn(wire, accepted[i].at)),
                 Cardinality(NormalsIn(accepted, i)), p, Flying, urgentBudget)
  BY DEF StarveInv, ShareInv
<1> QED BY <1>1, <1>3, <1>4

(* Steps that accept nothing, deliver nothing and take no urgent or normal *)
(* message.                                                                *)
LEMMA QuietShare ==
    ASSUME TypeOK, TypeOK', StarveInv, UNCHANGED <<accepted, wire, urgentBudget>>,
           normal' = normal \/ normal' = <<>>, Flying' = Flying \/ Flying' = 0
    PROVE  StarveInv'
<1>1. Flying' = 1 => urgentBudget' > 0
  BY DEF StarveInv
<1>2. Len(normal') <= Cardinality(NormalsIn(accepted, Len(accepted)))'
  <2>1. Cardinality(NormalsIn(accepted, Len(accepted))) \in Nat
    <3>1. Len(accepted) \in Nat /\ <<>> \in Seq(Messages) /\ 0 \in Nat
      BY DEF TypeOK
    <3> QED BY <3>1, Counted
  <2>2. Len(normal) <= Cardinality(NormalsIn(accepted, Len(accepted)))
    BY DEF StarveInv
  <2>3. NormalsIn(accepted, Len(accepted))' = NormalsIn(accepted, Len(accepted))
    BY DEF NormalsIn
  <2>4. CASE normal' = <<>>
    BY <2>1, <2>3, <2>4
  <2> QED BY <2>2, <2>3, <2>4
<1>3. (\A i \in 1 .. Len(accepted) : accepted[i].at \in 0 .. Len(wire))'
  BY DEF StarveInv
<1>4. ASSUME NEW i \in 1 .. Len(accepted'), NEW p \in 1 .. Len(normal'),
             normal'[p] = accepted'[i].msg
      PROVE  /\ p <= Cardinality(NormalsIn(accepted', i))
             /\ InShare(Cardinality(UrgentIn(wire', accepted'[i].at)),
                        Cardinality(NormalsIn(accepted', i)), p, Flying', urgentBudget')
  <2>1. normal' = normal /\ p \in 1 .. Len(normal) /\ i \in 1 .. Len(accepted)
        /\ normal[p] = accepted[i].msg
    BY <1>4
  <2> DEFINE k == Cardinality(NormalsIn(accepted, i))
             u == Cardinality(UrgentIn(wire, accepted[i].at))
  <2>2. k \in Nat /\ u \in Nat /\ p \in 1 .. k /\ InShare(u, k, p, Flying, urgentBudget)
    BY <2>1, ShareOf
  <2>3. urgentBudget \in Nat /\ Flying \in {0, 1}
    BY FlyingFacts DEF TypeOK
  <2>4. Cardinality(NormalsIn(accepted', i)) = k /\ Cardinality(UrgentIn(wire', accepted'[i].at)) = u
    BY DEF NormalsIn, UrgentIn
  <2> HIDE DEF k, u
  <2>5. InShare(u, k, p, 1, urgentBudget) => InShare(u, k, p, 0, urgentBudget)
    BY <2>2, <2>3, ShareFacts
  <2>6. InShare(u, k, p, Flying', urgentBudget)
    BY <2>2, <2>3, <2>5
  <2> QED BY <2>2, <2>4, <2>6
<1>5. ShareInv'
  BY <1>4 DEF ShareInv
<1> QED BY <1>1, <1>2, <1>3, <1>5 DEF StarveInv

(* Taking the next urgent message: a normal one waits only while the round *)
(* is not used up.                                                         *)
LEMMA UrgentShare ==
    ASSUME TypeOK, LanesInv, StarveInv, nextUrgent PROVE StarveInv'
<1>1. /\ writer = "next" /\ UNCHANGED <<normal, accepted, wire>>
      /\ urgentBudget' = urgentBudget + 1
      /\ urgentBudget < UrgentLimit \/ normal = <<>>
  BY DEF nextUrgent, Take
<1>2. Flying = 0 /\ urgentBudget \in Nat /\ urgentBudget' > 0
  BY <1>1 DEF Flying, TypeOK
<1>3. Flying' = 1
  <2>1. urgent \in Seq(Messages) /\ urgent # <<>>
    BY DEF TypeOK, nextUrgent
  <2>2. Contains(urgent, Head(urgent))
    BY <2>1, TailFacts
  <2>3. InUrgent(Head(urgent))
    BY <2>2 DEF LanesInv
  <2>4. item' = Head(urgent) /\ writer' = "writing"
    BY DEF nextUrgent, Take
  <2> QED BY <2>3, <2>4 DEF Flying, InUrgent, isCriticalControlMessage, isUrgentControlMessage
<1>4. (\A i \in 1 .. Len(accepted) : accepted[i].at \in 0 .. Len(wire))'
  BY <1>1 DEF StarveInv
<1>5. (Len(normal) <= Cardinality(NormalsIn(accepted, Len(accepted))))'
  BY <1>1 DEF StarveInv, NormalsIn
<1>6. ASSUME NEW i \in 1 .. Len(accepted'), NEW p \in 1 .. Len(normal'),
             normal'[p] = accepted'[i].msg
      PROVE  /\ p <= Cardinality(NormalsIn(accepted', i))
             /\ InShare(Cardinality(UrgentIn(wire', accepted'[i].at)),
                        Cardinality(NormalsIn(accepted', i)), p, Flying', urgentBudget')
  <2>1. p \in 1 .. Len(normal) /\ i \in 1 .. Len(accepted) /\ normal[p] = accepted[i].msg
    BY <1>1, <1>6
  <2> DEFINE k == Cardinality(NormalsIn(accepted, i))
             u == Cardinality(UrgentIn(wire, accepted[i].at))
  <2>2. k \in Nat /\ u \in Nat /\ p \in 1 .. k /\ InShare(u, k, p, 0, urgentBudget)
    BY <1>2, <2>1, ShareOf
  <2>3. Cardinality(NormalsIn(accepted', i)) = k /\ Cardinality(UrgentIn(wire', accepted'[i].at)) = u
    BY <1>1 DEF NormalsIn, UrgentIn
  <2>4. urgentBudget < UrgentLimit
    BY <1>1, <2>1
  <2> HIDE DEF k, u
  <2>5. InShare(u, k, p, 1, urgentBudget + 1)
    BY <1>2, <2>2, <2>4, ShareFacts
  <2> QED BY <1>1, <1>3, <2>2, <2>3, <2>5
<1>7. ShareInv'
  BY <1>6 DEF ShareInv
<1> QED BY <1>2, <1>4, <1>5, <1>7 DEF StarveInv

(* Taking the next normal message: every other one moves up a place, which *)
(* is worth a round of urgent messages, and a new round begins.            *)
LEMMA NormalShare ==
    ASSUME TypeOK, LanesInv, StarveInv, nextNormal PROVE StarveInv'
<1>1. /\ writer = "next" /\ normal # <<>> /\ UNCHANGED <<accepted, wire>>
      /\ urgentBudget' = 0 /\ normal' = Tail(normal)
  BY DEF nextNormal, Take
<1>2. Flying = 0 /\ urgentBudget \in Nat
  BY <1>1 DEF Flying, TypeOK
<1>3. /\ normal \in Seq(Messages) /\ Len(normal') = Len(normal) - 1 /\ Len(normal) \in Nat
      /\ \A q \in 1 .. Len(normal) - 1 : normal'[q] = normal[q + 1]
  BY <1>1 DEF TypeOK
<1>4. Flying' = 0
  <2>1. Contains(normal, Head(normal))
    BY <1>1, <1>3, TailFacts
  <2>2. InNormal(Head(normal))
    BY <2>1 DEF LanesInv
  <2>3. item' = Head(normal)
    BY DEF nextNormal, Take
  <2> QED BY <2>2, <2>3 DEF Flying, InNormal, InUrgent, isCriticalControlMessage, isUrgentControlMessage
<1>5. (\A i \in 1 .. Len(accepted) : accepted[i].at \in 0 .. Len(wire))'
  BY <1>1 DEF StarveInv
<1>6. (Len(normal) <= Cardinality(NormalsIn(accepted, Len(accepted))))'
  <2>1. Len(normal) <= Cardinality(NormalsIn(accepted, Len(accepted)))
    BY DEF StarveInv
  <2>2. Cardinality(NormalsIn(accepted, Len(accepted))) \in Nat
    <3>1. Len(accepted) \in Nat /\ <<>> \in Seq(Messages) /\ 0 \in Nat
      BY DEF TypeOK
    <3> QED BY <3>1, Counted
  <2>3. NormalsIn(accepted, Len(accepted))' = NormalsIn(accepted, Len(accepted))
    BY <1>1 DEF NormalsIn
  <2> QED BY <1>3, <2>1, <2>2, <2>3
<1>7. ASSUME NEW i \in 1 .. Len(accepted'), NEW p \in 1 .. Len(normal'),
             normal'[p] = accepted'[i].msg
      PROVE  /\ p <= Cardinality(NormalsIn(accepted', i))
             /\ InShare(Cardinality(UrgentIn(wire', accepted'[i].at)),
                        Cardinality(NormalsIn(accepted', i)), p, Flying', urgentBudget')
  <2>1. /\ p \in Nat /\ p + 1 \in 1 .. Len(normal) /\ i \in 1 .. Len(accepted)
        /\ normal[p + 1] = accepted[i].msg
    BY <1>1, <1>3, <1>7
  <2> DEFINE k == Cardinality(NormalsIn(accepted, i))
             u == Cardinality(UrgentIn(wire, accepted[i].at))
  <2>2. k \in Nat /\ u \in Nat /\ p + 1 \in 1 .. k /\ InShare(u, k, p + 1, 0, urgentBudget)
    BY <1>2, <2>1, ShareOf
  <2>3. Cardinality(NormalsIn(accepted', i)) = k /\ Cardinality(UrgentIn(wire', accepted'[i].at)) = u
    BY <1>1 DEF NormalsIn, UrgentIn
  <2> HIDE DEF k, u
  <2>4. InShare(u, k, (p + 1) - 1, 0, 0)
    BY <1>2, <2>2, ShareFacts
  <2>5. (p + 1) - 1 = p /\ p <= k
    BY <2>1, <2>2
  <2> QED BY <1>1, <1>4, <2>3, <2>4, <2>5
<1>8. ShareInv'
  BY <1>7 DEF ShareInv
<1> QED BY <1>4, <1>5, <1>6, <1>8 DEF StarveInv

(* A delivery: the urgent message on its way becomes one that has passed.  *)
LEMMA WriteShare ==
    ASSUME TypeOK, FlightInv, StarveInv, WriteJSON PROVE StarveInv'
<1>1. /\ writer = "writing" /\ writer' = "completing"
      /\ UNCHANGED <<normal, accepted, urgentBudget>>
      /\ wire' = wire \/ wire' = Append(wire, item)
  BY DEF WriteJSON, lanes, counters
<1>2. item \in Messages /\ wire \in Seq(Messages) /\ urgentBudget \in Nat
  BY <1>1 DEF TypeOK, FlightInv
<1>3. Flying' = 0
  BY <1>1 DEF Flying
<1>4. CASE wire' = wire
  <2>1. (\A i \in 1 .. Len(accepted) : accepted[i].at \in 0 .. Len(wire))'
    BY <1>1, <1>4 DEF StarveInv
  <2>2. (Len(normal) <= Cardinality(NormalsIn(accepted, Len(accepted))))'
    BY <1>1 DEF StarveInv, NormalsIn
  <2>3. ASSUME NEW i \in 1 .. Len(accepted'), NEW p \in 1 .. Len(normal'),
               normal'[p] = accepted'[i].msg
        PROVE  /\ p <= Cardinality(NormalsIn(accepted', i))
               /\ InShare(Cardinality(UrgentIn(wire', accepted'[i].at)),
                          Cardinality(NormalsIn(accepted', i)), p, Flying', urgentBudget')
    <3>1. p \in 1 .. Len(normal) /\ i \in 1 .. Len(accepted) /\ normal[p] = accepted[i].msg
      BY <1>1, <2>3
    <3> DEFINE k == Cardinality(NormalsIn(accepted, i))
               u == Cardinality(UrgentIn(wire, accepted[i].at))
    <3>2. k \in Nat /\ u \in Nat /\ p \in 1 .. k /\ InShare(u, k, p, Flying, urgentBudget)
      BY <3>1, ShareOf
    <3>3. Cardinality(NormalsIn(accepted', i)) = k /\ Cardinality(UrgentIn(wire', accepted'[i].at)) = u
      BY <1>1, <1>4 DEF NormalsIn, UrgentIn
    <3> HIDE DEF k, u
    <3>4. InShare(u, k, p, 0, urgentBudget)
      BY <1>2, <3>2, FlyingFacts, ShareFacts
    <3> QED BY <1>1, <1>3, <3>2, <3>3, <3>4
  <2>4. ShareInv'
    BY <2>3 DEF ShareInv
  <2> QED BY <1>3, <2>1, <2>2, <2>4 DEF StarveInv
<1>5. CASE wire' = Append(wire, item)
  <2>0. Len(wire') = Len(wire) + 1 /\ Len(wire) \in Nat
    BY <1>2, <1>5
  <2>1. (\A i \in 1 .. Len(accepted) : accepted[i].at \in 0 .. Len(wire))'
    BY <1>1, <2>0 DEF StarveInv
  <2>2. (Len(normal) <= Cardinality(NormalsIn(accepted, Len(accepted))))'
    BY <1>1 DEF StarveInv, NormalsIn
  <2>3. ASSUME NEW i \in 1 .. Len(accepted'), NEW p \in 1 .. Len(normal'),
               normal'[p] = accepted'[i].msg
        PROVE  /\ p <= Cardinality(NormalsIn(accepted', i))
               /\ InShare(Cardinality(UrgentIn(wire', accepted'[i].at)),
                          Cardinality(NormalsIn(accepted', i)), p, Flying', urgentBudget')
    <3>1. p \in 1 .. Len(normal) /\ i \in 1 .. Len(accepted) /\ normal[p] = accepted[i].msg
      BY <1>1, <2>3
    <3> DEFINE k == Cardinality(NormalsIn(accepted, i))
               a == accepted[i].at
               u == Cardinality(UrgentIn(wire, a))
    <3>2. /\ a \in 0 .. Len(wire) /\ k \in Nat /\ u \in Nat /\ p \in 1 .. k
          /\ InShare(u, k, p, Flying, urgentBudget)
      BY <3>1, ShareOf
    <3>3. Cardinality(NormalsIn(accepted', i)) = k /\ accepted'[i].at = a
      BY <1>1 DEF NormalsIn
    <3> HIDE DEF k, a
    <3>4. Cardinality(UrgentIn(wire', a)) = u + (IF InUrgent(item) THEN 1 ELSE 0)
      BY <1>2, <1>5, <3>2, UrgentGrow
    <3> HIDE DEF u
    <3>5. Flying = IF InUrgent(item) THEN 1 ELSE 0
      BY <1>1 DEF Flying
    <3>6. CASE InUrgent(item)
      BY <1>1, <1>2, <1>3, <3>2, <3>3, <3>4, <3>5, <3>6, ShareFacts
    <3>7. CASE ~InUrgent(item)
      BY <1>1, <1>2, <1>3, <3>2, <3>3, <3>4, <3>5, <3>7
    <3> QED BY <3>6, <3>7
  <2>4. ShareInv'
    BY <2>3 DEF ShareInv
  <2> QED BY <1>3, <2>1, <2>2, <2>4 DEF StarveInv
<1> QED BY <1>1, <1>4, <1>5

(* A message is accepted: nothing has passed it yet, and the normal ones   *)
(* that were accepted before keep their places.                            *)
LEMMA EnqueueShare ==
    ASSUME TypeOK, LanesInv, OwnerInv, HistoryInv, StarveInv,
           NEW m \in Messages, enqueueItem(m)
    PROVE  StarveInv'
<1> DEFINE e == [msg |-> m, at |-> Len(wire)]
<1>1. /\ accepted' = Append(accepted, e) /\ UNCHANGED <<wire, urgentBudget, item>>
      /\ normal' = IF InNormal(m) THEN Append(normal, m) ELSE normal
      /\ writer' = IF writer = "waiting" THEN "next" ELSE writer
      /\ call[m] = "new"
  BY DEF enqueueItem, AppendIf, WakeWriter
<1>2. /\ accepted \in Seq([msg : Messages, at : Nat]) /\ normal \in Seq(Messages)
      /\ wire \in Seq(Messages) /\ urgentBudget \in Nat /\ Len(wire) \in Nat
      /\ Len(accepted) \in Nat /\ Len(normal) \in Nat
  BY DEF TypeOK
<1>3. e \in [msg : Messages, at : Nat] /\ e.msg = m /\ e.at = Len(wire)
  BY <1>2
<1> HIDE DEF e
<1>4. /\ Len(accepted') = Len(accepted) + 1 /\ accepted'[Len(accepted) + 1] = e
      /\ \A i \in 1 .. Len(accepted) : accepted'[i] = accepted[i]
  BY <1>1, <1>2, <1>3
<1>5. Flying' = Flying
  BY <1>1 DEF Flying
<1>6. /\ \A n \in 1 .. Len(accepted) : NormalsIn(accepted', n) = NormalsIn(accepted, n)
      /\ InNormal(m) => Cardinality(NormalsIn(accepted', Len(accepted) + 1))
                            = Cardinality(NormalsIn(accepted, Len(accepted))) + 1
      /\ ~InNormal(m) => NormalsIn(accepted', Len(accepted) + 1) = NormalsIn(accepted, Len(accepted))
  BY <1>1, <1>2, <1>3, NormalsGrow
<1> DEFINE K == Cardinality(NormalsIn(accepted, Len(accepted)))
<1>7. K \in Nat /\ Len(normal) <= K
  BY <1>2, Counted, 0 \in Nat DEF StarveInv
<1>8. Len(normal') <= Cardinality(NormalsIn(accepted', Len(accepted')))
  BY <1>1, <1>2, <1>4, <1>6, <1>7
<1>9. \A i \in 1 .. Len(accepted') : accepted'[i].at \in 0 .. Len(wire')
  <2>1. \A i \in 1 .. Len(accepted) : accepted[i].at \in 0 .. Len(wire)
    BY DEF StarveInv
  <2> QED BY <1>1, <1>2, <1>3, <1>4, <2>1
<1>10. ASSUME NEW i \in 1 .. Len(accepted'), NEW p \in 1 .. Len(normal'),
              normal'[p] = accepted'[i].msg
       PROVE  /\ p <= Cardinality(NormalsIn(accepted', i))
              /\ InShare(Cardinality(UrgentIn(wire', accepted'[i].at)),
                         Cardinality(NormalsIn(accepted', i)), p, Flying', urgentBudget')
  <2>1. CASE i \in 1 .. Len(accepted)
    <3>1. accepted'[i] = accepted[i] /\ call[accepted[i].msg] # "new"
      BY <1>4, <2>1 DEF HistoryInv
    <3>2. accepted[i].msg # m
      BY <1>1, <3>1
    <3>3. p \in 1 .. Len(normal) /\ normal[p] = accepted[i].msg
      BY <1>1, <1>2, <1>10, <3>1, <3>2
    <3>4. /\ p <= Cardinality(NormalsIn(accepted, i))
          /\ InShare(Cardinality(UrgentIn(wire, accepted[i].at)),
                     Cardinality(NormalsIn(accepted, i)), p, Flying, urgentBudget)
      BY <2>1, <3>3 DEF StarveInv, ShareInv
    <3> QED BY <1>1, <1>5, <1>6, <2>1, <3>1, <3>4
  <2>2. CASE i = Len(accepted) + 1
    <3>1. accepted'[i].msg = m /\ accepted'[i].at = Len(wire)
      BY <1>3, <1>4, <2>2
    <3>2. InNormal(m) /\ normal' = Append(normal, m)
      <4>1. SUFFICES ASSUME ~InNormal(m) PROVE FALSE
        BY <1>1
      <4>2. normal' = normal
        BY <1>1, <4>1
      <4>3. Contains(normal, m)
        BY <1>10, <3>1, <4>2 DEF Contains
      <4> QED BY <4>1, <4>3 DEF LanesInv
    <3>3. p <= Len(normal) + 1 /\ p \in Nat /\ p >= 1
      BY <1>2, <1>10, <3>2
    <3> DEFINE k == Cardinality(NormalsIn(accepted', i))
    <3>4. k = K + 1 /\ k \in Nat /\ p \in 1 .. k
      BY <1>2, <1>6, <1>7, <2>2, <3>2, <3>3
    <3>5. UrgentIn(wire', accepted'[i].at) = {}
      BY <1>1, <1>2, <3>1 DEF UrgentIn
    <3>6. Cardinality(UrgentIn(wire', accepted'[i].at)) = 0
      BY <3>5, FS_EmptySet
    <3> HIDE DEF k
    <3>7. Flying = 1 => urgentBudget > 0
      BY DEF StarveInv
    <3>8. InShare(0, k, p, Flying, urgentBudget)
      <4>1. CASE Flying = 0
        BY <1>2, <3>4, <4>1, ShareFacts, 0 \in Nat
      <4>2. CASE Flying = 1
        BY <1>2, <3>4, <3>7, <4>2, ShareFacts, 0 \in Nat
      <4> QED BY <4>1, <4>2, FlyingFacts
    <3>9. k = Cardinality(NormalsIn(accepted', i))
      BY DEF k
    <3> QED BY <1>1, <1>5, <3>4, <3>6, <3>8, <3>9
  <2> QED BY <1>2, <1>4, <2>1, <2>2
<1>11. ShareInv'
  BY <1>10 DEF ShareInv
<1>12. Flying' = 1 => urgentBudget' > 0
  BY <1>1, <1>5 DEF StarveInv
<1> QED BY <1>8, <1>9, <1>11, <1>12 DEF StarveInv

LEMMA QuietSteps ==
    ASSUME TypeOK, LanesInv, UNCHANGED accepted, ~WriteJSON, ~nextUrgent, ~nextNormal,
           [Next]_vars
    PROVE  /\ UNCHANGED <<wire, urgentBudget>>
           /\ normal' = normal \/ normal' = <<>>
           /\ Flying' = Flying \/ Flying' = 0
<1>1. CASE UNCHANGED vars
  BY <1>1 DEF vars, Flying
<1>2. ASSUME NEW m \in Messages, RefuseClosed(m) \/ RefuseFull(m) \/ ReceiveDone(m) \/ ContextDone(m)
      PROVE  UNCHANGED <<wire, urgentBudget, normal, writer, item>>
  BY <1>2 DEF RefuseClosed, RefuseFull, ReceiveDone, ContextDone, lanes, counters
<1>3. ASSUME NEW m \in Messages, enqueueItem(m) PROVE FALSE
  <2>1. accepted' = Append(accepted, [msg |-> m, at |-> Len(wire)])
    BY <1>3 DEF enqueueItem
  <2>2. Len(accepted') = Len(accepted) + 1 /\ Len(accepted) \in Nat
    BY <2>1 DEF TypeOK
  <2> QED BY <2>2
<1>4. CASE close \/ fail
  <2>1. UNCHANGED <<wire, urgentBudget, item>> /\ normal' = <<>>
    BY <1>4 DEF close, fail, Drain
  <2>2. writer' = "writing" => writer = "writing"
    BY <1>4 DEF close, fail, WakeWriter
  <2> QED BY <2>1, <2>2 DEF Flying
<1>5. CASE completeQueuedMessages
  BY <1>5 DEF completeQueuedMessages, Flying, lanes, counters
<1>6. CASE nextWaits \/ nextStops \/ CompleteWritten \/ failClosed \/ onError
  <2>1. UNCHANGED <<wire, urgentBudget, normal>> /\ writer' # "writing"
    BY <1>6 DEF nextWaits, nextStops, CompleteWritten, failClosed, onError, lanes, counters
  <2> QED BY <2>1 DEF Flying
<1>7. CASE nextCritical
  <2>1. critical \in Seq(Messages) /\ critical # <<>>
    BY <1>7 DEF TypeOK, nextCritical
  <2>2. Contains(critical, Head(critical))
    BY <2>1, TailFacts
  <2>3. InCritical(Head(critical))
    BY <2>2 DEF LanesInv
  <2>4. item' = Head(critical) /\ UNCHANGED <<wire, urgentBudget, normal>>
    BY <1>7 DEF nextCritical, Take
  <2>5. Flying' = 0
    BY <2>3, <2>4 DEF Flying, InCritical, InUrgent, isCriticalControlMessage, isUrgentControlMessage
  <2> QED BY <2>4, <2>5
<1>8. UNCHANGED <<writer, item>> => Flying' = Flying
  BY DEF Flying
<1> QED BY <1>1, <1>2, <1>3, <1>4, <1>5, <1>6, <1>7, <1>8 DEF Next, Writer

LEMMA StarveNext == IInv /\ HistoryInv /\ StarveInv /\ [Next]_vars => StarveInv'
<1> SUFFICES ASSUME IInv, HistoryInv, StarveInv, [Next]_vars PROVE StarveInv'
  OBVIOUS
<1>1. TypeOK /\ LanesInv /\ FlightInv /\ OwnerInv /\ TypeOK'
  BY NextInv DEF IInv
<1>2. ASSUME NEW m \in Messages, enqueueItem(m) PROVE StarveInv'
  BY <1>1, <1>2, EnqueueShare
<1>3. CASE WriteJSON
  BY <1>1, <1>3, WriteShare
<1>4. CASE nextUrgent
  BY <1>1, <1>4, UrgentShare
<1>5. CASE nextNormal
  BY <1>1, <1>5, NormalShare
<1>6. CASE UNCHANGED accepted /\ ~WriteJSON /\ ~nextUrgent /\ ~nextNormal
  <2>1. /\ UNCHANGED <<wire, urgentBudget>>
        /\ normal' = normal \/ normal' = <<>>
        /\ Flying' = Flying \/ Flying' = 0
    BY <1>1, <1>6, QuietSteps
  <2> QED BY <1>1, <1>6, <2>1, QuietShare
<1>7. UNCHANGED accepted \/ \E m \in Messages : enqueueItem(m)
  BY DEF Next, vars, RefuseClosed, RefuseFull, ReceiveDone, ContextDone, close,
         completeQueuedMessages, Writer, nextWaits, nextStops, nextCritical,
         nextUrgent, nextNormal, Take, WriteJSON, CompleteWritten, failClosed, fail,
         onError
<1> QED BY <1>2, <1>3, <1>4, <1>5, <1>6, <1>7

LEMMA StarveInit == Init => StarveInv
<1> SUFFICES ASSUME Init PROVE StarveInv
  OBVIOUS
<1>1. normal = <<>> /\ accepted = <<>> /\ writer = "next"
  BY DEF Init
<1>2. Flying = 0
  BY <1>1 DEF Flying
<1>3. Len(normal) = 0 /\ Len(accepted) = 0
  BY <1>1
<1>4. Cardinality(NormalsIn(accepted, Len(accepted))) \in Nat
  <2>1. <<>> \in Seq(Messages) /\ 0 \in Nat
    OBVIOUS
  <2> QED BY <1>3, <2>1, Counted
<1> QED BY <1>2, <1>3, <1>4 DEF StarveInv, ShareInv

(* A waiting normal message is within its share.                           *)
LEMMA WaitingNormal == IInv /\ StarveInv => NormalNotStarved
<1> SUFFICES ASSUME IInv, StarveInv, NEW i \in 1 .. Len(accepted),
                    InNormal(accepted[i].msg), InLanes(accepted[i].msg)
             PROVE  Cardinality(PassedBy(i, InUrgent)) <=
                       UrgentLimit * Cardinality({j \in 1 .. i : InNormal(accepted[j].msg)})
  BY DEF NormalNotStarved
<1>1. TypeOK /\ LanesInv /\ urgentBudget \in Nat
  BY DEF IInv, TypeOK
<1>2. Contains(normal, accepted[i].msg)
  BY <1>1 DEF LanesInv, InLanes, InCritical, InUrgent, InNormal
<1>3. PICK p \in 1 .. Len(normal) : normal[p] = accepted[i].msg
  BY <1>2 DEF Contains
<1> DEFINE k == Cardinality(NormalsIn(accepted, i))
           u == Cardinality(UrgentIn(wire, accepted[i].at))
<1>4. k \in Nat /\ u \in Nat /\ p \in 1 .. k /\ InShare(u, k, p, Flying, urgentBudget)
  BY <1>1, <1>3, ShareOf
<1>5. /\ PassedBy(i, InUrgent) = UrgentIn(wire, accepted[i].at)
      /\ {j \in 1 .. i : InNormal(accepted[j].msg)} = NormalsIn(accepted, i)
  BY DEF PassedBy, UrgentIn, NormalsIn
<1> HIDE DEF k, u
<1>6. InShare(u, k, p, 0, urgentBudget)
  BY <1>1, <1>4, FlyingFacts, ShareFacts
<1>7. u <= UrgentLimit * k
  BY <1>1, <1>4, <1>6, ShareFacts
<1> QED BY <1>5, <1>7 DEF k, u

(* While the k-th normal message waits, at most k rounds of UrgentLimit    *)
(* urgent messages are delivered before it, however many are accepted: the *)
(* budget that next() keeps bounds the wait.                               *)
THEOREM NormalServed == Spec => []NormalNotStarved
<1>1. Init => HistoryInv
  BY DEF Init, HistoryInv
<1> QED BY <1>1, HistoryNext, StarveInit, StarveNext, WaitingNormal, Invariance, PTL DEF Spec
==============================================================================
