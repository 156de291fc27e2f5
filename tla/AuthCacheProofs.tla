-------------------------- MODULE AuthCacheProofs --------------------------
(***************************************************************************)
(* Proofs about the shared loads of AuthCache and about revocation, for    *)
(* any number of connections, tokens and administrative changes.           *)
(***************************************************************************)
EXTENDS AuthCache, TLAPS

Steps == {"new", "lookup", "begin", "wait", "recheck", "load", "insert",
          "insertDisabled", "failed", "finish", "generation", "claim",
          "refused", "relaying", "ended"}
Loading == {"load", "insert", "insertDisabled", "failed", "finish"}
Device == <<"device", None>>

(* The types of what the loads depend on.                                  *)
LoadTypes ==
    /\ loading \in [Keys -> Loads \cup {None}]
    /\ closed \subseteq Loads
    /\ step \in [Conns -> Steps] /\ kind \in [Conns -> {"none", "tcp", "quic"}]
    /\ presents \in [Conns -> Tokens \cup {None}] /\ phase \in [Conns -> {1, 2}]
    /\ load \in [Conns -> Loads \cup {None}]

(* A connection has a key to look up from its handshake on.                *)
KeyInv ==
    \A d \in Conns :
        /\ step[d] = "new" => phase[d] = 1
        /\ step[d] = "generation" => phase[d] = 2
        /\ step[d] # "new" => kind[d] \in {"tcp", "quic"} /\ presents[d] \in Tokens

(* A registered load is registered under its own key.                      *)
NamedByKey == \A k \in Keys : loading[k] # None => loading[k][2] = k

(* Who loads holds a load, its own or one that is already finished.        *)
HoldInv ==
    \A d \in Conns :
        step[d] \in Loading \cup {"recheck"} =>
            load[d] # None /\ (load[d][1] = d \/ load[d] \in closed)

(* The connection that started a finished load is past looking up its key: *)
(* it never starts a load of the same name again.                          *)
Past(d) == /\ step[d] \notin {"new", "lookup", "begin"}
           /\ ~(step[d] = "generation" /\ kind[d] = "quic")

PastKey(d, key) ==
    IF key = Device
    THEN step[d] # "new" /\ (phase[d] = 2 \/ step[d] \notin {"lookup", "begin"})
    ELSE phase[d] = 2 /\ Past(d)

ClosedInv == \A l \in closed : PastKey(l[1], l[2])

(* Only connections that relay are in the registry of streams.             *)
StreamsRelay == active \subseteq Conns /\ \A d \in active : step[d] = "relaying"

IInv == /\ LoadTypes /\ KeyInv /\ NamedByKey /\ LoadsHaveOwners /\ HoldInv
        /\ ClosedInv /\ DoneClosedOnce

----------------------------------------------------------------------------
LEMMA KeyFacts ==
    ASSUME LoadTypes, KeyInv, NEW d \in Conns, step[d] # "new"
    PROVE  /\ Key(d) \in Keys
           /\ phase[d] = 1 => Key(d) = Device
           /\ phase[d] = 2 => Key(d) # Device
BY DEF LoadTypes, KeyInv, Key, Keys, Device

(* The owner of a registered load is a connection that is loading it.      *)
LEMMA Owners ==
    ASSUME LoadTypes, LoadsHaveOwners, NEW k \in Keys, loading[k] # None
    PROVE  /\ loading[k][1] \in Conns /\ load[loading[k][1]] = loading[k]
           /\ Key(loading[k][1]) = k /\ loading[k] \notin closed
           /\ step[loading[k][1]] \in Loading
BY DEF LoadTypes, LoadsHaveOwners, Loads, Loading

LEMMA InitInv == Init => IInv
<1> SUFFICES ASSUME Init PROVE IInv
  OBVIOUS
<1>1. LoadTypes
  BY DEF Init, LoadTypes, Steps
<1>2. KeyInv /\ HoldInv /\ ClosedInv /\ DoneClosedOnce
  BY DEF Init, KeyInv, HoldInv, ClosedInv, DoneClosedOnce, Loading
<1>3. NamedByKey /\ LoadsHaveOwners
  BY DEF Init, NamedByKey, LoadsHaveOwners
<1> QED BY <1>1, <1>2, <1>3 DEF IInv

(* What does not concern the look-ups preserves the invariant.             *)
LEMMA FrameInv ==
    ASSUME IInv, UNCHANGED <<loading, closed, panic, step, kind, presents, phase, load>>
    PROVE  IInv'
BY DEF IInv, LoadTypes, KeyInv, NamedByKey, LoadsHaveOwners, HoldInv, ClosedInv,
       DoneClosedOnce, PastKey, Past, Key

(* A connection that is not loading moves on without touching the loads.   *)
LEMMA MoveInv ==
    ASSUME IInv, NEW d \in Conns, NEW s \in Steps, step' = [step EXCEPT ![d] = s],
           step[d] \notin Loading \cup {"new"}, s \notin Loading \cup {"new"},
           UNCHANGED <<loading, closed, panic, kind, presents>>,
           phase' \in [Conns -> {1, 2}], load' \in [Conns -> Loads \cup {None}],
           \A e \in Conns \ {d} : phase'[e] = phase[e] /\ load'[e] = load[e],
           s = "recheck" => load'[d] \in closed,
           s = "generation" => phase'[d] = 2,
           phase[d] = 2 => phase'[d] = 2,
           phase'[d] = 1 /\ s \in {"lookup", "begin"} => step[d] \in {"lookup", "begin"},
           phase[d] = 2 /\ Past(d) => Past(d)'
    PROVE  IInv'
<1> USE DEF IInv
<1>1. LoadTypes'
  BY DEF LoadTypes
<1>2. KeyInv'
  BY DEF LoadTypes, KeyInv
<1>3. NamedByKey' /\ DoneClosedOnce'
  BY DEF NamedByKey, DoneClosedOnce
<1>4. LoadsHaveOwners'
  <2> SUFFICES ASSUME NEW k \in Keys, loading[k] # None
               PROVE  LET e == loading[k][1]
                      IN  /\ load'[e] = loading[k] /\ Key(e)' = k /\ loading[k] \notin closed
                          /\ step'[e] \in Loading
    BY DEF LoadsHaveOwners, Loading
  <2>1. loading[k][1] \in Conns \ {d}
    BY Owners
  <2> QED BY <2>1, Owners DEF LoadTypes, Key
<1>5. HoldInv'
  <2> SUFFICES ASSUME NEW e \in Conns, step'[e] \in Loading \cup {"recheck"}
               PROVE  load'[e] # None /\ (load'[e][1] = e \/ load'[e] \in closed)
    BY DEF HoldInv
  <2>1. CASE e = d
    BY <2>1, LoadAssumption DEF LoadTypes
  <2>2. CASE e # d
    BY <2>2 DEF HoldInv, LoadTypes
  <2> QED BY <2>1, <2>2
<1>6. ClosedInv'
  <2> SUFFICES ASSUME NEW l \in closed
               PROVE  PastKey(l[1], l[2])'
    BY DEF ClosedInv
  <2>1. l[1] \in Conns /\ PastKey(l[1], l[2])
    BY DEF LoadTypes, ClosedInv, Loads
  <2>2. CASE l[1] = d
    BY <2>1, <2>2 DEF PastKey, LoadTypes
  <2>3. CASE l[1] # d
    BY <2>1, <2>3 DEF PastKey, Past, LoadTypes
  <2> QED BY <2>2, <2>3
<1> QED BY <1>1, <1>2, <1>3, <1>4, <1>5, <1>6

(* A connection that holds a load goes on with it.                         *)
LEMMA LoadingInv ==
    ASSUME IInv, NEW d \in Conns, NEW s \in Loading, step' = [step EXCEPT ![d] = s],
           step[d] \in Loading \cup {"recheck"},
           UNCHANGED <<loading, closed, panic, kind, presents, phase, load>>
    PROVE  IInv'
<1> USE DEF IInv
<1>1. LoadTypes' /\ KeyInv'
  BY DEF LoadTypes, KeyInv, Steps, Loading
<1>2. NamedByKey' /\ DoneClosedOnce'
  BY DEF NamedByKey, DoneClosedOnce
<1>3. LoadsHaveOwners'
  <2> SUFFICES ASSUME NEW k \in Keys, loading[k] # None
               PROVE  LET e == loading[k][1]
                      IN  /\ load[e] = loading[k] /\ Key(e)' = k /\ loading[k] \notin closed
                          /\ step'[e] \in Loading
    BY DEF LoadsHaveOwners, Loading
  <2> QED BY Owners DEF LoadTypes, Key
<1>4. HoldInv'
  BY DEF HoldInv, LoadTypes
<1>5. ClosedInv'
  BY DEF ClosedInv, PastKey, Past, LoadTypes, Loads, Loading
<1> QED BY <1>1, <1>2, <1>3, <1>4, <1>5

----------------------------------------------------------------------------
(* One lemma per action that touches a look-up.                            *)

LEMMA HandshakeInv ==
    ASSUME IInv, NEW d \in Conns, NEW k \in {"tcp", "quic"}, NEW t \in Tokens,
           beginHandshake(d, k, t)
    PROVE  IInv'
<1> USE DEF IInv
<1>1. /\ step[d] = "new" /\ step' = [step EXCEPT ![d] = "lookup"]
      /\ kind' = [kind EXCEPT ![d] = k] /\ presents' = [presents EXCEPT ![d] = t]
      /\ UNCHANGED <<loading, closed, panic, phase, load>>
  BY DEF beginHandshake, Goto, loadVars
<1>2. LoadTypes' /\ KeyInv'
  BY <1>1 DEF LoadTypes, KeyInv, Steps
<1>3. NamedByKey' /\ DoneClosedOnce'
  BY <1>1 DEF NamedByKey, DoneClosedOnce
<1>4. LoadsHaveOwners'
  <2> SUFFICES ASSUME NEW j \in Keys, loading[j] # None
               PROVE  LET e == loading[j][1]
                      IN  /\ load[e] = loading[j] /\ Key(e)' = j /\ loading[j] \notin closed
                          /\ step'[e] \in Loading
    BY <1>1 DEF LoadsHaveOwners, Loading
  <2>1. loading[j][1] \in Conns \ {d}
    BY <1>1, Owners DEF Loading
  <2> QED BY <1>1, <2>1, Owners DEF LoadTypes, Key
<1>5. HoldInv'
  BY <1>1 DEF HoldInv, LoadTypes, Loading
<1>6. ClosedInv'
  <2> SUFFICES ASSUME NEW l \in closed
               PROVE  PastKey(l[1], l[2])'
    BY <1>1 DEF ClosedInv
  <2>1. l[1] \in Conns /\ PastKey(l[1], l[2])
    BY DEF LoadTypes, ClosedInv, Loads
  <2>2. l[1] # d
    BY <1>1, <2>1 DEF PastKey, Past
  <2> QED BY <1>1, <2>1, <2>2 DEF PastKey, Past, LoadTypes
<1> QED BY <1>2, <1>3, <1>4, <1>5, <1>6

LEMMA HitInv ==
    ASSUME IInv, NEW d \in Conns, CacheHit(d)
    PROVE  IInv'
<1>1. /\ step[d] \in {"lookup", "recheck"} /\ Answer(d, byDevice)
      /\ load' = [load EXCEPT ![d] = None]
      /\ UNCHANGED <<loading, closed, panic, kind, presents>>
  BY DEF CacheHit, loadVars
<1>2. LoadTypes /\ KeyInv /\ load' \in [Conns -> Loads \cup {None}]
  BY <1>1 DEF IInv, LoadTypes
<1>3. CASE phase[d] = 1
  <2>1. PICK s \in {"lookup", "generation"} : step' = [step EXCEPT ![d] = s]
    BY <1>1, <1>3 DEF Answer, Goto
  <2>2. phase' = [phase EXCEPT ![d] = 2]
    BY <1>1, <1>3 DEF Answer
  <2>3. /\ phase' \in [Conns -> {1, 2}] /\ phase'[d] = 2
        /\ \A e \in Conns \ {d} : phase'[e] = phase[e] /\ load'[e] = load[e]
    BY <1>1, <1>2, <2>2 DEF LoadTypes
  <2>4. /\ s \in Steps /\ s \notin Loading \cup {"new"} /\ s # "recheck"
        /\ step[d] \notin Loading \cup {"new"}
    BY <1>1, <2>1 DEF Steps, Loading
  <2>5. phase[d] = 2 /\ Past(d) => Past(d)'
    BY <1>3
  <2>6. phase'[d] = 1 /\ s \in {"lookup", "begin"} => step[d] \in {"lookup", "begin"}
    BY <2>3
  <2> QED BY <1>1, <1>2, <1>3, <2>1, <2>3, <2>4, <2>5, <2>6, MoveInv
<1>4. CASE phase[d] = 2
  <2>1. PICK s \in {"refused", "generation", "claim"} :
            /\ step' = [step EXCEPT ![d] = s]
            /\ s = "generation" => kind[d] = "tcp"
    BY <1>1, <1>4 DEF Answer, Goto
  <2>2. phase' = phase
    BY <1>1, <1>4 DEF Answer
  <2>3. Past(d)'
    BY <1>1, <1>2, <2>1 DEF Past, LoadTypes
  <2> QED BY <1>1, <1>2, <1>4, <2>1, <2>2, <2>3, MoveInv DEF LoadTypes, Steps, Loading
<1> QED BY <1>2, <1>3, <1>4 DEF LoadTypes

LEMMA MissInv ==
    ASSUME IInv, NEW d \in Conns, CacheMiss(d)
    PROVE  IInv'
<1>1. /\ step[d] \in {"lookup", "recheck"}
      /\ step' = [step EXCEPT ![d] = IF step[d] = "lookup" THEN "begin" ELSE "load"]
      /\ UNCHANGED <<loading, closed, panic, kind, presents, phase, load>>
  BY DEF CacheMiss, Goto, loadVars
<1>2. CASE step[d] = "lookup"
  BY <1>1, <1>2, MoveInv DEF IInv, LoadTypes, Steps, Loading, Past
<1>3. CASE step[d] = "recheck"
  BY <1>1, <1>3, LoadingInv DEF IInv, LoadTypes, Steps, Loading, Past
<1> QED BY <1>1, <1>2, <1>3

LEMMA BeginInv ==
    ASSUME IInv, NEW d \in Conns, beginLoad(d)
    PROVE  IInv'
<1> USE DEF IInv
<1>1. /\ step[d] = "begin"
      /\ UNCHANGED <<closed, panic, kind, presents, phase>>
  BY DEF beginLoad
<1>2. Key(d) \in Keys
  BY <1>1, KeyFacts
<1>3. CASE loading[Key(d)] # None
  <2>1. /\ load' = [load EXCEPT ![d] = loading[Key(d)]]
        /\ step' = [step EXCEPT ![d] = "wait"] /\ UNCHANGED loading
    BY <1>3 DEF beginLoad, Goto
  <2>2. load' \in [Conns -> Loads \cup {None}]
    BY <1>2, <2>1 DEF LoadTypes
  <2> QED BY <1>1, <2>1, <2>2, MoveInv DEF LoadTypes, Steps, Loading, Past
<1>4. CASE loading[Key(d)] = None
  <2> DEFINE new == <<d, Key(d)>>
  <2>1. /\ loading' = [loading EXCEPT ![Key(d)] = new]
        /\ load' = [load EXCEPT ![d] = new]
        /\ step' = [step EXCEPT ![d] = "load"]
    BY <1>4 DEF beginLoad, Goto
  <2>2. new \in Loads /\ new # None /\ new[1] = d /\ new[2] = Key(d)
    BY <1>2, LoadAssumption DEF Loads
  <2>3. new \notin closed
    BY <1>1, <2>2, KeyFacts DEF ClosedInv, PastKey, Past, LoadTypes
  <2> HIDE DEF new
  <2>4. LoadTypes'
    BY <1>1, <1>2, <2>1, <2>2 DEF LoadTypes, Steps
  <2>5. KeyInv'
    BY <1>1, <2>1 DEF LoadTypes, KeyInv
  <2>6. NamedByKey' /\ DoneClosedOnce'
    BY <1>1, <2>1, <2>2 DEF LoadTypes, NamedByKey, DoneClosedOnce
  <2>7. LoadsHaveOwners'
    <3> SUFFICES ASSUME NEW k \in Keys, loading'[k] # None, NEW e, e = loading'[k][1]
                 PROVE  /\ load'[e] = loading'[k] /\ Key(e)' = k /\ loading'[k] \notin closed
                        /\ step'[e] \in Loading
      BY <1>1 DEF LoadsHaveOwners, Loading, Key
    <3>1. CASE k = Key(d)
      <4>1. loading'[k] = new /\ e = d
        BY <1>2, <2>1, <2>2, <3>1 DEF LoadTypes
      <4>2. Key(d)' = Key(d)
        BY <1>1 DEF Key
      <4> QED BY <1>1, <2>1, <2>3, <3>1, <4>1, <4>2 DEF LoadTypes, Loading
    <3>2. CASE k # Key(d)
      <4>1. loading'[k] = loading[k]
        BY <2>1, <3>2 DEF LoadTypes
      <4>2. loading[k][1] \in Conns \ {d}
        BY <1>1, <4>1, Owners DEF Loading
      <4>3. Key(e)' = Key(e)
        BY <1>1 DEF Key
      <4> QED BY <1>1, <2>1, <4>1, <4>2, <4>3, Owners DEF LoadTypes
    <3> QED BY <3>1, <3>2
  <2>8. HoldInv'
    BY <1>1, <2>1, <2>2 DEF HoldInv, LoadTypes
  <2>9. ClosedInv'
    BY <1>1, <2>1 DEF ClosedInv, PastKey, Past, LoadTypes, Loads
  <2> QED BY <2>4, <2>5, <2>6, <2>7, <2>8, <2>9
<1> QED BY <1>3, <1>4

(* finishLoad closes the done channel only of the connection's own load:   *)
(* a waiter's is closed already, and what is registered is not.            *)
LEMMA FinishInv ==
    ASSUME IInv, NEW d \in Conns, finishLoad(d)
    PROVE  IInv'
<1> USE DEF IInv
<1>1. /\ step[d] \in {"finish", "failed"} /\ load' = [load EXCEPT ![d] = None]
      /\ UNCHANGED <<kind, presents>>
  BY DEF finishLoad, Finished
<1>2. Key(d) \in Keys /\ (phase[d] = 1 <=> Key(d) = Device)
  BY <1>1, KeyFacts DEF LoadTypes
<1>3. load[d] \in Loads /\ (load[d][1] = d \/ load[d] \in closed)
  BY <1>1 DEF HoldInv, LoadTypes, Loading
<1>4. PICK s \in {"lookup", "generation", "claim", "refused"} :
          /\ step' = [step EXCEPT ![d] = s]
          /\ phase' \in [Conns -> {1, 2}]
          /\ \A e \in Conns \ {d} : phase'[e] = phase[e]
          /\ phase[d] = 1 => phase'[d] = 2 \/ s = "refused"
          /\ phase[d] = 2 => /\ phase'[d] = 2 /\ s # "lookup"
                             /\ s = "generation" => kind[d] = "tcp"
          /\ s = "generation" => phase'[d] = 2
  <2>1. CASE step[d] = "failed"
    BY <2>1 DEF finishLoad, Finished, Goto, LoadTypes
  <2>2. CASE step[d] = "finish"
    <3>1. Answer(d, found[d])
      BY <2>2 DEF finishLoad, Finished
    <3>2. CASE phase[d] = 1
      BY <3>1, <3>2 DEF Answer, Goto, LoadTypes
    <3>3. CASE phase[d] = 2
      BY <3>1, <3>3 DEF Answer, Goto, LoadTypes
    <3> QED BY <3>2, <3>3 DEF LoadTypes
  <2> QED BY <1>1, <2>1, <2>2
<1>5. /\ loading[Key(d)] # load[d] => UNCHANGED <<loading, closed, panic>>
      /\ loading[Key(d)] = load[d] => /\ loading' = [loading EXCEPT ![Key(d)] = None]
                                      /\ CloseLoad(d)
                                      /\ panic' = (panic \/ load[d] \in closed)
  BY DEF finishLoad, loadVars
<1>6. loading[Key(d)] = load[d] => load[d] \notin closed /\ load[d] = <<d, Key(d)>>
  BY <1>2, <1>3, LoadAssumption, Owners DEF NamedByKey, Loads
<1>7. DoneClosedOnce'
  BY <1>5, <1>6 DEF DoneClosedOnce
<1>8. LoadTypes'
  <2>1. closed' \subseteq Loads
    BY <1>3, <1>5 DEF CloseLoad, LoadTypes
  <2>2. loading' \in [Keys -> Loads \cup {None}]
    BY <1>5 DEF LoadTypes
  <2> QED BY <1>1, <1>4, <2>1, <2>2 DEF LoadTypes, Steps
<1>9. KeyInv'
  BY <1>1, <1>4 DEF LoadTypes, KeyInv
<1>10. NamedByKey'
  BY <1>2, <1>5 DEF LoadTypes, NamedByKey
<1>11. LoadsHaveOwners'
  <2> SUFFICES ASSUME NEW k \in Keys, loading'[k] # None, NEW e, e = loading'[k][1]
               PROVE  /\ load'[e] = loading'[k] /\ Key(e)' = k /\ loading'[k] \notin closed'
                      /\ step'[e] \in Loading
    BY DEF LoadsHaveOwners, Loading, Key
  <2>1. loading'[k] = loading[k]
    BY <1>2, <1>5 DEF LoadTypes
  <2>2. loading[k][1] # d
    BY <1>2, <1>5, <2>1, Owners DEF LoadTypes
  <2>3. loading[k] \notin closed'
    BY <1>5, <1>6, <2>1, <2>2, Owners DEF CloseLoad
  <2>4. e \in Conns \ {d}
    BY <2>1, <2>2, Owners
  <2>5. Key(e)' = Key(e)
    BY <1>1, <1>4, <2>4 DEF Key
  <2> QED BY <1>1, <1>4, <2>1, <2>3, <2>4, <2>5, Owners DEF LoadTypes
<1>12. HoldInv'
  <2> SUFFICES ASSUME NEW e \in Conns, step'[e] \in Loading \cup {"recheck"}
               PROVE  load'[e] # None /\ (load'[e][1] = e \/ load'[e] \in closed')
    BY DEF HoldInv
  <2>1. e # d
    BY <1>4 DEF LoadTypes, Loading
  <2>2. load'[e] = load[e] /\ load[e] # None /\ (load[e][1] = e \/ load[e] \in closed)
    BY <1>1, <1>4, <2>1 DEF HoldInv, LoadTypes
  <2>3. load[e] \in closed => load[e] \in closed'
    BY <1>5, <2>1 DEF CloseLoad
  <2> QED BY <2>2, <2>3
<1>13. ClosedInv'
  <2> SUFFICES ASSUME NEW l \in closed'
               PROVE  PastKey(l[1], l[2])'
    BY DEF ClosedInv
  <2>1. l \in closed \/ l = <<d, Key(d)>>
    BY <1>5, <1>6 DEF CloseLoad
  <2>2. l[1] \in Conns
    BY <1>8 DEF LoadTypes, Loads
  <2>3. CASE l[1] # d
    BY <1>1, <1>4, <2>1, <2>2, <2>3 DEF ClosedInv, PastKey, Past, LoadTypes
  <2>4. CASE l[1] = d
    <3>1. l[2] # Device => phase[d] = 2
      BY <1>2, <2>1, <2>4 DEF ClosedInv, PastKey, LoadTypes
    <3> QED BY <1>1, <1>4, <2>4, <3>1 DEF PastKey, Past, LoadTypes
  <2> QED BY <2>3, <2>4
<1> QED BY <1>7, <1>8, <1>9, <1>10, <1>11, <1>12, <1>13

LEMMA LoadDoneInv ==
    ASSUME IInv, NEW d \in Conns, LoadDone(d)
    PROVE  IInv'
<1>1. /\ step[d] = "wait" /\ load[d] \in closed /\ step' = [step EXCEPT ![d] = "recheck"]
      /\ UNCHANGED <<loading, closed, panic, kind, presents, phase, load>>
  BY DEF LoadDone, Goto, loadVars
<1> QED BY <1>1, MoveInv DEF IInv, LoadTypes, Steps, Loading, Past

LEMMA StoreInv ==
    ASSUME IInv, NEW d \in Conns, ReadStore(d) \/ InsertEntry(d)
    PROVE  IInv'
<1>1. /\ step[d] \in Loading
      /\ UNCHANGED <<loading, closed, panic, kind, presents, phase, load>>
      /\ \E s \in Loading : step' = [step EXCEPT ![d] = s]
  BY DEF ReadStore, InsertEntry, Goto, loadVars, Loading
<1> QED BY <1>1, LoadingInv

(* What a connection does after its look-ups.                              *)
LEMMA AfterInv ==
    ASSUME IInv, NEW d \in Conns, generationFor(d) \/ register(d) \/ StreamEnds(d)
    PROVE  IInv'
<1>1. UNCHANGED <<loading, closed, panic, kind, presents, phase, load>>
  BY DEF generationFor, register, StreamEnds, loadVars
<1>2. CASE generationFor(d)
  <2>1. /\ step[d] = "generation" /\ phase[d] = 2
        /\ step' = [step EXCEPT ![d] = IF kind[d] = "tcp" THEN "claim" ELSE "lookup"]
    BY <1>2 DEF generationFor, Goto, IInv, KeyInv
  <2>2. kind[d] \in {"tcp", "quic"}
    BY <2>1 DEF IInv, KeyInv
  <2>3. PICK s \in {"claim", "lookup"} :
            step' = [step EXCEPT ![d] = s] /\ (s = "claim" <=> kind[d] = "tcp")
    BY <2>1
  <2>4. s \in Steps /\ s \notin Loading \cup {"new"} /\ step[d] \notin Loading \cup {"new"}
    BY <2>1, <2>3 DEF Steps, Loading
  <2>5. phase[d] = 2 /\ Past(d) => Past(d)'
    BY <1>1, <2>1, <2>2, <2>3 DEF IInv, LoadTypes, Past
  <2>6. /\ phase' \in [Conns -> {1, 2}] /\ load' \in [Conns -> Loads \cup {None}]
        /\ phase'[d] = 2 /\ \A e \in Conns \ {d} : phase'[e] = phase[e] /\ load'[e] = load[e]
    BY <1>1, <2>1 DEF IInv, LoadTypes
  <2>7. /\ s = "recheck" => load'[d] \in closed
        /\ s = "generation" => phase'[d] = 2
        /\ phase[d] = 2 => phase'[d] = 2
        /\ phase'[d] = 1 /\ s \in {"lookup", "begin"} => step[d] \in {"lookup", "begin"}
        /\ UNCHANGED <<loading, closed, panic, kind, presents>>
    BY <1>1, <2>3, <2>6
  <2> QED BY <2>3, <2>4, <2>5, <2>6, <2>7, MoveInv
<1>3. CASE register(d) \/ StreamEnds(d)
  <2>1. /\ step[d] \in {"claim", "relaying"}
        /\ \E s \in {"relaying", "refused", "ended"} : step' = [step EXCEPT ![d] = s]
    BY <1>3 DEF register, StreamEnds, Goto
  <2> QED BY <1>1, <2>1, MoveInv DEF IInv, LoadTypes, Steps, Loading, Past
<1> QED BY <1>2, <1>3

(* A disconnect ends streams, which hold no load.                          *)
LEMMA DisconnectInv ==
    ASSUME IInv, StreamsRelay, Disconnect
    PROVE  IInv'
<1> USE DEF IInv
<1>1. UNCHANGED <<loading, closed, panic, kind, presents, phase, load>>
  BY DEF Disconnect, loadVars
<1>2. CASE UNCHANGED step
  BY <1>1, <1>2, FrameInv
<1>3. CASE step' = [d \in Conns |-> IF d \in active THEN "ended" ELSE step[d]]
  <2> USE DEF StreamsRelay
  <2>1. LoadTypes'
    BY <1>1, <1>3 DEF LoadTypes, Steps
  <2>2. KeyInv' /\ HoldInv'
    BY <1>1, <1>3 DEF KeyInv, HoldInv, Loading
  <2>3. NamedByKey' /\ DoneClosedOnce'
    BY <1>1 DEF NamedByKey, DoneClosedOnce
  <2>4. LoadsHaveOwners'
    <3> SUFFICES ASSUME NEW k \in Keys, loading[k] # None, NEW e, e = loading[k][1]
                 PROVE  /\ load[e] = loading[k] /\ Key(e)' = k /\ loading[k] \notin closed
                        /\ step'[e] \in Loading
      BY <1>1 DEF LoadsHaveOwners, Loading, Key
    <3>1. Key(e)' = Key(e)
      BY <1>1 DEF Key
    <3> QED BY <1>3, <3>1, Owners DEF Loading
  <2>5. ClosedInv'
    BY <1>1, <1>3 DEF ClosedInv, PastKey, Past, LoadTypes, Loads
  <2> QED BY <2>1, <2>2, <2>3, <2>4, <2>5
<1> QED BY <1>2, <1>3 DEF Disconnect, disconnect

LEMMA StreamsInv ==
    ASSUME IInv, StreamsRelay, [Next]_vars
    PROVE  StreamsRelay'
<1> USE DEF StreamsRelay
<1>1. step \in [Conns -> Steps]
  BY DEF IInv, LoadTypes
<1>2. ASSUME NEW d \in Conns, NEW s, step' = [step EXCEPT ![d] = s], step[d] # "relaying",
             active' = active
      PROVE  StreamsRelay'
  BY <1>1, <1>2
<1>3. ASSUME NEW d \in Conns, NEW k \in {"tcp", "quic"}, NEW t \in Tokens,
             beginHandshake(d, k, t)
      PROVE  StreamsRelay'
  BY <1>2, <1>3 DEF beginHandshake, Goto, streamVars
<1>4. ASSUME NEW d \in Conns, CacheHit(d) \/ finishLoad(d)
      PROVE  StreamsRelay'
  <2>1. step[d] # "relaying" /\ active' = active
    BY <1>4 DEF CacheHit, finishLoad, streamVars
  <2>2. \E s : step' = [step EXCEPT ![d] = s]
    BY <1>4, Zenon DEF CacheHit, finishLoad, Finished, Answer, Goto
  <2> QED BY <1>2, <2>1, <2>2
<1>5. ASSUME NEW d \in Conns,
             CacheMiss(d) \/ LoadDone(d) \/ ReadStore(d) \/ InsertEntry(d) \/ generationFor(d)
      PROVE  StreamsRelay'
  <2>1. step[d] # "relaying" /\ active' = active
    BY <1>5 DEF CacheMiss, LoadDone, ReadStore, InsertEntry, generationFor, streamVars
  <2>2. \E s : step' = [step EXCEPT ![d] = s]
    BY <1>5 DEF CacheMiss, LoadDone, ReadStore, InsertEntry, generationFor, Goto
  <2> QED BY <1>2, <2>1, <2>2
<1>6. ASSUME NEW d \in Conns, beginLoad(d)
      PROVE  StreamsRelay'
  <2>1. step[d] # "relaying" /\ active' = active
    BY <1>6 DEF beginLoad, streamVars
  <2>2. \E s : step' = [step EXCEPT ![d] = s]
    BY <1>6 DEF beginLoad, Goto
  <2> QED BY <1>2, <2>1, <2>2
<1>7. ASSUME NEW d \in Conns, register(d) \/ StreamEnds(d)
      PROVE  StreamsRelay'
  BY <1>1, <1>7 DEF register, StreamEnds, Goto
<1>8. ASSUME NEW op \in Operations, NEW t \in Tokens, startOperation(op, t)
      PROVE  StreamsRelay'
  BY <1>8 DEF startOperation, connVars, streamVars
<1>9. CASE Administrate
  BY <1>9 DEF Administrate, WriteStore, FindUsers, HandlerFails, Disconnect, disconnect,
              invalidateAll, invalidateToken, connVars, streamVars
<1>10. CASE UNCHANGED vars
  BY <1>10 DEF vars
<1> QED BY <1>3, <1>4, <1>5, <1>6, <1>7, <1>8, <1>9, <1>10 DEF Next, Authenticate

LEMMA NextInv ==
    ASSUME IInv, StreamsRelay, [Next]_vars
    PROVE  IInv'
<1>1. ASSUME NEW op \in Operations, NEW t \in Tokens, startOperation(op, t)
      PROVE  IInv'
  BY <1>1, FrameInv DEF startOperation, connVars, loadVars
<1>2. CASE WriteStore \/ FindUsers \/ HandlerFails \/ invalidateAll \/ invalidateToken
  BY <1>2, FrameInv DEF WriteStore, FindUsers, HandlerFails, invalidateAll, invalidateToken,
                        connVars, loadVars
<1>3. CASE UNCHANGED vars
  BY <1>3, FrameInv DEF vars
<1>4. ASSUME NEW d \in Conns, Authenticate(d) \/ StreamEnds(d)
      PROVE  IInv'
  BY <1>4, HitInv, MissInv, BeginInv, LoadDoneInv, StoreInv, FinishInv, AfterInv
     DEF Authenticate
<1>5. CASE Disconnect
  BY <1>5, DisconnectInv
<1> QED BY <1>1, <1>2, <1>3, <1>4, <1>5, HandshakeInv DEF Next, Administrate

----------------------------------------------------------------------------
(* The strengthened invariant holds in every reachable state.              *)
THEOREM Invariance == Spec => [](IInv /\ StreamsRelay)
<1>1. Init => IInv /\ StreamsRelay
  BY InitInv DEF Init, StreamsRelay
<1>2. IInv /\ StreamsRelay /\ [Next]_vars => (IInv /\ StreamsRelay)'
  BY NextInv, StreamsInv
<1> QED BY <1>1, <1>2, PTL DEF Spec

(* The done channel of a load is closed once, whoever finishes and in      *)
(* whatever order: finishLoad never panics.                                *)
THEOREM ClosedOnce == Spec => []DoneClosedOnce
<1>1. IInv => DoneClosedOnce
  BY DEF IInv
<1> QED BY <1>1, Invariance, PTL

(* A look-up that waits, waits for a load that some connection performs    *)
(* and will finish.                                                        *)
THEOREM LoadsAreOwned == Spec => []LoadsHaveOwners
<1>1. IInv => LoadsHaveOwners
  BY DEF IInv
<1> QED BY <1>1, Invariance, PTL
----------------------------------------------------------------------------
(* Revocation.  The types of the store, the cache and the look-ups.        *)
Words == {"none", "enabled", "disabled"}
StoreTypes ==
    /\ row \in Rows \cup {None} /\ tok \in [Tokens -> {"fresh", "enabled", "disabled", "absent"}]
    /\ byDevice \in Rows \cup {None} /\ byToken \subseteq Tokens
    /\ byTokenID \in [Tokens -> Words] /\ found \in [Conns -> Rows \cup {None}]
    /\ about \in Tokens \cup {None} /\ cutShort \subseteq Tokens /\ overlapped \in BOOLEAN

(* What may be left of a handler: a change of a client, a change of a      *)
(* token, or the reset that binds the client to a new token.               *)
ClientLeft == {<<"setDisabled", "disconnect", "invalidateAll">>,
               <<"setEnabled", "invalidateAll">>}
DeleteLeft == {<<"invalidateAll", "invalidateAll", "deleteClient">>,
               <<"invalidateAll", "deleteClient">>}
LastDelete == <<"deleteClient">>
StartDelete == <<"disconnect", "invalidateAll", "invalidateAll", "deleteClient">>
StartReset == <<"enableToken", "bindToken", "disconnect", "invalidateAll">>
BindLeft == <<"bindToken", "disconnect", "invalidateAll">>
DropLeft == <<"disconnect", "invalidateAll">>
TokenStart == {<<"disableToken", "findUsers", "disconnectUsers", "invalidateToken">>,
               <<"enableToken", "invalidateToken">>,
               <<"disableToken", "disconnectUsers", "deleteToken", "invalidateToken">>}
UsersLeft == {<<"findUsers", "disconnectUsers", "invalidateToken">>,
              <<"disconnectUsers", "invalidateToken">>,
              <<"disconnectUsers", "deleteToken", "invalidateToken">>}
DeleteTokenLeft == <<"deleteToken", "invalidateToken">>
LastAll == <<"invalidateAll">>
LastToken == <<"invalidateToken">>

Left == ClientLeft \cup DeleteLeft \cup TokenStart \cup UsersLeft
        \cup {<<>>, StartDelete, StartReset, BindLeft, DropLeft, DeleteTokenLeft, LastAll,
              LastToken, LastDelete}

(* The handler that is under way knows the token it is about and the       *)
(* client it changes.                                                      *)
HandlerInv ==
    /\ todo \in Left
    /\ todo \in TokenStart \cup UsersLeft \cup {DeleteTokenLeft, LastToken, StartReset, BindLeft}
          => about \in Tokens
    /\ todo \in TokenStart => tok[about] \in {"enabled", "disabled"}
    /\ todo \in UsersLeft \cup {DeleteTokenLeft} => tok[about] = "disabled"
    /\ todo = StartReset => tok[about] = "fresh"
    /\ todo \in ClientLeft \cup {StartReset, BindLeft} => row # None

(* A token that was presented was created.                                 *)
PresentedExists == \A d \in Conns : step[d] # "new" => tok[presents[d]] # "fresh"

(* A connection has found nothing before its handshake.                    *)
FoundInv == \A d \in Conns : step[d] = "new" => found[d] = None

(* What was read of the client is its row, or its row was deleted with its *)
(* token.                                                                  *)
Accurate(client) == client = row \/ (row = None /\ tok[client.token] = "absent")

(* What a cached token may be: trusted, and in the store.                  *)
Live(t) == Trusted(t) /\ tok[t] # "absent"

Exclusive == todo = <<>> \/ \A d \in Conns : ~Busy(d)

(* What a connection knows when no change overlaps its authentication.     *)
Knows(d) ==
    Busy(d) =>
        /\ found[d] # None => Accurate(found[d])
        /\ step[d] \in {"insert", "finish"} /\ phase[d] = 2 => Live(presents[d])
        /\ step[d] = "insertDisabled" => phase[d] = 2 /\ kind[d] = "quic"
        /\ step[d] = "claim" \/ (step[d] = "generation" /\ kind[d] = "tcp")
              => Admissible(presents[d])

KnowsInv == \A d \in Conns : Knows(d)

(* The cached client is true until a handler changes the row, and is       *)
(* forgotten by the end of that handler.                                   *)
DeviceCacheInv ==
    /\ todo \notin {LastAll, DropLeft} \cup DeleteLeft /\ byDevice # None
          => Accurate(byDevice)
    /\ todo = LastDelete => byDevice = None

(* So is every token but the one a handler is changing.                    *)
TokenCacheInv ==
    \A t \in Tokens :
        /\ t \in byToken \/ byTokenID[t] = "enabled"
        /\ t = about => todo \notin UsersLeft \cup {DeleteTokenLeft, LastToken}
        => Live(t)

(* Streams end before the handler does.                                    *)
StreamInv ==
    /\ todo \in DeleteLeft \cup {LastDelete} => active = {}
    /\ todo \notin UsersLeft \cup {DropLeft} => \A d \in active : Admissible(presents[d])
    /\ todo \in UsersLeft =>
          \A d \in active : /\ row # None /\ ~row.disabled /\ row.token = presents[d]
                            /\ presents[d] # about => Trusted(presents[d])
    /\ todo \in {DeleteTokenLeft, LastToken} =>
          \A d \in active : presents[d] # about \/ tok[about] = "enabled"

Quiet == Exclusive /\ KnowsInv /\ DeviceCacheInv /\ TokenCacheInv /\ StreamInv

RInv == /\ StoreTypes /\ HandlerInv /\ PresentedExists /\ FoundInv
        /\ (~overlapped => Quiet)

LEMMA Tails ==
    /\ \A a : Head(<<a>>) = a /\ Tail(<<a>>) = <<>>
    /\ \A a, b : Head(<<a, b>>) = a /\ Tail(<<a, b>>) = <<b>>
    /\ \A a, b, c : Head(<<a, b, c>>) = a /\ Tail(<<a, b, c>>) = <<b, c>>
    /\ \A a, b, c, e : Head(<<a, b, c, e>>) = a /\ Tail(<<a, b, c, e>>) = <<b, c, e>>
OBVIOUS

(* The steps of the handlers, one after the other.                         *)
LEMMA HandlerSteps ==
    ASSUME todo \in Left, NEW s, NextStep(s)
    PROVE  /\ s = "setDisabled" => todo \in ClientLeft /\ todo' = DropLeft
           /\ s = "setEnabled" => todo \in ClientLeft /\ todo' = LastAll
           /\ s = "bindToken" => todo = BindLeft /\ todo' = DropLeft
           /\ s = "disableToken" => todo \in TokenStart /\ todo' \in UsersLeft
           /\ s = "findUsers" => todo \in UsersLeft /\ todo' \in UsersLeft
           /\ s = "enableToken" => \/ todo \in TokenStart /\ todo' = LastToken
                                   \/ todo = StartReset /\ todo' = BindLeft
           /\ s = "deleteClient" => todo = LastDelete /\ todo' = <<>>
           /\ s = "deleteToken" => todo = DeleteTokenLeft /\ todo' = LastToken
           /\ s = "disconnect" => \/ todo = DropLeft /\ todo' = LastAll
                                  \/ todo = StartDelete /\ todo' \in DeleteLeft
           /\ s = "disconnectUsers" => todo \in UsersLeft /\ todo' \in {DeleteTokenLeft, LastToken}
           /\ s = "invalidateAll" => \/ todo = LastAll /\ todo' = <<>>
                                     \/ /\ todo \in DeleteLeft
                                        /\ todo' \in DeleteLeft \cup {LastDelete}
           /\ s = "invalidateToken" => todo = LastToken /\ todo' = <<>>
<1>1. todo # <<>> /\ Head(todo) = s /\ todo' = Tail(todo)
  BY DEF NextStep
<1>2. ASSUME todo = <<"setDisabled", "disconnect", "invalidateAll">>
      PROVE  s = "setDisabled" /\ todo' = DropLeft
  BY <1>1, <1>2, Tails DEF DropLeft
<1>3. ASSUME todo = <<"setEnabled", "invalidateAll">>
      PROVE  s = "setEnabled" /\ todo' = LastAll
  BY <1>1, <1>3, Tails DEF LastAll
<1>4. ASSUME todo = <<"invalidateAll", "invalidateAll", "deleteClient">>
      PROVE  s = "invalidateAll" /\ todo' \in DeleteLeft
  BY <1>1, <1>4, Tails DEF DeleteLeft
<1>5. ASSUME todo = <<"invalidateAll", "deleteClient">>
      PROVE  s = "invalidateAll" /\ todo' = LastDelete
  BY <1>1, <1>5, Tails DEF LastDelete
<1>6. ASSUME todo = <<"disableToken", "findUsers", "disconnectUsers", "invalidateToken">>
      PROVE  s = "disableToken" /\ todo' \in UsersLeft
  BY <1>1, <1>6, Tails DEF UsersLeft
<1>7. ASSUME todo = <<"enableToken", "invalidateToken">>
      PROVE  s = "enableToken" /\ todo' = LastToken
  BY <1>1, <1>7, Tails DEF LastToken
<1>8. ASSUME todo = <<"disableToken", "disconnectUsers", "deleteToken", "invalidateToken">>
      PROVE  s = "disableToken" /\ todo' \in UsersLeft
  BY <1>1, <1>8, Tails DEF UsersLeft
<1>9. ASSUME todo = <<"disconnectUsers", "invalidateToken">>
      PROVE  s = "disconnectUsers" /\ todo' = LastToken
  BY <1>1, <1>9, Tails DEF LastToken
<1>10. ASSUME todo = <<"disconnectUsers", "deleteToken", "invalidateToken">>
      PROVE  s = "disconnectUsers" /\ todo' = DeleteTokenLeft
  BY <1>1, <1>10, Tails DEF DeleteTokenLeft
<1>11. ASSUME todo = StartDelete
      PROVE  s = "disconnect" /\ todo' \in DeleteLeft
  BY <1>1, <1>11, Tails DEF DeleteLeft, StartDelete
<1>12. ASSUME todo = StartReset
      PROVE  s = "enableToken" /\ todo' = BindLeft
  BY <1>1, <1>12, Tails DEF BindLeft, StartReset
<1>13. ASSUME todo = BindLeft
      PROVE  s = "bindToken" /\ todo' = DropLeft
  BY <1>1, <1>13, Tails DEF BindLeft, DropLeft
<1>14. ASSUME todo = DropLeft
      PROVE  s = "disconnect" /\ todo' = LastAll
  BY <1>1, <1>14, Tails DEF DropLeft, LastAll
<1>15. ASSUME todo = DeleteTokenLeft
      PROVE  s = "deleteToken" /\ todo' = LastToken
  BY <1>1, <1>15, Tails DEF DeleteTokenLeft, LastToken
<1>16. ASSUME todo = LastAll
      PROVE  s = "invalidateAll" /\ todo' = <<>>
  BY <1>1, <1>16, Tails DEF LastAll
<1>17. ASSUME todo = LastToken
      PROVE  s = "invalidateToken" /\ todo' = <<>>
  BY <1>1, <1>17, Tails DEF LastToken
<1>18. ASSUME todo = LastDelete
      PROVE  s = "deleteClient" /\ todo' = <<>>
  BY <1>1, <1>18, Tails DEF LastDelete
<1>23. ASSUME todo = <<"findUsers", "disconnectUsers", "invalidateToken">>
      PROVE  s = "findUsers" /\ todo' \in UsersLeft
  BY <1>1, <1>23, Tails DEF UsersLeft
<1>19. CASE todo \in ClientLeft
  BY <1>2, <1>3, <1>19 DEF ClientLeft
<1>20. CASE todo \in DeleteLeft
  BY <1>4, <1>5, <1>20 DEF DeleteLeft
<1>21. CASE todo \in TokenStart
  BY <1>6, <1>7, <1>8, <1>21 DEF TokenStart
<1>22. CASE todo \in UsersLeft
  BY <1>9, <1>10, <1>23, <1>22 DEF UsersLeft
<1> QED BY <1>1, <1>11, <1>12, <1>13, <1>14, <1>15, <1>16, <1>17, <1>18,
        <1>19, <1>20, <1>21, <1>22 DEF Left

(* Where a handler can fail.                                               *)
LEMMA FailSteps ==
    ASSUME todo \in Left, HandlerFails
    PROVE  /\ todo' = <<>> /\ todo # <<>>
           /\ \/ todo \in UsersLeft \cup {DeleteTokenLeft} /\ cutShort' = cutShort \cup {about}
              \/ todo \in {BindLeft, LastDelete} /\ cutShort' = cutShort
<1>1. /\ todo # <<>> /\ todo' = <<>>
      /\ Head(todo) \in {"findUsers", "bindToken", "deleteToken", "deleteClient"}
      /\ cutShort' = IF Head(todo) \in {"findUsers", "deleteToken"}
                     THEN cutShort \cup {about} ELSE cutShort
  BY DEF HandlerFails
<1>2. ASSUME todo \in ClientLeft \cup DeleteLeft \cup TokenStart PROVE FALSE
  BY <1>1, <1>2, Tails DEF ClientLeft, DeleteLeft, TokenStart
<1>3. ASSUME todo \in {StartDelete, StartReset, DropLeft, LastAll, LastToken} PROVE FALSE
  BY <1>1, <1>3, Tails DEF StartDelete, StartReset, DropLeft, LastAll, LastToken
<1>4. CASE todo \in UsersLeft
  <2>1. Head(todo) = "findUsers"
    BY <1>1, <1>4, Tails DEF UsersLeft
  <2> QED BY <1>1, <1>4, <2>1
<1>5. CASE todo = DeleteTokenLeft
  <2>1. Head(todo) = "deleteToken"
    BY <1>5, Tails DEF DeleteTokenLeft
  <2> QED BY <1>1, <1>5, <2>1
<1>6. CASE todo \in {BindLeft, LastDelete}
  <2>1. Head(todo) \in {"bindToken", "deleteClient"}
    BY <1>6, Tails DEF BindLeft, LastDelete
  <2> QED BY <1>1, <1>6, <2>1
<1> QED BY <1>1, <1>2, <1>3, <1>4, <1>5, <1>6 DEF Left

(* No two of them are the same.                                            *)
LEMMA StagesDiffer ==
    /\ ClientLeft \cap (DeleteLeft \cup TokenStart \cup UsersLeft) = {}
    /\ DeleteLeft \cap (TokenStart \cup UsersLeft) = {}
    /\ TokenStart \cap UsersLeft = {}
    /\ \A x \in {<<>>, StartDelete, StartReset, BindLeft, DropLeft, DeleteTokenLeft, LastAll,
                 LastToken, LastDelete} :
          x \notin ClientLeft \cup DeleteLeft \cup TokenStart \cup UsersLeft
    /\ <<>> \notin {StartDelete, StartReset, BindLeft, DropLeft, DeleteTokenLeft, LastAll,
                    LastToken, LastDelete}
    /\ StartDelete \notin {StartReset, BindLeft, DropLeft, DeleteTokenLeft, LastAll,
                           LastToken, LastDelete}
    /\ StartReset \notin {BindLeft, DropLeft, DeleteTokenLeft, LastAll, LastToken, LastDelete}
    /\ BindLeft \notin {DropLeft, DeleteTokenLeft, LastAll, LastToken, LastDelete}
    /\ DropLeft \notin {DeleteTokenLeft, LastAll, LastToken, LastDelete}
    /\ DeleteTokenLeft \notin {LastAll, LastToken, LastDelete}
    /\ LastAll \notin {LastToken, LastDelete} /\ LastToken # LastDelete
BY DEF ClientLeft, DropLeft, LastAll, BindLeft, TokenStart, UsersLeft, LastToken, StartReset,
       LastDelete, DeleteTokenLeft, StartDelete, DeleteLeft

LEMMA RInit == Init => RInv
<1> SUFFICES ASSUME Init PROVE RInv
  OBVIOUS
<1>1. StoreTypes
  BY AuthAssumption DEF Init, StoreTypes, Rows, Words
<1>2. HandlerInv
  BY StagesDiffer DEF Init, HandlerInv, Left
<1>3. PresentedExists /\ FoundInv
  BY DEF Init, PresentedExists, FoundInv
<1>4. Quiet
  <2>1. Exclusive /\ StreamInv
    BY DEF Init, Exclusive, StreamInv
  <2>2. KnowsInv
    BY DEF Init, KnowsInv, Knows, Busy
  <2>3. DeviceCacheInv
    BY StagesDiffer DEF Init, DeviceCacheInv
  <2>4. TokenCacheInv
    BY DEF Init, TokenCacheInv
  <2> QED BY <2>1, <2>2, <2>3, <2>4 DEF Quiet
<1> QED BY <1>1, <1>2, <1>3, <1>4 DEF RInv

(* A connection changes nothing but what is cached and its own look-ups.   *)
LEMMA ConnFrame ==
    ASSUME NEW d \in Conns, Authenticate(d) \/ StreamEnds(d)
    PROVE  UNCHANGED <<row, tok, cutShort, todo, about, overlapped, presents, kind>>
BY DEF Authenticate, StreamEnds, CacheHit, CacheMiss, beginLoad, LoadDone, ReadStore,
       InsertEntry, finishLoad, generationFor, register, storeVars, adminVars, cacheVars

(* It answers with what it read or found cached, or forgets it.            *)
LEMMA AnswerFound ==
    ASSUME StoreTypes, NEW d \in Conns, NEW client \in Rows \cup {None}, Answer(d, client)
    PROVE  /\ found' \in [Conns -> Rows \cup {None}]
           /\ \A e \in Conns \ {d} : found'[e] = found[e]
           /\ found'[d] \in {client, None}
<1>1. found' = [found EXCEPT ![d] = client] \/ found' = [found EXCEPT ![d] = None]
  BY DEF Answer
<1> QED BY <1>1 DEF StoreTypes

LEMMA HitTypes ==
    ASSUME StoreTypes, NEW d \in Conns, CacheHit(d)
    PROVE  StoreTypes'
<1>1. Answer(d, byDevice) /\ UNCHANGED <<row, tok, byDevice, byToken, byTokenID, about,
                                         cutShort, overlapped>>
  BY DEF CacheHit, storeVars, cacheVars, adminVars
<1>2. found' \in [Conns -> Rows \cup {None}]
  BY <1>1, AnswerFound DEF StoreTypes
<1> QED BY <1>1, <1>2 DEF StoreTypes

LEMMA FinishTypes ==
    ASSUME StoreTypes, NEW d \in Conns, finishLoad(d)
    PROVE  StoreTypes'
<1>1. Finished(d) /\ UNCHANGED <<row, tok, byDevice, byToken, byTokenID, about, cutShort,
                                 overlapped>>
  BY DEF finishLoad, storeVars, cacheVars, adminVars
<1>2. found' \in [Conns -> Rows \cup {None}]
  <2>1. CASE step[d] = "finish"
    BY <1>1, <2>1, AnswerFound DEF StoreTypes, Finished
  <2>2. CASE step[d] # "finish"
    BY <1>1, <2>2 DEF StoreTypes, Finished
  <2> QED BY <2>1, <2>2
<1> QED BY <1>1, <1>2 DEF StoreTypes

LEMMA MissTypes ==
    ASSUME LoadTypes, KeyInv, StoreTypes, NEW d \in Conns, CacheMiss(d)
    PROVE  /\ StoreTypes' /\ byDevice' \in {byDevice, None} /\ byToken' \subseteq byToken
           /\ \A t \in Tokens : byTokenID'[t] \in {byTokenID[t], "none"}
<1>1. /\ UNCHANGED <<row, tok, found, about, cutShort, overlapped>>
      /\ UNCHANGED cacheVars \/ Forget(Key(d))
  BY DEF CacheMiss, storeVars, adminVars
<1>2. Key(d) \in Keys
  BY KeyFacts DEF CacheMiss
<1>3. /\ byDevice' \in {byDevice, None} /\ byToken' \subseteq byToken
      /\ byTokenID' \in [Tokens -> Words]
      /\ \A t \in Tokens : byTokenID'[t] \in {byTokenID[t], "none"}
  <2>1. CASE UNCHANGED cacheVars
    BY <2>1 DEF cacheVars, StoreTypes
  <2>2. CASE Forget(Key(d))
    BY <1>2, <2>2 DEF Forget, StoreTypes, Words
  <2> QED BY <1>1, <2>1, <2>2
<1> QED BY <1>1, <1>3 DEF StoreTypes

LEMMA ReadTypes ==
    ASSUME StoreTypes, NEW d \in Conns, ReadStore(d)
    PROVE  /\ StoreTypes'
           /\ \A e \in Conns \ {d} : found'[e] = found[e]
           /\ found'[d] \in {found[d], row}
<1>1. /\ UNCHANGED <<row, tok, byDevice, byToken, byTokenID, about, cutShort, overlapped>>
      /\ found' = found \/ found' = [found EXCEPT ![d] = IF phase[d] = 1 THEN row ELSE @]
  BY DEF ReadStore, storeVars, cacheVars, adminVars
<1> QED BY <1>1 DEF StoreTypes

LEMMA InsertTypes ==
    ASSUME LoadTypes, KeyInv, StoreTypes, NEW d \in Conns, InsertEntry(d)
    PROVE  StoreTypes'
<1>1. /\ UNCHANGED <<row, tok, found, about, cutShort, overlapped>>
  BY DEF InsertEntry, storeVars, adminVars
<1>2. Key(d) \in Keys
  BY KeyFacts DEF InsertEntry
<1>3. byDevice' \in Rows \cup {None}
  BY DEF InsertEntry, StoreTypes
<1>4. byToken' \subseteq Tokens
  BY <1>2 DEF InsertEntry, StoreTypes, Keys
<1>5. byTokenID' \in [Tokens -> Words]
  BY <1>2 DEF InsertEntry, StoreTypes, Words
<1> QED BY <1>1, <1>3, <1>4, <1>5 DEF StoreTypes

LEMMA ConnTypes ==
    ASSUME LoadTypes, KeyInv, StoreTypes, NEW d \in Conns, Authenticate(d) \/ StreamEnds(d)
    PROVE  StoreTypes'
<1>1. CASE beginLoad(d) \/ LoadDone(d) \/ generationFor(d) \/ register(d) \/ StreamEnds(d)
  BY <1>1 DEF beginLoad, LoadDone, generationFor, register, StreamEnds, storeVars, cacheVars,
              adminVars, StoreTypes
<1> QED BY <1>1, HitTypes, FinishTypes, MissTypes, ReadTypes, InsertTypes DEF Authenticate

LEMMA HandshakeTypes ==
    ASSUME StoreTypes, NEW d \in Conns, NEW k \in {"tcp", "quic"}, NEW t \in Tokens,
           beginHandshake(d, k, t)
    PROVE  StoreTypes'
BY DEF beginHandshake, storeVars, cacheVars, adminVars, StoreTypes

LEMMA StartTypes ==
    ASSUME StoreTypes, NEW op \in Operations, NEW t \in Tokens, startOperation(op, t)
    PROVE  StoreTypes'
BY DEF startOperation, storeVars, cacheVars, connVars, StoreTypes

(* A handler writes the row of a client it found, and the token it is      *)
(* about.                                                                  *)
LEMMA AdminTypes ==
    ASSUME StoreTypes, HandlerInv, Administrate
    PROVE  StoreTypes'
<1>1. CASE WriteStore
  <2>1. UNCHANGED <<byDevice, byToken, byTokenID, found, about, cutShort, overlapped>>
    BY <1>1 DEF WriteStore, cacheVars, connVars
  <2>2. row' \in Rows \cup {None}
    <3>1. CASE NextStep("setDisabled") /\ row' = [row EXCEPT !.disabled = TRUE]
      <4>1. row \in Rows
        BY <3>1, HandlerSteps DEF HandlerInv, StoreTypes
      <4> QED BY <3>1, <4>1 DEF Rows
    <3>2. CASE NextStep("setEnabled") /\ row' = [row EXCEPT !.disabled = FALSE]
      <4>1. row \in Rows
        BY <3>2, HandlerSteps DEF HandlerInv, StoreTypes
      <4> QED BY <3>2, <4>1 DEF Rows
    <3>3. CASE NextStep("bindToken") /\ row' = [row EXCEPT !.token = about]
      <4>1. row \in Rows /\ about \in Tokens
        BY <3>3, HandlerSteps DEF HandlerInv, StoreTypes
      <4> QED BY <3>3, <4>1 DEF Rows
    <3>4. CASE row' \in {row, None}
      BY <3>4 DEF StoreTypes
    <3> QED BY <1>1, <3>1, <3>2, <3>3, <3>4 DEF WriteStore
  <2>3. tok' \in [Tokens -> {"fresh", "enabled", "disabled", "absent"}]
    BY <1>1 DEF WriteStore, StoreTypes
  <2> QED BY <2>1, <2>2, <2>3 DEF StoreTypes
<1>2. CASE Disconnect
  BY <1>2 DEF Disconnect, storeVars, cacheVars, StoreTypes
<1>3. CASE invalidateAll
  BY <1>3 DEF invalidateAll, storeVars, connVars, StoreTypes, Words
<1>4. CASE invalidateToken
  BY <1>4 DEF invalidateToken, storeVars, connVars, StoreTypes, Words
<1>5. CASE FindUsers
  BY <1>5 DEF FindUsers, storeVars, cacheVars, connVars, StoreTypes
<1>6. CASE HandlerFails
  <2>1. \/ cutShort' = cutShort \cup {about} /\ about \in Tokens
        \/ cutShort' = cutShort
    BY <1>6, FailSteps DEF HandlerInv
  <2> QED BY <1>6, <2>1 DEF HandlerFails, storeVars, cacheVars, connVars, StoreTypes
<1> QED BY <1>1, <1>2, <1>3, <1>4, <1>5, <1>6 DEF Administrate

----------------------------------------------------------------------------
(* The handlers.                                                           *)

LEMMA StartHandler ==
    ASSUME StoreTypes, HandlerInv, NEW op \in Operations, NEW t \in Tokens,
           startOperation(op, t)
    PROVE  /\ todo = <<>> /\ UNCHANGED <<row, tok>>
           /\ todo' \in ClientLeft \cup TokenStart \cup {StartDelete, StartReset}
           /\ todo' \in ClientLeft => row # None
           /\ todo' \in TokenStart => about' = t /\ tok[t] \in {"enabled", "disabled"}
           /\ todo' = StartReset => about' = t /\ tok[t] = "fresh" /\ row # None
<1>1. /\ todo = <<>> /\ UNCHANGED <<row, tok>> /\ todo' = Program(op)
      /\ \/ op \in ClientOperations /\ row # None /\ about' = None
         \/ op \in TokenOperations /\ tok[t] \in {"enabled", "disabled"} /\ about' = t
         \/ op = "resetToken" /\ row # None /\ tok[t] = "fresh" /\ about' = t
  BY DEF startOperation, storeVars
<1>2. CASE op \in {"disableClient", "enableClient"}
  <2>1. todo' \in ClientLeft
    BY <1>1, <1>2 DEF Program, ClientLeft
  <2> QED BY <1>1, <1>2, <2>1, StagesDiffer DEF TokenOperations
<1>3. CASE op = "deleteClient"
  <2>1. todo' = StartDelete
    BY <1>1, <1>3 DEF Program, StartDelete
  <2> QED BY <1>1, <2>1, StagesDiffer
<1>4. CASE op \in TokenOperations
  <2>1. todo' \in TokenStart
    BY <1>1, <1>4 DEF Program, TokenStart, TokenOperations
  <2> QED BY <1>1, <1>4, <2>1, StagesDiffer DEF TokenOperations, ClientOperations
<1>5. CASE op = "resetToken"
  <2>1. todo' = StartReset
    BY <1>1, <1>5 DEF Program, StartReset
  <2> QED BY <1>1, <1>5, <2>1, StagesDiffer DEF TokenOperations, ClientOperations
<1> QED BY <1>2, <1>3, <1>4, <1>5 DEF Operations, ClientOperations

LEMMA StartInv ==
    ASSUME StoreTypes, HandlerInv, NEW op \in Operations, NEW t \in Tokens,
           startOperation(op, t)
    PROVE  HandlerInv'
BY StartHandler, StagesDiffer DEF HandlerInv, Left

LEMMA AdminInv ==
    ASSUME StoreTypes, HandlerInv, Administrate
    PROVE  HandlerInv'
<1>1. todo \in Left /\ about' = about
  BY DEF HandlerInv, Administrate, WriteStore, FindUsers, HandlerFails, Disconnect,
         invalidateAll, invalidateToken
<1>2. CASE NextStep("setDisabled") /\ UNCHANGED tok
  BY <1>1, <1>2, HandlerSteps, StagesDiffer DEF HandlerInv, Left
<1>3. CASE NextStep("setEnabled") /\ UNCHANGED tok
  BY <1>1, <1>3, HandlerSteps, StagesDiffer DEF HandlerInv, Left
<1>4. CASE NextStep("bindToken") /\ UNCHANGED tok
  BY <1>1, <1>4, HandlerSteps, StagesDiffer DEF HandlerInv, Left
<1>5. CASE NextStep("disableToken") /\ tok' = [tok EXCEPT ![about] = "disabled"] /\ UNCHANGED row
  <2>1. todo' \in UsersLeft /\ about \in Tokens
    BY <1>1, <1>5, HandlerSteps DEF HandlerInv
  <2> QED BY <1>1, <1>5, <2>1, StagesDiffer DEF HandlerInv, Left, StoreTypes
<1>6. CASE NextStep("enableToken") /\ tok' = [tok EXCEPT ![about] = "enabled"] /\ UNCHANGED row
  <2>1. /\ todo' = LastToken \/ (todo' = BindLeft /\ row # None)
        /\ about \in Tokens
    BY <1>1, <1>6, HandlerSteps DEF HandlerInv
  <2> QED BY <1>1, <1>6, <2>1, StagesDiffer DEF HandlerInv, Left
<1>7. CASE NextStep("deleteClient")
  BY <1>1, <1>7, HandlerSteps, StagesDiffer DEF HandlerInv, Left
<1>8. CASE NextStep("deleteToken")
  BY <1>1, <1>8, HandlerSteps, StagesDiffer DEF HandlerInv, Left
<1>9. CASE NextStep("disconnect") /\ UNCHANGED <<row, tok>>
  BY <1>1, <1>9, HandlerSteps, StagesDiffer DEF HandlerInv, Left
<1>10. CASE NextStep("disconnectUsers") /\ UNCHANGED <<row, tok>>
  BY <1>1, <1>10, HandlerSteps, StagesDiffer DEF HandlerInv, Left
<1>11. CASE NextStep("invalidateAll") /\ UNCHANGED <<row, tok>>
  BY <1>1, <1>11, HandlerSteps, StagesDiffer DEF HandlerInv, Left
<1>12. CASE NextStep("invalidateToken")
  BY <1>1, <1>12, HandlerSteps, StagesDiffer DEF HandlerInv, Left
<1>13. CASE NextStep("findUsers") /\ UNCHANGED <<row, tok>>
  BY <1>1, <1>13, HandlerSteps, StagesDiffer DEF HandlerInv, Left
<1>14. CASE HandlerFails
  BY <1>1, <1>14, FailSteps, StagesDiffer DEF HandlerInv, Left
<1> QED BY <1>2, <1>3, <1>4, <1>5, <1>6, <1>7, <1>8, <1>9, <1>10, <1>11, <1>12, <1>13, <1>14
        DEF Administrate, WriteStore, FindUsers, HandlerFails, Disconnect, invalidateAll,
            invalidateToken, storeVars

(* A token is fresh only until it is created; a deleted one is not written *)
(* again.                                                                  *)
LEMMA TokensOnly ==
    ASSUME StoreTypes, HandlerInv, Administrate
    PROVE  \A t \in Tokens : /\ tok'[t] = "fresh" => tok[t] = "fresh"
                             /\ tok[t] = "absent" => tok'[t] = "absent"
<1>1. CASE UNCHANGED tok
  BY <1>1
<1>2. CASE /\ NextStep("disableToken") \/ NextStep("enableToken") \/ NextStep("deleteToken")
           /\ \E s \in {"enabled", "disabled", "absent"} : tok' = [tok EXCEPT ![about] = s]
  <2>1. about \in Tokens /\ tok[about] # "absent"
    BY <1>2, HandlerSteps DEF HandlerInv
  <2> QED BY <1>2, <2>1 DEF StoreTypes
<1> QED BY <1>1, <1>2
        DEF Administrate, WriteStore, FindUsers, HandlerFails, Disconnect, invalidateAll,
            invalidateToken, storeVars

LEMMA PresentedNext ==
    ASSUME LoadTypes, KeyInv, StoreTypes, HandlerInv, PresentedExists, StreamsRelay, [Next]_vars
    PROVE  PresentedExists'
<1>1. ASSUME NEW d \in Conns, NEW k \in {"tcp", "quic"}, NEW t \in Tokens,
             beginHandshake(d, k, t)
      PROVE  PresentedExists'
  BY <1>1 DEF beginHandshake, PresentedExists, storeVars, LoadTypes, Goto
<1>2. ASSUME NEW d \in Conns, Authenticate(d) \/ StreamEnds(d)
      PROVE  PresentedExists'
  <2>1. step[d] # "new"
    BY <1>2 DEF Authenticate, StreamEnds, CacheHit, CacheMiss, beginLoad, LoadDone,
                ReadStore, InsertEntry, finishLoad, generationFor, register
  <2>2. \E s : step' = [step EXCEPT ![d] = s]
    <3>1. CASE CacheHit(d)
      BY <3>1, Zenon DEF CacheHit, Answer, Goto
    <3>2. CASE finishLoad(d)
      BY <3>2, Zenon DEF finishLoad, Finished, Answer, Goto
    <3>3. CASE beginLoad(d)
      BY <3>3 DEF beginLoad, Goto
    <3> QED BY <1>2, <3>1, <3>2, <3>3
            DEF Authenticate, StreamEnds, CacheMiss, LoadDone, ReadStore, InsertEntry,
                generationFor, register, Goto
  <2> QED BY <1>2, <2>1, <2>2, ConnFrame DEF PresentedExists, LoadTypes
<1>3. ASSUME NEW op \in Operations, NEW t \in Tokens, startOperation(op, t)
      PROVE  PresentedExists'
  BY <1>3 DEF startOperation, storeVars, connVars, PresentedExists
<1>4. CASE Administrate
  <2>1. presents' = presents /\ \A d \in Conns : step'[d] = "new" <=> step[d] = "new"
    BY <1>4 DEF Administrate, WriteStore, FindUsers, HandlerFails, Disconnect, disconnect,
                invalidateAll, invalidateToken, connVars, StreamsRelay
  <2> QED BY <1>4, <2>1, TokensOnly DEF PresentedExists, LoadTypes, KeyInv
<1>5. CASE UNCHANGED vars
  BY <1>5 DEF vars, PresentedExists
<1> QED BY <1>1, <1>2, <1>3, <1>4, <1>5 DEF Next

----------------------------------------------------------------------------
(* The connections, while no change overlaps an authentication.            *)

(* What a quiet step of a connection has to show when no handler runs.     *)
LEMMA MoveQuiet ==
    ASSUME Quiet, todo = <<>>, UNCHANGED <<row, tok, cutShort, todo, about>>, NEW d \in Conns,
           \A e \in Conns \ {d} :
              /\ step'[e] = step[e] /\ phase'[e] = phase[e] /\ kind'[e] = kind[e]
              /\ presents'[e] = presents[e] /\ found'[e] = found[e],
           Knows(d)',
           byDevice' # None => Accurate(byDevice'),
           \A t \in Tokens : t \in byToken' \/ byTokenID'[t] = "enabled" => Live(t),
           active' \subseteq Conns,
           \A e \in active' : (e \in active /\ e # d) \/ Admissible(presents'[e])
    PROVE  Quiet'
<1>1. Exclusive'
  BY DEF Exclusive
<1>2. KnowsInv'
  <2> SUFFICES ASSUME NEW e \in Conns PROVE Knows(e)'
    BY DEF KnowsInv
  <2>1. CASE e = d
    BY <2>1
  <2>2. CASE e # d
    <3>1. Knows(e)
      BY DEF Quiet, KnowsInv
    <3> QED BY <2>2, <3>1 DEF Knows, Busy, Accurate, Admissible, Live, Trusted
  <2> QED BY <2>1, <2>2
<1>3. DeviceCacheInv'
  BY StagesDiffer DEF DeviceCacheInv, Accurate
<1>4. TokenCacheInv'
  BY DEF TokenCacheInv, Live, Trusted
<1>5. StreamInv'
  <2>1. \A e \in active : Admissible(presents[e])
    BY StagesDiffer DEF Quiet, StreamInv
  <2>2. \A e \in active' : Admissible(presents'[e])
    BY <2>1
  <2> QED BY <2>2, StagesDiffer DEF StreamInv, Admissible, Trusted
<1> QED BY <1>1, <1>2, <1>3, <1>4, <1>5 DEF Quiet

LEMMA QuietFacts ==
    ASSUME Quiet, todo = <<>>
    PROVE  /\ byDevice # None => Accurate(byDevice)
           /\ \A t \in Tokens : t \in byToken \/ byTokenID[t] = "enabled" => Live(t)
           /\ \A e \in active : Admissible(presents[e])
<1>1. DeviceCacheInv /\ TokenCacheInv /\ StreamInv
  BY DEF Quiet
<1>2. byDevice # None => Accurate(byDevice)
  BY <1>1, StagesDiffer DEF DeviceCacheInv
<1>3. \A t \in Tokens : t \in byToken \/ byTokenID[t] = "enabled" => Live(t)
  BY <1>1, StagesDiffer DEF TokenCacheInv, Live, Trusted
<1>4. \A e \in active : Admissible(presents[e])
  BY <1>1, StagesDiffer DEF StreamInv
<1> QED BY <1>2, <1>3, <1>4

(* A client and a token that are both true make the credential authorized. *)
LEMMA Accepted ==
    ASSUME NEW d \in Conns, Accepts(d, found[d]), Accurate(found[d]),
           Live(presents[d])
    PROVE  Admissible(presents[d])
BY DEF Accepts, Accurate, Admissible, Live, Trusted

(* The answer of a look-up carries over what it was made of.               *)
LEMMA AnswerQuiet ==
    ASSUME LoadTypes, KeyInv, StoreTypes, Quiet, NEW d \in Conns, NEW client \in Rows \cup {None},
           Busy(d), step[d] # "new",
           Answer(d, client), UNCHANGED <<row, tok, cutShort, presents, kind>>,
           phase[d] = 1 /\ client # None => Accurate(client),
           phase[d] = 2 => Live(presents[d])
    PROVE  /\ Knows(d)'
           /\ \A e \in Conns \ {d} :
                 step'[e] = step[e] /\ phase'[e] = phase[e] /\ found'[e] = found[e]
<1>1. CASE phase[d] = 1
  <2>1. /\ found' = [found EXCEPT ![d] = client] /\ phase' = [phase EXCEPT ![d] = 2]
        /\ step' = [step EXCEPT ![d] = IF kind[d] = "tcp" THEN "lookup" ELSE "generation"]
    BY <1>1 DEF Answer, Goto
  <2>2. /\ found'[d] = client /\ step'[d] \in {"lookup", "generation"}
        /\ step'[d] = "generation" => kind[d] # "tcp"
    BY <2>1 DEF LoadTypes, StoreTypes
  <2>3. Knows(d)'
    BY <1>1, <2>2 DEF Knows, Accurate, Live, Trusted
  <2> QED BY <2>1, <2>3 DEF LoadTypes, StoreTypes
<1>2. CASE phase[d] = 2
  <2>1. /\ found' = [found EXCEPT ![d] = None] /\ phase' = phase
        /\ step' = [step EXCEPT ![d] = IF ~Accepts(d, found[d]) THEN "refused"
                                       ELSE IF kind[d] = "tcp" THEN "generation" ELSE "claim"]
    BY <1>2 DEF Answer, Goto
  <2>2. /\ found'[d] = None /\ step'[d] \in {"refused", "generation", "claim"}
        /\ step'[d] # "refused" => Accepts(d, found[d])
    BY <2>1 DEF LoadTypes, StoreTypes
  <2>3. step'[d] # "refused" => Admissible(presents[d])
    <3>1. found[d] # None => Accurate(found[d])
      BY DEF Quiet, KnowsInv, Knows
    <3> QED BY <1>2, <2>2, <3>1, Accepted DEF Accepts
  <2>4. Knows(d)'
    BY <2>2, <2>3 DEF Knows, Busy, Admissible, Trusted
  <2> QED BY <2>1, <2>4 DEF LoadTypes, StoreTypes
<1> QED BY <1>1, <1>2 DEF LoadTypes

LEMMA HitQuiet ==
    ASSUME LoadTypes, KeyInv, StoreTypes, StreamsRelay, Quiet, todo = <<>>, NEW d \in Conns,
           CacheHit(d)
    PROVE  Quiet'
<1>1. /\ step[d] \in {"lookup", "recheck"} /\ Cached(Key(d)) /\ Answer(d, byDevice)
      /\ UNCHANGED <<row, tok, cutShort, todo, about, byDevice, byToken, byTokenID, presents,
                     kind, active>>
  BY DEF CacheHit, storeVars, cacheVars, adminVars, streamVars
<1>2. phase[d] = 2 => Live(presents[d])
  <2>1. ASSUME phase[d] = 2
        PROVE  presents[d] \in byToken \/ byTokenID[presents[d]] = "enabled"
    <3>1. CASE kind[d] = "tcp"
      <4>1. Key(d)[1] = "token" /\ Key(d)[2] = presents[d]
        BY <2>1, <3>1 DEF Key
      <4>2. Key(d)[2] \in byToken
        BY <1>1, <4>1 DEF Cached
      <4> QED BY <4>1, <4>2
    <3>2. CASE kind[d] # "tcp"
      <4>1. Key(d)[1] = "token-id" /\ Key(d)[2] = presents[d]
        BY <2>1, <3>2 DEF Key
      <4>2. byTokenID[Key(d)[2]] = "enabled"
        BY <1>1, <4>1 DEF Cached
      <4> QED BY <4>1, <4>2
    <3> QED BY <3>1, <3>2
  <2> QED BY <1>1, <2>1, QuietFacts DEF KeyInv
<1>3. byDevice \in Rows \cup {None} /\ Busy(d)
  BY <1>1 DEF StoreTypes, Busy
<1>4. /\ Knows(d)'
      /\ \A e \in Conns \ {d} :
            step'[e] = step[e] /\ phase'[e] = phase[e] /\ found'[e] = found[e]
  BY <1>1, <1>2, <1>3, QuietFacts, AnswerQuiet
<1>5. \A e \in active' : e \in active /\ e # d
  BY <1>1 DEF StreamsRelay
<1>6. byDevice' # None => Accurate(byDevice')
  BY <1>1, QuietFacts
<1> QED BY <1>1, <1>4, <1>5, <1>6, QuietFacts, MoveQuiet DEF StreamsRelay

LEMMA FinishQuiet ==
    ASSUME LoadTypes, KeyInv, StoreTypes, StreamsRelay, Quiet, todo = <<>>, NEW d \in Conns,
           finishLoad(d)
    PROVE  Quiet'
<1>1. /\ step[d] \in {"finish", "failed"} /\ Finished(d)
      /\ UNCHANGED <<row, tok, cutShort, todo, about, byDevice, byToken, byTokenID, presents,
                     kind, active>>
  BY DEF finishLoad, storeVars, cacheVars, adminVars, streamVars
<1>2. Knows(d) /\ Busy(d)
  BY <1>1 DEF Quiet, KnowsInv, Busy
<1>3. /\ Knows(d)'
      /\ \A e \in Conns \ {d} :
            step'[e] = step[e] /\ phase'[e] = phase[e] /\ found'[e] = found[e]
  <2>1. CASE step[d] = "finish"
    <3>1. Answer(d, found[d]) /\ found[d] \in Rows \cup {None}
      BY <1>1, <2>1 DEF Finished, StoreTypes
    <3>2. /\ found[d] # None => Accurate(found[d])
          /\ phase[d] = 2 => Live(presents[d])
      BY <1>2, <2>1 DEF Knows
    <3> QED BY <1>1, <1>2, <2>1, <3>1, <3>2, AnswerQuiet
  <2>2. CASE step[d] = "failed"
    <3>1. /\ step' = [step EXCEPT ![d] = "refused"] /\ found' = [found EXCEPT ![d] = None]
          /\ phase' = phase
      BY <1>1, <2>2 DEF Finished, Goto
    <3> QED BY <3>1 DEF Knows, Busy, LoadTypes, StoreTypes
  <2> QED BY <1>1, <2>1, <2>2
<1>4. \A e \in active' : e \in active /\ e # d
  BY <1>1 DEF StreamsRelay
<1>5. byDevice' # None => Accurate(byDevice')
  BY <1>1, QuietFacts
<1> QED BY <1>1, <1>3, <1>4, <1>5, QuietFacts, MoveQuiet DEF StreamsRelay

LEMMA MissQuiet ==
    ASSUME LoadTypes, KeyInv, StoreTypes, StreamsRelay, Quiet, todo = <<>>, NEW d \in Conns,
           CacheMiss(d)
    PROVE  Quiet'
<1>1. /\ step[d] \in {"lookup", "recheck"}
      /\ step' = [step EXCEPT ![d] = IF step[d] = "lookup" THEN "begin" ELSE "load"]
      /\ UNCHANGED <<row, tok, cutShort, todo, about, presents, kind, phase, found, active>>
  BY DEF CacheMiss, Goto, storeVars, adminVars, streamVars
<1>2. Knows(d) /\ Busy(d) /\ step'[d] \in {"begin", "load"}
  BY <1>1 DEF Quiet, KnowsInv, Busy, LoadTypes
<1>3. Knows(d)'
  BY <1>1, <1>2 DEF Knows, Accurate, Live, Trusted
<1>4. byDevice' # None => Accurate(byDevice')
  BY MissTypes, QuietFacts
<1>5. \A t \in Tokens : t \in byToken' \/ byTokenID'[t] = "enabled" => Live(t)
  BY MissTypes, QuietFacts
<1>6. \A e \in active' : e \in active /\ e # d
  BY <1>1 DEF StreamsRelay
<1>7. \A e \in Conns \ {d} : step'[e] = step[e]
  BY <1>1 DEF LoadTypes
<1> QED BY <1>1, <1>3, <1>4, <1>5, <1>6, <1>7, MoveQuiet DEF StreamsRelay

(* What the statement for a token answers, and where the connection goes.  *)
LEMMA ReadOutcome ==
    ASSUME LoadTypes, KeyInv, NEW d \in Conns, ReadStore(d)
    PROVE  \/ step'[d] = "failed"
           \/ phase[d] = 1 /\ step'[d] = "insert"
           \/ phase[d] = 2 /\ step'[d] = "insert" /\ tok[presents[d]] \notin {"absent", "disabled"}
           \/ phase[d] = 2 /\ step'[d] = "insertDisabled" /\ kind[d] = "quic"
<1>1. step[d] = "load" /\ kind[d] \in {"tcp", "quic"} /\ phase[d] \in {1, 2}
  BY DEF ReadStore, KeyInv, LoadTypes
<1>2. CASE phase[d] = 1
  <2>1. step' = [step EXCEPT ![d] = "failed"] \/ step' = [step EXCEPT ![d] = "insert"]
    <3>1. phase[d] # 2
      BY <1>2
    <3> QED BY <3>1, Zenon DEF ReadStore, Goto
  <2> QED BY <1>2, <2>1 DEF LoadTypes
<1>3. CASE phase[d] = 2 /\ kind[d] = "tcp"
  <2>1. \/ step' = [step EXCEPT ![d] = "failed"]
        \/ step' = [step EXCEPT ![d] = "insert"] /\ tok[presents[d]] = "enabled"
    BY <1>3 DEF ReadStore, Goto
  <2> QED BY <1>3, <2>1 DEF LoadTypes
<1>4. CASE phase[d] = 2 /\ kind[d] = "quic"
  <2>1. \/ step' = [step EXCEPT ![d] = "failed"]
        \/ /\ tok[presents[d]] # "absent"
           /\ step' = [step EXCEPT ![d] = IF tok[presents[d]] = "disabled"
                                          THEN "insertDisabled" ELSE "insert"]
    BY <1>4 DEF ReadStore, Goto
  <2> QED BY <1>4, <2>1 DEF LoadTypes
<1> QED BY <1>1, <1>2, <1>3, <1>4

LEMMA ReadQuiet ==
    ASSUME LoadTypes, KeyInv, StoreTypes, StreamsRelay, PresentedExists, Quiet, todo = <<>>,
           NEW d \in Conns, ReadStore(d)
    PROVE  Quiet'
<1>1. /\ step[d] = "load"
      /\ UNCHANGED <<row, tok, cutShort, todo, about, presents, kind, phase, active, byDevice,
                     byToken, byTokenID>>
  BY DEF ReadStore, storeVars, adminVars, streamVars, cacheVars
<1>2. Knows(d) /\ Busy(d)
  BY <1>1 DEF Quiet, KnowsInv, Busy
<1>3. /\ \A e \in Conns \ {d} : step'[e] = step[e]
      /\ step'[d] \in {"failed", "insert", "insertDisabled"}
  BY DEF ReadStore, Goto, LoadTypes
<1>4. step'[d] = "insert" /\ phase[d] = 2 => Live(presents[d])
  <2>1. presents[d] \in Tokens /\ tok[presents[d]] # "fresh" /\ kind[d] \in {"tcp", "quic"}
    BY <1>1 DEF KeyInv, PresentedExists
  <2>2. tok[presents[d]] \in {"enabled", "disabled", "absent"}
    BY <2>1 DEF StoreTypes
  <2> QED BY <2>2, ReadOutcome DEF Live, Trusted
<1>5. found'[d] # None => Accurate(found'[d])
  BY <1>2, ReadTypes DEF Knows, Accurate, Live, Trusted
<1>6. Knows(d)'
  <2>1. step'[d] = "insertDisabled" => phase[d] = 2 /\ kind[d] = "quic"
    BY ReadOutcome
  <2> QED BY <1>1, <1>3, <1>4, <1>5, <2>1 DEF Knows, Accurate, Live, Trusted
<1>7. \A e \in active' : e \in active /\ e # d
  BY <1>1 DEF StreamsRelay
<1>8. byDevice' # None => Accurate(byDevice')
  BY <1>1, QuietFacts
<1>9. \A e \in Conns \ {d} : found'[e] = found[e]
  BY ReadTypes
<1> QED BY <1>1, <1>3, <1>6, <1>7, <1>8, <1>9, QuietFacts, MoveQuiet DEF StreamsRelay

LEMMA InsertQuiet ==
    ASSUME LoadTypes, KeyInv, StoreTypes, StreamsRelay, Quiet, todo = <<>>, NEW d \in Conns,
           InsertEntry(d)
    PROVE  Quiet'
<1>1. /\ step[d] \in {"insert", "insertDisabled"}
      /\ step' = [step EXCEPT ![d] = IF step[d] = "insert" THEN "finish" ELSE "failed"]
      /\ UNCHANGED <<row, tok, cutShort, todo, about, presents, kind, phase, active, found>>
  BY DEF InsertEntry, Goto, storeVars, adminVars, streamVars
<1>2. Knows(d) /\ Busy(d)
  BY <1>1 DEF Quiet, KnowsInv, Busy
<1>3. /\ \A e \in Conns \ {d} : step'[e] = step[e]
      /\ step'[d] = IF step[d] = "insert" THEN "finish" ELSE "failed"
  BY <1>1 DEF LoadTypes
<1>4. Knows(d)'
  BY <1>1, <1>2, <1>3 DEF Knows, Accurate, Live, Trusted
<1>5. byDevice' # None => Accurate(byDevice')
  <2>1. byDevice' \in {byDevice, found[d]}
    BY DEF InsertEntry
  <2> QED BY <1>1, <1>2, <2>1, QuietFacts DEF Knows, Accurate, Live, Trusted
<1>6. Key(d) \in Keys /\ (Key(d)[1] # "device" => Key(d)[2] = presents[d] /\ phase[d] = 2)
  BY <1>1, KeyFacts DEF Key, LoadTypes
<1>7. \A t \in Tokens : t \in byToken' => Live(t)
  <2>1. CASE Key(d)[1] = "token"
    <3>1. byToken' = byToken \cup {presents[d]}
      BY <1>6, <2>1 DEF InsertEntry
    <3>2. Live(presents[d])
      BY <1>1, <1>2, <1>6, <2>1 DEF Knows, Key
    <3> QED BY <3>1, <3>2, QuietFacts
  <2>2. CASE Key(d)[1] # "token"
    BY <2>2, QuietFacts DEF InsertEntry
  <2> QED BY <2>1, <2>2
<1>8. \A t \in Tokens : byTokenID'[t] = "enabled" => Live(t)
  <2>1. CASE Key(d)[1] = "token-id" /\ step[d] = "insert"
    <3>1. byTokenID' = [byTokenID EXCEPT ![presents[d]] = "enabled"]
      BY <1>6, <2>1 DEF InsertEntry
    <3>2. Live(presents[d])
      BY <1>2, <1>6, <2>1 DEF Knows
    <3> QED BY <3>1, <3>2, QuietFacts DEF StoreTypes
  <2>2. CASE Key(d)[1] = "token-id" /\ step[d] = "insertDisabled"
    <3>1. byTokenID' = [byTokenID EXCEPT ![presents[d]] = "disabled"]
      BY <1>6, <2>2 DEF InsertEntry
    <3> QED BY <3>1, QuietFacts DEF StoreTypes
  <2>3. CASE Key(d)[1] # "token-id"
    BY <2>3, QuietFacts DEF InsertEntry
  <2> QED BY <1>1, <2>1, <2>2, <2>3
<1>9. \A e \in active' : e \in active /\ e # d
  BY <1>1 DEF StreamsRelay
<1> QED BY <1>1, <1>3, <1>4, <1>5, <1>7, <1>8, <1>9, MoveQuiet DEF StreamsRelay

(* What remains of an authentication.                                      *)
LEMMA RestQuiet ==
    ASSUME LoadTypes, KeyInv, StoreTypes, StreamsRelay, Quiet, todo = <<>>, NEW d \in Conns,
           beginLoad(d) \/ LoadDone(d) \/ generationFor(d) \/ register(d)
    PROVE  Quiet'
<1>1. UNCHANGED <<row, tok, cutShort, todo, about, presents, kind, phase, found, byDevice,
                  byToken, byTokenID>>
  BY DEF beginLoad, LoadDone, generationFor, register, storeVars, cacheVars, adminVars
<1>2. PICK s \in {"load", "wait", "recheck", "claim", "lookup", "relaying", "refused"} :
          step' = [step EXCEPT ![d] = s]
  BY DEF beginLoad, LoadDone, generationFor, register, Goto
<1>3. /\ step[d] \in {"begin", "wait", "generation", "claim"}
      /\ s = "claim" => step[d] = "generation" /\ kind[d] = "tcp"
  BY <1>2 DEF beginLoad, LoadDone, generationFor, register, Goto, LoadTypes
<1>4. Knows(d) /\ Busy(d) /\ step'[d] = s
  BY <1>2, <1>3 DEF Quiet, KnowsInv, Busy, LoadTypes
<1>5. Knows(d)'
  BY <1>1, <1>3, <1>4 DEF Knows, Accurate, Admissible, Trusted
<1>6. /\ active' \subseteq Conns
      /\ \A e \in active' : (e \in active /\ e # d) \/ Admissible(presents'[e])
  <2>1. CASE active' = active
    BY <1>3, <2>1 DEF StreamsRelay
  <2>2. CASE register(d) /\ active' = active \cup {d}
    <3>1. Admissible(presents[d])
      BY <1>4, <2>2 DEF Knows, register
    <3> QED BY <1>1, <1>3, <2>2, <3>1 DEF StreamsRelay
  <2> QED BY <2>1, <2>2 DEF beginLoad, LoadDone, generationFor, register, streamVars
<1>7. \A e \in Conns \ {d} : step'[e] = step[e]
  BY <1>2 DEF LoadTypes
<1>8. byDevice' # None => Accurate(byDevice')
  BY <1>1, QuietFacts
<1> QED BY <1>1, <1>5, <1>6, <1>7, <1>8, QuietFacts, MoveQuiet

LEMMA HandshakeQuiet ==
    ASSUME LoadTypes, KeyInv, StoreTypes, StreamsRelay, Quiet, todo = <<>>, NEW d \in Conns,
           FoundInv, NEW k \in {"tcp", "quic"}, NEW t \in Tokens, beginHandshake(d, k, t)
    PROVE  Quiet'
<1>1. /\ step[d] = "new" /\ step' = [step EXCEPT ![d] = "lookup"]
      /\ kind' = [kind EXCEPT ![d] = k] /\ presents' = [presents EXCEPT ![d] = t]
      /\ UNCHANGED <<row, tok, cutShort, todo, about, phase, found, byDevice, byToken,
                     byTokenID, active>>
  BY DEF beginHandshake, Goto, storeVars, cacheVars, adminVars, streamVars
<1>2. step'[d] = "lookup" /\ found'[d] = None
  BY <1>1 DEF LoadTypes, FoundInv
<1>3. Knows(d)'
  BY <1>2 DEF Knows
<1>4. \A e \in active' : e \in active /\ e # d
  BY <1>1 DEF StreamsRelay
<1>5. \A e \in Conns \ {d} : step'[e] = step[e] /\ kind'[e] = kind[e] /\ presents'[e] = presents[e]
  BY <1>1 DEF LoadTypes
<1>6. byDevice' # None => Accurate(byDevice')
  BY <1>1, QuietFacts
<1> QED BY <1>1, <1>3, <1>4, <1>5, <1>6, QuietFacts, MoveQuiet DEF StreamsRelay

(* A stream may end while a handler runs.                                  *)
LEMMA EndsQuiet ==
    ASSUME LoadTypes, StreamsRelay, Quiet, NEW d \in Conns, StreamEnds(d)
    PROVE  Quiet'
<1>1. /\ step' = [step EXCEPT ![d] = "ended"] /\ active' = active \ {d} /\ step[d] = "relaying"
      /\ UNCHANGED <<row, tok, cutShort, todo, about, presents, kind, phase, found, byDevice,
                     byToken, byTokenID>>
  BY DEF StreamEnds, Goto, storeVars, cacheVars, adminVars
<1>2. \A e \in Conns : (Busy(e)' <=> Busy(e)) /\ (e # d => step'[e] = step[e])
  BY <1>1 DEF Busy, LoadTypes
<1>3. Exclusive'
  BY <1>1, <1>2 DEF Quiet, Exclusive
<1>4. KnowsInv'
  <2> SUFFICES ASSUME NEW e \in Conns PROVE Knows(e)'
    BY DEF KnowsInv
  <2>1. CASE e = d
    BY <1>1, <1>2, <2>1 DEF Knows, Busy
  <2>2. CASE e # d
    BY <1>1, <1>2, <2>2 DEF Quiet, KnowsInv, Knows, Accurate, Admissible, Live, Trusted
  <2> QED BY <2>1, <2>2
<1>5. DeviceCacheInv' /\ TokenCacheInv'
  BY <1>1 DEF Quiet, DeviceCacheInv, TokenCacheInv, Accurate, Live, Trusted
<1>6. StreamInv'
  BY <1>1 DEF Quiet, StreamInv, Admissible, Trusted
<1> QED BY <1>3, <1>4, <1>5, <1>6 DEF Quiet

LEMMA FoundNext ==
    ASSUME LoadTypes, StoreTypes, FoundInv, StreamsRelay, [Next]_vars
    PROVE  FoundInv'
<1>1. ASSUME NEW d \in Conns, step[d] # "new", NEW s, s # "new",
             step' = [step EXCEPT ![d] = s],
             \A e \in Conns \ {d} : found'[e] = found[e]
      PROVE  FoundInv'
  BY <1>1 DEF FoundInv, LoadTypes
<1>2. ASSUME NEW d \in Conns, CacheHit(d) PROVE FoundInv'
  <2>1. step[d] # "new" /\ Answer(d, byDevice)
    BY <1>2 DEF CacheHit
  <2>2. \E s \in Steps \ {"new"} : step' = [step EXCEPT ![d] = s]
    BY <2>1 DEF Answer, Goto, Steps
  <2>3. \A e \in Conns \ {d} : found'[e] = found[e]
    BY <2>1, AnswerFound DEF StoreTypes
  <2> QED BY <1>1, <2>1, <2>2, <2>3
<1>3. ASSUME NEW d \in Conns, finishLoad(d) PROVE FoundInv'
  <2>1. step[d] # "new" /\ Finished(d)
    BY <1>3 DEF finishLoad
  <2>2. \E s \in Steps \ {"new"} : step' = [step EXCEPT ![d] = s]
    BY <2>1 DEF Finished, Answer, Goto, Steps
  <2>3. \A e \in Conns \ {d} : found'[e] = found[e]
    <3>1. CASE step[d] = "finish"
      BY <2>1, <3>1, AnswerFound DEF Finished, StoreTypes
    <3>2. CASE step[d] # "finish"
      BY <2>1, <3>2 DEF Finished, StoreTypes
    <3> QED BY <3>1, <3>2
  <2> QED BY <1>1, <2>1, <2>2, <2>3
<1>4. ASSUME NEW d \in Conns, ReadStore(d) PROVE FoundInv'
  <2>1. step[d] # "new" /\ \E s \in Steps \ {"new"} : step' = [step EXCEPT ![d] = s]
    BY <1>4 DEF ReadStore, Goto, Steps
  <2> QED BY <1>1, <1>4, <2>1, ReadTypes
<1>5. ASSUME NEW d \in Conns, CacheMiss(d) \/ beginLoad(d) \/ LoadDone(d) \/ InsertEntry(d)
                              \/ generationFor(d) \/ register(d) \/ StreamEnds(d)
      PROVE  FoundInv'
  <2>1. step[d] # "new" /\ found' = found
    BY <1>5 DEF CacheMiss, beginLoad, LoadDone, InsertEntry, generationFor, register, StreamEnds
  <2>2. \E s \in Steps \ {"new"} : step' = [step EXCEPT ![d] = s]
    BY <1>5 DEF CacheMiss, beginLoad, LoadDone, InsertEntry, generationFor, register,
                StreamEnds, Goto, Steps
  <2> QED BY <1>1, <2>1, <2>2
<1>6. ASSUME NEW d \in Conns, NEW k \in {"tcp", "quic"}, NEW t \in Tokens,
             beginHandshake(d, k, t)
      PROVE  FoundInv'
  BY <1>6 DEF beginHandshake, Goto, FoundInv, LoadTypes
<1>7. ASSUME NEW op \in Operations, NEW t \in Tokens, startOperation(op, t)
      PROVE  FoundInv'
  BY <1>7 DEF startOperation, connVars, FoundInv
<1>8. CASE Administrate
  <2>1. found' = found /\ \A d \in Conns : step'[d] = "new" => step[d] = "new"
    BY <1>8 DEF Administrate, WriteStore, FindUsers, HandlerFails, Disconnect, disconnect,
                invalidateAll, invalidateToken, connVars
  <2> QED BY <2>1 DEF FoundInv
<1>9. CASE UNCHANGED vars
  BY <1>9 DEF vars, FoundInv
<1> QED BY <1>2, <1>3, <1>4, <1>5, <1>6, <1>7, <1>8, <1>9 DEF Next, Authenticate

----------------------------------------------------------------------------
(* The handlers, while nothing is being authenticated.                     *)

(* Nothing is busy, so the connections know nothing that could be wrong.   *)
LEMMA AdminIdle ==
    ASSUME LoadTypes, StoreTypes, HandlerInv, StreamsRelay, Quiet, Administrate
    PROVE  /\ Exclusive' /\ KnowsInv' /\ todo # <<>> /\ UNCHANGED <<presents, about, overlapped>>
           /\ active' \subseteq active
<1>1. todo # <<>> /\ UNCHANGED <<presents, about, overlapped>> /\ active' \subseteq active
  BY DEF Administrate, WriteStore, FindUsers, HandlerFails, Disconnect, disconnect,
         invalidateAll, invalidateToken, NextStep, connVars, streamVars
<1>2. \A d \in Conns : ~Busy(d)
  BY <1>1 DEF Quiet, Exclusive
<1>3. \A d \in Conns : step'[d] \in {step[d], "ended"}
  BY DEF Administrate, WriteStore, FindUsers, HandlerFails, Disconnect, disconnect,
         invalidateAll, invalidateToken, connVars
<1>4. \A d \in Conns : ~Busy(d)'
  BY <1>2, <1>3 DEF Busy
<1> QED BY <1>1, <1>4 DEF Exclusive, KnowsInv, Knows

LEMMA WriteQuiet ==
    ASSUME LoadTypes, StoreTypes, HandlerInv, StreamsRelay, Quiet, WriteStore
    PROVE  DeviceCacheInv' /\ TokenCacheInv' /\ StreamInv'
<1>1. /\ UNCHANGED <<byDevice, byToken, byTokenID, active, presents, about, cutShort>>
      /\ todo \in Left
  BY DEF WriteStore, cacheVars, connVars, streamVars, HandlerInv
<1>2. DeviceCacheInv /\ TokenCacheInv /\ StreamInv
  BY DEF Quiet
<1>3. CASE NextStep("setDisabled") /\ UNCHANGED tok
  <2>1. todo \in ClientLeft /\ todo' = DropLeft
    BY <1>1, <1>3, HandlerSteps
  <2> QED BY <1>1, <1>2, <1>3, <2>1, StagesDiffer DEF DeviceCacheInv, TokenCacheInv, StreamInv,
                                                      Live, Trusted
<1>4. CASE NextStep("setEnabled") /\ row' = [row EXCEPT !.disabled = FALSE] /\ UNCHANGED tok
  <2>1. todo \in ClientLeft /\ todo' = LastAll
    BY <1>1, <1>4, HandlerSteps
  <2>2. DeviceCacheInv' /\ TokenCacheInv'
    BY <1>1, <1>2, <1>4, <2>1, StagesDiffer DEF DeviceCacheInv, TokenCacheInv, Live, Trusted
  <2>3. row \in Rows /\ row' # None /\ row'.token = row.token /\ row'.disabled = FALSE
    <3>1. row \in Rows
      BY <2>1 DEF HandlerInv, StoreTypes
    <3>2. row' \in Rows /\ row'.token = row.token /\ row'.disabled = FALSE
      BY <1>4, <3>1 DEF Rows
    <3> QED BY <3>1, <3>2, RowAssumption
  <2>4. StreamInv'
    BY <1>1, <1>2, <1>4, <2>1, <2>3, StagesDiffer DEF StreamInv, Admissible, Trusted
  <2> QED BY <2>2, <2>4
<1>5. CASE NextStep("bindToken") /\ UNCHANGED tok
  <2>1. todo = BindLeft /\ todo' = DropLeft
    BY <1>1, <1>5, HandlerSteps
  <2> QED BY <1>1, <1>2, <1>5, <2>1, StagesDiffer DEF DeviceCacheInv, TokenCacheInv, StreamInv,
                                                      Live, Trusted
<1>6. CASE NextStep("disableToken") /\ tok' = [tok EXCEPT ![about] = "disabled"] /\ UNCHANGED row
  <2>1. /\ todo \in TokenStart /\ todo' \in UsersLeft
        /\ about \in Tokens /\ tok[about] \in {"enabled", "disabled"}
    BY <1>1, <1>6, HandlerSteps DEF HandlerInv
  <2>2. /\ \A t \in Tokens \ {about} : tok'[t] = tok[t]
        /\ \A t \in Tokens : tok[t] = "absent" => tok'[t] = "absent"
    BY <1>6, <2>1 DEF StoreTypes
  <2>3. DeviceCacheInv'
    BY <1>1, <1>2, <1>6, <2>1, <2>2, StagesDiffer DEF DeviceCacheInv, Accurate, StoreTypes, Rows
  <2>4. TokenCacheInv'
    BY <1>1, <1>2, <2>1, <2>2, StagesDiffer DEF TokenCacheInv, Live, Trusted
  <2>5. StreamInv'
    BY <1>1, <1>2, <1>6, <2>1, <2>2, StagesDiffer DEF StreamInv, Admissible, Trusted,
                                                      StoreTypes, Rows
  <2> QED BY <2>3, <2>4, <2>5
<1>7. CASE NextStep("enableToken") /\ tok' = [tok EXCEPT ![about] = "enabled"] /\ UNCHANGED row
  <2>1. /\ \/ todo \in TokenStart /\ todo' = LastToken
           \/ todo = StartReset /\ todo' = BindLeft
        /\ about \in Tokens /\ tok[about] \in {"fresh", "enabled", "disabled"}
    BY <1>1, <1>7, HandlerSteps DEF HandlerInv
  <2>2. /\ \A t \in Tokens \ {about} : tok'[t] = tok[t]
        /\ \A t \in Tokens : /\ tok[t] = "absent" => tok'[t] = "absent"
                             /\ tok[t] = "enabled" => tok'[t] = "enabled"
        /\ tok'[about] = "enabled"
    BY <1>7, <2>1 DEF StoreTypes
  <2>3. DeviceCacheInv'
    BY <1>1, <1>2, <1>7, <2>1, <2>2, StagesDiffer DEF DeviceCacheInv, Accurate, StoreTypes, Rows
  <2>4. TokenCacheInv'
    BY <1>1, <1>2, <2>1, <2>2, StagesDiffer DEF TokenCacheInv, Live, Trusted
  <2>5. StreamInv'
    BY <1>1, <1>2, <1>7, <2>1, <2>2, StagesDiffer DEF StreamInv, Admissible, Trusted,
                                                      StoreTypes, Rows
  <2> QED BY <2>3, <2>4, <2>5
<1>8. CASE NextStep("deleteClient") /\ UNCHANGED tok
  <2>1. todo = LastDelete /\ todo' = <<>>
    BY <1>1, <1>8, HandlerSteps
  <2>2. byDevice = None /\ active = {}
    BY <1>2, <2>1 DEF DeviceCacheInv, StreamInv
  <2> QED BY <1>1, <1>2, <1>8, <2>1, <2>2, StagesDiffer DEF DeviceCacheInv, TokenCacheInv,
                                                            StreamInv, Live, Trusted
<1>9. CASE /\ NextStep("deleteToken") /\ tok' = [tok EXCEPT ![about] = "absent"]
           /\ row' = IF row # None /\ row.token = about THEN None ELSE row
  <2>1. /\ todo = DeleteTokenLeft /\ todo' = LastToken /\ about \in Tokens
        /\ tok[about] = "disabled"
    BY <1>1, <1>9, HandlerSteps DEF HandlerInv
  <2>2. /\ \A t \in Tokens \ {about} : tok'[t] = tok[t]
        /\ \A t \in Tokens : tok[t] = "absent" => tok'[t] = "absent"
        /\ tok'[about] = "absent"
    BY <1>9, <2>1 DEF StoreTypes
  <2>3. DeviceCacheInv'
    <3>1. byDevice # None => Accurate(byDevice)
      BY <1>2, <2>1, StagesDiffer DEF DeviceCacheInv
    <3>2. byDevice # None => byDevice.token \in Tokens
      BY DEF StoreTypes, Rows
    <3>3. byDevice # None => Accurate(byDevice)'
      BY <1>1, <1>9, <2>2, <3>1, <3>2 DEF Accurate
    <3> QED BY <1>1, <2>1, <3>3, StagesDiffer DEF DeviceCacheInv
  <2>4. TokenCacheInv'
    BY <1>1, <1>2, <2>1, <2>2, StagesDiffer DEF TokenCacheInv, Live, Trusted
  <2>5. StreamInv'
    <3>1. \A d \in active : Admissible(presents[d])
      BY <1>2, <2>1, StagesDiffer DEF StreamInv
    <3>2. \A d \in active : row # None /\ row.token = presents[d] /\ presents[d] \in Tokens \ {about}
      BY <1>2, <2>1, <3>1 DEF StreamInv, Admissible, StoreTypes, Rows
    <3>3. \A d \in active : Admissible(presents[d])'
      BY <1>1, <1>9, <2>2, <3>1, <3>2 DEF Admissible, Trusted
    <3> QED BY <1>1, <2>1, <3>2, <3>3, StagesDiffer DEF StreamInv
  <2> QED BY <2>3, <2>4, <2>5
<1> QED BY <1>3, <1>4, <1>5, <1>6, <1>7, <1>8, <1>9 DEF WriteStore

LEMMA DisconnectQuiet ==
    ASSUME LoadTypes, StoreTypes, HandlerInv, StreamsRelay, Quiet, Disconnect
    PROVE  DeviceCacheInv' /\ TokenCacheInv' /\ StreamInv'
<1>1. /\ UNCHANGED <<row, tok, cutShort, byDevice, byToken, byTokenID, presents, about>>
      /\ todo \in Left
  BY DEF Disconnect, storeVars, cacheVars, HandlerInv
<1>2. DeviceCacheInv /\ TokenCacheInv /\ StreamInv
  BY DEF Quiet
<1>3. CASE NextStep("disconnect") /\ active' = {}
  <2>1. \/ todo = DropLeft /\ todo' = LastAll
        \/ todo = StartDelete /\ todo' \in DeleteLeft
    BY <1>1, <1>3, HandlerSteps
  <2> QED BY <1>1, <1>2, <1>3, <2>1, StagesDiffer DEF DeviceCacheInv, TokenCacheInv, StreamInv,
                                                      Live, Trusted
<1>4. CASE /\ NextStep("disconnectUsers")
           /\ IF row # None /\ row.token = about THEN active' = {} ELSE UNCHANGED active
  <2>1. /\ todo \in UsersLeft /\ todo' \in {DeleteTokenLeft, LastToken}
        /\ about \in Tokens
    BY <1>1, <1>4, HandlerSteps DEF HandlerInv
  <2>2. DeviceCacheInv' /\ TokenCacheInv'
    BY <1>1, <1>2, <2>1, StagesDiffer DEF DeviceCacheInv, TokenCacheInv, Accurate, Live, Trusted
  <2>3. \A d \in active' : Admissible(presents[d])'
    BY <1>1, <1>2, <1>4, <2>1 DEF StreamInv, Admissible, Trusted
  <2>4. \A d \in active' : presents[d] # about
    BY <1>2, <1>4, <2>1 DEF StreamInv
  <2> QED BY <1>1, <2>1, <2>2, <2>3, <2>4, StagesDiffer DEF StreamInv
<1> QED BY <1>3, <1>4 DEF Disconnect, disconnect

(* A handler that fails leaves behind only the token it was disabling.     *)
LEMMA FailQuiet ==
    ASSUME LoadTypes, StoreTypes, HandlerInv, StreamsRelay, Quiet, FindUsers \/ HandlerFails
    PROVE  DeviceCacheInv' /\ TokenCacheInv' /\ StreamInv'
<1>1. /\ UNCHANGED <<row, tok, byDevice, byToken, byTokenID, presents, about, active>>
      /\ todo \in Left
  BY DEF FindUsers, HandlerFails, storeVars, cacheVars, connVars, streamVars, HandlerInv
<1>2. DeviceCacheInv /\ TokenCacheInv /\ StreamInv
  BY DEF Quiet
<1>3. CASE FindUsers
  <2>1. todo \in UsersLeft /\ todo' \in UsersLeft /\ cutShort' = cutShort
    BY <1>1, <1>3, HandlerSteps DEF FindUsers
  <2> QED BY <1>1, <1>2, <2>1, StagesDiffer DEF DeviceCacheInv, TokenCacheInv, StreamInv,
                                                Accurate, Live, Trusted
<1>4. CASE HandlerFails
  <2>1. /\ todo' = <<>>
        /\ \/ todo \in UsersLeft \cup {DeleteTokenLeft} /\ cutShort' = cutShort \cup {about}
           \/ todo \in {BindLeft, LastDelete} /\ cutShort' = cutShort
    BY <1>1, <1>4, FailSteps
  <2>2. DeviceCacheInv'
    BY <1>1, <1>2, <2>1, StagesDiffer DEF DeviceCacheInv, Accurate
  <2>3. TokenCacheInv'
    <3>1. todo \in UsersLeft \cup {DeleteTokenLeft} => tok[about] = "disabled"
      BY DEF HandlerInv
    <3> QED BY <1>1, <1>2, <2>1, <3>1, StagesDiffer DEF TokenCacheInv, Live, Trusted
  <2>4. \A d \in active : Admissible(presents[d])'
    BY <1>1, <1>2, <2>1, StagesDiffer DEF StreamInv, Admissible, Trusted
  <2> QED BY <1>1, <2>1, <2>2, <2>3, <2>4, StagesDiffer DEF StreamInv
<1> QED BY <1>3, <1>4

LEMMA InvalidateQuiet ==
    ASSUME LoadTypes, StoreTypes, HandlerInv, StreamsRelay, Quiet,
           invalidateAll \/ invalidateToken
    PROVE  DeviceCacheInv' /\ TokenCacheInv' /\ StreamInv'
<1>1. UNCHANGED <<row, tok, active, presents, about>> /\ todo \in Left
  BY DEF invalidateAll, invalidateToken, storeVars, streamVars, connVars, HandlerInv
<1>2. DeviceCacheInv /\ TokenCacheInv /\ StreamInv
  BY DEF Quiet
<1>3. CASE invalidateAll
  <2>1. /\ byDevice' = None /\ byToken' = {} /\ byTokenID' = [t \in Tokens |-> "none"]
        /\ cutShort' = cutShort
        /\ \/ todo = LastAll /\ todo' = <<>>
           \/ todo \in DeleteLeft /\ todo' \in DeleteLeft \cup {LastDelete}
    BY <1>1, <1>3, HandlerSteps DEF invalidateAll
  <2>2. DeviceCacheInv' /\ TokenCacheInv'
    BY <2>1 DEF DeviceCacheInv, TokenCacheInv, Live, Trusted
  <2>3. StreamInv'
    BY <1>1, <1>2, <2>1, StagesDiffer DEF StreamInv, Admissible, Trusted
  <2> QED BY <2>2, <2>3
<1>4. CASE invalidateToken
  <2>1. /\ byDevice' = byDevice /\ byToken' = byToken \ {about}
        /\ byTokenID' = [byTokenID EXCEPT ![about] = "none"]
        /\ cutShort' = cutShort \ {about}
        /\ todo = LastToken /\ todo' = <<>> /\ about \in Tokens
    BY <1>1, <1>4, HandlerSteps DEF invalidateToken, HandlerInv
  <2>2. DeviceCacheInv'
    BY <1>1, <1>2, <2>1, StagesDiffer DEF DeviceCacheInv, Accurate
  <2>3. TokenCacheInv'
    BY <1>1, <1>2, <2>1 DEF TokenCacheInv, StoreTypes, Live, Trusted
  <2>4. StreamInv'
    BY <1>1, <1>2, <2>1, StagesDiffer DEF StreamInv, Admissible, Trusted
  <2> QED BY <2>2, <2>3, <2>4
<1> QED BY <1>3, <1>4

(* A handler that starts finds the streams and the cache true.             *)
LEMMA StartQuiet ==
    ASSUME LoadTypes, StoreTypes, HandlerInv, Quiet, NEW op \in Operations, NEW t \in Tokens,
           startOperation(op, t), ~overlapped'
    PROVE  Quiet'
<1>1. /\ todo = <<>>
      /\ UNCHANGED <<row, tok, cutShort, byDevice, byToken, byTokenID, active, presents, step,
                     found, phase, kind>>
      /\ \A d \in Conns : ~Busy(d)
  BY DEF startOperation, storeVars, cacheVars, connVars, streamVars, StoreTypes
<1>2. todo' \in ClientLeft \cup TokenStart \cup {StartDelete, StartReset}
  BY StartHandler
<1>3. \A d \in Conns : ~Busy(d)'
  BY <1>1 DEF Busy
<1>4. Exclusive' /\ KnowsInv'
  BY <1>3 DEF Exclusive, KnowsInv, Knows
<1>5. DeviceCacheInv' /\ TokenCacheInv'
  BY <1>1, <1>2, QuietFacts, StagesDiffer DEF DeviceCacheInv, TokenCacheInv, Accurate, Live,
                                              Trusted
<1>6. StreamInv'
  <2>1. \A d \in active : Admissible(presents[d])
    BY <1>1, QuietFacts
  <2>2. \A d \in active' : Admissible(presents[d])'
    BY <1>1, <2>1 DEF Admissible, Trusted
  <2> QED BY <1>1, <1>2, <2>2, StagesDiffer DEF StreamInv
<1> QED BY <1>4, <1>5, <1>6 DEF Quiet

LEMMA QuietNext ==
    ASSUME IInv, StreamsRelay, StoreTypes, HandlerInv, PresentedExists, FoundInv,
           ~overlapped => Quiet, [Next]_vars, ~overlapped'
    PROVE  Quiet'
<1>1. LoadTypes /\ KeyInv
  BY DEF IInv
<1>2. ASSUME NEW d \in Conns, Authenticate(d) PROVE Quiet'
  <2>1. Quiet /\ todo = <<>>
    <3>1. Quiet
      BY <1>2, ConnFrame
    <3>2. Busy(d)
      BY <1>2 DEF Authenticate, CacheHit, CacheMiss, beginLoad, LoadDone, ReadStore,
                  InsertEntry, finishLoad, generationFor, register, Busy
    <3> QED BY <3>1, <3>2 DEF Quiet, Exclusive
  <2> QED BY <1>1, <1>2, <2>1, HitQuiet, MissQuiet, RestQuiet, ReadQuiet, InsertQuiet,
             FinishQuiet DEF Authenticate
<1>3. ASSUME NEW d \in Conns, StreamEnds(d) PROVE Quiet'
  BY <1>1, <1>3, ConnFrame, EndsQuiet
<1>4. ASSUME NEW d \in Conns, NEW k \in {"tcp", "quic"}, NEW t \in Tokens,
             beginHandshake(d, k, t)
      PROVE  Quiet'
  <2>1. ~overlapped /\ todo = <<>>
    BY <1>4 DEF beginHandshake, StoreTypes
  <2> QED BY <1>1, <1>4, <2>1, HandshakeQuiet
<1>5. ASSUME NEW op \in Operations, NEW t \in Tokens, startOperation(op, t)
      PROVE  Quiet'
  <2>1. ~overlapped
    BY <1>5 DEF startOperation, StoreTypes
  <2> QED BY <1>1, <1>5, <2>1, StartQuiet
<1>6. CASE Administrate
  <2>1. Quiet
    BY <1>6 DEF Administrate, WriteStore, FindUsers, HandlerFails, Disconnect, invalidateAll,
                invalidateToken
  <2>2. Exclusive' /\ KnowsInv'
    BY <1>1, <1>6, <2>1, AdminIdle
  <2>3. DeviceCacheInv' /\ TokenCacheInv' /\ StreamInv'
    BY <1>1, <1>6, <2>1, WriteQuiet, DisconnectQuiet, FailQuiet, InvalidateQuiet DEF Administrate
  <2> QED BY <2>2, <2>3 DEF Quiet
<1>7. CASE UNCHANGED vars
  <2>1. Quiet
    BY <1>7 DEF vars
  <2>2. Exclusive' /\ DeviceCacheInv' /\ TokenCacheInv' /\ StreamInv'
    BY <1>7, <2>1 DEF vars, Quiet, Exclusive, DeviceCacheInv, TokenCacheInv, StreamInv, Accurate,
                      Admissible, Live, Trusted, Busy
  <2>3. KnowsInv'
    BY <1>7, <2>1 DEF vars, Quiet, KnowsInv, Knows, Accurate, Admissible, Live, Trusted, Busy
  <2> QED BY <2>2, <2>3 DEF Quiet
<1> QED BY <1>2, <1>3, <1>4, <1>5, <1>6, <1>7 DEF Next

LEMMA RNext ==
    ASSUME IInv, StreamsRelay, RInv, [Next]_vars
    PROVE  RInv'
<1>1. LoadTypes /\ KeyInv
  BY DEF IInv
<1>2. StoreTypes'
  <2>1. CASE UNCHANGED vars
    BY <2>1 DEF vars, RInv, StoreTypes
  <2> QED BY <1>1, <2>1, ConnTypes, HandshakeTypes, StartTypes, AdminTypes DEF RInv, Next
<1>3. HandlerInv'
  <2>1. ASSUME UNCHANGED <<row, tok, todo, about>> PROVE HandlerInv'
    BY <2>1 DEF RInv, HandlerInv
  <2>2. ASSUME NEW d \in Conns, Authenticate(d) \/ StreamEnds(d) PROVE HandlerInv'
    BY <2>1, <2>2, ConnFrame
  <2>3. ASSUME NEW d \in Conns, NEW k \in {"tcp", "quic"}, NEW t \in Tokens,
               beginHandshake(d, k, t)
        PROVE  HandlerInv'
    BY <2>1, <2>3 DEF beginHandshake, storeVars, adminVars
  <2>4. CASE UNCHANGED vars
    BY <2>1, <2>4 DEF vars
  <2> QED BY <2>2, <2>3, <2>4, StartInv, AdminInv DEF RInv, Next
<1>4. PresentedExists' /\ FoundInv'
  BY <1>1, PresentedNext, FoundNext DEF RInv
<1>5. ~overlapped' => Quiet'
  BY QuietNext DEF RInv
<1> QED BY <1>2, <1>3, <1>4, <1>5 DEF RInv

(* Revocation is complete: whatever series of handlers ran and wherever    *)
(* any of them failed, once the last one returned and none overlapped an   *)
(* authentication, no stream relays for a credential that was revoked and  *)
(* nothing cached would admit one; only a token whose disabling or         *)
(* deletion was answered with an error is not counted as revoked.          *)
THEOREM RevocationIsComplete == Spec => []RevocationComplete
<1>1. Init => RInv
  BY RInit
<1>2. IInv /\ StreamsRelay /\ RInv /\ [Next]_vars => RInv'
  BY RNext
<1>3. RInv => RevocationComplete
  <2> SUFFICES ASSUME RInv, todo = <<>>, ~overlapped
               PROVE  /\ \A d \in active : Admissible(presents[d])
                      /\ \A t \in Tokens :
                            /\ byDevice # None /\ ~byDevice.disabled /\ byDevice.token = t
                            /\ t \in byToken \/ byTokenID[t] = "enabled"
                            => Admissible(t)
    BY DEF RevocationComplete
  <2>1. Quiet
    BY DEF RInv
  <2>2. ASSUME NEW t \in Tokens, byDevice # None, ~byDevice.disabled, byDevice.token = t,
               t \in byToken \/ byTokenID[t] = "enabled"
        PROVE  Admissible(t)
    <3>1. Accurate(byDevice) /\ Live(t)
      BY <2>1, <2>2, QuietFacts
    <3> QED BY <2>2, <3>1 DEF Accurate, Admissible, Live, Trusted
  <2> QED BY <2>1, <2>2, QuietFacts
<1> QED BY <1>1, <1>2, <1>3, Invariance, PTL DEF Spec

(* The rest of the types: the counters and the flag of a second close.     *)
CountTypes == panic \in BOOLEAN /\ gen \in [Conns -> Nat] /\ generation \in Nat /\ ops \in Nat

LEMMA CountNext ==
    ASSUME CountTypes, [Next]_vars
    PROVE  CountTypes'
<1>1. ASSUME UNCHANGED <<panic, gen, generation, ops>> PROVE CountTypes'
  BY <1>1 DEF CountTypes
<1>2. ASSUME NEW d \in Conns, Authenticate(d) \/ StreamEnds(d) PROVE CountTypes'
  <2>1. CASE finishLoad(d)
    <3>1. UNCHANGED <<gen, generation, ops>>
      BY <2>1 DEF finishLoad, streamVars, adminVars
    <3>2. panic' \in BOOLEAN
      BY <2>1 DEF finishLoad, CountTypes, loadVars
    <3> QED BY <3>1, <3>2 DEF CountTypes
  <2>2. CASE generationFor(d) \/ register(d)
    <3>1. UNCHANGED <<panic, generation, ops>>
      BY <2>2 DEF generationFor, register, loadVars, streamVars, adminVars
    <3>2. gen' \in [Conns -> Nat]
      BY <2>2 DEF generationFor, register, CountTypes
    <3> QED BY <3>1, <3>2 DEF CountTypes
  <2>3. CASE CacheHit(d) \/ CacheMiss(d) \/ beginLoad(d) \/ LoadDone(d) \/ ReadStore(d)
             \/ InsertEntry(d) \/ StreamEnds(d)
    BY <1>1, <2>3 DEF CacheHit, CacheMiss, beginLoad, LoadDone, ReadStore, InsertEntry,
                      StreamEnds, loadVars, streamVars, adminVars
  <2> QED BY <1>2, <2>1, <2>2, <2>3 DEF Authenticate
<1>3. ASSUME NEW d \in Conns, NEW k \in {"tcp", "quic"}, NEW t \in Tokens,
             beginHandshake(d, k, t)
      PROVE  CountTypes'
  BY <1>1, <1>3 DEF beginHandshake, loadVars, streamVars, adminVars
<1>4. ASSUME NEW op \in Operations, NEW t \in Tokens, startOperation(op, t)
      PROVE  CountTypes'
  <2>1. UNCHANGED <<panic, gen, generation>> /\ ops' = ops + 1
    BY <1>4 DEF startOperation, loadVars, connVars, streamVars
  <2> QED BY <2>1 DEF CountTypes
<1>5. CASE Administrate
  <2>1. UNCHANGED <<panic, gen, ops>> /\ generation' \in {generation, generation + 1}
    BY <1>5 DEF Administrate, WriteStore, FindUsers, HandlerFails, Disconnect, disconnect,
                invalidateAll, invalidateToken, loadVars, connVars, streamVars
  <2> QED BY <2>1 DEF CountTypes
<1>6. CASE UNCHANGED vars
  BY <1>1, <1>6 DEF vars
<1> QED BY <1>2, <1>3, <1>4, <1>5, <1>6 DEF Next

(* Every variable keeps its type.                                          *)
THEOREM TypeCorrect == Spec => []TypeOK
<1>1. Init => RInv /\ CountTypes
  <2>1. Init => panic = FALSE
    BY DEF Init
  <2>2. Init => ops \in Nat /\ gen \in [Conns -> Nat] /\ generation \in Nat
    BY DEF Init
  <2> QED BY <2>1, <2>2, RInit DEF CountTypes
<1>2. IInv /\ StreamsRelay /\ RInv /\ CountTypes /\ [Next]_vars => (RInv /\ CountTypes)'
  BY RNext, CountNext
<1>3. IInv /\ StreamsRelay /\ RInv /\ CountTypes => TypeOK
  BY DEF IInv, StreamsRelay, RInv, CountTypes, LoadTypes, StoreTypes, TypeOK, Steps, Words
<1> QED BY <1>1, <1>2, <1>3, Invariance, PTL DEF Spec
=============================================================================
