---------------------------- MODULE BrokerProofs ----------------------------
(***************************************************************************)
(* Proofs about Broker, for any number of agents, visitors, connections    *)
(* and disconnects.                                                        *)
(***************************************************************************)
EXTENDS Broker, SequenceTheorems, TLAPS

Stages == Claimed \cup {"new", "data", "worker", "claiming", "adding", "idle",
                        "assigned", "fallback", "ended"}

(* A connection has its client from the dial on, and its request from the  *)
(* dial or the assignment on; a claimed request is marked paired.          *)
ConnInv ==
    \A d \in Conns :
        /\ stage[d] # "new" => client[d] \in Clients
        /\ stage[d] \in Claimed \cup {"data", "claiming", "assigned", "fallback"} =>
              req[d] \in Requests
        /\ stage[d] \in Claimed => req[d] \in paired

(* A visitor that is not registered yet was not seen by anybody; one that  *)
(* is being failed was taken out of the pending map and never claimed.     *)
VisitorInv ==
    /\ \A r \in Requests :
          waiter[r] = "new" => /\ r \notin pend /\ r \notin paired /\ done[r] = "none"
                               /\ r \notin closedVisitor /\ r \notin closingVisitor
    /\ \A f \in failing :
          waiter[f.req] # "new" /\ f.req \notin pend /\ f.req \notin paired

(* The registry lists streams that are being relayed or just ended.        *)
RegistryInv ==
    \A c \in Clients : \A d \in active[c] : stage[d] \in {"relaying", "relayed"}

(* What the streams, the visitors and the registries rely on.              *)
Streams == ConnInv /\ OneStreamPerVisitor /\ DoneReachesWaiter
Visitors == VisitorInv /\ PendingIsAlive
Pool == RegistryInv /\ ActiveIsCurrent /\ IdleIsExclusive

(* Where a stream can be found to be closed, and which sockets are closed  *)
(* already.                                                                *)
Reached == \A d \in Conns :
    stage[d] = "relaying" => d \in active[client[d]] \cup closedData \cup closingData

Sockets ==
    /\ Reached /\ NoSocketLeak
    /\ \A r \in Requests : done[r] # "none" => r \in closedVisitor
    /\ \A d \in Conns :
          /\ stage[d] \in {"relayed", "finished", "rejected", "fallback"} => d \in closedData
          /\ stage[d] \in {"relayed", "finished", "rejected"} => req[d] \in closedVisitor

IInv == TypeOK /\ Streams /\ Visitors /\ Pool /\ Sockets

----------------------------------------------------------------------------
(* The abbreviations for tuples of variables are used throughout.          *)
USE BrokerAssumption DEF visitorVars, connVars, poolVars, socketVars, callVars

(* A worker taken from the end of the idle list: what is left are the      *)
(* others, in their order.                                                 *)
LEMMA LastFacts ==
    ASSUME NEW S, NEW s \in Seq(S), s # <<>>
    PROVE  /\ LastOf(s) \in S /\ AllButLast(s) \in Seq(S)
           /\ Len(s) \in 1 .. Len(s) /\ LastOf(s) = s[Len(s)]
           /\ Len(AllButLast(s)) = Len(s) - 1
           /\ \A i \in 1 .. Len(AllButLast(s)) : i \in 1 .. Len(s) /\ AllButLast(s)[i] = s[i]
<1> DEFINE n == Len(s)
<1>1. n \in Nat /\ n # 0 /\ \A i \in 1 .. n : s[i] \in S
  OBVIOUS
<1> HIDE DEF n
<1>2. n \in 1 .. n /\ n - 1 \in Int /\ \A i \in 1 .. n - 1 : i \in 1 .. n /\ s[i] \in S
  BY <1>1
<1>3. /\ SubSeq(s, 1, n - 1) \in Seq(S)
      /\ Len(SubSeq(s, 1, n - 1)) = IF 1 <= n - 1 THEN n - 1 - 1 + 1 ELSE 0
      /\ \A i \in 1 .. n - 1 - 1 + 1 : SubSeq(s, 1, n - 1)[i] = s[1 + i - 1]
  BY <1>2, SubSeqProperties
<1>4. Len(SubSeq(s, 1, n - 1)) = n - 1
  <2>1. n = 1 \/ 1 <= n - 1
    BY <1>1
  <2> QED BY <1>1, <1>3, <2>1
<1>5. ASSUME NEW i \in 1 .. n - 1
      PROVE  SubSeq(s, 1, n - 1)[i] = s[i]
  <2>1. i \in 1 .. n - 1 - 1 + 1 /\ 1 + i - 1 = i
    BY <1>1
  <2> QED BY <1>3, <2>1
<1> QED BY <1>1, <1>2, <1>3, <1>4, <1>5 DEF n, LastOf, AllButLast

LEMMA IdleFacts ==
    ASSUME TypeOK, NEW c \in Clients
    PROVE  /\ idle[c] \in Seq(Conns) /\ Len(idle[c]) \in Nat
           /\ \A i \in 1 .. Len(idle[c]) : idle[c][i] \in Conns
<1>1. idle[c] \in Seq(Conns)
  BY DEF TypeOK
<1> QED BY <1>1

(* Taking the last worker leaves a list of workers that wait for nobody.   *)
LEMMA TakeIdle ==
    ASSUME TypeOK, IdleIsExclusive, NEW c \in Clients, idle[c] # <<>>,
           idle' = [idle EXCEPT ![c] = AllButLast(idle[c])], client' = client,
           \A e \in Conns \ {LastOf(idle[c])} : stage[e] = "idle" => stage'[e] = "idle"
    PROVE  IdleIsExclusive'
<1> SUFFICES ASSUME NEW b \in Clients, NEW i \in 1 .. Len(idle'[b])
             PROVE  /\ stage'[idle'[b][i]] = "idle" /\ client[idle'[b][i]] = b
                    /\ \A j \in 1 .. Len(idle'[b]) : idle'[b][i] = idle'[b][j] => i = j
  BY DEF IdleIsExclusive
<1> DEFINE w == LastOf(idle[c])
<1>1. /\ Len(idle[c]) \in 1 .. Len(idle[c]) /\ w = idle[c][Len(idle[c])]
      /\ client[w] = c /\ stage[w] = "idle"
  <2>1. Len(idle[c]) \in 1 .. Len(idle[c]) /\ w = idle[c][Len(idle[c])]
    <3>1. idle[c] \in Seq(Conns)
      BY IdleFacts
    <3> QED BY <3>1, LastFacts
  <2> QED BY <2>1 DEF IdleIsExclusive
<1>2. idle'[b] = IF b = c THEN AllButLast(idle[c]) ELSE idle[b]
  BY DEF TypeOK
<1>3. \A j \in 1 .. Len(idle'[b]) : /\ j \in 1 .. Len(idle[b]) /\ idle'[b][j] = idle[b][j]
                                    /\ b = c => j # Len(idle[c])
  <2>1. CASE b # c
    BY <1>2, <2>1
  <2>2. CASE b = c
    <3>1. idle[c] \in Seq(Conns) /\ Len(idle[c]) \in Nat
      BY IdleFacts
    <3>2. /\ Len(AllButLast(idle[c])) = Len(idle[c]) - 1
          /\ \A j \in 1 .. Len(AllButLast(idle[c])) :
                j \in 1 .. Len(idle[c]) /\ AllButLast(idle[c])[j] = idle[c][j]
      BY <3>1, LastFacts
    <3>3. idle'[b] = AllButLast(idle[c])
      BY <1>2, <2>2
    <3> QED BY <2>2, <3>1, <3>2, <3>3
  <2> QED BY <2>1, <2>2
<1>4. /\ idle[b][i] \in Conns /\ stage[idle[b][i]] = "idle" /\ client[idle[b][i]] = b
      /\ \A j \in 1 .. Len(idle[b]) : idle[b][i] = idle[b][j] => i = j
  BY <1>3, IdleFacts DEF IdleIsExclusive
<1>5. idle[b][i] # w
  BY <1>1, <1>3, <1>4
<1> HIDE DEF w
<1>6. stage'[idle[b][i]] = "idle"
  BY <1>4, <1>5 DEF w
<1> QED BY <1>3, <1>4, <1>6

(* The worker at the end of an idle list.                                  *)
LEMMA LastIdle ==
    ASSUME TypeOK, IdleIsExclusive, NEW c \in Clients, idle[c] # <<>>
    PROVE  /\ LastOf(idle[c]) \in Conns /\ AllButLast(idle[c]) \in Seq(Conns)
           /\ stage[LastOf(idle[c])] = "idle" /\ client[LastOf(idle[c])] = c
<1>1. idle[c] \in Seq(Conns)
  BY IdleFacts
<1>2. /\ LastOf(idle[c]) \in Conns /\ AllButLast(idle[c]) \in Seq(Conns)
      /\ Len(idle[c]) \in 1 .. Len(idle[c]) /\ LastOf(idle[c]) = idle[c][Len(idle[c])]
  BY <1>1, LastFacts
<1> QED BY <1>2 DEF IdleIsExclusive

(* A connection that waits nowhere yet is added to the pool of its client. *)
LEMMA AppendIdle ==
    ASSUME TypeOK, IdleIsExclusive, NEW d \in Conns, client[d] \in Clients,
           stage[d] # "idle", client' = client, stage' = [stage EXCEPT ![d] = "idle"],
           idle' = [idle EXCEPT ![client[d]] = Append(idle[client[d]], d)]
    PROVE  IdleIsExclusive'
<1> DEFINE c == client[d]
<1> SUFFICES ASSUME NEW b \in Clients, NEW i \in 1 .. Len(idle'[b])
             PROVE  /\ stage'[idle'[b][i]] = "idle" /\ client[idle'[b][i]] = b
                    /\ \A j \in 1 .. Len(idle'[b]) : idle'[b][i] = idle'[b][j] => i = j
  BY DEF IdleIsExclusive
<1>1. idle[b] \in Seq(Conns) /\ Len(idle[b]) \in Nat
  BY IdleFacts
<1>2. \A j \in 1 .. Len(idle[b]) : /\ idle[b][j] \in Conns \ {d} /\ stage[idle[b][j]] = "idle"
                                   /\ client[idle[b][j]] = b
                                   /\ \A k \in 1 .. Len(idle[b]) : idle[b][j] = idle[b][k] => j = k
  BY IdleFacts DEF IdleIsExclusive
<1>3. CASE b # c
  <2>1. idle'[b] = idle[b]
    BY <1>3 DEF TypeOK
  <2> QED BY <1>2, <2>1 DEF TypeOK
<1>4. CASE b = c
  <2>1. idle'[b] = Append(idle[b], d)
    BY <1>4 DEF TypeOK
  <2>2. /\ Len(idle'[b]) = Len(idle[b]) + 1 /\ idle'[b][Len(idle[b]) + 1] = d
        /\ \A j \in 1 .. Len(idle[b]) : idle'[b][j] = idle[b][j]
    BY <1>1, <2>1
  <2>3. \A j \in 1 .. Len(idle'[b]) : j \in 1 .. Len(idle[b]) \/ j = Len(idle[b]) + 1
    BY <1>1, <2>2
  <2>4. \A e \in Conns \ {d} : stage'[e] = stage[e]
    BY DEF TypeOK
  <2>5. stage'[d] = "idle" /\ client[d] = b
    BY <1>4 DEF TypeOK
  <2> QED BY <1>2, <2>2, <2>3, <2>4, <2>5
<1> QED BY <1>3, <1>4

LEMMA InitInv == Init => IInv
<1> SUFFICES ASSUME Init PROVE IInv
  OBVIOUS
<1>1. TypeOK
  BY DEF Init, TypeOK, Claimed, Results
<1>2. Streams /\ Visitors
  BY DEF Init, Streams, ConnInv, OneStreamPerVisitor, DoneReachesWaiter, Visitors,
         VisitorInv, PendingIsAlive, Claimed
<1>3. Pool
  BY DEF Init, Pool, RegistryInv, ActiveIsCurrent, IdleIsExclusive
<1>4. Sockets
  BY DEF Init, Sockets, Reached, NoSocketLeak
<1> QED BY <1>1, <1>2, <1>3, <1>4 DEF IInv

LEMMA StutterInv ==
    ASSUME IInv, UNCHANGED vars
    PROVE  IInv'
BY DEF vars, IInv, TypeOK, Streams, ConnInv, OneStreamPerVisitor, DoneReachesWaiter,
       Visitors, VisitorInv, PendingIsAlive, Pool, RegistryInv, ActiveIsCurrent,
       IdleIsExclusive, Sockets, Reached, NoSocketLeak

----------------------------------------------------------------------------
(* One lemma per action, and in each one step per part of the invariant.   *)

LEMMA RegisterPendingInv ==
    ASSUME IInv, NEW r \in Requests, RegisterPending(r)
    PROVE  IInv'
<1> USE DEF IInv, TypeOK, Claimed
<1>1. TypeOK'
  BY DEF Results, RegisterPending
<1>2. Streams'
  BY DEF Streams, ConnInv, OneStreamPerVisitor, DoneReachesWaiter, Visitors,
     VisitorInv, PendingIsAlive, RegisterPending
<1>3. Visitors'
  BY DEF Streams, ConnInv, Visitors, VisitorInv, PendingIsAlive, Pool,
     RegistryInv, RegisterPending
<1>4. Pool'
  BY DEF Pool, RegistryInv, ActiveIsCurrent, IdleIsExclusive,
     RegisterPending
<1>5. Sockets'
  BY DEF Sockets, Reached, NoSocketLeak, Streams, ConnInv, RegisterPending
<1> QED BY <1>1, <1>2, <1>3, <1>4, <1>5

LEMMA LookUpPendingInv ==
    ASSUME IInv, NEW r \in Requests, LookUpPending(r)
    PROVE  IInv'
<1> USE DEF IInv, TypeOK, Claimed
<1>1. TypeOK'
  BY DEF Results, LookUpPending
<1>2. Streams'
  BY DEF Streams, ConnInv, OneStreamPerVisitor, DoneReachesWaiter, Visitors,
     VisitorInv, PendingIsAlive, LookUpPending
<1>3. Visitors'
  BY DEF Streams, ConnInv, Visitors, VisitorInv, PendingIsAlive, Pool,
     RegistryInv, LookUpPending
<1>4. Pool'
  BY DEF Pool, RegistryInv, ActiveIsCurrent, IdleIsExclusive, LookUpPending
<1>5. Sockets'
  BY DEF Sockets, Reached, NoSocketLeak, Streams, ConnInv, LookUpPending
<1> QED BY <1>1, <1>2, <1>3, <1>4, <1>5

LEMMA NoWorkerInv ==
    ASSUME IInv, NEW r \in Requests, NoWorker(r)
    PROVE  IInv'
<1> USE DEF IInv, TypeOK, Claimed
<1>1. TypeOK'
  BY DEF Results, NoWorker
<1>2. Streams'
  BY DEF Streams, ConnInv, OneStreamPerVisitor, DoneReachesWaiter, Visitors,
     VisitorInv, PendingIsAlive, NoWorker
<1>3. Visitors'
  BY DEF Streams, ConnInv, Visitors, VisitorInv, PendingIsAlive, Pool,
     RegistryInv, NoWorker
<1>4. Pool'
  BY DEF Pool, RegistryInv, ActiveIsCurrent, IdleIsExclusive, NoWorker
<1>5. Sockets'
  BY DEF Sockets, Reached, NoSocketLeak, Streams, ConnInv, NoWorker
<1> QED BY <1>1, <1>2, <1>3, <1>4, <1>5

LEMMA openRelayedDataPathInv ==
    ASSUME IInv, NEW r \in Requests, openRelayedDataPath(r)
    PROVE  IInv'
<1> USE DEF IInv, TypeOK, Claimed
<1>1. TypeOK'
  BY DEF Results, openRelayedDataPath
<1>2. Streams'
  BY DEF Streams, ConnInv, OneStreamPerVisitor, DoneReachesWaiter, Visitors,
     VisitorInv, PendingIsAlive, openRelayedDataPath
<1>3. Visitors'
  BY DEF Streams, ConnInv, Visitors, VisitorInv, PendingIsAlive, Pool,
     RegistryInv, openRelayedDataPath
<1>4. Pool'
  BY DEF Pool, RegistryInv, ActiveIsCurrent, IdleIsExclusive,
     openRelayedDataPath
<1>5. Sockets'
  BY DEF Sockets, Reached, NoSocketLeak, Streams, ConnInv,
     openRelayedDataPath
<1> QED BY <1>1, <1>2, <1>3, <1>4, <1>5

LEMMA WaitDoneInv ==
    ASSUME IInv, NEW r \in Requests, WaitDone(r)
    PROVE  IInv'
<1> USE DEF IInv, TypeOK, Claimed
<1>1. TypeOK'
  BY DEF Results, WaitDone, Return
<1>2. Streams'
  BY DEF Streams, ConnInv, OneStreamPerVisitor, DoneReachesWaiter, Visitors,
     VisitorInv, PendingIsAlive, WaitDone, Return
<1>3. Visitors'
  BY DEF Streams, ConnInv, Visitors, VisitorInv, PendingIsAlive, Pool,
     RegistryInv, WaitDone, Return
<1>4. Pool'
  BY DEF Pool, RegistryInv, ActiveIsCurrent, IdleIsExclusive, WaitDone,
     Return
<1>5. Sockets'
  BY DEF Sockets, Reached, NoSocketLeak, Streams, ConnInv, WaitDone, Return
<1> QED BY <1>1, <1>2, <1>3, <1>4, <1>5

LEMMA WaitPairedInv ==
    ASSUME IInv, NEW r \in Requests, WaitPaired(r)
    PROVE  IInv'
<1> USE DEF IInv, TypeOK, Claimed
<1>1. TypeOK'
  BY DEF Results, WaitPaired
<1>2. Streams'
  BY DEF Streams, ConnInv, OneStreamPerVisitor, DoneReachesWaiter, Visitors,
     VisitorInv, PendingIsAlive, WaitPaired
<1>3. Visitors'
  BY DEF Streams, ConnInv, Visitors, VisitorInv, PendingIsAlive, Pool,
     RegistryInv, WaitPaired
<1>4. Pool'
  BY DEF Pool, RegistryInv, ActiveIsCurrent, IdleIsExclusive, WaitPaired
<1>5. Sockets'
  BY DEF Sockets, Reached, NoSocketLeak, Streams, ConnInv, WaitPaired
<1> QED BY <1>1, <1>2, <1>3, <1>4, <1>5

LEMMA WaitTimeoutInv ==
    ASSUME IInv, NEW r \in Requests, WaitTimeout(r)
    PROVE  IInv'
<1> USE DEF IInv, TypeOK, Claimed
<1>1. TypeOK'
  BY DEF Results, WaitTimeout
<1>2. Streams'
  BY DEF Streams, ConnInv, OneStreamPerVisitor, DoneReachesWaiter, Visitors,
     VisitorInv, PendingIsAlive, WaitTimeout
<1>3. Visitors'
  BY DEF Streams, ConnInv, Visitors, VisitorInv, PendingIsAlive, Pool,
     RegistryInv, WaitTimeout
<1>4. Pool'
  BY DEF Pool, RegistryInv, ActiveIsCurrent, IdleIsExclusive, WaitTimeout
<1>5. Sockets'
  BY DEF Sockets, Reached, NoSocketLeak, Streams, ConnInv, WaitTimeout
<1> QED BY <1>1, <1>2, <1>3, <1>4, <1>5

LEMMA ReturnTimeoutInv ==
    ASSUME IInv, NEW r \in Requests, ReturnTimeout(r)
    PROVE  IInv'
<1> USE DEF IInv, TypeOK, Claimed
<1>1. TypeOK'
  BY DEF Results, ReturnTimeout, Return
<1>2. Streams'
  BY DEF Streams, ConnInv, OneStreamPerVisitor, DoneReachesWaiter, Visitors,
     VisitorInv, PendingIsAlive, ReturnTimeout, Return
<1>3. Visitors'
  BY DEF Streams, ConnInv, Visitors, VisitorInv, PendingIsAlive, Pool,
     RegistryInv, ReturnTimeout, Return
<1>4. Pool'
  BY DEF Pool, RegistryInv, ActiveIsCurrent, IdleIsExclusive, ReturnTimeout,
     Return
<1>5. Sockets'
  BY DEF Sockets, Reached, NoSocketLeak, Streams, ConnInv, ReturnTimeout,
     Return
<1> QED BY <1>1, <1>2, <1>3, <1>4, <1>5

LEMMA DialDataInv ==
    ASSUME IInv, NEW d \in Conns, NEW c \in Clients, NEW r \in Requests, DialData(d, c, r)
    PROVE  IInv'
<1> USE DEF IInv, TypeOK, Claimed
<1>1. TypeOK'
  BY DEF Results, DialData
<1>2. Streams'
  BY DEF Streams, ConnInv, OneStreamPerVisitor, DoneReachesWaiter, Visitors,
     VisitorInv, PendingIsAlive, DialData
<1>3. Visitors'
  BY DEF Streams, ConnInv, Visitors, VisitorInv, PendingIsAlive, Pool,
     RegistryInv, DialData
<1>4. Pool'
  BY DEF Pool, RegistryInv, ActiveIsCurrent, IdleIsExclusive, DialData
<1>5. Sockets'
  BY DEF Sockets, Reached, NoSocketLeak, Streams, ConnInv, DialData
<1> QED BY <1>1, <1>2, <1>3, <1>4, <1>5

LEMMA DialWorkerInv ==
    ASSUME IInv, NEW d \in Conns, NEW c \in Clients, DialWorker(d, c)
    PROVE  IInv'
<1> USE DEF IInv, TypeOK, Claimed
<1>1. TypeOK'
  BY DEF Results, DialWorker
<1>2. Streams'
  BY DEF Streams, ConnInv, OneStreamPerVisitor, DoneReachesWaiter, Visitors,
     VisitorInv, PendingIsAlive, DialWorker
<1>3. Visitors'
  BY DEF Streams, ConnInv, Visitors, VisitorInv, PendingIsAlive, Pool,
     RegistryInv, DialWorker
<1>4. Pool'
  BY DEF Pool, RegistryInv, ActiveIsCurrent, IdleIsExclusive, DialWorker
<1>5. Sockets'
  BY DEF Sockets, Reached, NoSocketLeak, Streams, ConnInv, DialWorker
<1> QED BY <1>1, <1>2, <1>3, <1>4, <1>5

LEMMA authenticateDataClientInv ==
    ASSUME IInv, NEW d \in Conns, authenticateDataClient(d)
    PROVE  IInv'
<1> USE DEF IInv, TypeOK, Claimed
<1>1. TypeOK'
  <2>1. generations[client[d]] \in Nat
    BY DEF authenticateDataClient, Streams, ConnInv
  <2> QED BY <2>1 DEF authenticateDataClient, Results
<1>2. Streams'
  BY DEF Streams, ConnInv, OneStreamPerVisitor, DoneReachesWaiter, Visitors,
     VisitorInv, PendingIsAlive, authenticateDataClient
<1>3. Visitors'
  BY DEF Streams, ConnInv, Visitors, VisitorInv, PendingIsAlive, Pool,
     RegistryInv, authenticateDataClient
<1>4. Pool'
  <2>1. /\ stage[d] \in {"data", "worker"}
        /\ \E s \in {"claiming", "adding", "ended"} : stage' = [stage EXCEPT ![d] = s]
        /\ \A e \in Conns \ {d} : gen'[e] = gen[e]
        /\ UNCHANGED <<client, generations, active, idle>>
    BY DEF authenticateDataClient
  <2>2. \A c \in Clients : /\ \A e \in active[c] : e \in Conns /\ e # d
                           /\ \A i \in 1 .. Len(idle[c]) : idle[c][i] \in Conns \ {d}
    BY <2>1, IdleFacts DEF Pool, RegistryInv, IdleIsExclusive
  <2>3. RegistryInv' /\ ActiveIsCurrent'
    BY <2>1, <2>2 DEF Pool, RegistryInv, ActiveIsCurrent
  <2>4. IdleIsExclusive'
    BY <2>1, <2>2 DEF Pool, IdleIsExclusive
  <2> QED BY <2>3, <2>4 DEF Pool
<1>5. Sockets'
  BY DEF Sockets, Reached, NoSocketLeak, Streams, ConnInv,
     authenticateDataClient
<1> QED BY <1>1, <1>2, <1>3, <1>4, <1>5

LEMMA claimPendingForClientInv ==
    ASSUME IInv, NEW d \in Conns, claimPendingForClient(d)
    PROVE  IInv'
<1> USE DEF IInv, TypeOK, Claimed
<1>1. TypeOK'
  BY DEF Results, claimPendingForClient, Claimable
<1>2. Streams'
  <2> USE DEF claimPendingForClient, Claimable, Streams, Visitors
  <2>1. ConnInv'
    BY DEF ConnInv
  <2>2. OneStreamPerVisitor'
    BY DEF OneStreamPerVisitor, ConnInv, PendingIsAlive
  <2>3. DoneReachesWaiter'
    BY DEF DoneReachesWaiter, ConnInv, PendingIsAlive
  <2> QED BY <2>1, <2>2, <2>3
<1>3. Visitors'
  BY DEF Streams, ConnInv, Visitors, VisitorInv, PendingIsAlive, Pool,
     RegistryInv, claimPendingForClient, Claimable
<1>4. Pool'
  BY DEF Pool, RegistryInv, ActiveIsCurrent, IdleIsExclusive,
     claimPendingForClient, Claimable
<1>5. Sockets'
  BY DEF Sockets, Reached, NoSocketLeak, Streams, ConnInv,
     claimPendingForClient, Claimable
<1> QED BY <1>1, <1>2, <1>3, <1>4, <1>5

LEMMA ClaimRefusedInv ==
    ASSUME IInv, NEW d \in Conns, ClaimRefused(d)
    PROVE  IInv'
<1> USE DEF IInv, TypeOK, Claimed
<1>1. TypeOK'
  BY DEF Results, ClaimRefused, Claimable
<1>2. Streams'
  BY DEF Streams, ConnInv, OneStreamPerVisitor, DoneReachesWaiter, Visitors,
     VisitorInv, PendingIsAlive, ClaimRefused, Claimable
<1>3. Visitors'
  BY DEF Streams, ConnInv, Visitors, VisitorInv, PendingIsAlive, Pool,
     RegistryInv, ClaimRefused, Claimable
<1>4. Pool'
  BY DEF Pool, RegistryInv, ActiveIsCurrent, IdleIsExclusive, ClaimRefused,
     Claimable
<1>5. Sockets'
  BY DEF Sockets, Reached, NoSocketLeak, Streams, ConnInv, ClaimRefused,
     Claimable
<1> QED BY <1>1, <1>2, <1>3, <1>4, <1>5

LEMMA registerInv ==
    ASSUME IInv, NEW d \in Conns, register(d)
    PROVE  IInv'
<1> USE DEF IInv, TypeOK, Claimed
<1>1. TypeOK'
  BY DEF Results, register
<1>2. Streams'
  BY DEF Streams, ConnInv, OneStreamPerVisitor, DoneReachesWaiter, Visitors,
     VisitorInv, PendingIsAlive, register
<1>3. Visitors'
  BY DEF Streams, ConnInv, Visitors, VisitorInv, PendingIsAlive, Pool,
     RegistryInv, register
<1>4. Pool'
  BY DEF Pool, RegistryInv, ActiveIsCurrent, IdleIsExclusive, register
<1>5. Sockets'
  BY DEF Sockets, Reached, NoSocketLeak, Streams, ConnInv, register
<1> QED BY <1>1, <1>2, <1>3, <1>4, <1>5

LEMMA RegisterRefusedInv ==
    ASSUME IInv, NEW d \in Conns, RegisterRefused(d)
    PROVE  IInv'
<1> USE DEF IInv, TypeOK, Claimed
<1>1. TypeOK'
  BY DEF Results, Streams, ConnInv, Pool, RegistryInv, RegisterRefused
<1>2. Streams'
  BY DEF Streams, ConnInv, OneStreamPerVisitor, DoneReachesWaiter, Visitors,
     VisitorInv, PendingIsAlive, RegisterRefused
<1>3. Visitors'
  BY DEF Streams, ConnInv, Visitors, VisitorInv, PendingIsAlive, Pool,
     RegistryInv, RegisterRefused
<1>4. Pool'
  BY DEF Pool, RegistryInv, ActiveIsCurrent, IdleIsExclusive,
     RegisterRefused
<1>5. Sockets'
  BY DEF Sockets, Reached, NoSocketLeak, Streams, ConnInv, RegisterRefused
<1> QED BY <1>1, <1>2, <1>3, <1>4, <1>5

LEMMA relayInv ==
    ASSUME IInv, NEW d \in Conns, relay(d)
    PROVE  IInv'
<1> USE DEF IInv, TypeOK, Claimed
<1>1. TypeOK'
  BY DEF Results, Streams, ConnInv, Pool, RegistryInv, relay
<1>2. Streams'
  BY DEF Streams, ConnInv, OneStreamPerVisitor, DoneReachesWaiter, Visitors,
     VisitorInv, PendingIsAlive, relay
<1>3. Visitors'
  BY DEF Streams, ConnInv, Visitors, VisitorInv, PendingIsAlive, Pool,
     RegistryInv, relay
<1>4. Pool'
  BY DEF Pool, RegistryInv, ActiveIsCurrent, IdleIsExclusive, relay
<1>5. Sockets'
  BY DEF Sockets, Reached, NoSocketLeak, Streams, ConnInv, relay
<1> QED BY <1>1, <1>2, <1>3, <1>4, <1>5

LEMMA removeInv ==
    ASSUME IInv, NEW d \in Conns, remove(d)
    PROVE  IInv'
<1> USE DEF IInv, TypeOK, Claimed
<1>1. TypeOK'
  BY DEF Results, remove
<1>2. Streams'
  BY DEF Streams, ConnInv, OneStreamPerVisitor, DoneReachesWaiter, Visitors,
     VisitorInv, PendingIsAlive, remove
<1>3. Visitors'
  BY DEF Streams, ConnInv, Visitors, VisitorInv, PendingIsAlive, Pool,
     RegistryInv, remove
<1>4. Pool'
  BY DEF Pool, RegistryInv, ActiveIsCurrent, IdleIsExclusive, remove
<1>5. Sockets'
  BY DEF Sockets, Reached, NoSocketLeak, Streams, ConnInv, remove
<1> QED BY <1>1, <1>2, <1>3, <1>4, <1>5

LEMMA SendDoneInv ==
    ASSUME IInv, NEW d \in Conns, SendDone(d)
    PROVE  IInv'
<1> USE DEF IInv, TypeOK, Claimed
<1>1. TypeOK'
  BY DEF Results, SendDone
<1>2. Streams'
  BY DEF Streams, ConnInv, OneStreamPerVisitor, DoneReachesWaiter, Visitors,
     VisitorInv, PendingIsAlive, SendDone
<1>3. Visitors'
  BY DEF Streams, ConnInv, Visitors, VisitorInv, PendingIsAlive, Pool,
     RegistryInv, SendDone
<1>4. Pool'
  BY DEF Pool, RegistryInv, ActiveIsCurrent, IdleIsExclusive, SendDone
<1>5. Sockets'
  BY DEF Sockets, Reached, NoSocketLeak, Streams, ConnInv, SendDone
<1> QED BY <1>1, <1>2, <1>3, <1>4, <1>5

LEMMA StartReadyInv ==
    ASSUME IInv, NEW d \in Conns, StartReady(d)
    PROVE  IInv'
<1> USE DEF IInv, TypeOK, Claimed
<1>1. TypeOK'
  BY DEF Results, StartReady
<1>2. Streams'
  BY DEF Streams, ConnInv, OneStreamPerVisitor, DoneReachesWaiter, Visitors,
     VisitorInv, PendingIsAlive, StartReady
<1>3. Visitors'
  BY DEF Streams, ConnInv, Visitors, VisitorInv, PendingIsAlive, Pool,
     RegistryInv, StartReady
<1>4. Pool'
  BY DEF Pool, RegistryInv, ActiveIsCurrent, IdleIsExclusive, StartReady
<1>5. Sockets'
  BY DEF Sockets, Reached, NoSocketLeak, Streams, ConnInv, StartReady
<1> QED BY <1>1, <1>2, <1>3, <1>4, <1>5

LEMMA openFallbackDataPathInv ==
    ASSUME IInv, NEW d \in Conns, openFallbackDataPath(d)
    PROVE  IInv'
<1> USE DEF IInv, TypeOK, Claimed
<1>1. TypeOK'
  BY DEF Results, openFallbackDataPath
<1>2. Streams'
  BY DEF Streams, ConnInv, OneStreamPerVisitor, DoneReachesWaiter, Visitors,
     VisitorInv, PendingIsAlive, openFallbackDataPath
<1>3. Visitors'
  BY DEF Streams, ConnInv, Visitors, VisitorInv, PendingIsAlive, Pool,
     RegistryInv, openFallbackDataPath
<1>4. Pool'
  BY DEF Pool, RegistryInv, ActiveIsCurrent, IdleIsExclusive,
     openFallbackDataPath
<1>5. Sockets'
  BY DEF Sockets, Reached, NoSocketLeak, Streams, ConnInv,
     openFallbackDataPath
<1> QED BY <1>1, <1>2, <1>3, <1>4, <1>5

LEMMA StartNotReadyInv ==
    ASSUME IInv, NEW d \in Conns, StartNotReady(d)
    PROVE  IInv'
<1> USE DEF IInv, TypeOK, Claimed
<1>1. TypeOK'
  BY DEF Results, Streams, ConnInv, Pool, RegistryInv, StartNotReady,
     Claimable
<1>2. Streams'
  BY DEF Streams, ConnInv, OneStreamPerVisitor, DoneReachesWaiter, Visitors,
     VisitorInv, PendingIsAlive, StartNotReady, Claimable
<1>3. Visitors'
  BY DEF Streams, ConnInv, Visitors, VisitorInv, PendingIsAlive, Pool,
     RegistryInv, StartNotReady, Claimable
<1>4. Pool'
  BY DEF Pool, RegistryInv, ActiveIsCurrent, IdleIsExclusive, StartNotReady,
     Claimable
<1>5. Sockets'
  BY DEF Sockets, Reached, NoSocketLeak, Streams, ConnInv, StartNotReady,
     Claimable
<1> QED BY <1>1, <1>2, <1>3, <1>4, <1>5

LEMMA FailInv ==
    ASSUME IInv, NEW c \in Clients, NEW r \in Requests, Fail(c, r)
    PROVE  IInv'
<1> USE DEF IInv, TypeOK, Claimed
<1>1. TypeOK'
  BY DEF Results, Fail
<1>2. Streams'
  BY DEF Streams, ConnInv, OneStreamPerVisitor, DoneReachesWaiter, Visitors,
     VisitorInv, PendingIsAlive, Fail
<1>3. Visitors'
  BY DEF Streams, ConnInv, Visitors, VisitorInv, PendingIsAlive, Pool,
     RegistryInv, Fail
<1>4. Pool'
  BY DEF Pool, RegistryInv, ActiveIsCurrent, IdleIsExclusive, Fail
<1>5. Sockets'
  BY DEF Sockets, Reached, NoSocketLeak, Streams, ConnInv, Fail
<1> QED BY <1>1, <1>2, <1>3, <1>4, <1>5

LEMMA CompleteFailedInv ==
    ASSUME IInv, NEW f \in failing, CompleteFailed(f)
    PROVE  IInv'
<1> USE DEF IInv, TypeOK, Claimed
<1>1. TypeOK'
  BY DEF Results, CompleteFailed
<1>2. Streams'
  BY DEF Streams, ConnInv, OneStreamPerVisitor, DoneReachesWaiter, Visitors,
     VisitorInv, PendingIsAlive, CompleteFailed
<1>3. Visitors'
  BY DEF Streams, ConnInv, Visitors, VisitorInv, PendingIsAlive, Pool,
     RegistryInv, CompleteFailed
<1>4. Pool'
  BY DEF Pool, RegistryInv, ActiveIsCurrent, IdleIsExclusive, CompleteFailed
<1>5. Sockets'
  BY DEF Sockets, Reached, NoSocketLeak, Streams, ConnInv, CompleteFailed
<1> QED BY <1>1, <1>2, <1>3, <1>4, <1>5

LEMMA closeRequestInv ==
    ASSUME IInv, NEW p \in closeReqs, closeRequest(p[1], p[2])
    PROVE  IInv'
<1> USE DEF IInv, TypeOK, Claimed
<1>1. TypeOK'
  <2>1. p[1] \in Clients /\ p[2] \in Requests
    OBVIOUS
  <2> QED BY <2>1 DEF closeRequest
<1>2. Streams'
  BY DEF Streams, ConnInv, OneStreamPerVisitor, DoneReachesWaiter, Visitors,
     VisitorInv, PendingIsAlive, closeRequest
<1>3. Visitors'
  BY DEF Streams, ConnInv, Visitors, VisitorInv, PendingIsAlive, Pool,
     RegistryInv, closeRequest
<1>4. Pool'
  BY DEF Pool, RegistryInv, ActiveIsCurrent, IdleIsExclusive, closeRequest
<1>5. Sockets'
  BY DEF Sockets, Reached, NoSocketLeak, Streams, ConnInv, closeRequest
<1> QED BY <1>1, <1>2, <1>3, <1>4, <1>5

LEMMA disconnectInv ==
    ASSUME IInv, NEW c \in Clients, NEW admin \in BOOLEAN, disconnect(c, admin)
    PROVE  IInv'
<1> USE DEF IInv, TypeOK, Claimed
<1>1. TypeOK'
  BY DEF Results, Streams, ConnInv, Pool, RegistryInv, disconnect
<1>2. Streams'
  BY DEF Streams, ConnInv, OneStreamPerVisitor, DoneReachesWaiter, Visitors,
     VisitorInv, PendingIsAlive, disconnect
<1>3. Visitors'
  BY DEF Streams, ConnInv, Visitors, VisitorInv, PendingIsAlive, Pool,
     RegistryInv, disconnect
<1>4. Pool'
  BY DEF Pool, RegistryInv, ActiveIsCurrent, IdleIsExclusive, disconnect
<1>5. Sockets'
  BY DEF Sockets, Reached, NoSocketLeak, Streams, ConnInv, Pool,
     RegistryInv, disconnect
<1> QED BY <1>1, <1>2, <1>3, <1>4, <1>5

LEMMA FailPendingClientInv ==
    ASSUME IInv, NEW c \in failClients, FailPendingClient(c)
    PROVE  IInv'
<1> USE DEF IInv, TypeOK, Claimed
<1>1. TypeOK'
  BY DEF Results, FailPendingClient
<1>2. Streams'
  BY DEF Streams, ConnInv, OneStreamPerVisitor, DoneReachesWaiter, Visitors,
     VisitorInv, PendingIsAlive, FailPendingClient
<1>3. Visitors'
  BY DEF Streams, ConnInv, Visitors, VisitorInv, PendingIsAlive, Pool,
     RegistryInv, FailPendingClient
<1>4. Pool'
  BY DEF Pool, RegistryInv, ActiveIsCurrent, IdleIsExclusive,
     FailPendingClient
<1>5. Sockets'
  BY DEF Sockets, Reached, NoSocketLeak, Streams, ConnInv, FailPendingClient
<1> QED BY <1>1, <1>2, <1>3, <1>4, <1>5

LEMMA CloseDataInv ==
    ASSUME IInv, NEW d \in closingData, CloseData(d)
    PROVE  IInv'
<1> USE DEF IInv, TypeOK, Claimed
<1>1. TypeOK'
  BY DEF Results, CloseData
<1>2. Streams'
  BY DEF Streams, ConnInv, OneStreamPerVisitor, DoneReachesWaiter, Visitors,
     VisitorInv, PendingIsAlive, CloseData
<1>3. Visitors'
  BY DEF Streams, ConnInv, Visitors, VisitorInv, PendingIsAlive, Pool,
     RegistryInv, CloseData
<1>4. Pool'
  BY DEF Pool, RegistryInv, ActiveIsCurrent, IdleIsExclusive, CloseData
<1>5. Sockets'
  BY DEF Sockets, Reached, NoSocketLeak, Streams, ConnInv, CloseData
<1> QED BY <1>1, <1>2, <1>3, <1>4, <1>5

LEMMA CloseVisitorInv ==
    ASSUME IInv, NEW r \in closingVisitor, CloseVisitor(r)
    PROVE  IInv'
<1> USE DEF IInv, TypeOK, Claimed
<1>1. TypeOK'
  BY DEF Results, CloseVisitor
<1>2. Streams'
  BY DEF Streams, ConnInv, OneStreamPerVisitor, DoneReachesWaiter, Visitors,
     VisitorInv, PendingIsAlive, CloseVisitor
<1>3. Visitors'
  BY DEF Streams, ConnInv, Visitors, VisitorInv, PendingIsAlive, Pool,
     RegistryInv, CloseVisitor
<1>4. Pool'
  BY DEF Pool, RegistryInv, ActiveIsCurrent, IdleIsExclusive, CloseVisitor
<1>5. Sockets'
  BY DEF Sockets, Reached, NoSocketLeak, Streams, ConnInv, CloseVisitor
<1> QED BY <1>1, <1>2, <1>3, <1>4, <1>5

LEMMA retryPendingVisitorsInv ==
    ASSUME IInv, NEW c \in Clients, retryPendingVisitors(c)
    PROVE  IInv'
<1> USE DEF IInv, TypeOK, Claimed
<1>1. TypeOK'
  BY DEF Results, retryPendingVisitors
<1>2. Streams'
  BY DEF Streams, ConnInv, OneStreamPerVisitor, DoneReachesWaiter, Visitors,
     VisitorInv, PendingIsAlive, retryPendingVisitors
<1>3. Visitors'
  BY DEF Streams, ConnInv, Visitors, VisitorInv, PendingIsAlive, Pool,
     RegistryInv, retryPendingVisitors
<1>4. Pool'
  BY DEF Pool, RegistryInv, ActiveIsCurrent, IdleIsExclusive,
     retryPendingVisitors
<1>5. Sockets'
  BY DEF Sockets, Reached, NoSocketLeak, Streams, ConnInv,
     retryPendingVisitors
<1> QED BY <1>1, <1>2, <1>3, <1>4, <1>5

LEMMA TakeWorkerInv ==
    ASSUME IInv, NEW r \in Requests, TakeWorker(r)
    PROVE  IInv'
<1> USE DEF IInv, TypeOK, Claimed
<1> DEFINE c == Owner[r]
           w == LastOf(idle[c])
<1>0. /\ c \in Clients /\ idle[c] \in Seq(Conns) /\ idle[c] # <<>>
      /\ w \in Conns /\ stage[w] = "idle" /\ client[w] = c
      /\ idle' = [idle EXCEPT ![c] = AllButLast(idle[c])]
      /\ stage' = [stage EXCEPT ![w] = "assigned"] /\ req' = [req EXCEPT ![w] = r]
      /\ UNCHANGED <<client, gen, generations, active>>
  <2>1. c \in Clients /\ idle[c] # <<>>
    BY DEF TakeWorker, take
  <2> QED BY <2>1, IdleFacts, LastIdle DEF TakeWorker, take, Pool
<1>a. \A b \in Clients : w \notin active[b]
  BY <1>0 DEF Pool, RegistryInv
<1>1. TypeOK'
  BY <1>0, LastFacts DEF TakeWorker
<1>2. Streams'
  BY <1>0 DEF TakeWorker, Streams, ConnInv, OneStreamPerVisitor, DoneReachesWaiter
<1>3. Visitors'
  BY <1>0 DEF TakeWorker, Visitors, VisitorInv, PendingIsAlive
<1>4. Pool'
  <2>1. RegistryInv' /\ ActiveIsCurrent'
    BY <1>0, <1>a DEF Pool, RegistryInv, ActiveIsCurrent
  <2>2. IdleIsExclusive'
    BY <1>0, TakeIdle DEF Pool
  <2> QED BY <2>1, <2>2 DEF Pool
<1>5. Sockets'
  BY <1>0 DEF Sockets, Reached, NoSocketLeak, Streams, ConnInv, Pool,
     RegistryInv, TakeWorker
<1> QED BY <1>1, <1>2, <1>3, <1>4, <1>5

LEMMA addInv ==
    ASSUME IInv, NEW d \in Conns, add(d)
    PROVE  IInv'
<1> USE DEF IInv, TypeOK, Claimed
<1> DEFINE c == client[d]
<1>0. c \in Clients /\ stage[d] = "adding" /\ Append(idle[c], d) \in Seq(Conns)
  <2>1. c \in Clients /\ stage[d] = "adding"
    BY DEF add, Streams, ConnInv
  <2> QED BY <2>1, IdleFacts
<1>1. TypeOK'
  <2>1. CASE Len(idle[c]) >= MaxIdle
    <3>1. /\ stage' = [stage EXCEPT ![d] = "ended"] /\ closedData' = closedData \cup {d}
          /\ UNCHANGED idle
      BY <2>1 DEF add
    <3>2. stage' \in [Conns -> Stages] /\ closedData' \subseteq Conns
      BY <3>1 DEF Stages
    <3> QED BY <3>1, <3>2 DEF add, Stages
  <2>2. CASE ~(Len(idle[c]) >= MaxIdle)
    <3>1. /\ stage' = [stage EXCEPT ![d] = "idle"] /\ UNCHANGED closedData
          /\ idle' = [idle EXCEPT ![c] = Append(idle[c], d)]
      BY <2>2 DEF add
    <3>2. stage' \in [Conns -> Stages] /\ idle' \in [Clients -> Seq(Conns)]
      BY <1>0, <3>1 DEF Stages
    <3> QED BY <3>1, <3>2 DEF add, Stages
  <2> QED BY <2>1, <2>2
<1>2. Streams'
  BY <1>0 DEF add, Streams, ConnInv, OneStreamPerVisitor, DoneReachesWaiter
<1>3. Visitors'
  BY DEF add, Visitors, VisitorInv, PendingIsAlive
<1>4. Pool'
  <2>1. RegistryInv' /\ ActiveIsCurrent'
    <3>1. \A b \in Clients : \A e \in active[b] : e \in Conns \ {d}
      BY <1>0 DEF Pool, RegistryInv
    <3>2. \A e \in Conns \ {d} : stage'[e] = stage[e]
      BY DEF add
    <3>3. UNCHANGED <<client, gen, generations, active>>
      BY DEF add
    <3> QED BY <3>1, <3>2, <3>3 DEF Pool, RegistryInv, ActiveIsCurrent
  <2>2. CASE UNCHANGED idle
    <3>1. \A b \in Clients : \A i \in 1 .. Len(idle[b]) : idle[b][i] \in Conns \ {d}
      BY <1>0, IdleFacts DEF Pool, IdleIsExclusive
    <3> QED BY <2>1, <2>2, <3>1 DEF add, Pool, IdleIsExclusive
  <2>3. CASE /\ idle' = [idle EXCEPT ![c] = Append(idle[c], d)]
             /\ stage' = [stage EXCEPT ![d] = "idle"]
    <3>1. UNCHANGED client
      BY DEF add
    <3> QED BY <1>0, <2>1, <2>3, <3>1, AppendIdle DEF Pool
  <2> QED BY <2>2, <2>3 DEF add
<1>5. Sockets'
  BY <1>0 DEF Sockets, Reached, NoSocketLeak, Streams, ConnInv, Pool,
     RegistryInv, add
<1> QED BY <1>1, <1>2, <1>3, <1>4, <1>5

LEMMA StartErrorInv ==
    ASSUME IInv, NEW d \in Conns, StartError(d)
    PROVE  IInv'
<1> USE DEF IInv, TypeOK, Claimed
<1> DEFINE c == client[d]
           w == LastOf(idle[c])
<1>0. /\ c \in Clients /\ stage[d] = "assigned" /\ req[d] \in Requests
      /\ UNCHANGED <<client, gen, generations, active>>
  BY DEF StartError, Streams, ConnInv
<1>a. CASE idle[c] = <<>>
  <2>1. stage' = [stage EXCEPT ![d] = "fallback"] /\ UNCHANGED <<req, idle>>
    BY <1>a DEF StartError
  <2>2. TypeOK'
    BY <2>1 DEF StartError
  <2>3. Streams'
    BY <1>0, <2>1 DEF StartError, Streams, ConnInv, OneStreamPerVisitor, DoneReachesWaiter
  <2>4. Visitors'
    BY DEF StartError, Visitors, VisitorInv, PendingIsAlive
  <2>5. \A b \in Clients : \A i \in 1 .. Len(idle[b]) : idle[b][i] \in Conns \ {d}
    BY <1>0, IdleFacts DEF Pool, IdleIsExclusive
  <2>6. Pool'
    BY <1>0, <2>1, <2>5 DEF Pool, RegistryInv, ActiveIsCurrent, IdleIsExclusive
  <2>7. Sockets'
    BY <1>0, <2>1 DEF StartError, Sockets, Reached, NoSocketLeak
  <2> QED BY <2>2, <2>3, <2>4, <2>6, <2>7
<1>b. CASE idle[c] # <<>>
  <2>1. /\ stage' = [stage EXCEPT ![d] = "ended", ![w] = "assigned"]
        /\ req' = [req EXCEPT ![w] = req[d]]
        /\ idle' = [idle EXCEPT ![c] = AllButLast(idle[c])]
    BY <1>b DEF StartError
  <2>2. /\ w \in Conns /\ stage[w] = "idle" /\ client[w] = c
        /\ AllButLast(idle[c]) \in Seq(Conns)
    BY <1>0, <1>b, LastIdle DEF Pool
  <2> HIDE DEF w
  <2>3. w # d /\ \A b \in Clients : w \notin active[b] /\ d \notin active[b]
    BY <1>0, <2>2 DEF Pool, RegistryInv
  <2>4. TypeOK'
    BY <1>0, <2>1, <2>2 DEF StartError
  <2>5. Streams'
    BY <1>0, <2>1, <2>2, <2>3
       DEF StartError, Streams, ConnInv, OneStreamPerVisitor, DoneReachesWaiter
  <2>6. Visitors'
    BY DEF StartError, Visitors, VisitorInv, PendingIsAlive
  <2>7. RegistryInv' /\ ActiveIsCurrent'
    <3>1. \A b \in Clients : \A e \in active[b] : e \in Conns /\ stage'[e] = stage[e]
      BY <2>1, <2>2, <2>3
    <3> QED BY <1>0, <3>1 DEF Pool, RegistryInv, ActiveIsCurrent
  <2>8. IdleIsExclusive'
    <3>1. \A e \in Conns \ {w} : stage[e] = "idle" => stage'[e] = "idle"
      BY <1>0, <2>1, <2>3
    <3> QED BY <1>0, <1>b, <2>1, <3>1, TakeIdle DEF Pool, w
  <2>9. Sockets'
    BY <1>0, <2>1, <2>2, <2>3 DEF StartError, Sockets, Reached, NoSocketLeak
  <2> QED BY <2>4, <2>5, <2>6, <2>7, <2>8, <2>9 DEF Pool
<1> QED BY <1>a, <1>b

(* Closing the workers of clients C, of one or of all.                     *)
LEMMA CloseIdle ==
    ASSUME IInv, NEW C \in SUBSET Clients, NEW W, W = UNION {Elements(idle[c]) : c \in C},
           idle' = [c \in Clients |-> IF c \in C THEN <<>> ELSE idle[c]],
           stage' = [d \in Conns |-> IF d \in W THEN "ended" ELSE stage[d]],
           closingData' = closingData \cup W,
           UNCHANGED <<visitorVars, client, req, gen, generations, active, closedData,
                       closedVisitor, closingVisitor, failing, closeReqs, survivors>>,
           sweeps' \subseteq sweeps, failClients' \subseteq Clients
    PROVE  IInv'
<1> USE DEF IInv, TypeOK, Claimed
<1>0. \A d \in W : /\ d \in Conns /\ stage[d] = "idle"
                   /\ \E c \in C : d \in Elements(idle[c])
  BY IdleFacts DEF Elements, Pool, IdleIsExclusive
<1>1. TypeOK'
  <2>1. idle' \in [Clients -> Seq(Conns)]
    OBVIOUS
  <2> QED BY <1>0, <2>1
<1>2. Streams'
  BY <1>0 DEF Streams, ConnInv, OneStreamPerVisitor, DoneReachesWaiter
<1>3. Visitors'
  BY DEF Visitors, VisitorInv, PendingIsAlive
<1>4. Pool'
  <2>1. RegistryInv' /\ ActiveIsCurrent'
    BY <1>0 DEF Pool, RegistryInv, ActiveIsCurrent
  <2>2. ASSUME NEW b \in Clients \ C, NEW i \in 1 .. Len(idle[b])
        PROVE  idle[b][i] \in Conns \ W
    <3>1. idle[b][i] \in Conns /\ client[idle[b][i]] = b
      BY IdleFacts DEF Pool, IdleIsExclusive
    <3>2. \A c \in C : \A d \in Elements(idle[c]) : client[d] = c
      BY DEF Elements, Pool, IdleIsExclusive
    <3> QED BY <1>0, <3>1, <3>2
  <2>3. IdleIsExclusive'
    <3>1. ASSUME NEW b \in Clients, NEW i \in 1 .. Len(idle'[b])
          PROVE  /\ stage'[idle'[b][i]] = "idle" /\ client'[idle'[b][i]] = b
                 /\ \A j \in 1 .. Len(idle'[b]) : idle'[b][i] = idle'[b][j] => i = j
      <4>1. b \notin C /\ idle'[b] = idle[b]
        OBVIOUS
      <4>2. idle[b][i] \in Conns \ W
        BY <2>2, <4>1
      <4>3. stage'[idle[b][i]] = stage[idle[b][i]]
        BY <4>2
      <4> QED BY <4>1, <4>3 DEF Pool, IdleIsExclusive
    <3> HIDE DEF IInv, TypeOK
    <3> QED BY ONLY <3>1 DEF IdleIsExclusive
  <2> QED BY <2>1, <2>3 DEF Pool
<1>5. Sockets'
  BY <1>0 DEF Sockets, Reached, NoSocketLeak
<1> QED BY <1>1, <1>2, <1>3, <1>4, <1>5

LEMMA closeClientInv ==
    ASSUME IInv, NEW s \in sweeps, closeClient(s)
    PROVE  IInv'
<1>1. s.client \in Clients
  BY DEF IInv, TypeOK
<1>2. Elements(idle[s.client]) = UNION {Elements(idle[c]) : c \in {s.client}}
  OBVIOUS
<1>3. idle' = [c \in Clients |-> IF c \in {s.client} THEN <<>> ELSE idle[c]]
  BY <1>1 DEF closeClient, IInv, TypeOK
<1>4. failClients' \subseteq Clients /\ sweeps' \subseteq sweeps
  BY <1>1 DEF closeClient, IInv, TypeOK
<1> DEFINE W == Elements(idle[s.client])
<1>5. /\ stage' = [d \in Conns |-> IF d \in W THEN "ended" ELSE stage[d]]
      /\ closingData' = closingData \cup W
      /\ UNCHANGED <<visitorVars, client, req, gen, generations, active, closedData,
                     closedVisitor, closingVisitor, failing, closeReqs, survivors>>
  BY DEF closeClient
<1>6. W = UNION {Elements(idle[c]) : c \in {s.client}} /\ {s.client} \in SUBSET Clients
  BY <1>1, <1>2
<1> HIDE DEF W
<1> QED BY <1>3, <1>4, <1>5, <1>6, CloseIdle

LEMMA closeAllInv ==
    ASSUME IInv, closeAll
    PROVE  IInv'
<1>1. idle' = [c \in Clients |-> IF c \in Clients THEN <<>> ELSE idle[c]]
  BY DEF closeAll
<1> QED BY <1>1, CloseIdle DEF closeAll, IInv, TypeOK

----------------------------------------------------------------------------
LEMMA NextInv ==
    ASSUME IInv, [Next]_vars
    PROVE  IInv'
<1>1. ASSUME NEW r \in Requests, RegisterPending(r) \/ Visitor(r)
      PROVE  IInv'
  BY <1>1, RegisterPendingInv, LookUpPendingInv, TakeWorkerInv, NoWorkerInv,
     openRelayedDataPathInv, WaitDoneInv, WaitPairedInv, WaitTimeoutInv, ReturnTimeoutInv
     DEF Visitor
<1>2. ASSUME NEW d \in Conns, Serve(d) \/ relay(d)
      PROVE  IInv'
  BY <1>2, authenticateDataClientInv, addInv, claimPendingForClientInv, ClaimRefusedInv,
     registerInv, RegisterRefusedInv, relayInv, removeInv, SendDoneInv, StartReadyInv,
     StartErrorInv, StartNotReadyInv, openFallbackDataPathInv
     DEF Serve
<1>3. CASE Cleanup
  BY <1>3, CompleteFailedInv, closeRequestInv, closeClientInv, FailPendingClientInv,
     CloseDataInv, CloseVisitorInv
     DEF Cleanup
<1> QED BY <1>1, <1>2, <1>3, DialWorkerInv, DialDataInv, FailInv, disconnectInv,
           retryPendingVisitorsInv, closeAllInv, StutterInv
           DEF Next

(* The strengthened invariant holds in every reachable state.              *)
THEOREM Invariance == Spec => []IInv
<1>1. Init => IInv
  BY InitInv
<1>2. IInv /\ [Next]_vars => IInv'
  BY NextInv
<1> QED BY <1>1, <1>2, PTL DEF Spec

(* Every variable of the broker keeps its type.                            *)
THEOREM TypeCorrect == Spec => []TypeOK
<1>1. IInv => TypeOK
  BY DEF IInv
<1> QED BY <1>1, Invariance, PTL

(* A visitor is paired with at most one data connection, of its own agent, *)
(* however many connections race for it.                                   *)
THEOREM SingleStream == Spec => []OneStreamPerVisitor
<1>1. IInv => OneStreamPerVisitor
  BY DEF IInv, Streams
<1> QED BY <1>1, Invariance, PTL

(* The goroutine that relays always finds the waiter's channel empty and   *)
(* the waiter still there: the blocking send in relayPending never blocks. *)
THEOREM DoneIsReceived == Spec => []DoneReachesWaiter
<1>1. IInv => DoneReachesWaiter
  BY DEF IInv, Streams
<1> QED BY <1>1, Invariance, PTL

(* What is in the pending map can still be served.                         *)
THEOREM PendingAlive == Spec => []PendingIsAlive
<1>1. IInv => PendingIsAlive
  BY DEF IInv, Visitors
<1> QED BY <1>1, Invariance, PTL

(* No stream of an earlier generation is in the registry, whatever order   *)
(* authentication, claim, registration and disconnects take.               *)
THEOREM ActiveCurrent == Spec => []ActiveIsCurrent
<1>1. IInv => ActiveIsCurrent
  BY DEF IInv, Pool
<1> QED BY <1>1, Invariance, PTL

(* A disconnect reaches every stream of an earlier generation, also one    *)
(* that was between its claim and its registration when it ran.            *)
THEOREM DisconnectReaches == Spec => []DisconnectReachesAll
<1>1. IInv => DisconnectReachesAll
  <2> SUFFICES ASSUME IInv, NEW d \in Conns, stage[d] = "relaying",
                      gen[d] # generations[client[d]]
               PROVE  d \in closedData \cup closingData
    BY DEF DisconnectReachesAll
  <2>1. client[d] \in Clients
    BY DEF IInv, Streams, ConnInv
  <2>2. d \notin active[client[d]]
    BY <2>1 DEF IInv, Pool, ActiveIsCurrent
  <2> QED BY <2>2 DEF IInv, Sockets, Reached
<1> QED BY <1>1, Invariance, PTL

(* Whichever of the claim, the timeout, a failure report and a disconnect  *)
(* wins, the sockets of what ended are closed or about to be.              *)
THEOREM SocketsAreClosed == Spec => []NoSocketLeak
<1>1. IInv => NoSocketLeak
  BY DEF IInv, Sockets
<1> QED BY <1>1, Invariance, PTL

(* A worker waits in one place of one pool: no two visitors get it.        *)
THEOREM IdleExclusive == Spec => []IdleIsExclusive
<1>1. IInv => IdleIsExclusive
  BY DEF IInv, Pool
<1> QED BY <1>1, Invariance, PTL

----------------------------------------------------------------------------
(* The broker implements VisitorService.  Beside IInv that needs to know   *)
(* that nobody answers for somebody else: a goroutine that was answered    *)
(* has left, a visitor is failed by one goroutine, which finds it          *)
(* unanswered, and a visitor is about to be closed only because of its     *)
(* stream.                                                                 *)
AnsweredInv ==
    \A r \in Requests :
        /\ waiter[r] = "returned" <=> outcome[r] # "none"
        /\ done[r] # "none" => waiter[r] \notin {"returned", "expired"}

FailingInv ==
    \A f \in failing :
        /\ done[f.req] = "none" /\ waiter[f.req] \notin {"returned", "expired"}
        /\ \A g \in failing : g.req = f.req => g = f

Streamed(r) == ServedIn(r, {"relaying", "relayed", "finished"})

ClosingInv ==
    \A r \in closingVisitor : waiter[r] = "returned" \/ done[r] # "none" \/ Streamed(r)

FateInv == AnsweredInv /\ FailingInv /\ ClosingInv

(* What a step leaves alone of a goroutine, and of the connection d as far *)
(* as the visitor q is concerned.                                          *)
WaiterKept(q) ==
    \/ waiter'[q] = waiter[q]
    \/ /\ waiter[q] \notin {"new", "returned", "expired"}
       /\ waiter'[q] \notin {"new", "returned", "expired"}

StreamKept(d) ==
    \/ stage'[d] = stage[d] /\ req'[d] = req[d]
    \/ stage[d] \notin Claimed /\ stage'[d] \notin Claimed
    \/ stage[d] = "relayed" /\ stage'[d] = "finished" /\ req'[d] = req[d]

StreamsKept(q) == \A d \in Conns : StreamKept(d) \/ (req[d] # q /\ req'[d] # q)

LEMMA ServedKept ==
    ASSUME NEW q, StreamsKept(q)
    PROVE  /\ ServedIn(q, {"claimed"})' <=> ServedIn(q, {"claimed"})
           /\ ServedIn(q, {"relaying"})' <=> ServedIn(q, {"relaying"})
           /\ ServedIn(q, {"relayed", "finished"})' <=> ServedIn(q, {"relayed", "finished"})
           /\ ServedIn(q, {"rejected"})' <=> ServedIn(q, {"rejected"})
           /\ Streamed(q)' <=> Streamed(q)
<1>1. ServedIn(q, {"claimed"})' <=> ServedIn(q, {"claimed"})
  BY DEF ServedIn, StreamsKept, StreamKept, Claimed
<1>2. ServedIn(q, {"relaying"})' <=> ServedIn(q, {"relaying"})
  BY DEF ServedIn, StreamsKept, StreamKept, Claimed
<1>3. ServedIn(q, {"relayed", "finished"})' <=> ServedIn(q, {"relayed", "finished"})
  BY DEF ServedIn, StreamsKept, StreamKept, Claimed
<1>4. ServedIn(q, {"rejected"})' <=> ServedIn(q, {"rejected"})
  BY DEF ServedIn, StreamsKept, StreamKept, Claimed
<1>5. Streamed(q)' <=> Streamed(q)
  BY DEF Streamed, ServedIn, StreamsKept, StreamKept, Claimed
<1> QED BY <1>1, <1>2, <1>3, <1>4, <1>5

(* The visitors a step is not about keep their fate.                       *)
LEMMA FateKept ==
    ASSUME NEW q \in Requests, WaiterKept(q), StreamsKept(q),
           outcome'[q] = outcome[q], done'[q] = done[q], q \in pend' <=> q \in pend,
           \A c \in Clients \cup {None} : FailedBy(q, c)' <=> FailedBy(q, c)
    PROVE  Fate(q)' = Fate(q)
BY ServedKept DEF Fate, WaiterKept

----------------------------------------------------------------------------
(* The actions of VisitorService, by the fates before and after.           *)
OthersKept(r) == \A q \in Requests \ {r} : Fate(q)' = Fate(q)

LEMMA ServiceStutters ==
    ASSUME \A q \in Requests : Fate(q)' = Fate(q), UNCHANGED <<closedVisitor, outcome>>
    PROVE  UNCHANGED Service!vars
BY DEF Service!vars

(* One visitor's fate changes.                                             *)
LEMMA FateStep ==
    ASSUME NEW r \in Requests, OthersKept(r)
    PROVE  [q \in Requests |-> Fate(q)'] =
               [[q \in Requests |-> Fate(q)] EXCEPT ![r] = Fate(r)']
BY DEF OthersKept

LEMMA ServiceStep ==
    ASSUME NEW r \in Requests, OthersKept(r), UNCHANGED <<closedVisitor, outcome>>,
           \/ Fate(r) = "absent" /\ Fate(r)' = "waiting"
           \/ Fate(r) = "waiting" /\ Fate(r)' \in {"taken", "failed", "timeout"}
           \/ Fate(r) = "taken" /\ Fate(r)' = "streaming"
    PROVE  Service!Next
<1> DEFINE F == [q \in Requests |-> Fate(q)]
<1>1. F' = [F EXCEPT ![r] = Fate(r)'] /\ F[r] = Fate(r) /\ F'[r] = Fate(r)'
  BY FateStep
<1> HIDE DEF F
<1>2. <<F[r], F'[r]>> \in Service!Moves
  BY <1>1 DEF Service!Moves
<1>3. Service!Move(r)
  BY <1>1, <1>2 DEF F, Service!Move
<1> QED BY <1>3 DEF Service!Next

LEMMA ServiceEnds ==
    ASSUME NEW r \in Requests, OthersKept(r), closedVisitor' = closedVisitor \cup {r},
           outcome' = outcome,
           \/ Fate(r) = "taken" /\ Fate(r)' = "rejected"
           \/ Fate(r) = "streaming" /\ Fate(r)' = "relayed"
    PROVE  Service!Next
<1> DEFINE F == [q \in Requests |-> Fate(q)]
<1>1. F' = [F EXCEPT ![r] = Fate(r)'] /\ F[r] = Fate(r) /\ F'[r] = Fate(r)'
  BY FateStep
<1> HIDE DEF F
<1>2. <<F[r], F'[r]>> \in Service!Ends
  BY <1>1 DEF Service!Ends
<1>3. Service!End(r)
  BY <1>1, <1>2 DEF F, Service!End
<1> QED BY <1>3 DEF Service!Next

LEMMA ServiceAnswers ==
    ASSUME NEW r \in Requests, \A q \in Requests : Fate(q)' = Fate(q),
           Fate(r) \in Service!Decided, outcome[r] = "none",
           outcome' = [outcome EXCEPT ![r] = Fate(r)],
           closedVisitor' = closedVisitor \cup {r}
    PROVE  Service!Next
<1>1. Service!Answer(r)
  BY DEF Service!Answer
<1> QED BY <1>1 DEF Service!Next

LEMMA ServiceCuts ==
    ASSUME NEW r \in Requests, \A q \in Requests : Fate(q)' = Fate(q),
           Fate(r) \in Service!Decided \cup {"streaming"}, outcome' = outcome,
           closedVisitor' = closedVisitor \cup {r}
    PROVE  Service!Next
<1>1. Service!Cut(r)
  BY DEF Service!Cut
<1> QED BY <1>1 DEF Service!Next

----------------------------------------------------------------------------
(* Steps that no visitor notices.                                          *)
LEMMA Unnoticed ==
    ASSUME TypeOK, FateInv, \A q \in Requests : WaiterKept(q),
           \A d \in Conns : StreamKept(d),
           UNCHANGED <<pend, done, outcome, failing, closedVisitor>>,
           \A q \in closingVisitor' : q \in Requests /\ (q \in closingVisitor \/ Streamed(q))
    PROVE  FateInv' /\ UNCHANGED Service!vars
<1>1. ASSUME NEW q PROVE StreamsKept(q)
  BY DEF StreamsKept
<1>2. ASSUME NEW q \in Requests PROVE Fate(q)' = Fate(q)
  <2>1. \A c \in Clients \cup {None} : FailedBy(q, c)' <=> FailedBy(q, c)
    BY DEF FailedBy
  <2> QED BY <1>1, <2>1, FateKept
<1>3. UNCHANGED Service!vars
  BY <1>2, ServiceStutters
<1>4. AnsweredInv'
  BY DEF FateInv, AnsweredInv, WaiterKept
<1>5. FailingInv'
  <2>1. \A f \in failing : f.req \in Requests
    BY DEF TypeOK
  <2> QED BY <2>1 DEF FateInv, FailingInv, WaiterKept
<1>6. ClosingInv'
  BY <1>1, ServedKept DEF FateInv, ClosingInv, WaiterKept
<1> QED BY <1>3, <1>4, <1>5, <1>6 DEF FateInv

(* What a visitor notices nothing of, action by action.                    *)
LEMMA QuietVisitor ==
    ASSUME IInv, FateInv, NEW r \in Requests,
           \/ LookUpPending(r) \/ TakeWorker(r) \/ NoWorker(r) \/ openRelayedDataPath(r)
           \/ WaitPaired(r) \/ (WaitTimeout(r) /\ r \notin pend)
    PROVE  FateInv' /\ UNCHANGED Service!vars
<1>1. TypeOK /\ IdleIsExclusive /\ Owner[r] \in Clients
  BY DEF IInv, Pool
<1>2. \A q \in Requests : WaiterKept(q)
  BY <1>1 DEF TypeOK, WaiterKept, LookUpPending, TakeWorker, NoWorker,
              openRelayedDataPath, WaitPaired, WaitTimeout
<1>3. \A d \in Conns : StreamKept(d)
  <2>1. CASE TakeWorker(r)
    <3>1. idle[Owner[r]] # <<>>
      BY <2>1 DEF TakeWorker, take
    <3>2. LastOf(idle[Owner[r]]) \in Conns /\ stage[LastOf(idle[Owner[r]])] = "idle"
      BY <1>1, <3>1, LastIdle
    <3> QED BY <1>1, <2>1, <3>2 DEF TypeOK, Claimed, StreamKept, TakeWorker, take
  <2> QED BY <2>1 DEF StreamKept, LookUpPending, NoWorker, openRelayedDataPath,
                     WaitPaired, WaitTimeout
<1>4. /\ UNCHANGED <<pend, done, outcome, failing, closedVisitor, closingVisitor>>
      /\ closingVisitor \subseteq Requests
  <2>1. CASE WaitTimeout(r) /\ r \notin pend
    <3>1. pend \ {r} = pend
      BY <2>1
    <3> QED BY <1>1, <2>1, <3>1 DEF TypeOK, WaitTimeout
  <2> QED BY <1>1, <2>1 DEF TypeOK, LookUpPending, TakeWorker, NoWorker,
                            openRelayedDataPath, WaitPaired
<1> QED BY <1>1, <1>2, <1>3, <1>4, Unnoticed

LEMMA QuietServe ==
    ASSUME IInv, FateInv, NEW d \in Conns,
           \/ authenticateDataClient(d) \/ add(d) \/ ClaimRefused(d) \/ remove(d)
           \/ StartReady(d) \/ StartError(d) \/ openFallbackDataPath(d)
           \/ (StartNotReady(d) /\ ~Claimable(d))
           \/ \E c \in Clients : \/ DialWorker(d, c)
                                 \/ \E r \in Requests : DialData(d, c, r)
    PROVE  FateInv' /\ UNCHANGED Service!vars
<1>1. TypeOK /\ IdleIsExclusive /\ (stage[d] # "new" => client[d] \in Clients)
  BY DEF IInv, Pool, Streams, ConnInv
<1>2. \A q \in Requests : WaiterKept(q)
  BY DEF WaiterKept, authenticateDataClient, add, ClaimRefused, remove, StartReady,
         StartError, openFallbackDataPath, StartNotReady, DialWorker, DialData
<1>3. \A e \in Conns : StreamKept(e)
  <2>1. CASE StartError(d) /\ idle[client[d]] # <<>>
    <3>1. LastOf(idle[client[d]]) \in Conns /\ stage[LastOf(idle[client[d]])] = "idle"
      BY <1>1, <2>1, LastIdle DEF StartError
    <3> DEFINE w == LastOf(idle[client[d]])
    <3>2. w \in Conns /\ stage[w] = "idle"
      BY <3>1
    <3>3. /\ stage[d] = "assigned"
          /\ stage' = [stage EXCEPT ![d] = "ended", ![w] = "assigned"]
          /\ req' = [req EXCEPT ![w] = req[d]]
      BY <2>1 DEF StartError
    <3> HIDE DEF w
    <3>4. ASSUME NEW e \in Conns
          PROVE  /\ e \notin {d, w} => stage'[e] = stage[e] /\ req'[e] = req[e]
                 /\ e \in {d, w} => stage[e] \notin Claimed /\ stage'[e] \notin Claimed
      BY <1>1, <3>2, <3>3 DEF TypeOK, Claimed
    <3> QED BY <3>4 DEF StreamKept
  <2>2. CASE StartError(d) /\ idle[client[d]] = <<>>
    BY <1>1, <2>2 DEF TypeOK, Claimed, StreamKept, StartError
  <2>3. CASE authenticateDataClient(d) \/ add(d) \/ ClaimRefused(d) \/ remove(d)
    BY <1>1, <2>3 DEF TypeOK, Claimed, StreamKept, authenticateDataClient, add,
                      ClaimRefused, remove
  <2>4. CASE StartReady(d) \/ openFallbackDataPath(d) \/ StartNotReady(d)
    BY <1>1, <2>4 DEF TypeOK, Claimed, StreamKept, StartReady, openFallbackDataPath,
                      StartNotReady
  <2>5. CASE \E c \in Clients : \/ DialWorker(d, c)
                                \/ \E r \in Requests : DialData(d, c, r)
    BY <1>1, <2>5 DEF TypeOK, Claimed, StreamKept, DialWorker, DialData
  <2> QED BY <2>1, <2>2, <2>3, <2>4, <2>5
<1>4. /\ UNCHANGED <<pend, done, outcome, failing, closedVisitor, closingVisitor>>
      /\ closingVisitor \subseteq Requests
  BY <1>1 DEF TypeOK, authenticateDataClient, add, ClaimRefused, remove, StartReady,
         StartError, openFallbackDataPath, StartNotReady, DialWorker, DialData
<1> QED BY <1>1, <1>2, <1>3, <1>4, Unnoticed

LEMMA IdleElements ==
    ASSUME TypeOK, IdleIsExclusive, NEW c \in Clients, NEW d \in Elements(idle[c])
    PROVE  d \in Conns /\ stage[d] = "idle"
BY IdleFacts DEF Elements, IdleIsExclusive

LEMMA QuietCleanup ==
    ASSUME IInv, FateInv,
           \/ \E p \in closeReqs : closeRequest(p[1], p[2])
           \/ \E s \in sweeps : closeClient(s)
           \/ \E d \in closingData : CloseData(d)
           \/ \E c \in Clients, admin \in BOOLEAN : disconnect(c, admin)
           \/ \E c \in Clients : retryPendingVisitors(c)
           \/ \E c \in Clients, r \in Requests : Fail(c, r) /\ ~(r \in pend /\ Owner[r] = c)
           \/ closeAll
    PROVE  FateInv' /\ UNCHANGED Service!vars
<1>1. TypeOK /\ IdleIsExclusive /\ RegistryInv /\ ConnInv
  BY DEF IInv, Pool, Streams
<1>2. \A q \in Requests : WaiterKept(q)
  BY DEF WaiterKept, closeRequest, closeClient, CloseData, disconnect,
         retryPendingVisitors, Fail, closeAll
<1>3. \A e \in Conns : StreamKept(e)
  <2>1. ASSUME NEW s \in sweeps, closeClient(s)
        PROVE  \A e \in Conns : StreamKept(e)
    <3>1. s.client \in Clients
      BY <1>1 DEF TypeOK
    <3> QED BY <1>1, <2>1, <3>1, IdleElements DEF Claimed, StreamKept, closeClient
  <2>2. CASE closeAll
    BY <1>1, <2>2, IdleElements DEF Claimed, StreamKept, closeAll
  <2> QED BY <2>1, <2>2 DEF StreamKept, closeRequest, CloseData, disconnect,
                            retryPendingVisitors, Fail
<1>4. UNCHANGED <<pend, done, outcome, failing, closedVisitor>>
  BY DEF closeRequest, closeClient, CloseData, disconnect, retryPendingVisitors, Fail,
         closeAll
<1>5. \A c \in Clients : \A d \in active[c] : d \in Conns /\ req[d] \in Requests /\ Streamed(req[d])
  BY <1>1 DEF TypeOK, RegistryInv, ConnInv, Claimed, Streamed, ServedIn
<1>6. \A q \in closingVisitor' : q \in Requests /\ (q \in closingVisitor \/ Streamed(q))
  <2>1. ASSUME NEW p \in closeReqs, closeRequest(p[1], p[2])
        PROVE  \A q \in closingVisitor' : q \in Requests /\ (q \in closingVisitor \/ Streamed(q))
    <3>1. p[1] \in Clients
      BY <1>1 DEF TypeOK
    <3> QED BY <1>1, <1>5, <2>1, <3>1 DEF TypeOK, closeRequest
  <2>2. ASSUME NEW c \in Clients, NEW admin \in BOOLEAN, disconnect(c, admin)
        PROVE  \A q \in closingVisitor' : q \in Requests /\ (q \in closingVisitor \/ Streamed(q))
    BY <1>1, <1>5, <2>2 DEF TypeOK, disconnect
  <2> QED BY <1>1, <2>1, <2>2 DEF TypeOK, closeClient, CloseData, retryPendingVisitors,
                                  Fail, closeAll
<1> QED BY <1>1, <1>2, <1>3, <1>4, <1>6, Unnoticed

----------------------------------------------------------------------------
(* Whoever holds a visitor determines its fate, and only one does.         *)
VisitorFates ==
    \A r \in Requests :
        /\ waiter[r] = "new" => Fate(r) = "absent"
        /\ waiter[r] = "returned" => Fate(r) = outcome[r]
        /\ waiter[r] = "expired" => Fate(r) = "timeout"
        /\ r \in pend => Fate(r) = "waiting"
        /\ done[r] # "none" => Fate(r) = done[r]

FailedFates ==
    \A f \in failing :
        /\ f.from = None => Fate(f.req) = "disconnected"
        /\ f.from # None => Fate(f.req) = "failed"

StreamFates ==
    \A r \in Requests, d \in Conns :
        req[d] = r => /\ stage[d] = "claimed" => Fate(r) = "taken"
                      /\ stage[d] = "relaying" => Fate(r) = "streaming"
                      /\ stage[d] \in {"relayed", "finished"} => Fate(r) = "relayed"
                      /\ stage[d] = "rejected" => Fate(r) = "rejected"

LEMMA FatesKnown == IInv /\ FateInv => VisitorFates /\ FailedFates /\ StreamFates
<1> SUFFICES ASSUME IInv, FateInv
             PROVE  VisitorFates /\ FailedFates /\ StreamFates
  OBVIOUS
<1>1. VisitorFates
  BY DEF IInv, Visitors, VisitorInv, PendingIsAlive, FateInv, AnsweredInv, VisitorFates, Fate
<1>2. FailedFates
  <2> SUFFICES ASSUME NEW f \in failing
               PROVE  /\ f.from = None => Fate(f.req) = "disconnected"
                      /\ f.from # None => Fate(f.req) = "failed"
    BY DEF FailedFates
  <2>1. /\ f.req \in Requests /\ f.from \in Clients \cup {None}
        /\ f = [req |-> f.req, from |-> f.from]
    BY DEF IInv, TypeOK
  <2>2. /\ waiter[f.req] \notin {"new", "returned", "expired"}
        /\ f.req \notin pend /\ done[f.req] = "none"
    BY DEF IInv, Visitors, VisitorInv, FateInv, FailingInv
  <2>3. \A c \in Clients \cup {None} : FailedBy(f.req, c) <=> c = f.from
    BY <2>1 DEF FailedBy, FateInv, FailingInv
  <2>4. None \notin Clients
    OBVIOUS
  <2> QED BY <2>1, <2>2, <2>3, <2>4 DEF Fate
<1>3. StreamFates
  <2> SUFFICES ASSUME NEW r \in Requests, NEW d \in Conns, req[d] = r, stage[d] \in Claimed
               PROVE  /\ stage[d] = "claimed" => Fate(r) = "taken"
                      /\ stage[d] = "relaying" => Fate(r) = "streaming"
                      /\ stage[d] \in {"relayed", "finished"} => Fate(r) = "relayed"
                      /\ stage[d] = "rejected" => Fate(r) = "rejected"
    BY DEF StreamFates, Claimed
  <2>1. r \in paired
    BY DEF IInv, Streams, ConnInv
  <2>2. waiter[r] \notin {"new", "returned", "expired"} /\ r \notin pend /\ done[r] = "none"
    BY <2>1 DEF IInv, Streams, DoneReachesWaiter, Visitors, VisitorInv, PendingIsAlive
  <2>3. \A c \in Clients \cup {None} : ~FailedBy(r, c)
    BY <2>1 DEF FailedBy, IInv, Visitors, VisitorInv
  <2>4. ASSUME NEW S, S \subseteq Claimed
        PROVE  ServedIn(r, S) <=> stage[d] \in S
    BY <2>4 DEF ServedIn, IInv, Streams, OneStreamPerVisitor
  <2>5. /\ ServedIn(r, {"claimed"}) <=> stage[d] = "claimed"
        /\ ServedIn(r, {"relaying"}) <=> stage[d] = "relaying"
        /\ ServedIn(r, {"relayed", "finished"}) <=> stage[d] \in {"relayed", "finished"}
        /\ ServedIn(r, {"rejected"}) <=> stage[d] = "rejected"
    BY <2>4 DEF Claimed
  <2> QED BY <2>2, <2>3, <2>5 DEF Fate
<1> QED BY <1>1, <1>2, <1>3

(* The same after a step.                                                  *)
LEMMA FatesKnownNext ==
    (IInv /\ FateInv)' => (VisitorFates /\ FailedFates /\ StreamFates)'
BY FatesKnown, PTL

----------------------------------------------------------------------------
(* Steps that decide, cut off or answer a visitor: how each preserves      *)
(* FateInv, and what it does to the fates.                                 *)

(* The visitors a step is not about.                                       *)
LEMMA OthersAreKept ==
    ASSUME NEW r \in Requests,
           \A q \in Requests \ {r} :
               /\ WaiterKept(q) /\ StreamsKept(q)
               /\ outcome'[q] = outcome[q] /\ done'[q] = done[q] /\ (q \in pend' <=> q \in pend)
               /\ \A c \in Clients \cup {None} : FailedBy(q, c)' <=> FailedBy(q, c)
    PROVE  OthersKept(r)
BY FateKept DEF OthersKept

LEMMA RegisterPendingServes ==
    ASSUME IInv, FateInv, NEW r \in Requests, RegisterPending(r)
    PROVE  FateInv' /\ Service!Next
<1>1. TypeOK /\ \A f \in failing : waiter[f.req] # "new" /\ f.req \in Requests
  BY DEF IInv, TypeOK, Visitors, VisitorInv
<1>2. \A q : StreamsKept(q)
  BY DEF StreamsKept, StreamKept, RegisterPending
<1>3. AnsweredInv' /\ FailingInv'
  BY <1>1 DEF TypeOK, FateInv, AnsweredInv, FailingInv, RegisterPending
<1>4. ClosingInv'
  BY <1>1, <1>2, ServedKept DEF TypeOK, FateInv, ClosingInv, RegisterPending
<1>5. OthersKept(r)
  BY <1>1, <1>2, OthersAreKept DEF TypeOK, WaiterKept, FailedBy, RegisterPending
<1>6. Fate(r) = "absent" /\ Fate(r)' = "waiting"
  <2>1. IInv'
    BY RegisterPendingInv
  <2> QED BY <1>3, <1>4, <2>1, FatesKnown, FatesKnownNext
          DEF FateInv, VisitorFates, RegisterPending
<1>7. UNCHANGED <<closedVisitor, outcome>>
  BY DEF RegisterPending
<1> QED BY <1>3, <1>4, <1>5, <1>6, <1>7, ServiceStep DEF FateInv

LEMMA claimServes ==
    ASSUME IInv, FateInv, NEW d \in Conns, claimPendingForClient(d)
    PROVE  FateInv' /\ Service!Next
<1>0. PICK r \in Requests : r = req[d]
  BY DEF IInv, Streams, ConnInv, claimPendingForClient
<1>1. TypeOK /\ r \in pend /\ req'[d] = r
  BY <1>0 DEF IInv, claimPendingForClient, Claimable
<1>2. \A q \in Requests \ {r} : StreamsKept(q)
  BY <1>0, <1>1 DEF TypeOK, StreamsKept, StreamKept, claimPendingForClient
<1>3. AnsweredInv' /\ FailingInv'
  BY <1>1 DEF TypeOK, FateInv, AnsweredInv, FailingInv, claimPendingForClient
<1>4. ClosingInv'
  <2>1. \A q \in closingVisitor : q \in Requests /\ q # r
    BY <1>1 DEF IInv, TypeOK, Visitors, PendingIsAlive
  <2> QED BY <1>2, <2>1, ServedKept DEF FateInv, ClosingInv, claimPendingForClient
<1>5. OthersKept(r)
  BY <1>0, <1>1, <1>2, OthersAreKept DEF WaiterKept, FailedBy, claimPendingForClient
<1>6. Fate(r) = "waiting" /\ Fate(r)' = "taken"
  <2>1. IInv'
    BY claimPendingForClientInv
  <2>2. stage'[d] = "claimed"
    BY <1>1 DEF TypeOK, claimPendingForClient
  <2>3. Fate(r) = "waiting"
    BY <1>1, FatesKnown DEF VisitorFates
  <2>4. Fate(r)' = "taken"
    BY <1>1, <1>3, <1>4, <2>1, <2>2, FatesKnownNext DEF FateInv, StreamFates
  <2> QED BY <2>3, <2>4
<1>7. UNCHANGED <<closedVisitor, outcome>>
  BY DEF claimPendingForClient
<1> QED BY <1>1, <1>3, <1>4, <1>5, <1>6, <1>7, ServiceStep DEF FateInv

(* The steps of a connection with the visitor it claimed.                  *)
LEMMA StreamInv ==
    ASSUME IInv, FateInv, NEW d \in Conns, NEW r \in Requests, req[d] = r,
           stage[d] \in {"claimed", "relaying"},
           stage' = [stage EXCEPT ![d] = IF @ = "relaying" THEN "relayed" ELSE stage'[d]],
           stage'[d] \in Claimed,
           UNCHANGED <<visitorVars, req, failing, closingVisitor>>
    PROVE  FateInv' /\ OthersKept(r)
<1>1. TypeOK
  BY DEF IInv
<1>2. /\ \A e \in Conns \ {d} : stage'[e] = stage[e]
      /\ stage[d] = "relaying" => stage'[d] = "relayed"
  BY <1>1 DEF TypeOK
<1>3. \A q \in Requests \ {r} : StreamsKept(q)
  BY <1>2 DEF StreamsKept, StreamKept
<1>4. AnsweredInv' /\ FailingInv'
  BY DEF FateInv, AnsweredInv, FailingInv
<1>5. ClosingInv'
  <2>1. \A q : Streamed(q) => Streamed(q)'
    BY <1>2 DEF Streamed, ServedIn
  <2> QED BY <2>1 DEF FateInv, ClosingInv
<1>6. OthersKept(r)
  BY <1>1, <1>3, OthersAreKept DEF WaiterKept, FailedBy
<1> QED BY <1>1, <1>4, <1>5, <1>6 DEF FateInv

LEMMA registerServes ==
    ASSUME IInv, FateInv, NEW d \in Conns, register(d) \/ RegisterRefused(d) \/ relay(d)
    PROVE  FateInv' /\ Service!Next
<1>0. PICK r \in Requests : req[d] = r
  BY DEF IInv, Streams, ConnInv, Claimed, register, RegisterRefused, relay
<1>1. TypeOK /\ IInv'
  BY registerInv, RegisterRefusedInv, relayInv DEF IInv
<1>2. /\ stage[d] \in {"claimed", "relaying"} /\ stage'[d] \in Claimed
      /\ stage' = [stage EXCEPT ![d] = IF @ = "relaying" THEN "relayed" ELSE stage'[d]]
      /\ UNCHANGED <<visitorVars, req, failing, closingVisitor>>
  BY <1>1 DEF TypeOK, Claimed, register, RegisterRefused, relay
<1>3. FateInv' /\ OthersKept(r)
  BY <1>0, <1>2, StreamInv
<1>4. StreamFates /\ StreamFates' /\ req'[d] = r
  BY <1>0, <1>1, <1>2, <1>3, FatesKnown, FatesKnownNext
<1>5. CASE register(d)
  <2>1. stage[d] = "claimed" /\ stage'[d] = "relaying" /\ UNCHANGED <<closedVisitor, outcome>>
    BY <1>1, <1>5 DEF TypeOK, register
  <2>2. Fate(r) = "taken" /\ Fate(r)' = "streaming"
    BY <1>0, <1>4, <2>1 DEF StreamFates
  <2> QED BY <1>3, <2>1, <2>2, ServiceStep
<1>6. CASE RegisterRefused(d)
  <2>1. /\ stage[d] = "claimed" /\ stage'[d] = "rejected" /\ outcome' = outcome
        /\ closedVisitor' = closedVisitor \cup {r}
    BY <1>0, <1>1, <1>6 DEF TypeOK, RegisterRefused
  <2>2. Fate(r) = "taken" /\ Fate(r)' = "rejected"
    BY <1>0, <1>4, <2>1 DEF StreamFates
  <2> QED BY <1>3, <2>1, <2>2, ServiceEnds
<1>7. CASE relay(d)
  <2>1. /\ stage[d] = "relaying" /\ stage'[d] = "relayed" /\ outcome' = outcome
        /\ closedVisitor' = closedVisitor \cup {r}
    BY <1>0, <1>1, <1>7 DEF TypeOK, relay
  <2>2. Fate(r) = "streaming" /\ Fate(r)' = "relayed"
    BY <1>0, <1>4, <2>1 DEF StreamFates
  <2> QED BY <1>3, <2>1, <2>2, ServiceEnds
<1> QED BY <1>5, <1>6, <1>7

(* The result of a stream is handed over to the visitor's goroutine: the   *)
(* fate stays what it was.                                                 *)
LEMMA SendDoneKeeps ==
    ASSUME IInv, FateInv, NEW d \in Conns, SendDone(d)
    PROVE  FateInv' /\ UNCHANGED Service!vars
<1>1. PICK r \in Requests : req[d] = r
  BY DEF IInv, Streams, ConnInv, Claimed, SendDone
<1>2. /\ TypeOK /\ IInv' /\ r \in paired /\ stage[d] \in {"finished", "rejected"}
      /\ waiter[r] \notin {"expired", "returned"}
      /\ stage' = [stage EXCEPT ![d] = "ended"]
      /\ done' = [done EXCEPT ![r] = IF stage[d] = "finished" THEN "relayed" ELSE "rejected"]
      /\ UNCHANGED <<pend, paired, waiter, outcome, req, failing, closedVisitor, closingVisitor>>
  BY <1>1, SendDoneInv DEF IInv, Streams, ConnInv, DoneReachesWaiter, Claimed, SendDone
<1>3. /\ \A q \in Requests \ {r} : done'[q] = done[q]
      /\ done'[r] = IF stage[d] = "finished" THEN "relayed" ELSE "rejected"
      /\ \A e \in Conns \ {d} : stage'[e] = stage[e]
  BY <1>2 DEF TypeOK
<1>4. \A q \in Requests \ {r} : StreamsKept(q)
  BY <1>1, <1>2, <1>3 DEF StreamsKept, StreamKept
<1>5. AnsweredInv'
  BY <1>2, <1>3 DEF FateInv, AnsweredInv
<1>6. FailingInv'
  <2>1. \A f \in failing : f.req \in Requests /\ f.req # r
    BY <1>2 DEF IInv, TypeOK, Visitors, VisitorInv
  <2> QED BY <1>2, <1>3, <2>1 DEF FateInv, FailingInv
<1>7. ClosingInv'
  <2>1. \A q \in closingVisitor : q \in Requests /\ (q # r => (Streamed(q)' <=> Streamed(q)))
    BY <1>2, <1>4, ServedKept DEF TypeOK
  <2>2. done'[r] # "none"
    BY <1>3
  <2> QED BY <1>2, <1>3, <2>1, <2>2 DEF FateInv, ClosingInv
<1>8. OthersKept(r)
  BY <1>2, <1>3, <1>4, OthersAreKept DEF WaiterKept, FailedBy
<1>9. Fate(r)' = Fate(r)
  <2>1. Fate(r) = IF stage[d] = "finished" THEN "relayed" ELSE "rejected"
    BY <1>1, <1>2, FatesKnown DEF StreamFates
  <2>2. Fate(r)' = done'[r]
    BY <1>2, <1>3, <1>5, <1>6, <1>7, FatesKnownNext DEF FateInv, VisitorFates
  <2> QED BY <1>3, <2>1, <2>2
<1> QED BY <1>2, <1>5, <1>6, <1>7, <1>8, <1>9, ServiceStutters DEF FateInv, OthersKept

(* The timer, or a failure report, finds the visitor still pending.        *)
LEMMA WaitTimeoutServes ==
    ASSUME IInv, FateInv, NEW r \in Requests, WaitTimeout(r), r \in pend
    PROVE  FateInv' /\ Service!Next
<1>0. IInv'
  BY WaitTimeoutInv
<1>1. /\ TypeOK /\ r \notin closingVisitor /\ done[r] = "none"
      /\ \A f \in failing : f.req \in Requests /\ f.req # r
  BY DEF IInv, TypeOK, Visitors, VisitorInv, PendingIsAlive
<1>2. /\ waiter' = [waiter EXCEPT ![r] = "expired"] /\ pend' = pend \ {r}
      /\ waiter[r] = "waiting"
      /\ UNCHANGED <<done, outcome, stage, req, failing, closedVisitor, closingVisitor>>
  BY DEF WaitTimeout
<1>3. waiter'[r] = "expired" /\ \A q \in Requests \ {r} : waiter'[q] = waiter[q]
  BY <1>1, <1>2 DEF TypeOK
<1>4. \A q : StreamsKept(q)
  BY <1>2 DEF StreamsKept, StreamKept
<1>5. AnsweredInv' /\ FailingInv'
  BY <1>1, <1>2, <1>3 DEF FateInv, AnsweredInv, FailingInv
<1>6. ClosingInv'
  <2>1. closingVisitor \subseteq Requests
    BY <1>1 DEF TypeOK
  <2> QED BY <1>1, <1>2, <1>3, <1>4, <2>1, ServedKept DEF FateInv, ClosingInv
<1>7. OthersKept(r)
  BY <1>2, <1>3, <1>4, OthersAreKept DEF WaiterKept, FailedBy
<1>8. Fate(r) = "waiting" /\ Fate(r)' = "timeout"
  BY <1>0, <1>3, <1>5, <1>6, FatesKnown, FatesKnownNext DEF FateInv, VisitorFates
<1> QED BY <1>2, <1>5, <1>6, <1>7, <1>8, ServiceStep DEF FateInv

(* The visitors in R are taken out of the pending map and will be failed.  *)
LEMMA FailedInv ==
    ASSUME IInv, IInv', FateInv, NEW R \in SUBSET pend, NEW from \in Clients \cup {None},
           pend' = pend \ R,
           failing' = failing \cup {[req |-> q, from |-> from] : q \in R},
           \A d \in Conns : StreamKept(d),
           UNCHANGED <<waiter, done, outcome, closingVisitor>>
    PROVE  /\ FateInv'
           /\ \A q \in Requests \ R : Fate(q)' = Fate(q)
           /\ \A q \in R : /\ Fate(q) = "waiting"
                           /\ Fate(q)' = IF from = None THEN "disconnected" ELSE "failed"
<1>1. /\ TypeOK /\ R \subseteq Requests
      /\ \A q \in R : done[q] = "none" /\ waiter[q] \notin {"returned", "expired"}
      /\ \A f \in failing : f.req \notin R
  BY DEF IInv, TypeOK, Visitors, VisitorInv, PendingIsAlive
<1>2. \A f \in failing' : f \in failing \/ (f.req \in R /\ f = [req |-> f.req, from |-> from])
  OBVIOUS
<1>3. \A q : StreamsKept(q)
  BY DEF StreamsKept
<1>4. AnsweredInv'
  BY DEF FateInv, AnsweredInv
<1>5. FailingInv'
  <2> SUFFICES ASSUME NEW f \in failing'
               PROVE  /\ done[f.req] = "none" /\ waiter[f.req] \notin {"returned", "expired"}
                      /\ \A g \in failing' : g.req = f.req => g = f
    BY DEF FailingInv
  <2>1. CASE f \in failing
    BY <1>1, <1>2, <2>1 DEF FateInv, FailingInv
  <2>2. CASE f.req \in R /\ f = [req |-> f.req, from |-> from]
    <3>1. ASSUME NEW g \in failing', g.req = f.req
          PROVE  g = f
      <4>1. g \notin failing
        BY <1>1, <2>2, <3>1
      <4>2. g = [req |-> g.req, from |-> from]
        BY <1>2, <4>1
      <4> QED BY <2>2, <3>1, <4>2
    <3> QED BY <1>1, <2>2, <3>1
  <2> QED BY <1>2, <2>1, <2>2
<1>6. ClosingInv'
  BY <1>3, ServedKept DEF FateInv, ClosingInv
<1>7. ASSUME NEW q \in Requests \ R
      PROVE  Fate(q)' = Fate(q)
  <2>1. \A c \in Clients \cup {None} : FailedBy(q, c)' <=> FailedBy(q, c)
    <3> SUFFICES ASSUME NEW c \in Clients \cup {None}
                 PROVE  [req |-> q, from |-> c] \in failing' <=> [req |-> q, from |-> c] \in failing
      BY DEF FailedBy
    <3>1. [req |-> q, from |-> c].req = q
      OBVIOUS
    <3> QED BY <1>2, <3>1
  <2> QED BY <1>3, <2>1, FateKept DEF WaiterKept
<1>8. ASSUME NEW q \in R
      PROVE  /\ Fate(q) = "waiting"
             /\ Fate(q)' = IF from = None THEN "disconnected" ELSE "failed"
  <2>1. Fate(q) = "waiting"
    BY <1>1, FatesKnown DEF VisitorFates
  <2>2. FailedFates'
    BY <1>4, <1>5, <1>6, FatesKnownNext DEF FateInv
  <2> DEFINE f == [req |-> q, from |-> from]
  <2>3. f \in failing' /\ f.req = q /\ f.from = from
    OBVIOUS
  <2> HIDE DEF f
  <2>4. /\ f.from = None => Fate(q)' = "disconnected"
        /\ f.from # None => Fate(q)' = "failed"
    BY <2>2, <2>3 DEF FailedFates
  <2> QED BY <2>1, <2>3, <2>4
<1> QED BY <1>4, <1>5, <1>6, <1>7, <1>8 DEF FateInv

LEMMA FailServes ==
    ASSUME IInv, FateInv, NEW c \in Clients, NEW r \in pend, Owner[r] = c,
           Fail(c, r) \/ \E d \in Conns : /\ StartNotReady(d) /\ Claimable(d)
                                          /\ req[d] = r /\ client[d] = c
    PROVE  FateInv' /\ Service!Next
<1>1. TypeOK /\ IInv'
  <2>1. CASE Fail(c, r)
    BY <2>1, FailInv DEF IInv, TypeOK
  <2> QED BY <2>1, StartNotReadyInv DEF IInv
<1>2. r \in Requests
  BY <1>1 DEF TypeOK
<1>3. /\ pend' = pend \ {r} /\ failing' = failing \cup {[req |-> r, from |-> c]}
      /\ UNCHANGED <<waiter, done, outcome, closingVisitor, closedVisitor>>
  BY DEF Fail, StartNotReady
<1>4. \A e \in Conns : StreamKept(e)
  BY <1>1 DEF TypeOK, Claimed, StreamKept, Fail, StartNotReady
<1>5. {[req |-> q, from |-> c] : q \in {r}} = {[req |-> r, from |-> c]} /\ c # None
  OBVIOUS
<1>6. /\ FateInv' /\ \A q \in Requests \ {r} : Fate(q)' = Fate(q)
      /\ Fate(r) = "waiting" /\ Fate(r)' = "failed"
  <2> DEFINE R == {r}
  <2>1. /\ R \in SUBSET pend /\ c \in Clients \cup {None} /\ pend' = pend \ R
        /\ failing' = failing \cup {[req |-> q, from |-> c] : q \in R}
        /\ UNCHANGED <<waiter, done, outcome, closingVisitor>>
    BY <1>3, <1>5
  <2> HIDE DEF R
  <2>2. /\ FateInv' /\ \A q \in Requests \ R : Fate(q)' = Fate(q)
        /\ \A q \in R : /\ Fate(q) = "waiting"
                        /\ Fate(q)' = IF c = None THEN "disconnected" ELSE "failed"
    BY <1>1, <1>4, <2>1, FailedInv
  <2> QED BY <1>5, <2>2 DEF R
<1> QED BY <1>2, <1>3, <1>6, ServiceStep DEF OthersKept

LEMMA FailPendingClientServes ==
    ASSUME IInv, FateInv, NEW c \in failClients, FailPendingClient(c)
    PROVE  FateInv' /\ Service!Next
<1> DEFINE R == {q \in pend : Owner[q] = c}
<1>1. c \in Clients /\ R \in SUBSET pend /\ pend \subseteq Requests
  BY DEF IInv, TypeOK
<1>2. /\ pend' = pend \ R
      /\ failing' = failing \cup {[req |-> q, from |-> None] : q \in R}
      /\ UNCHANGED <<waiter, done, outcome, stage, req, closingVisitor, closedVisitor>>
  BY DEF FailPendingClient
<1>3. IInv'
  BY FailPendingClientInv
<1>4. \A e \in Conns : StreamKept(e)
  BY <1>2 DEF StreamKept
<1> HIDE DEF R
<1>5. None \in Clients \cup {None}
  OBVIOUS
<1>6. /\ FateInv' /\ \A q \in Requests \ R : Fate(q)' = Fate(q)
      /\ \A q \in R : /\ Fate(q) = "waiting"
                      /\ Fate(q)' = IF None = None THEN "disconnected" ELSE "failed"
  BY <1>1, <1>2, <1>3, <1>4, <1>5, FailedInv
<1>7. \A q \in Requests : (Fate(q) = "waiting" /\ Owner[q] = c) <=> q \in R
  <2>1. ASSUME NEW q \in Requests, Fate(q) = "waiting" PROVE q \in pend
    BY <2>1 DEF Fate, IInv, TypeOK, Results, FateInv, AnsweredInv
  <2> QED BY <1>6, <2>1 DEF R
<1>8. [q \in Requests |-> Fate(q)'] =
          [q \in Requests |-> IF [p \in Requests |-> Fate(p)][q] = "waiting" /\ Owner[q] = c
                              THEN "disconnected" ELSE [p \in Requests |-> Fate(p)][q]]
  BY <1>6, <1>7
<1>9. Service!TurnAwayAll(c)
  BY <1>2, <1>8 DEF Service!TurnAwayAll
<1> QED BY <1>1, <1>6, <1>9 DEF Service!Next

(* The goroutine that fails a visitor closes it and tells it so.           *)
LEMMA CompleteFailedServes ==
    ASSUME IInv, FateInv, NEW f \in failing, CompleteFailed(f)
    PROVE  FateInv' /\ Service!Next
<1> DEFINE why == IF f.from = None THEN "disconnected" ELSE "failed"
<1>1. PICK r \in Requests : r = f.req
  BY DEF IInv, TypeOK
<1>2. TypeOK /\ done[r] = "none" /\ waiter[r] \notin {"returned", "expired"}
  BY <1>1 DEF IInv, FateInv, FailingInv
<1>3. /\ done' = [done EXCEPT ![r] = why] /\ closedVisitor' = closedVisitor \cup {r}
      /\ failing' = failing \ {f}
      /\ UNCHANGED <<pend, waiter, outcome, stage, req, closingVisitor>>
  BY <1>1, <1>2 DEF CompleteFailed, TypeOK
<1>4. \A q \in Requests \ {r} : done'[q] = done[q]
  BY <1>2, <1>3 DEF TypeOK
<1>5. done'[r] = why /\ why # "none"
  BY <1>2, <1>3 DEF TypeOK
<1>6. \A q : StreamsKept(q)
  BY <1>3 DEF StreamsKept, StreamKept
<1>7. AnsweredInv'
  BY <1>2, <1>3, <1>4 DEF FateInv, AnsweredInv
<1>8. FailingInv'
  <2>1. \A g \in failing' : g \in failing /\ g.req \in Requests /\ g.req # r
    BY <1>1, <1>2, <1>3 DEF TypeOK, FateInv, FailingInv
  <2> QED BY <1>3, <1>4, <2>1 DEF FateInv, FailingInv
<1>9. ClosingInv'
  <2>1. closingVisitor \subseteq Requests
    BY <1>2 DEF TypeOK
  <2> QED BY <1>3, <1>4, <1>5, <1>6, <2>1, ServedKept DEF FateInv, ClosingInv
<1>10. OthersKept(r)
  <2>1. \A q \in Requests \ {r} : \A c \in Clients \cup {None} :
            FailedBy(q, c)' <=> FailedBy(q, c)
    BY <1>1, <1>3 DEF FailedBy
  <2> QED BY <1>3, <1>4, <1>6, <2>1, OthersAreKept DEF WaiterKept
<1>11. Fate(r) = why
  BY <1>1, FatesKnown DEF FailedFates
<1>12. Fate(r)' = why
  <2>1. IInv'
    BY CompleteFailedInv
  <2>2. VisitorFates'
    BY <1>7, <1>8, <1>9, <2>1, FatesKnownNext DEF FateInv
  <2> QED BY <1>5, <2>2 DEF VisitorFates
<1>13. Fate(r) \in Service!Decided
  BY <1>11 DEF Service!Decided
<1>14. \A q \in Requests : Fate(q)' = Fate(q)
  BY <1>10, <1>11, <1>12 DEF OthersKept
<1> QED BY <1>3, <1>7, <1>8, <1>9, <1>13, <1>14, ServiceCuts DEF FateInv

LEMMA CloseVisitorServes ==
    ASSUME IInv, FateInv, NEW r \in closingVisitor, CloseVisitor(r)
    PROVE  FateInv' /\ Service!Next
<1>1. /\ closingVisitor' = closingVisitor \ {r} /\ closedVisitor' = closedVisitor \cup {r}
      /\ UNCHANGED <<pend, done, waiter, outcome, stage, req, failing>>
  BY DEF CloseVisitor
<1>2. TypeOK /\ r \in Requests /\ r \notin pend /\ waiter[r] # "new"
  BY DEF IInv, TypeOK, Visitors, VisitorInv, PendingIsAlive
<1>3. \A q : StreamsKept(q)
  BY <1>1 DEF StreamsKept, StreamKept
<1>4. AnsweredInv' /\ FailingInv'
  BY <1>1 DEF FateInv, AnsweredInv, FailingInv
<1>5. ClosingInv'
  BY <1>1, <1>3, ServedKept DEF FateInv, ClosingInv
<1>6. ASSUME NEW q \in Requests
      PROVE  Fate(q)' = Fate(q)
  <2>1. \A c \in Clients \cup {None} : FailedBy(q, c)' <=> FailedBy(q, c)
    BY <1>1 DEF FailedBy
  <2> QED BY <1>1, <1>3, <2>1, FateKept DEF WaiterKept
<1>7. Fate(r) \in Service!Decided \cup {"streaming"}
  <2>1. CASE waiter[r] = "returned" \/ done[r] # "none"
    <3>1. \/ waiter[r] = "returned" /\ Fate(r) = outcome[r]
          \/ done[r] # "none" /\ Fate(r) = done[r]
      BY <1>2, <2>1, FatesKnown DEF VisitorFates
    <3> QED BY <1>2, <3>1 DEF TypeOK, Results, FateInv, AnsweredInv, Service!Decided
  <2>2. CASE Streamed(r)
    <3>1. PICK d \in Conns : stage[d] \in {"relaying", "relayed", "finished"} /\ req[d] = r
      BY <2>2 DEF Streamed, ServedIn
    <3>2. Fate(r) \in {"streaming", "relayed"}
      BY <1>2, <3>1, FatesKnown DEF StreamFates
    <3> QED BY <3>2 DEF Service!Decided
  <2> QED BY <2>1, <2>2 DEF FateInv, ClosingInv
<1> QED BY <1>1, <1>2, <1>4, <1>5, <1>6, <1>7, ServiceCuts DEF FateInv

(* Wait returns: the visitor was closed before, or is closed now.          *)
LEMMA ReturnServes ==
    ASSUME IInv, FateInv, NEW r \in Requests, WaitDone(r) \/ ReturnTimeout(r)
    PROVE  FateInv' /\ Service!Next
<1> DEFINE result == IF waiter[r] = "expired" THEN "timeout" ELSE done[r]
<1>1. IInv'
  BY WaitDoneInv, ReturnTimeoutInv
<1>2. TypeOK /\ (done[r] # "none" => r \in closedVisitor)
  BY DEF IInv, Sockets
<1>3. /\ waiter[r] # "expired" => done[r] # "none" /\ waiter[r] \in {"waiting", "paired"}
      /\ waiter' = [waiter EXCEPT ![r] = "returned"]
      /\ outcome' = [outcome EXCEPT ![r] = result]
      /\ UNCHANGED <<pend, stage, req, failing, closingVisitor>>
  BY DEF WaitDone, ReturnTimeout, Return
<1>4. closedVisitor' = closedVisitor \cup {r}
  <2>1. CASE WaitDone(r)
    <3>1. closedVisitor \cup {r} = closedVisitor
      BY <1>2, <2>1 DEF WaitDone
    <3> QED BY <2>1, <3>1 DEF WaitDone
  <2> QED BY <2>1 DEF ReturnTimeout
<1>5. /\ done'[r] = "none" /\ waiter'[r] = "returned" /\ outcome'[r] = result
      /\ \A q \in Requests \ {r} :
            waiter'[q] = waiter[q] /\ outcome'[q] = outcome[q] /\ done'[q] = done[q]
  <2>1. done'[r] = "none" /\ \A q \in Requests \ {r} : done'[q] = done[q]
    BY <1>2 DEF WaitDone, ReturnTimeout, TypeOK, FateInv, AnsweredInv
  <2> QED BY <1>2, <1>3, <2>1 DEF TypeOK
<1>6. result \in Service!Decided /\ result # "none" /\ outcome[r] = "none"
  BY <1>2, <1>3 DEF TypeOK, Results, Service!Decided, FateInv, AnsweredInv
<1>7. \A q : StreamsKept(q)
  BY <1>3 DEF StreamsKept, StreamKept
<1>8. AnsweredInv'
  BY <1>5, <1>6 DEF FateInv, AnsweredInv
<1>9. FailingInv'
  <2>1. \A f \in failing : f.req \in Requests /\ f.req # r
    BY <1>2, <1>3 DEF TypeOK, FateInv, FailingInv
  <2> QED BY <1>3, <1>5, <2>1 DEF FateInv, FailingInv
<1>10. ClosingInv'
  <2>1. closingVisitor \subseteq Requests
    BY <1>2 DEF TypeOK
  <2> QED BY <1>3, <1>5, <1>7, <2>1, ServedKept DEF FateInv, ClosingInv
<1>11. Fate(r) = result
  BY <1>3, FatesKnown DEF VisitorFates
<1>12. Fate(r)' = result
  BY <1>1, <1>5, <1>8, <1>9, <1>10, FatesKnownNext DEF FateInv, VisitorFates
<1>13. OthersKept(r)
  <2>1. \A q \in Requests \ {r} : \A c \in Clients \cup {None} :
            FailedBy(q, c)' <=> FailedBy(q, c)
    BY <1>3 DEF FailedBy
  <2> QED BY <1>3, <1>5, <1>7, <2>1, OthersAreKept DEF WaiterKept
<1> HIDE DEF result
<1>14. \A q \in Requests : Fate(q)' = Fate(q)
  BY <1>11, <1>12, <1>13 DEF OthersKept
<1>15. Service!Next
  BY <1>3, <1>4, <1>6, <1>11, <1>14, ServiceAnswers
<1> QED BY <1>8, <1>9, <1>10, <1>15 DEF FateInv

----------------------------------------------------------------------------
LEMMA ServiceInit == Init => FateInv /\ Service!Init
<1> SUFFICES ASSUME Init PROVE FateInv /\ Service!Init
  OBVIOUS
<1>1. FateInv
  BY DEF Init, FateInv, AnsweredInv, FailingInv, ClosingInv
<1>2. \A r \in Requests : Fate(r) = "absent"
  BY DEF Init, Fate
<1> QED BY <1>1, <1>2 DEF Init, Service!Init

LEMMA ServiceNext ==
    ASSUME IInv, FateInv, [Next]_vars
    PROVE  FateInv' /\ [Service!Next]_Service!vars
<1> DEFINE Goal == FateInv' /\ (Service!Next \/ UNCHANGED Service!vars)
<1>1. ASSUME NEW r \in Requests, RegisterPending(r) \/ Visitor(r)
      PROVE  Goal
  BY <1>1, RegisterPendingServes, QuietVisitor, WaitTimeoutServes, ReturnServes DEF Visitor
<1>2. ASSUME NEW d \in Conns, Serve(d) \/ relay(d)
      PROVE  Goal
  <2>1. CASE StartNotReady(d) /\ Claimable(d)
    <3>1. req[d] \in pend /\ Owner[req[d]] = client[d] /\ client[d] \in Clients
      BY <2>1 DEF Claimable, StartNotReady, IInv, Streams, ConnInv
    <3> QED BY <2>1, <3>1, FailServes
  <2> QED BY <1>2, <2>1, QuietServe, claimServes, registerServes, SendDoneKeeps DEF Serve
<1>3. ASSUME NEW d \in Conns, NEW c \in Clients,
             DialWorker(d, c) \/ \E r \in Requests : DialData(d, c, r)
      PROVE  Goal
  BY <1>3, QuietServe
<1>4. ASSUME NEW c \in Clients, NEW r \in Requests, Fail(c, r)
      PROVE  Goal
  BY <1>4, FailServes, QuietCleanup
<1>5. CASE \/ \E c \in Clients, admin \in BOOLEAN : disconnect(c, admin)
           \/ \E c \in Clients : retryPendingVisitors(c)
           \/ closeAll
  BY <1>5, QuietCleanup
<1>6. CASE Cleanup
  BY <1>6, QuietCleanup, CompleteFailedServes, FailPendingClientServes, CloseVisitorServes
     DEF Cleanup
<1>7. CASE UNCHANGED vars
  <2>1. /\ \A q \in Requests : WaiterKept(q)
        /\ \A d \in Conns : StreamKept(d)
        /\ UNCHANGED <<pend, done, outcome, failing, closedVisitor, closingVisitor>>
    BY <1>7 DEF vars, WaiterKept, StreamKept
  <2>2. TypeOK /\ closingVisitor \subseteq Requests
    BY DEF IInv, TypeOK
  <2> QED BY <2>1, <2>2, Unnoticed
<1> QED BY <1>1, <1>2, <1>3, <1>4, <1>5, <1>6, <1>7 DEF Next

(* The broker implements VisitorService: whoever comes first, of a claim,  *)
(* the timer, a failure report and a disconnect, decides what becomes of a *)
(* visitor, alone and for good; the visitor is told that, after its socket *)
(* was closed and not while it waits, and it is never forgotten.           *)
THEOREM Refinement == Spec => ImplementsService
<1>1. Init => FateInv /\ Service!Init
  BY ServiceInit
<1>2. IInv /\ FateInv /\ [Next]_vars => FateInv' /\ [Service!Next]_Service!vars
  BY ServiceNext
<1> QED BY <1>1, <1>2, Invariance, PTL DEF Spec, ImplementsService, Service!Spec
==============================================================================
