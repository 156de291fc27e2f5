------------------------------ MODULE MCBroker ------------------------------
(***************************************************************************)
(* The broker with the visitors and data connections given in the cfg; the *)
(* visitors belong to the first client.                                    *)
(***************************************************************************)
EXTENDS Broker, FiniteSets, TLC

CONSTANTS c1, c2

MCOwner == [r \in Requests |-> c1]
ConnSymmetry == Permutations(Conns)

(* The other agent, where there is one, dials once for the visitor, stays  *)
(* connected and reports nothing.                                          *)
OneStrayConnection ==
    /\ generations[c2] = 0 /\ idle[c2] = <<>>
    /\ \A r \in Requests : <<c2, r>> \notin closeReqs
    /\ \A d \in Conns : client[d] = c2 => stage[d] \notin {"worker", "adding"}
    /\ Cardinality({d \in Conns : client[d] = c2}) <= 1
=============================================================================
