--------------------------- MODULE VisitorService ---------------------------
(***************************************************************************)
(* What the relay broker promises a visitor, without goroutines, maps,     *)
(* channels or data connections: its fate is decided once, by whoever      *)
(* comes first, it is cut off only after that or while its stream runs,    *)
(* and what its handler is told in the end is what was decided.            *)
(***************************************************************************)
CONSTANTS Clients, Requests, Owner

VARIABLES
    fate,     \* how far the service got with each visitor
    cut,      \* the visitors whose socket was closed
    answer    \* what the visitor's handler was told

vars == <<fate, cut, answer>>

Decided == {"relayed", "rejected", "failed", "disconnected", "timeout"}

Init == /\ fate = [r \in Requests |-> "absent"]
        /\ cut = {}
        /\ answer = [r \in Requests |-> "none"]

(* A visitor arrives and waits.  A data connection of its agent takes it,  *)
(* or the agent reports a failure, or nobody comes in time; one that was   *)
(* taken is streamed.                                                      *)
Moves == {<<"absent", "waiting">>, <<"waiting", "taken">>, <<"waiting", "failed">>,
          <<"waiting", "timeout">>, <<"taken", "streaming">>}

Move(r) ==
    /\ <<fate[r], fate'[r]>> \in Moves
    /\ fate' = [fate EXCEPT ![r] = fate'[r]]
    /\ UNCHANGED <<cut, answer>>

(* A stream ends; or the agent was disconnected before it began.           *)
Ends == {<<"taken", "rejected">>, <<"streaming", "relayed">>}

End(r) ==
    /\ <<fate[r], fate'[r]>> \in Ends
    /\ fate' = [fate EXCEPT ![r] = fate'[r]]
    /\ cut' = cut \cup {r}
    /\ UNCHANGED answer

(* The administrator disconnects an agent: all its visitors that wait.     *)
TurnAwayAll(c) ==
    /\ fate' = [r \in Requests |-> IF fate[r] = "waiting" /\ Owner[r] = c
                                   THEN "disconnected" ELSE fate[r]]
    /\ UNCHANGED <<cut, answer>>

Cut(r) ==
    /\ fate[r] \in Decided \cup {"streaming"}
    /\ cut' = cut \cup {r}
    /\ UNCHANGED <<fate, answer>>

Answer(r) ==
    /\ fate[r] \in Decided /\ answer[r] = "none"
    /\ answer' = [answer EXCEPT ![r] = fate[r]]
    /\ cut' = cut \cup {r}
    /\ UNCHANGED fate

Next == \/ \E c \in Clients : TurnAwayAll(c)
        \/ \E r \in Requests : Move(r) \/ End(r) \/ Cut(r) \/ Answer(r)

Spec == Init /\ [][Next]_vars
=============================================================================
