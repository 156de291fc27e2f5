-------------------------- MODULE ControlDelivery --------------------------
(***************************************************************************)
(* What a control write queue promises its callers and the agent at the    *)
(* other end, without counters, budgets, goroutines or wake-ups: three     *)
(* first-in first-out lanes over one transport that may break.             *)
(***************************************************************************)
EXTENDS Sequences

CONSTANTS Messages, LaneOf

VARIABLES
    waiting,   \* the messages of each lane that may still be delivered
    taken,     \* every message accepted so far
    sent,      \* what the agent receives
    open,      \* the queue accepts messages
    intact     \* no transport write has failed

vars == <<waiting, taken, sent, open, intact>>

Lanes == {"critical", "urgent", "normal"}

Init == /\ waiting = [l \in Lanes |-> <<>>]
        /\ taken = {} /\ sent = <<>>
        /\ open = TRUE /\ intact = TRUE

Accept(m) ==
    /\ open /\ m \notin taken
    /\ taken' = taken \cup {m}
    /\ waiting' = [waiting EXCEPT ![LaneOf[m]] = Append(@, m)]
    /\ UNCHANGED <<sent, open, intact>>

(* The transport may break while it delivers a message.                    *)
Send(l) ==
    /\ intact /\ waiting[l] # <<>>
    /\ sent' = Append(sent, Head(waiting[l]))
    /\ waiting' = [waiting EXCEPT ![l] = Tail(@)]
    /\ intact' \in BOOLEAN
    /\ UNCHANGED <<taken, open>>

Lose(l) ==
    /\ intact /\ waiting[l] # <<>>
    /\ waiting' = [waiting EXCEPT ![l] = Tail(@)]
    /\ intact' = FALSE
    /\ UNCHANGED <<taken, sent, open>>

(* Closing forgets everything but, perhaps, the message being written.     *)
Close(kept) ==
    /\ open' = FALSE
    /\ waiting' = [l \in Lanes |-> IF l \in kept THEN <<Head(waiting[l])>> ELSE <<>>]
    /\ UNCHANGED <<taken, sent, intact>>

Next == \/ \E m \in Messages : Accept(m)
        \/ \E l \in Lanes : Send(l) \/ Lose(l)
        \/ Close({})
        \/ \E l \in Lanes : waiting[l] # <<>> /\ Close({l})

Spec == Init /\ [][Next]_vars
=============================================================================
