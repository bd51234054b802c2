------------------------------- MODULE SignIn ------------------------------
(***************************************************************************)
(* What logging in promises, without connections: a ticket signs in the    *)
(* player it was created for, at most once and only while that player has  *)
(* no session; a ticket may also be wasted on a login that fails.          *)
(***************************************************************************)
CONSTANTS Players, Tickets, Owner, None

VARIABLES
    online,  \* the ticket each player is signed in with
    fresh    \* the tickets that may still sign somebody in

Init ==
    /\ online = [p \in Players |-> None]
    /\ fresh = Tickets

Enter(t) ==
    /\ t \in fresh
    /\ online[Owner[t]] = None
    /\ online' = [online EXCEPT ![Owner[t]] = t]
    /\ fresh' = fresh \ {t}

Waste(t) ==
    /\ t \in fresh
    /\ fresh' = fresh \ {t}
    /\ UNCHANGED online

Leave(p) ==
    /\ online[p] # None
    /\ online' = [online EXCEPT ![p] = None]
    /\ UNCHANGED fresh

Next ==
    \/ \E t \in Tickets : Enter(t) \/ Waste(t)
    \/ \E p \in Players : Leave(p)

Spec == Init /\ [][Next]_<<online, fresh>>

============================================================================
