----------------------------- MODULE TradeSwap -----------------------------
(***************************************************************************)
(* What direct trading promises, without sessions, packets, locks or       *)
(* transactions: two players agree on what each gives and takes, and the   *)
(* exchange then happens at once, whole, and at most once per agreement.   *)
(* docs/wiki/ARCHITECTURE.md: "both sides build an offer, confirm, and the *)
(* trade settles atomically or not at all".                                *)
(***************************************************************************)
EXTENDS Naturals

CONSTANTS Players, Items, CreditItems

VARIABLES
    item,    \* owner and place of every furniture
    wallet,  \* how often each player was granted an item's value
    agreed   \* what each player currently agrees to

vars == <<item, wallet, agreed>>

Available(i, p) == item[i] = [owner |-> p, place |-> "inventory"]
NoDeal(p) == [with |-> p, give |-> {}, take |-> {}]

Init ==
    /\ item \in [Items -> [owner: Players, place: {"inventory"}]]
    /\ wallet = [p \in Players |-> [i \in Items |-> 0]]
    /\ agreed = [p \in Players |-> NoDeal(p)]

\* Players make and take back agreements as they like.
Negotiate == UNCHANGED <<item, wallet>>

\* Both agree to the same exchange and both own what they give.
Exchange(p, q) ==
    LET give == agreed[p].give
        take == agreed[p].take
        To(i) == IF i \in give THEN q ELSE p
        Moved == give \cup take
        Paid(r) == IF r = p THEN take ELSE IF r = q THEN give ELSE {}
    IN
    /\ p # q
    /\ agreed[p].with = q
    /\ agreed[q] = [with |-> p, give |-> take, take |-> give]
    /\ \A i \in give : Available(i, p)
    /\ \A i \in take : Available(i, q)
    /\ item' = [i \in Items |->
                  IF i \notin Moved THEN item[i]
                  ELSE IF i \in CreditItems THEN [item[i] EXCEPT !.place = "redeemed"]
                  ELSE [item[i] EXCEPT !.owner = To(i)]]
    /\ wallet' = [r \in Players |-> [i \in Items |->
                    wallet[r][i] + IF i \in Paid(r) \cap CreditItems THEN 1 ELSE 0]]
    /\ agreed' = [agreed EXCEPT ![p] = NoDeal(p), ![q] = NoDeal(q)]

\* The owner puts an item in a room, on the market or to another use.
Use(i) ==
    /\ item[i].place = "inventory"
    /\ \E place \in {"room", "reserved", "gone"} : item' = [item EXCEPT ![i].place = place]
    /\ UNCHANGED <<wallet, agreed>>

\* It comes back, or a listed one goes to its buyer.
Back(i) ==
    /\ item[i].place \in {"room", "reserved"}
    /\ \E p \in Players :
         /\ item[i].place = "room" => p = item[i].owner
         /\ item' = [item EXCEPT ![i] = [owner |-> p, place |-> "inventory"]]
    /\ UNCHANGED <<wallet, agreed>>

Next ==
    \/ Negotiate
    \/ \E p, q \in Players : Exchange(p, q)
    \/ \E i \in Items : Use(i) \/ Back(i)

Spec == Init /\ [][Next]_vars
=============================================================================
