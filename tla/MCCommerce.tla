---------------------------- MODULE MCCommerce ----------------------------
(***************************************************************************)
(* What is kept by transactions: commerce, where ann sells and bob and cat *)
(* buy, and the breeding of dan's and eve's pets.  The two share no state, *)
(* and no property relates them, so a behaviour moves one of them, chosen  *)
(* at the start, and leaves the other in an initial state.                 *)
(***************************************************************************)
EXTENDS Commerce, Breeding, TLC

VARIABLE part  \* the one that moves

CONSTANTS ann, bob, cat, timer, admin, sofa, lamp, rare, dan, eve, rex, fay, kit

Uses(a, b, c, t, m) == [p \in Procs |->
    CASE p = ann -> a [] p = bob -> b [] p = cat -> c [] p = timer -> t [] p = admin -> m]

\* Selling and closing, and the ticker; the money; the numbered units.
MCMenus ==
    {Uses({"List", "Close", "Settle"}, {"Buy"}, {"Buy"}, {"Expire"}, {"Close"}),
     Uses({"Redeem", "BuyTokens"}, {"Buy", "BuyTokens"}, {"Buy"}, {}, {"Set"}),
     Uses({"Voucher"}, {"Purchase"}, {"Purchase", "Voucher"}, {}, {"Update", "Delete"})}
MCQuota == [p \in Procs |-> IF p = admin THEN 2 ELSE 1]
MCCredits == [p \in Players |-> IF p = ann THEN 0 ELSE 3]
MCPurses == [p \in Players |-> IF p = ann THEN 1 ELSE 0]
MCOwned == [i \in Items |-> ann]
MCOnSale == [l \in {1} |-> [item |-> sofa, price |-> 1]]
MCStacks == [o \in Offers |-> 1]

\* A nest is brought or taken, pets are treated, one is moved, or the room closes; and
\* players cancel.
Quiet ==
    [placed |-> {1}, brought |-> {}, taken |-> {}, pets |-> {}, treated |-> {}, closes |-> FALSE,
     cancels |-> TRUE, pairs |-> {{rex, fay}, {fay, kit}}]
MCSeasons ==
    {[Quiet EXCEPT !.placed = {2}, !.brought = {1}, !.cancels = FALSE],
     [Quiet EXCEPT !.placed = {1, 2}, !.taken = {1}, !.cancels = FALSE],
     [Quiet EXCEPT !.treated = {rex, fay}],
     [Quiet EXCEPT !.pets = {rex}],
     [Quiet EXCEPT !.closes = TRUE]}
Owners == (rex :> dan) @@ (fay :> eve) @@ (kit :> eve)

parts == <<part, commerce, breeding>>

Init ==
    /\ part \in {"commerce", "breeding"}
    /\ CommerceInit /\ BreedingInit
    /\ part # "commerce" => \A p \in Procs : "Redeem" \notin menu[p] /\ "Purchase" \notin menu[p]
    /\ part # "breeding" => season.closes

Next ==
    /\ UNCHANGED part
    /\ \/ part = "commerce" /\ CommerceNext /\ UNCHANGED breeding
       \/ part = "breeding" /\ BreedingNext /\ UNCHANGED commerce

Spec == Init /\ [][Next]_parts

============================================================================
