------------------------------- MODULE Bazaar -------------------------------
(***************************************************************************)
(* What the marketplace and the catalog promise: every operation is one    *)
(* indivisible step on the rows, whatever else is going on.                *)
(***************************************************************************)
EXTENDS Integers, FiniteSets, Functions

CONSTANTS
    Players, None, Infinite, Items, Listings, Prices, Commission, TokenCost,
    TokenPackageSize, Offers, MaxStack, Cost, VoucherCredits, VoucherOffer

VARIABLE rows

Balance(a) == rows[<<"balance", a>>]
Tokens(a) == rows[<<"tokens", a>>]
Item(i) == rows[<<"item", i>>]
Listing(l) == rows[<<"listing", l>>]
Offer(o) == rows[<<"offer", o>>]
Unit(o, n) == rows[<<"unit", <<o, n>>>>]

\* The rows in the domain of `new` change, and no others.
Become(new) == rows' = [r \in DOMAIN rows |-> IF r \in DOMAIN new THEN new[r] ELSE rows[r]]
\* A player with infinite balance is given credits and never charged.
Free(a, sum) == sum = 0 \/ (sum < 0 /\ a \in Infinite)
Pay(a, sum) == [r \in IF Free(a, sum) THEN {} ELSE {<<"balance", a>>} |-> Balance(a) + sum]
Affords(a, sum) == Free(a, sum) \/ Balance(a) + sum >= 0
And(f, g) == [r \in DOMAIN f \union DOMAIN g |-> IF r \in DOMAIN f THEN f[r] ELSE g[r]]
To(kind, id, value) == [r \in {<<kind, id>>} |-> value]

Price(l) == Listing(l).price + (Listing(l).price * Commission + 99) \div 100
Open(l) == Listing(l).state = "open"

Init == TRUE

BuyTokens(a) ==
    /\ Affords(a, -TokenCost)
    /\ Become(And(Pay(a, -TokenCost), To("tokens", a, Tokens(a) + TokenPackageSize)))

\* A token and the furniture for an open listing.
List(a, i, l, price) ==
    /\ Tokens(a) > 0
    /\ Item(i) = [owner |-> a, reserved |-> FALSE]
    /\ Listing(l).state = "none"
    /\ Become(And(To("tokens", a, Tokens(a) - 1),
              And(To("item", i, [owner |-> a, reserved |-> TRUE]),
                  To("listing", l, [state |-> "open", seller |-> a, item |-> i,
                                    price |-> price, redeemed |-> FALSE]))))

\* The furniture to the buyer, the price from them, and a sale to redeem.
Buy(a, l) ==
    /\ Open(l) /\ Listing(l).seller # a /\ Affords(a, -Price(l))
    /\ Item(Listing(l).item) = [owner |-> Listing(l).seller, reserved |-> TRUE]
    /\ Become(And(Pay(a, -Price(l)),
              And(To("item", Listing(l).item, [owner |-> a, reserved |-> FALSE]),
                  To("listing", l, [Listing(l) EXCEPT !.state = "sold"]))))

\* A listing ends without a sale.
Withdraw(l) ==
    /\ Open(l)
    /\ Become(And(To("item", Listing(l).item, [Item(Listing(l).item) EXCEPT !.reserved = FALSE]),
                  To("listing", l, [Listing(l) EXCEPT !.state = "closed"])))

\* Every sale is paid out once; one that is made meanwhile may have to wait.
Sales(a) ==
    {l \in Listings : Listing(l).state = "sold" /\ Listing(l).seller = a /\ ~Listing(l).redeemed}
Redeem(a, sold) ==
    Become(And([r \in {<<"listing", l>> : l \in sold} |-> [rows[r] EXCEPT !.redeemed = TRUE]],
               Pay(a, SumFunction([l \in sold |-> Listing(l).price]))))

Settle(a, b, i) ==
    /\ Item(i) = [owner |-> a, reserved |-> FALSE]
    /\ Become(To("item", i, [owner |-> b, reserved |-> FALSE]))

Set(a, sum) == Become(To("balance", a, sum))

\* One number of a limited offer for its price; the last one disables the offer.
Sale(a, o, n) ==
    And(To("unit", <<o, n>>, [exists |-> TRUE, owner |-> a, complete |-> TRUE]),
        To("offer", o, [Offer(o) EXCEPT !.sells = @ + 1,
                            !.enabled = Offer(o).sells + 1 < Offer(o).stack, !.version = @ + 1]))
Saleable(o, n) == Unit(o, n).exists /\ Unit(o, n).owner = None /\ Offer(o).sells < Offer(o).stack

Purchase(a, o, n) ==
    /\ Saleable(o, n) /\ Affords(a, -Cost)
    /\ Become(And(Pay(a, -Cost), Sale(a, o, n)))
PurchaseUnlimited(a) == Affords(a, -Cost) /\ Become(Pay(a, -Cost))

\* One redemption for each player; what it grants comes with it.
Voucher(a, gift) ==
    /\ ~rows[<<"redemption", a>>]
    /\ Become(And(To("redemption", a, TRUE), And(Pay(a, VoucherCredits), gift)))
Gifts(a) ==
    {Pay(a, 0)} \union
    (IF VoucherOffer = None THEN {}
     ELSE {Sale(a, VoucherOffer, n) : n \in {m \in 1 .. MaxStack : Saleable(VoucherOffer, m)}})

\* An offer changes, and its unsold numbers with its stack.
Change(o, offer) ==
    Become([r \in {<<"offer", o>>} \union {<<"unit", <<o, n>>>> : n \in 1 .. MaxStack} |->
            IF r[1] = "offer" THEN [offer EXCEPT !.version = @ + 1]
            ELSE IF rows[r].owner # None THEN rows[r]
            ELSE [rows[r] EXCEPT !.exists = r[2][2] <= offer.stack]])

\* The stack only grows once a number was sold, or the offer ceases to be limited.
Update(o, stack, enabled) ==
    /\ ~Offer(o).deleted /\ stack >= Offer(o).sells
    /\ Offer(o).sells > 0 => stack >= Offer(o).stack
    /\ Change(o, [Offer(o) EXCEPT !.stack = stack, !.enabled = enabled])
Unlimit(o, enabled) ==
    /\ ~Offer(o).deleted
    /\ Change(o, [Offer(o) EXCEPT !.stack = 0, !.sells = 0, !.enabled = enabled,
                                  !.forgotten = @ + Offer(o).sells])
Delete(o) ==
    /\ ~Offer(o).deleted
    /\ Become(To("offer", o, [Offer(o) EXCEPT !.deleted = TRUE, !.version = @ + 1]))

Operation ==
    \/ \E a \in Players :
           \/ BuyTokens(a) \/ PurchaseUnlimited(a) \/ Set(a, 0)
           \/ \E i \in Items, l \in Listings, price \in Prices : List(a, i, l, price)
           \/ \E l \in Listings : Buy(a, l)
           \/ \E sold \in SUBSET Sales(a) : Redeem(a, sold)
           \/ \E b \in Players, i \in Items : Settle(a, b, i)
           \/ \E o \in Offers, n \in 1 .. MaxStack : Purchase(a, o, n)
           \/ \E gift \in Gifts(a) : Voucher(a, gift)
    \/ \E l \in Listings : Withdraw(l)
    \/ \E o \in Offers, enabled \in BOOLEAN :
           \/ Delete(o) \/ Unlimit(o, enabled)
           \/ \E stack \in 0 .. MaxStack : Update(o, stack, enabled)

Next == rows' # rows /\ Operation

Spec == Init /\ [][Next]_rows

============================================================================
