------------------------------- MODULE Market -------------------------------
(***************************************************************************)
(* The marketplace (src/internal/realm/marketplace), the credit balances   *)
(* it charges (src/internal/realm/inventory/currency) and the furniture    *)
(* rows it withdraws (src/internal/realm/furniture), one action per SQL    *)
(* statement.                                                              *)
(***************************************************************************)
EXTENDS Database, Functions, FiniteSetsExt

CONSTANTS
    Infinite,     \* players with the permission InfiniteBalance
    Items,        \* furniture in inventories
    Listings,     \* bound: the listing rows there may be
    Prices,       \* raw prices between MinimumPrice and MaximumPrice
    Commission,   \* Options.CommissionPercent
    TokenCost,
    TokenPackageSize

ASSUME MarketAssumption ==
    /\ Infinite \subseteq Players
    /\ Listings \subseteq Nat /\ Prices \subseteq Nat \ {0}
    /\ Commission \in 0 .. 100
    /\ TokenCost \in Nat \ {0} /\ TokenPackageSize \in Nat \ {0}

VARIABLE lapsed   \* listings whose ExpiresAt has passed

Balance(a) == <<"balance", a>>   \* player_currencies, credits
Tokens(a) == <<"tokens", a>>     \* marketplace_tokens
Item(i) == <<"item", i>>         \* furniture_items: owner, marketplace_reserved
Listing(l) == <<"listing", l>>   \* marketplace_listings

\* A listing id that has not been given out.
Unlisted == [state |-> "none", seller |-> None, item |-> None, price |-> 0, redeemed |-> FALSE]

MarketRows ==
    UNION { {Balance(a) : a \in Players}, {Tokens(a) : a \in Players},
            {Item(i) : i \in Items}, {Listing(l) : l \in Listings} }

\* The buyer's price: the raw price and the commission, rounded up.
BuyerPrice(raw) == raw + (raw * Commission + 99) \div 100

\* A job: what for, the account it moves, the row it names, a signed sum of
\* credits, ids that a statement returned, and the offers it read to use later.
Job(op, account, on, sum) ==
    [op |-> op, account |-> account, on |-> on, sum |-> sum, batch |-> {}, read |-> NoRows]

(***************************************************************************)
(* Balances.                                                               *)
(***************************************************************************)
\* Deductions a player causes are waived for players with infinite balance;
\* Redeem grants nothing when there is nothing to redeem.
WaivedBothWays(j) == j.sum = 0 \/ j.account \in Infinite
Waived(j) == j.sum = 0 \/ (j.sum < 0 /\ j.account \in Infinite)

\* Repository.mutate: under the advisory lock of the balance, which is held to
\* the end of the transaction, read, add, refuse a negative result, store.
Grant(p) ==
    LET j == job[p]
        next == Row(p, Balance(j.account)) + j.sum
    IN  Run(p, "grant", Waived(j) \/ next >= 0,
            IF Waived(j) THEN NoRows ELSE One(Balance(j.account), next), j)

\* The same with an absolute amount.
Set(p) == Run(p, "set", TRUE, One(Balance(job[p].account), job[p].sum), job[p])

(***************************************************************************)
(* Tokens and listings.                                                    *)
(***************************************************************************)
AddTokens(p) ==
    Run(p, "addTokens", TRUE,
        One(Tokens(p), Row(p, Tokens(p)) + TokenPackageSize), job[p])

SpendToken(p) ==
    LET count == Row(p, Tokens(p))
    IN  Run(p, "spendToken", count > 0, One(Tokens(p), count - 1), job[p])

\* The guard of ReserveForMarketplace and of TransferInventoryItem.
OwnedOnly(row, p) == row.owner = p
Withdrawable(row, p) == row.owner = p /\ ~row.reserved

\* ReserveForMarketplace.
Reserve(p) ==
    LET i == Item(job[p].on)
        row == Row(p, i)
    IN  Run(p, "reserve", Withdrawable(row, p),
            One(i, [row EXCEPT !.reserved = TRUE]), job[p])

\* CreateListing; the unique index admits one open listing of an item.  When
\* the ids of the bound are used up the insert fails.
Insert(p) ==
    LET free == {l \in Listings : rows[Listing(l)] = Unlisted /\ Unlocked(p, Listing(l))}
        j == job[p]
        open == {l \in Listings : /\ Row(p, Listing(l)).state = "open"
                                  /\ Row(p, Listing(l)).item = j.on}
    IN  Run(p, "insert", free # {} /\ open = {},
            One(Listing(Min(free)),
                [state |-> "open", seller |-> p, item |-> j.on, price |-> j.sum,
                 redeemed |-> FALSE]), j)

\* FindListingForUpdate and the checks Buy makes of what it found.
Buyable(row, l, p) == row.state = "open" /\ l \notin lapsed /\ row.seller # p

PeekListing(p) ==
    LET j == job[p]
        row == Row(p, Listing(j.on))
    IN  Run(p, "findListing", Buyable(row, j.on, p), NoRows,
            [j EXCEPT !.sum = -BuyerPrice(row.price)])

FindListing(p) ==
    LET j == job[p]
        row == Row(p, Listing(j.on))
    IN  Run(p, "findListing", Buyable(row, j.on, p), One(Listing(j.on), row),
            [j EXCEPT !.sum = -BuyerPrice(row.price)])

\* The guard of TransferFromMarketplace and of ReleaseFromMarketplace.
Held(row, seller) == row.owner = seller /\ row.reserved

Transfer(p) ==
    LET sale == Row(p, Listing(job[p].on))
        row == Row(p, Item(sale.item))
    IN  Run(p, "transfer", Held(row, sale.seller),
            One(Item(sale.item), [owner |-> p, reserved |-> FALSE]), job[p])

\* MarkSold.  Its expires_at > now() is implied: SQL's now() is the time of
\* begin, which is before the time that FindListing compared with.
MarkSold(p) ==
    LET r == Listing(job[p].on)
        row == Row(p, r)
    IN  Run(p, "markSold", row.state = "open", One(r, [row EXCEPT !.state = "sold"]), job[p])

\* CloseListing, forced by an administrator.
Close(p) ==
    LET j == job[p]
        row == Row(p, Listing(j.on))
    IN  Run(p, "close", row.state = "open" /\ (row.seller = p \/ p = Admin),
            One(Listing(j.on), [row EXCEPT !.state = "closed"]), j)

\* ReleaseFromMarketplace.
Release(p) ==
    LET sale == Row(p, Listing(job[p].on))
        row == Row(p, Item(sale.item))
    IN  Run(p, "release", Held(row, sale.seller),
            One(Item(sale.item), [row EXCEPT !.reserved = FALSE]), job[p])

\* ExpireListings.  PostgreSQL refuses the statement before it reads a row, every
\* time: the id that it returns is one of the listing's and of the CTE's.
ExpireListings(p) == Run(p, "expire", FALSE, NoRows, job[p])

\* RedeemSold marks the seller's sold listings and returns their raw total.
Proceeds(p) ==
    {l \in Listings : LET row == rows[Listing(l)]
                      IN  row.state = "sold" /\ row.seller = p /\ ~row.redeemed}

RedeemSold(p) ==
    LET total == SumFunction([l \in Proceeds(p) |-> rows[Listing(l)].price])
    IN  Run(p, "redeem", TRUE,
            [r \in {Listing(l) : l \in Proceeds(p)} |-> [rows[r] EXCEPT !.redeemed = TRUE]],
            [job[p] EXCEPT !.sum = total])

\* TransferInventoryItem, one of the statements of a trade's settlement.
TransferInventory(p) ==
    LET j == job[p]
        row == Row(p, Item(j.on))
    IN  Run(p, "transferInventory", Withdrawable(row, p),
            One(Item(j.on), [row EXCEPT !.owner = j.account]), j)

(***************************************************************************)
(* The rows a statement writes or locks, and so may have to wait for.      *)
(***************************************************************************)
MarketNeeds(p) ==
    LET j == job[p]
    IN  CASE Doing(p, "grant") -> IF Waived(j) THEN {} ELSE {Balance(j.account)}
          [] Doing(p, "set") -> {Balance(j.account)}
          [] Doing(p, "addTokens") \/ Doing(p, "spendToken") -> {Tokens(p)}
          [] Doing(p, "reserve") \/ Doing(p, "transferInventory") -> {Item(j.on)}
          [] Doing(p, "findListing") \/ Doing(p, "markSold") \/ Doing(p, "close")
                -> {r \in {Listing(j.on)} : rows[r] # Unlisted}
          [] Doing(p, "transfer") \/ Doing(p, "release") -> {Item(Row(p, Listing(j.on)).item)}
          [] Doing(p, "redeem") -> {Listing(l) : l \in Proceeds(p)}
          [] OTHER -> {}

\* What each operation runs.
MarketPlan ==
    [BuyTokens |-> <<"grant", "addTokens", "commit">>,
     List      |-> <<"spendToken", "reserve", "insert", "commit">>,
     Buy       |-> <<"findListing", "grant", "transfer", "markSold", "commit">>,
     Close     |-> <<"close", "release", "commit">>,
     Expire    |-> <<"expire", "release", "commit">>,
     Redeem    |-> <<"redeem", "grant", "commit">>,
     Settle    |-> <<"transferInventory", "commit">>,
     Set       |-> <<"set", "commit">>]

\* The requests: what p may ask for.
MarketJobs(p) ==
    LET requests ==
            {Job("BuyTokens", p, None, -TokenCost), Job("Redeem", p, None, 0)}
            \union {Job("List", p, i, price) : i \in Items, price \in Prices}
            \union {Job(op, p, l, 0) : op \in {"Buy", "Close"}, l \in Listings}
            \union {Job("Settle", a, i, 0) : a \in Players \ {p}, i \in Items}
    IN  CASE p = Timer -> {Job("Expire", None, None, 0)}
          [] p = Admin -> {Job("Close", None, l, 0) : l \in Listings}
                          \union {Job("Set", a, None, 0) : a \in Players}
          [] OTHER -> requests

MarketStatement(p) ==
    \/ Grant(p) \/ Set(p) \/ AddTokens(p) \/ SpendToken(p) \/ Reserve(p)
    \/ Insert(p) \/ FindListing(p) \/ Transfer(p) \/ MarkSold(p) \/ Close(p)
    \/ Release(p) \/ ExpireListings(p) \/ RedeemSold(p) \/ TransferInventory(p)

============================================================================
