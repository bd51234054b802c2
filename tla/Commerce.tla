------------------------------ MODULE Commerce ------------------------------
(***************************************************************************)
(* Everything that moves credits, furniture and numbered units: the        *)
(* requests of players, the expiry ticker and the administration, whose    *)
(* statements interleave on the same rows.                                 *)
(***************************************************************************)
EXTENDS Catalog

CONSTANTS
    Menus,       \* bound: the operations each process uses, one of these maps
    Quota,       \* bound: the number of requests of each process
    Credits,     \* the balances at first
    Purses,      \* the marketplace tokens at first
    Owned,       \* the owners of the furniture at first
    OnSale,      \* listings that are open at first: their item and price
    Stacks       \* the stacks of the offers at first

\* Furniture is on sale once, at a price (the unique index of marketplace_listings).
ASSUME CommerceAssumption ==
    /\ Owned \in [Items -> Players] /\ Stacks \in [Offers -> 0 .. MaxStack]
    /\ DOMAIN OnSale \subseteq Listings
    /\ \A l \in DOMAIN OnSale : OnSale[l].item \in Items /\ OnSale[l].price \in Prices
    /\ \A l, m \in DOMAIN OnSale : OnSale[l].item = OnSale[m].item => l = m

VARIABLES menu, asked   \* the operations in use, and how much of Quota is used

commerce == <<db, lapsed, cache, menu, asked>>

FirstRow(r) ==
    CASE r[1] = "balance" -> Credits[r[2]]
      [] r[1] = "tokens" -> Purses[r[2]]
      [] r[1] = "item" ->
            [owner |-> Owned[r[2]],
             reserved |-> \E l \in DOMAIN OnSale : OnSale[l].item = r[2]]
      [] r[1] = "listing" ->
            IF r[2] \in DOMAIN OnSale
            THEN [state |-> "open", seller |-> Owned[OnSale[r[2]].item],
                  item |-> OnSale[r[2]].item, price |-> OnSale[r[2]].price,
                  redeemed |-> FALSE]
            ELSE Unlisted
      [] r[1] = "offer" ->
            [stack |-> Stacks[r[2]], sells |-> 0, enabled |-> TRUE, version |-> 1,
             deleted |-> FALSE, forgotten |-> 0]
      [] r[1] = "unit" -> IF r[2][2] <= Stacks[r[2][1]] THEN Unsold ELSE NoUnit
      [] r[1] = "redemption" -> FALSE

CommerceInit ==
    /\ rows = [r \in MarketRows \union CatalogRows |-> FirstRow(r)]
    /\ writes = [p \in Procs |-> NoRows]
    /\ todo = [p \in Procs |-> <<>>]
    /\ job = [p \in Procs |-> None]
    /\ lapsed = {}
    /\ cache = Generation
    /\ menu \in Menus
    /\ asked = [p \in Procs |-> 0]

\* The rows the next statement of p waits for.
Needs(p) == MarketNeeds(p) \union CatalogNeeds(p)
Ready(p) == \A r \in Needs(p) : Unlocked(p, r)

Statement(p) ==
    /\ ~Idle(p) /\ Ready(p)
    /\ MarketStatement(p) \/ CatalogStatement(p)
    /\ UNCHANGED <<lapsed, cache, menu, asked>>

Plan(j) == IF j.op \in DOMAIN MarketPlan THEN MarketPlan[j.op] ELSE CatalogPlan(j)

\* A packet, a tick or an administration request.
Ask(p) ==
    /\ Idle(p)
    /\ asked[p] < Quota[p]
    /\ \E j \in MarketJobs(p) \union CatalogJobs(p) :
           j.op \in menu[p] /\ Begin(p, Plan(j), j)
    /\ asked' = [asked EXCEPT ![p] = @ + 1]
    /\ UNCHANGED <<lapsed, cache, menu>>

End(p) == Commit(p) /\ UNCHANGED <<lapsed, cache, menu, asked>>

\* A statement fails, or PostgreSQL chose the transaction to break a deadlock.
Abort(p) == Fail(p) /\ UNCHANGED <<lapsed, cache, menu, asked>>

Publish(p) == StoreCatalog(p) /\ UNCHANGED <<lapsed, menu, asked>>

\* Time passes: an open listing reaches its ExpiresAt.  Bound: only in behaviours
\* whose menu has the ticker.
Lapse(l) ==
    /\ menu[Timer] # {}
    /\ l \notin lapsed
    /\ rows[Listing(l)].state = "open"
    /\ lapsed' = lapsed \union {l}
    /\ UNCHANGED <<db, cache, menu, asked>>

CommerceNext ==
    \/ \E p \in Procs : Ask(p) \/ Statement(p) \/ End(p) \/ Abort(p) \/ Publish(p)
    \/ \E l \in Listings : Lapse(l)

\* Transactions that wait for each other in a circle.
Waits(p, q) == \E r \in Needs(p) \ Locks(p) : r \in Locks(q)
Stuck(circle) == circle # {} /\ \A p \in circle : \E q \in circle \ {p} : Waits(p, q)

(***************************************************************************)
(* Properties.                                                             *)
(***************************************************************************)
\* Furniture is withdrawn exactly while one open listing of its owner offers it:
\* List, Buy, Close and a trade's settlement write the listing and the item in two
\* statements of two tables, and race for both.
ListedIsReserved ==
    \A i \in Items :
        LET open == {l \in Listings : rows[Listing(l)].state = "open" /\ rows[Listing(l)].item = i}
        IN  /\ rows[Item(i)].reserved <=> open # {}
            /\ \A l, m \in open : l = m /\ rows[Listing(l)].seller = rows[Item(i)].owner

\* The numbers of an offer are those up to its stack and the sold ones, and
\* LimitedSells counts the sold, whatever purchases, vouchers and an administrator
\* who changes the offer do at the same time, but for the sales that it had when
\* a patch made the offer a room bundle: until then no number above the stack is sold.
UnitsCounted ==
    \A o \in Offers :
        LET offer == rows[Offer(o)]
            sold == {n \in Numbers : rows[Unit(o, n)].owner # None}
        IN  /\ {n \in Numbers : rows[Unit(o, n)].exists} = (1 .. offer.stack) \union sold
            /\ offer.forgotten = 0 => sold \subseteq 1 .. offer.stack
            /\ offer.sells + offer.forgotten = Cardinality(sold)
            /\ offer.sells <= offer.stack

\* Marketplace transactions take their locks in one order, listing, balance,
\* tokens, furniture: they never wait for each other in a circle.
MarketOrdered ==
    ~\E circle \in SUBSET {p \in Procs : ~Idle(p) /\ job[p].op \in DOMAIN MarketPlan} :
        Stuck(circle)

\* Each operation is one step of Bazaar, at its commit, or none at all.
Atomic == INSTANCE Bazaar
BazaarSpec == Atomic!Spec

============================================================================
