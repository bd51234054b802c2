--------------------------- MODULE CommerceProofs ---------------------------
(***************************************************************************)
(* The marketplace and the catalog, for any number of players, listings,   *)
(* furniture, offers and requests: the transactions of the repositories,   *)
(* statement by statement, implement Bazaar, whose operations are one step *)
(* each, and what Bazaar keeps of the rows is kept by the transactions.    *)
(*                                                                         *)
(* First the statements: what each transaction has written when it comes   *)
(* to a statement, as a function of the committed rows, and that nothing   *)
(* others do in the meantime changes that.  Then the conclusions.          *)
(***************************************************************************)
EXTENDS Commerce, FiniteSetTheorems, SequenceTheorems, WellFoundedInduction, TLAPS

(***************************************************************************)
(* The committed rows.                                                     *)
(***************************************************************************)
ItemRows == [owner : Players, reserved : BOOLEAN]
ListingRows ==
    [state : {"none", "open", "sold", "closed"}, seller : Players \union {None},
     item : Items \union {None}, price : Prices \union {0}, redeemed : BOOLEAN]
OfferRows ==
    [stack : 0 .. MaxStack, sells : Nat, enabled : BOOLEAN, version : Nat, deleted : BOOLEAN,
     forgotten : Nat]
UnitRows == [exists : BOOLEAN, owner : Players \union {None}, complete : BOOLEAN]

RowsFit ==
    /\ rows = [r \in MarketRows \union CatalogRows |-> rows[r]]
    /\ \A i \in Items : rows[Item(i)] \in ItemRows
    /\ \A l \in Listings :
          /\ rows[Listing(l)] \in ListingRows
          /\ rows[Listing(l)].state # "none" =>
                rows[Listing(l)].item \in Items /\ rows[Listing(l)].seller \in Players
    /\ \A o \in Offers : rows[Offer(o)] \in OfferRows
    /\ \A o \in Offers, n \in Numbers : rows[Unit(o, n)] \in UnitRows

(***************************************************************************)
(* What a transaction wrote, statement by statement, as a function of the  *)
(* committed rows: those it locked are as it found them.                   *)
(***************************************************************************)
Paid(p) ==
    IF Waived(job[p]) THEN NoRows
    ELSE One(Balance(job[p].account), rows[Balance(job[p].account)] + job[p].sum)
CanPay(p) == Waived(job[p]) \/ rows[Balance(job[p].account)] + job[p].sum >= 0

Resting(p) == todo[p] = <<>> /\ writes[p] = NoRows
Reloading(p) ==
    /\ todo[p] \in {<<"readCatalog", "storeCatalog">>, <<"storeCatalog">>} /\ writes[p] = NoRows
    /\ job[p].op \notin DOMAIN MarketPlan

BuyTokensFits(p) ==
    /\ p \in Players /\ job[p] = Job("BuyTokens", p, None, -TokenCost)
    /\ \/ todo[p] = <<"grant", "addTokens", "commit">> /\ writes[p] = NoRows
       \/ todo[p] = <<"addTokens", "commit">> /\ CanPay(p) /\ writes[p] = Over(Paid(p), NoRows)
       \/ /\ todo[p] = <<"commit">> /\ CanPay(p)
          /\ writes[p] = Over(One(Tokens(p), rows[Tokens(p)] + TokenPackageSize),
                              Over(Paid(p), NoRows))

Spent(p) == One(Tokens(p), rows[Tokens(p)] - 1)
Kept(p, i) == Over(One(Item(i), [rows[Item(i)] EXCEPT !.reserved = TRUE]), Spent(p))
Opened(p, i, l, price) ==
    Over(One(Listing(l), [state |-> "open", seller |-> p, item |-> i, price |-> price,
                          redeemed |-> FALSE]), Kept(p, i))
ListFits(p) ==
    \E i \in Items, price \in Prices :
        /\ p \in Players /\ job[p] = Job("List", p, i, price)
        /\ \/ todo[p] = <<"spendToken", "reserve", "insert", "commit">> /\ writes[p] = NoRows
           \/ /\ rows[Tokens(p)] > 0
              /\ \/ todo[p] = <<"reserve", "insert", "commit">> /\ writes[p] = Spent(p)
                 \/ /\ Withdrawable(rows[Item(i)], p)
                    /\ \/ todo[p] = <<"insert", "commit">> /\ writes[p] = Kept(p, i)
                       \/ /\ todo[p] = <<"commit">>
                          /\ \E l \in Listings :
                                /\ rows[Listing(l)] = Unlisted
                                /\ writes[p] = Opened(p, i, l, price)

Sale(l) == rows[Listing(l)]
Charged(p, l) == Over(Paid(p), One(Listing(l), Sale(l)))
Moved(p, l) == Over(One(Item(Sale(l).item), [owner |-> p, reserved |-> FALSE]), Charged(p, l))
BuyFits(p) ==
    \E l \in Listings :
        /\ p \in Players
        /\ \/ /\ todo[p] = <<"findListing", "grant", "transfer", "markSold", "commit">>
              /\ job[p] = Job("Buy", p, l, 0) /\ writes[p] = NoRows
           \/ /\ job[p] = Job("Buy", p, l, -BuyerPrice(Sale(l).price))
              /\ Sale(l).state = "open" /\ Sale(l).seller # p
              /\ \/ /\ todo[p] = <<"grant", "transfer", "markSold", "commit">>
                    /\ writes[p] = One(Listing(l), Sale(l))
                 \/ /\ CanPay(p)
                    /\ \/ /\ todo[p] = <<"transfer", "markSold", "commit">>
                          /\ writes[p] = Charged(p, l)
                       \/ /\ Held(rows[Item(Sale(l).item)], Sale(l).seller)
                          /\ \/ todo[p] = <<"markSold", "commit">> /\ writes[p] = Moved(p, l)
                             \/ /\ todo[p] = <<"commit">>
                                /\ writes[p] =
                                     Over(One(Listing(l), [Sale(l) EXCEPT !.state = "sold"]),
                                          Moved(p, l))

\* A listing is closed, and its furniture released; no expiry gets that far.
Closed(l) == One(Listing(l), [Sale(l) EXCEPT !.state = "closed"])
Freed(l) ==
    Over(One(Item(Sale(l).item), [rows[Item(Sale(l).item)] EXCEPT !.reserved = FALSE]), Closed(l))
EndFits(p) ==
    \/ /\ todo[p] = <<"expire", "release", "commit">> /\ writes[p] = NoRows
       /\ job[p] = Job("Expire", None, None, 0)
    \/ \E l \in Listings, a \in Players \union {None} :
          /\ job[p] = Job("Close", a, l, 0)
          /\ \/ todo[p] = <<"close", "release", "commit">> /\ writes[p] = NoRows
             \/ /\ Sale(l).state = "open"
                /\ \/ todo[p] = <<"release", "commit">> /\ writes[p] = Closed(l)
                   \/ todo[p] = <<"commit">> /\ writes[p] = Freed(l)

PaidOut(sold) == [r \in {Listing(l) : l \in sold} |-> [rows[r] EXCEPT !.redeemed = TRUE]]
RedeemFits(p) ==
    /\ p \in Players
    /\ \/ /\ todo[p] = <<"redeem", "grant", "commit">> /\ job[p] = Job("Redeem", p, None, 0)
          /\ writes[p] = NoRows
       \/ \E sold \in SUBSET Proceeds(p) :
             /\ job[p] = Job("Redeem", p, None, SumFunction([l \in sold |-> Sale(l).price]))
             /\ \/ todo[p] = <<"grant", "commit">> /\ writes[p] = PaidOut(sold)
                \/ todo[p] = <<"commit">> /\ writes[p] = Over(Paid(p), PaidOut(sold))

SettleFits(p) ==
    \E i \in Items, a \in Players :
        /\ p \in Players /\ job[p] = Job("Settle", a, i, 0)
        /\ \/ todo[p] = <<"transferInventory", "commit">> /\ writes[p] = NoRows
           \/ /\ todo[p] = <<"commit">> /\ Withdrawable(rows[Item(i)], p)
              /\ writes[p] = One(Item(i), [rows[Item(i)] EXCEPT !.owner = a])

SetFits(p) ==
    \E a \in Players :
        /\ job[p] = Job("Set", a, None, 0)
        /\ \/ todo[p] = <<"set", "commit">> /\ writes[p] = NoRows
           \/ todo[p] = <<"commit">> /\ writes[p] = One(Balance(a), 0)

\* A number is reserved, and then sold.
Number(p, o, n) == One(Unit(o, n), [rows[Unit(o, n)] EXCEPT !.owner = p])
NumberSold(p, o, n) ==
    Over(One(Unit(o, n), [[rows[Unit(o, n)] EXCEPT !.owner = p] EXCEPT !.complete = TRUE]),
         One(Offer(o), Sold(rows[Offer(o)])))
Free(o, n) == rows[Unit(o, n)].exists /\ rows[Unit(o, n)].owner = None
InStock(o) == rows[Offer(o)].stack > rows[Offer(o)].sells

\* The number n of the offer o is reserved, paid, sold.
NumberFits(p, o, n) ==
    /\ job[p] = [Job("Purchase", p, o, -Cost) EXCEPT !.batch = {n}] /\ Free(o, n)
    /\ \/ /\ todo[p] = <<"grant", "completeUnit", "commit", "readCatalog", "storeCatalog">>
          /\ writes[p] = Number(p, o, n)
       \/ /\ todo[p] = <<"completeUnit", "commit", "readCatalog", "storeCatalog">> /\ CanPay(p)
          /\ writes[p] = Over(Paid(p), Number(p, o, n))
       \/ /\ todo[p] = <<"commit", "readCatalog", "storeCatalog">> /\ CanPay(p) /\ InStock(o)
          /\ writes[p] = Over(NumberSold(p, o, n), Over(Paid(p), Number(p, o, n)))
PurchaseFits(p) ==
    \E o \in Offers :
        /\ p \in Players
        /\ \/ /\ job[p] = Job("Purchase", p, o, -Cost)
              /\ \/ todo[p] = <<"grant", "commit">> /\ writes[p] = NoRows
                 \/ todo[p] = <<"commit">> /\ CanPay(p) /\ writes[p] = Over(Paid(p), NoRows)
                 \/ /\ todo[p] = <<"reserveUnit", "grant", "completeUnit", "commit", "readCatalog",
                         "storeCatalog">>
                    /\ writes[p] = NoRows
           \/ \E n \in Numbers : NumberFits(p, o, n)

Granted(p) == Over(Paid(p), One(Redemption(p), TRUE))
VoucherFits(p) ==
    LET voucher == Job("Voucher", p, VoucherOffer, VoucherCredits) IN
    /\ p \in Players
    /\ \/ /\ job[p] = voucher
          /\ \/ /\ writes[p] = NoRows
                /\ \E last \in {"commit", "checkOffer"} :
                      todo[p] \in {<<"count", "insertRedemption", "grant", last>>,
                                   <<"insertRedemption", "grant", last>>}
             \/ /\ ~rows[Redemption(p)]
                /\ \/ /\ writes[p] = One(Redemption(p), TRUE)
                      /\ todo[p] \in {<<"grant", "commit">>, <<"grant", "checkOffer">>}
                   \/ /\ writes[p] = Granted(p)
                      /\ \/ todo[p] \in {<<"commit">>, <<"checkOffer">>}
                         \/ /\ todo[p] = <<"reserveUnit", "completeUnit", "commit">>
                            /\ VoucherOffer \in Offers
       \/ \E n \in Numbers :
             /\ job[p] = [voucher EXCEPT !.batch = {n}] /\ VoucherOffer \in Offers
             /\ ~rows[Redemption(p)] /\ Free(VoucherOffer, n)
             /\ \/ /\ todo[p] = <<"completeUnit", "commit">>
                   /\ writes[p] = Over(Number(p, VoucherOffer, n), Granted(p))
                \/ /\ todo[p] = <<"commit">> /\ InStock(VoucherOffer)
                   /\ writes[p] = Over(NumberSold(p, VoucherOffer, n),
                                       Over(Number(p, VoucherOffer, n), Granted(p)))

\* What an administrator read of an offer is still so, unless its version moved on.
Current(o, new) ==
    new \in Patched(o) /\ ~rows[Offer(o)].deleted /\ Admissible(rows[Offer(o)], new)
Changed(o, new) == One(Offer(o), [new EXCEPT !.version = @ + 1])
Gone(o, stack) == {n \in Numbers : Free(o, n) /\ n > stack}
Added(o, stack) == {n \in 1 .. stack : ~rows[Unit(o, n)].exists}
Synced(o, new) ==
    Over([r \in {Unit(o, n) : n \in Gone(o, new.stack)} |-> NoUnit],
         [r \in {Unit(o, n) : n \in Added(o, new.stack)} |-> Unsold])

UpdateFits(p) ==
    \E o \in Offers :
        \/ /\ todo[p] = <<"findItem", "updateItem", "syncUnits", "commit", "readCatalog",
                "storeCatalog">>
           /\ job[p] = Job("Update", None, o, 0) /\ writes[p] = NoRows
        \/ /\ o \in DOMAIN job[p].read /\ job[p].read[o] \in OfferRows
           /\ job[p] = [Job("Update", None, o, 0) EXCEPT !.read = job[p].read]
           /\ \/ /\ todo[p] = <<"updateItem", "syncUnits", "commit", "readCatalog", "storeCatalog">>
                 /\ writes[p] = NoRows
                 /\ Current(o, job[p].read[o]) \/ job[p].read[o].version < rows[Offer(o)].version
              \/ /\ Current(o, job[p].read[o])
                 /\ \/ /\ todo[p] = <<"syncUnits", "commit", "readCatalog", "storeCatalog">>
                       /\ writes[p] = Changed(o, job[p].read[o])
                    \/ /\ todo[p] = <<"commit", "readCatalog", "storeCatalog">>
                       /\ writes[p] = Over(Synced(o, job[p].read[o]), Changed(o, job[p].read[o]))

DeleteFits(p) ==
    \E o \in Offers :
        \/ /\ todo[p] = <<"findItem", "deleteItem", "commit", "readCatalog", "storeCatalog">>
           /\ job[p] = Job("Delete", None, o, 0) /\ writes[p] = NoRows
        \/ /\ job[p] = [Job("Delete", None, o, 0) EXCEPT !.read = job[p].read]
           /\ \/ /\ todo[p] = <<"deleteItem", "commit", "readCatalog", "storeCatalog">>
                      /\ writes[p] = NoRows
              \/ /\ todo[p] = <<"commit", "readCatalog", "storeCatalog">> /\ ~rows[Offer(o)].deleted
                 /\ writes[p] = One(Offer(o),
                      [rows[Offer(o)] EXCEPT !.deleted = TRUE, !.version = @ + 1])

MarketFits(p) ==
    BuyTokensFits(p) \/ ListFits(p) \/ BuyFits(p) \/ EndFits(p) \/ RedeemFits(p) \/ SettleFits(p)
      \/ SetFits(p)
CatalogFits(p) == PurchaseFits(p) \/ VoucherFits(p) \/ UpdateFits(p) \/ DeleteFits(p)
Fits(p) == Resting(p) \/ Reloading(p) \/ MarketFits(p) \/ CatalogFits(p)

Shapes == DOMAIN todo = Procs /\ DOMAIN job = Procs /\ DOMAIN writes = Procs

-----------------------------------------------------------------------------
(***************************************************************************)
(* Rows and writes.                                                        *)
(***************************************************************************)
\* A row's key names its table, and what it is the row of.
LEMMA Keys ==
    /\ \A a : Balance(a)[1] = "balance" /\ Balance(a)[2] = a
    /\ \A a : Tokens(a)[1] = "tokens" /\ Tokens(a)[2] = a
    /\ \A i : Item(i)[1] = "item" /\ Item(i)[2] = i
    /\ \A l : Listing(l)[1] = "listing" /\ Listing(l)[2] = l
    /\ \A o : Offer(o)[1] = "offer" /\ Offer(o)[2] = o
    /\ \A o, n : Unit(o, n)[1] = "unit" /\ Unit(o, n)[2][1] = o /\ Unit(o, n)[2][2] = n
    /\ \A a : Redemption(a)[1] = "redemption" /\ Redemption(a)[2] = a
  BY DEF Balance, Tokens, Item, Listing, Offer, Unit, Redemption

\* The rows there are.
LEMMA RowIds ==
    ASSUME RowsFit
    PROVE  /\ \A a \in Players : Balance(a) \in DOMAIN rows /\ Tokens(a) \in DOMAIN rows
                                   /\ Redemption(a) \in DOMAIN rows
           /\ \A i \in Items : Item(i) \in DOMAIN rows
           /\ \A l \in Listings : Listing(l) \in DOMAIN rows
           /\ \A o \in Offers : Offer(o) \in DOMAIN rows
                /\ \A n \in Numbers : Unit(o, n) \in DOMAIN rows
<1>1. DOMAIN rows = MarketRows \union CatalogRows
  BY DEF RowsFit
<1>2. QED
  BY <1>1 DEF MarketRows, CatalogRows

\* Writes upon writes.
LEMMA Writing ==
    /\ \A f, g : DOMAIN Over(f, g) = DOMAIN f \union DOMAIN g
    /\ \A f, g : \A r \in DOMAIN f : Over(f, g)[r] = f[r]
    /\ \A f, g : \A r \in DOMAIN g : r \notin DOMAIN f => Over(f, g)[r] = g[r]
    /\ \A f, g : \A r \in DOMAIN f \union DOMAIN g :
         Over(f, g)[r] = IF r \in DOMAIN f THEN f[r] ELSE g[r]
    /\ \A r, value : DOMAIN One(r, value) = {r} /\ One(r, value)[r] = value
    /\ DOMAIN NoRows = {}
    /\ \A r, value : Over(One(r, value), NoRows) = One(r, value)
  BY DEF Over, One, NoRows

\* The rows of a write.
LEMMA Domains ==
    /\ \A f, g : DOMAIN Over(f, g) = DOMAIN f \union DOMAIN g
    /\ \A f : DOMAIN Over(f, NoRows) = DOMAIN f
    /\ \A r, value : DOMAIN One(r, value) = {r}
    /\ DOMAIN NoRows = {}
  BY DEF Over, One, NoRows

\* The rows that are written.
LEMMA WritesAre ==
    /\ \A f, g : DOMAIN f \subseteq DOMAIN Over(f, g) /\ DOMAIN g \subseteq DOMAIN Over(f, g)
    /\ \A r, value, g : r \in DOMAIN Over(One(r, value), g)
    /\ \A r, value : r \in DOMAIN One(r, value)
  BY DEF Over, One

\* A first statement may write any rows.
LEMMA WritingFirst ==
    ASSUME NEW S, NEW f, f = [r \in S |-> f[r]]
    PROVE  Over(f, NoRows) = f
  BY DEF Over, NoRows

\* An offer, field by field.
Row6(stack, sells, enabled, version, deleted, forgotten) ==
    [stack |-> stack, sells |-> sells, enabled |-> enabled, version |-> version,
     deleted |-> deleted, forgotten |-> forgotten]

\* The fields of an offer.
LEMMA OfferFields ==
    ASSUME NEW row \in OfferRows
    PROVE  /\ row.stack \in 0 .. MaxStack /\ row.sells \in Nat /\ row.enabled \in BOOLEAN
           /\ row.version \in Nat /\ row.deleted \in BOOLEAN /\ row.forgotten \in Nat
           /\ row = Row6(row.stack, row.sells, row.enabled, row.version, row.deleted, row.forgotten)
  BY DEF OfferRows, Row6

\* Such fields make an offer.
LEMMA OfferMade ==
    ASSUME NEW stack \in 0 .. MaxStack, NEW sells \in Nat, NEW enabled \in BOOLEAN,
           NEW version \in Nat, NEW deleted \in BOOLEAN, NEW forgotten \in Nat
    PROVE  Row6(stack, sells, enabled, version, deleted, forgotten) \in OfferRows
  BY DEF OfferRows, Row6

\* What was written field by field.
LEMMA RowFields ==
    ASSUME NEW stack, NEW sells, NEW enabled, NEW version, NEW deleted, NEW forgotten, NEW row,
           row = Row6(stack, sells, enabled, version, deleted, forgotten)
    PROVE  /\ row.stack = stack /\ row.sells = sells /\ row.enabled = enabled
           /\ row.version = version /\ row.deleted = deleted /\ row.forgotten = forgotten
           /\ \A next : [row EXCEPT !.version = next]
                           = Row6(stack, sells, enabled, next, deleted, forgotten)
  BY DEF Row6

\* A patch changes the stack and whether the offer is enabled; that of a bundle drops
\* the stack and the sales; no patch changes the rest of the row.
LEMMA Patches ==
    ASSUME NEW row \in OfferRows, NEW stack \in 0 .. MaxStack, NEW enabled \in BOOLEAN
    PROVE  /\ Patch(row, stack, enabled)
                = Row6(stack, row.sells, enabled, row.version, row.deleted, row.forgotten)
           /\ Bundle(row, enabled)
                = Row6(0, 0, enabled, row.version, row.deleted, row.forgotten + row.sells)
           /\ Patch(row, stack, enabled) \in OfferRows /\ Bundle(row, enabled) \in OfferRows
<1>1. row = Row6(row.stack, row.sells, row.enabled, row.version, row.deleted, row.forgotten)
      /\ row.sells \in Nat /\ row.forgotten \in Nat /\ row.version \in Nat /\ row.deleted \in BOOLEAN
  BY OfferFields
<1>2. Patch(row, stack, enabled)
        = Row6(stack, row.sells, enabled, row.version, row.deleted, row.forgotten)
  <2> DEFINE first == [row EXCEPT !.stack = stack]
  <2>1. first = Row6(stack, row.sells, row.enabled, row.version, row.deleted, row.forgotten)
    BY <1>1 DEF Row6
  <2>2. Patch(row, stack, enabled) = [first EXCEPT !.enabled = enabled]
    BY DEF Patch
  <2> HIDE DEF first
  <2>3. QED
    BY <2>1, <2>2 DEF Row6
<1>3. Bundle(row, enabled)
        = Row6(0, 0, enabled, row.version, row.deleted, row.forgotten + row.sells)
  <2> DEFINE first == [row EXCEPT !.stack = 0]
             second == [first EXCEPT !.sells = 0]
             third == [second EXCEPT !.enabled = enabled]
             dropped == row.forgotten + row.sells
  <2>1. first = Row6(0, row.sells, row.enabled, row.version, row.deleted, row.forgotten)
    BY <1>1 DEF Row6
  <2>2. Bundle(row, enabled) = [third EXCEPT !.forgotten = dropped]
    <3>1. third.forgotten = row.forgotten
      <4> HIDE DEF first
      <4>1. QED
        BY <2>1 DEF Row6
    <3>2. QED
      BY <3>1 DEF Bundle
  <2> HIDE DEF first, dropped
  <2>3. second = Row6(0, 0, row.enabled, row.version, row.deleted, row.forgotten)
    BY <2>1 DEF Row6
  <2> HIDE DEF second
  <2>4. third = Row6(0, 0, enabled, row.version, row.deleted, row.forgotten)
    BY <2>3 DEF Row6
  <2> HIDE DEF third
  <2>5. QED
    BY <2>2, <2>4 DEF Row6, dropped
<1>4. 0 \in 0 .. MaxStack /\ row.forgotten + row.sells \in Nat /\ 0 \in Nat
  BY <1>1, CatalogAssumption
<1>5. QED
  BY <1>1, <1>2, <1>3, <1>4, OfferMade

\* So a patched offer is an offer, of the version that was read.
LEMMA PatchKeeps ==
    ASSUME NEW o, rows[Offer(o)] \in OfferRows, NEW new \in Patched(o)
    PROVE  new \in OfferRows /\ new.version = rows[Offer(o)].version
<1> DEFINE row == rows[Offer(o)]
<1>1. 0 \in 0 .. MaxStack
  BY CatalogAssumption
<1>2. ASSUME NEW stack \in 0 .. MaxStack, NEW enabled \in BOOLEAN
      PROVE  /\ Patch(row, stack, enabled) \in OfferRows
             /\ Patch(row, stack, enabled).version = row.version
             /\ Bundle(row, enabled) \in OfferRows /\ Bundle(row, enabled).version = row.version
  <2>1. /\ Patch(row, stack, enabled)
             = Row6(stack, row.sells, enabled, row.version, row.deleted, row.forgotten)
        /\ Bundle(row, enabled)
             = Row6(0, 0, enabled, row.version, row.deleted, row.forgotten + row.sells)
        /\ Patch(row, stack, enabled) \in OfferRows /\ Bundle(row, enabled) \in OfferRows
    BY Patches
  <2> HIDE DEF row
  <2>2. QED
    BY <2>1, RowFields
<1>3. QED
  BY <1>1, <1>2 DEF Patched

\* What a process sees.
LEMMA Seeing ==
    ASSUME NEW p, NEW r
    PROVE  /\ r \in Locks(p) => Row(p, r) = writes[p][r]
           /\ r \notin Locks(p) => Row(p, r) = rows[r]
  BY DEF Row, Locks

\* A statement is executed, or the transaction is rolled back.
LEMMA RunIs ==
    ASSUME Shapes, NEW p \in Procs, NEW s, NEW ok, NEW new, NEW j, Run(p, s, ok, new, j)
    PROVE  /\ Shapes' /\ UNCHANGED rows
           /\ \A q \in Procs \ {p} : todo'[q] = todo[q] /\ job'[q] = job[q] /\ writes'[q] = writes[q]
           /\ \/ /\ ok /\ writes'[p] = Over(new, writes[p]) /\ todo'[p] = Tail(todo[p])
                 /\ job'[p] = j
              \/ Resting(p)'
<1>1. CASE Execute(p, new, j) /\ ok
  BY <1>1 DEF Execute, Shapes
<1>2. CASE Rollback(p)
  BY <1>2 DEF Rollback, Shapes, Resting
<1>3. QED
  BY <1>1, <1>2 DEF Run

\* So is a transaction that fails.
LEMMA RollbackIs ==
    ASSUME Shapes, NEW p \in Procs, Rollback(p)
    PROVE  /\ Shapes' /\ UNCHANGED rows /\ Resting(p)'
           /\ \A q \in Procs \ {p} : todo'[q] = todo[q] /\ job'[q] = job[q] /\ writes'[q] = writes[q]
  BY DEF Rollback, Shapes, Resting

\* A commit writes what the transaction wrote, and nothing else.
LEMMA CommitIs ==
    ASSUME Shapes, RowsFit, NEW p \in Procs, Commit(p)
    PROVE  /\ Shapes' /\ writes'[p] = NoRows /\ todo'[p] = Tail(todo[p])
           /\ job'[p] = IF Len(todo[p]) = 1 THEN None ELSE job[p]
           /\ DOMAIN rows' = DOMAIN rows /\ rows' = [r \in DOMAIN rows |-> rows'[r]]
           /\ \A r \in DOMAIN rows : r \in Locks(p) => rows'[r] = writes[p][r]
           /\ \A r \in DOMAIN rows : r \notin Locks(p) => rows'[r] = rows[r]
           /\ \A q \in Procs \ {p} : todo'[q] = todo[q] /\ job'[q] = job[q] /\ writes'[q] = writes[q]
<1>1. rows' = [r \in DOMAIN rows |-> Row(p, r)]
  BY DEF Commit
<1>2. /\ DOMAIN rows' = DOMAIN rows /\ rows' = [r \in DOMAIN rows |-> rows'[r]]
      /\ \A r \in DOMAIN rows : rows'[r] = Row(p, r)
  BY <1>1
<1>3. QED
  BY <1>2 DEF Commit, Shapes, Row, Locks

\* The statement a process is at is the one it runs.
LEMMA StatementIs ==
    ASSUME NEW p \in Procs, Statement(p)
    PROVE  /\ ~Idle(p) /\ Ready(p) /\ ~Doing(p, "commit") /\ ~Doing(p, "storeCatalog")
           /\ Doing(p, "grant") => Grant(p)
           /\ Doing(p, "set") => Set(p)
           /\ Doing(p, "addTokens") => AddTokens(p)
           /\ Doing(p, "spendToken") => SpendToken(p)
           /\ Doing(p, "reserve") => Reserve(p)
           /\ Doing(p, "insert") => Insert(p)
           /\ Doing(p, "findListing") => FindListing(p)
           /\ Doing(p, "transfer") => Transfer(p)
           /\ Doing(p, "markSold") => MarkSold(p)
           /\ Doing(p, "close") => Close(p)
           /\ Doing(p, "expire") => ExpireListings(p)
           /\ Doing(p, "redeem") => RedeemSold(p)
           /\ Doing(p, "transferInventory") => TransferInventory(p)
           /\ Doing(p, "reserveUnit") => ReserveUnit(p)
           /\ Doing(p, "completeUnit") => CompleteUnit(p)
           /\ Doing(p, "readCatalog") => ReadCatalog(p)
           /\ Doing(p, "count") => CountRedemptions(p)
           /\ Doing(p, "insertRedemption") => InsertRedemption(p)
           /\ Doing(p, "checkOffer") => CheckOffer(p)
           /\ Doing(p, "findItem") => FindItem(p)
           /\ Doing(p, "updateItem") => UpdateItem(p)
           /\ Doing(p, "deleteItem") => DeleteItem(p)
           /\ Doing(p, "syncUnits") => SyncUnits(p)
           /\ Doing(p, "release") => Release(p)
<1>1. /\ Grant(p) => Doing(p, "grant")
      /\ Set(p) => Doing(p, "set")
      /\ AddTokens(p) => Doing(p, "addTokens")
      /\ SpendToken(p) => Doing(p, "spendToken")
      /\ Reserve(p) => Doing(p, "reserve")
      /\ Insert(p) => Doing(p, "insert")
      /\ FindListing(p) => Doing(p, "findListing")
      /\ Transfer(p) => Doing(p, "transfer")
      /\ MarkSold(p) => Doing(p, "markSold")
      /\ Close(p) => Doing(p, "close")
      /\ ExpireListings(p) => Doing(p, "expire")
      /\ RedeemSold(p) => Doing(p, "redeem")
      /\ TransferInventory(p) => Doing(p, "transferInventory")
      /\ ReserveUnit(p) => Doing(p, "reserveUnit")
      /\ CompleteUnit(p) => Doing(p, "completeUnit")
      /\ ReadCatalog(p) => Doing(p, "readCatalog")
      /\ CountRedemptions(p) => Doing(p, "count")
      /\ InsertRedemption(p) => Doing(p, "insertRedemption")
      /\ CheckOffer(p) => Doing(p, "checkOffer")
      /\ FindItem(p) => Doing(p, "findItem")
      /\ UpdateItem(p) => Doing(p, "updateItem")
      /\ DeleteItem(p) => Doing(p, "deleteItem")
      /\ SyncUnits(p) => Doing(p, "syncUnits")
      /\ Release(p) => Doing(p, "release")
  BY DEF Grant, Set, AddTokens, SpendToken, Reserve, Insert, FindListing, Transfer, MarkSold,
     Close, ExpireListings, RedeemSold, TransferInventory, ReserveUnit, CompleteUnit,
     ReadCatalog, CountRedemptions, InsertRedemption, CheckOffer, FindItem, UpdateItem,
     DeleteItem, SyncUnits, Release, Run
<1>2. \A s, t : Doing(p, s) /\ Doing(p, t) => s = t
  BY DEF Doing
<1>3. ~Idle(p) /\ Ready(p) /\ (MarketStatement(p) \/ CatalogStatement(p))
  BY DEF Statement
<1>4. QED
  BY <1>1, <1>2, <1>3 DEF MarketStatement, CatalogStatement

\* The rows it writes or locks are not locked by another.
LEMMA ReadyIs ==
    ASSUME NEW p \in Procs, Ready(p)
    PROVE  /\ Doing(p, "grant") /\ ~Waived(job[p]) => Unlocked(p, Balance(job[p].account))
           /\ Doing(p, "set") => Unlocked(p, Balance(job[p].account))
           /\ Doing(p, "addTokens") \/ Doing(p, "spendToken") => Unlocked(p, Tokens(p))
           /\ Doing(p, "reserve") \/ Doing(p, "transferInventory") => Unlocked(p, Item(job[p].on))
           /\ Doing(p, "findListing") \/ Doing(p, "markSold") \/ Doing(p, "close")
                => (rows[Listing(job[p].on)] # Unlisted => Unlocked(p, Listing(job[p].on)))
           /\ Doing(p, "transfer") \/ Doing(p, "release")
                => Unlocked(p, Item(Row(p, Listing(job[p].on)).item))
           /\ Doing(p, "redeem") => \A l \in Proceeds(p) : Unlocked(p, Listing(l))
           /\ Doing(p, "completeUnit") \/ Doing(p, "updateItem") \/ Doing(p, "deleteItem")
                => Unlocked(p, Offer(job[p].on))
           /\ Doing(p, "syncUnits") => \A n \in Surplus(p, job[p].on) : Unlocked(p, Unit(job[p].on, n))
           /\ Doing(p, "insertRedemption") => Unlocked(p, Redemption(p))
<1>1. \A s, t : Doing(p, s) /\ Doing(p, t) => s = t
  BY DEF Doing
<1>2. \A r \in MarketNeeds(p) \union CatalogNeeds(p) : Unlocked(p, r)
  BY DEF Ready, Needs
<1>3. QED
  BY <1>1, <1>2 DEF MarketNeeds, CatalogNeeds

-----------------------------------------------------------------------------
(***************************************************************************)
(* The others.                                                             *)
(***************************************************************************)
\* What a step leaves to a process it is not of: its transaction, the rows it
\* locked, with an offer the units of the offer, and a new version where an
\* offer changed.
Undisturbed(q) ==
    /\ todo'[q] = todo[q] /\ job'[q] = job[q] /\ writes'[q] = writes[q]
    /\ \A r \in Locks(q) : rows'[r] = rows[r]
    /\ \A o \in Offers :
          /\ rows'[Offer(o)] = rows[Offer(o)] \/ rows'[Offer(o)].version > rows[Offer(o)].version
          /\ Offer(o) \in Locks(q) => \A n \in Numbers : rows'[Unit(o, n)] = rows[Unit(o, n)]

\* The credits of a job are still there.
LEMMA PaidStays ==
    ASSUME NEW q, Undisturbed(q), ~Waived(job[q]) => Balance(job[q].account) \in Locks(q)
    PROVE  CanPay(q)' = CanPay(q) /\ Paid(q)' = Paid(q)
<1>1. job'[q] = job[q]
        /\ (~Waived(job[q]) => rows'[Balance(job[q].account)] = rows[Balance(job[q].account)])
  BY DEF Undisturbed
<1>2. QED
  BY <1>1 DEF CanPay, Paid, Waived, One, NoRows, Balance

\* Where they were charged, their row is locked.
LEMMA PaidLocks ==
    ASSUME NEW q, NEW old, NEW new, writes[q] = Over(new, Over(Paid(q), old))
           \/ writes[q] = Over(Paid(q), old)
    PROVE  ~Waived(job[q]) => Balance(job[q].account) \in Locks(q)
<1> SUFFICES ASSUME ~Waived(job[q]) PROVE Balance(job[q].account) \in Locks(q)
  OBVIOUS
<1>1. Paid(q) = One(Balance(job[q].account), rows[Balance(job[q].account)] + job[q].sum)
  BY DEF Paid
<1>2. DOMAIN Paid(q) = {Balance(job[q].account)}
  BY <1>1, Writing
<1>3. DOMAIN Paid(q) \subseteq DOMAIN writes[q]
  BY WritesAre
<1>4. QED
  BY <1>2, <1>3 DEF Locks

\* A purchase of tokens is where it was.
LEMMA BuyTokensStays ==
    ASSUME NEW q, Undisturbed(q), BuyTokensFits(q)
    PROVE  BuyTokensFits(q)'
<1>1. todo'[q] = todo[q] /\ job'[q] = job[q] /\ writes'[q] = writes[q]
  BY DEF Undisturbed
<1>2. CASE todo[q] = <<"grant", "addTokens", "commit">> /\ writes[q] = NoRows
  BY <1>1, <1>2 DEF BuyTokensFits, Job, NoRows
<1>3. CASE todo[q] = <<"addTokens", "commit">> /\ CanPay(q) /\ writes[q] = Over(Paid(q), NoRows)
  <2>1. CanPay(q)' /\ Paid(q)' = Paid(q)
    BY <1>3, PaidLocks, PaidStays
  <2>2. QED
    BY <1>1, <1>3, <2>1 DEF BuyTokensFits, Job, NoRows, Over
<1>4. CASE /\ todo[q] = <<"commit">> /\ CanPay(q)
           /\ writes[q] = Over(One(Tokens(q), rows[Tokens(q)] + TokenPackageSize),
                Over(Paid(q), NoRows))
  <2>1. CanPay(q)' /\ Paid(q)' = Paid(q)
    BY <1>4, PaidLocks, PaidStays
  <2>2. Tokens(q) \in Locks(q)
    BY <1>4, WritesAre DEF Locks
  <2>3. rows'[Tokens(q)] = rows[Tokens(q)]
    BY <2>2 DEF Undisturbed
  <2>4. writes'[q] = Over(One(Tokens(q), rows'[Tokens(q)] + TokenPackageSize), Over(Paid(q)', NoRows))
    BY <1>1, <1>4, <2>1, <2>3
  <2>5. QED
    BY <1>1, <1>4, <2>1, <2>4 DEF BuyTokensFits, Job, NoRows, Over, One, Tokens
<1>5. QED
  BY <1>2, <1>3, <1>4 DEF BuyTokensFits

\* So is a player who lists furniture.
LEMMA ListStays ==
    ASSUME NEW q, Undisturbed(q), ListFits(q)
    PROVE  ListFits(q)'
<1>1. todo'[q] = todo[q] /\ job'[q] = job[q] /\ writes'[q] = writes[q]
  BY DEF Undisturbed
<1>2. PICK i \in Items, price \in Prices :
        /\ q \in Players /\ job[q] = Job("List", q, i, price)
        /\ \/ todo[q] = <<"spendToken", "reserve", "insert", "commit">> /\ writes[q] = NoRows
           \/ /\ rows[Tokens(q)] > 0
              /\ \/ todo[q] = <<"reserve", "insert", "commit">> /\ writes[q] = Spent(q)
                 \/ /\ Withdrawable(rows[Item(i)], q)
                    /\ \/ todo[q] = <<"insert", "commit">> /\ writes[q] = Kept(q, i)
                       \/ /\ todo[q] = <<"commit">>
                          /\ \E l \in Listings :
                                /\ rows[Listing(l)] = Unlisted
                                /\ writes[q] = Opened(q, i, l, price)
  BY DEF ListFits
<1>3. q \in Players /\ job'[q] = Job("List", q, i, price)'
  BY <1>1, <1>2 DEF Job, NoRows
<1>4. \A r \in DOMAIN writes[q] : rows'[r] = rows[r]
  BY DEF Undisturbed, Locks
<1>5. CASE todo[q] = <<"spendToken", "reserve", "insert", "commit">> /\ writes[q] = NoRows
  BY <1>1, <1>3, <1>5 DEF ListFits, NoRows
<1>6. CASE writes[q] = Spent(q) /\ rows[Tokens(q)] > 0 /\ todo[q] = <<"reserve", "insert", "commit">>
  <2>1. rows'[Tokens(q)] = rows[Tokens(q)]
    BY <1>4, <1>6, WritesAre DEF Spent
  <2>2. Spent(q)' = Spent(q)
    BY <2>1 DEF Spent, One, Tokens
  <2>3. QED
    BY <1>1, <1>3, <1>6, <2>1, <2>2 DEF ListFits, Tokens
<1>7. ASSUME Tokens(q) \in DOMAIN writes[q], Item(i) \in DOMAIN writes[q]
      PROVE  /\ rows'[Tokens(q)] = rows[Tokens(q)] /\ rows'[Item(i)] = rows[Item(i)]
             /\ Kept(q, i)' = Kept(q, i)
  <2>1. rows'[Tokens(q)] = rows[Tokens(q)] /\ rows'[Item(i)] = rows[Item(i)]
    BY <1>4, <1>7
  <2>2. QED
    BY <2>1 DEF Kept, Spent, Over, One, Tokens, Item
<1>8. Tokens(q) \in DOMAIN Kept(q, i) /\ Item(i) \in DOMAIN Kept(q, i)
  <2>1. Tokens(q) \in DOMAIN Spent(q)
    BY WritesAre DEF Spent
  <2>2. QED
    BY <2>1, WritesAre DEF Kept
<1>9. CASE /\ writes[q] = Kept(q, i) /\ rows[Tokens(q)] > 0 /\ Withdrawable(rows[Item(i)], q)
           /\ todo[q] = <<"insert", "commit">>
  BY <1>1, <1>3, <1>7, <1>8, <1>9 DEF ListFits, Tokens, Item, Withdrawable
<1>10. ASSUME NEW l \in Listings, rows[Listing(l)] = Unlisted, writes[q] = Opened(q, i, l, price),
              rows[Tokens(q)] > 0, Withdrawable(rows[Item(i)], q), todo[q] = <<"commit">>
       PROVE  ListFits(q)'
  <2>1. DOMAIN Kept(q, i) \subseteq DOMAIN writes[q] /\ Listing(l) \in DOMAIN writes[q]
    BY <1>10, WritesAre DEF Opened
  <2>2. Kept(q, i)' = Kept(q, i) /\ rows'[Listing(l)] = rows[Listing(l)]
        /\ rows'[Tokens(q)] = rows[Tokens(q)] /\ rows'[Item(i)] = rows[Item(i)]
    BY <1>4, <1>7, <1>8, <2>1
  <2>3. Opened(q, i, l, price)' = Opened(q, i, l, price)
    BY <2>2 DEF Opened, Over, One, Listing
  <2>4. QED
    BY <1>1, <1>3, <1>10, <2>2, <2>3 DEF ListFits, Tokens, Item, Withdrawable, Listing, Unlisted
<1>11. QED
  BY <1>2, <1>5, <1>6, <1>9, <1>10

\* So is a buyer.
LEMMA BuyStays ==
    ASSUME NEW q, Undisturbed(q), BuyFits(q)
    PROVE  BuyFits(q)'
<1>1. todo'[q] = todo[q] /\ job'[q] = job[q] /\ writes'[q] = writes[q]
  BY DEF Undisturbed
<1>2. \A r \in DOMAIN writes[q] : rows'[r] = rows[r]
  BY DEF Undisturbed, Locks
<1>3. PICK l \in Listings :
        /\ q \in Players
        /\ \/ /\ todo[q] = <<"findListing", "grant", "transfer", "markSold", "commit">>
              /\ job[q] = Job("Buy", q, l, 0) /\ writes[q] = NoRows
           \/ /\ job[q] = Job("Buy", q, l, -BuyerPrice(Sale(l).price))
              /\ Sale(l).state = "open" /\ Sale(l).seller # q
              /\ \/ /\ todo[q] = <<"grant", "transfer", "markSold", "commit">>
                    /\ writes[q] = One(Listing(l), Sale(l))
                 \/ /\ CanPay(q)
                    /\ \/ /\ todo[q] = <<"transfer", "markSold", "commit">>
                          /\ writes[q] = Charged(q, l)
                       \/ /\ Held(rows[Item(Sale(l).item)], Sale(l).seller)
                          /\ \/ todo[q] = <<"markSold", "commit">> /\ writes[q] = Moved(q, l)
                             \/ /\ todo[q] = <<"commit">>
                                /\ writes[q] =
                                     Over(One(Listing(l), [Sale(l) EXCEPT !.state = "sold"]),
                                          Moved(q, l))
  BY DEF BuyFits
<1>4. CASE /\ todo[q] = <<"findListing", "grant", "transfer", "markSold", "commit">>
           /\ job[q] = Job("Buy", q, l, 0) /\ writes[q] = NoRows
  BY <1>1, <1>3, <1>4 DEF BuyFits, NoRows, Job
<1> SUFFICES ASSUME ~(/\ todo[q] = <<"findListing", "grant", "transfer", "markSold", "commit">>
                      /\ job[q] = Job("Buy", q, l, 0) /\ writes[q] = NoRows)
             PROVE  BuyFits(q)'
  BY <1>4
<1> DEFINE sale == Sale(l)
           seen == One(Listing(l), sale)
<1>5. Listing(l) \in DOMAIN seen /\ DOMAIN seen \subseteq DOMAIN Charged(q, l)
      /\ DOMAIN Charged(q, l) \subseteq DOMAIN Moved(q, l) /\ Item(sale.item) \in DOMAIN Moved(q, l)
  BY WritesAre DEF Charged, Moved
<1>6. Listing(l) \in DOMAIN writes[q]
  BY <1>3, <1>5, WritesAre
<1>7. Sale(l)' = Sale(l) /\ rows'[Listing(l)] = rows[Listing(l)]
  BY <1>2, <1>6 DEF Sale, Listing
<1>8. /\ job'[q] = Job("Buy", q, l, -BuyerPrice(Sale(l).price))'
      /\ Sale(l)'.state = "open" /\ Sale(l)'.seller # q
  BY <1>1, <1>3, <1>7 DEF Job, NoRows, BuyerPrice
<1>9. CASE todo[q] = <<"grant", "transfer", "markSold", "commit">> /\ writes[q] = seen
  <2>1. writes'[q] = One(Listing(l), Sale(l))'
    BY <1>1, <1>7, <1>9 DEF One, Listing
  <2>2. QED
    BY <1>1, <1>3, <1>8, <1>9, <2>1 DEF BuyFits
<1>10. ASSUME CanPay(q), DOMAIN Charged(q, l) \subseteq DOMAIN writes[q]
       PROVE  CanPay(q)' /\ Charged(q, l)' = Charged(q, l)
  <2>1. Charged(q, l) = Over(Paid(q), seen)
    BY DEF Charged
  <2>2. ~Waived(job[q]) => Balance(job[q].account) \in DOMAIN Paid(q)
    BY WritesAre DEF Paid
  <2>3. ~Waived(job[q]) => Balance(job[q].account) \in Locks(q)
    BY <1>10, <2>1, <2>2, WritesAre DEF Locks
  <2>4. CanPay(q)' /\ Paid(q)' = Paid(q)
    BY <1>10, <2>3, PaidStays
  <2>5. QED
    BY <1>7, <2>4 DEF Charged, Over, One, Listing
<1>11. CASE CanPay(q) /\ todo[q] = <<"transfer", "markSold", "commit">> /\ writes[q] = Charged(q, l)
  BY <1>1, <1>3, <1>8, <1>10, <1>11 DEF BuyFits
<1>12. ASSUME CanPay(q), DOMAIN Moved(q, l) \subseteq DOMAIN writes[q],
              Held(rows[Item(sale.item)], sale.seller)
       PROVE  CanPay(q)' /\ Moved(q, l)' = Moved(q, l)
                /\ Held(rows[Item(Sale(l).item)], Sale(l).seller)'
  <2>1. CanPay(q)' /\ Charged(q, l)' = Charged(q, l)
    BY <1>5, <1>10, <1>12
  <2>2. rows'[Item(sale.item)] = rows[Item(sale.item)]
    BY <1>2, <1>5, <1>12
  <2>3. QED
    BY <1>7, <1>12, <2>1, <2>2 DEF Moved, Over, One, Item, Held
<1>13. CASE /\ CanPay(q) /\ Held(rows[Item(sale.item)], sale.seller)
                 /\ todo[q] = <<"markSold", "commit">>
            /\ writes[q] = Moved(q, l)
  BY <1>1, <1>3, <1>8, <1>12, <1>13 DEF BuyFits
<1>14. CASE /\ CanPay(q) /\ Held(rows[Item(sale.item)], sale.seller) /\ todo[q] = <<"commit">>
            /\ writes[q] = Over(One(Listing(l), [sale EXCEPT !.state = "sold"]), Moved(q, l))
  <2>1. CanPay(q)' /\ Moved(q, l)' = Moved(q, l) /\ Held(rows[Item(Sale(l).item)], Sale(l).seller)'
    BY <1>12, <1>14, WritesAre
  <2>2. writes'[q] = Over(One(Listing(l), [Sale(l) EXCEPT !.state = "sold"]), Moved(q, l))'
    BY <1>1, <1>7, <1>14, <2>1 DEF Over, One, Listing
  <2>3. QED
    BY <1>1, <1>3, <1>8, <1>14, <2>1, <2>2 DEF BuyFits
<1>15. QED
  BY <1>3, <1>9, <1>11, <1>13, <1>14

\* So is a seller who withdraws, or the ticker.
LEMMA EndStays ==
    ASSUME NEW q, Undisturbed(q), EndFits(q)
    PROVE  EndFits(q)'
<1>1. todo'[q] = todo[q] /\ job'[q] = job[q] /\ writes'[q] = writes[q]
  BY DEF Undisturbed
<1>2. \A r \in DOMAIN writes[q] : rows'[r] = rows[r]
  BY DEF Undisturbed, Locks
<1>3. CASE /\ todo[q] = <<"expire", "release", "commit">> /\ writes[q] = NoRows
           /\ job[q] = Job("Expire", None, None, 0)
  BY <1>1, <1>3 DEF EndFits, NoRows, Job
<1>4. ASSUME NEW l \in Listings, NEW a \in Players \union {None}, job[q] = Job("Close", a, l, 0),
             \/ todo[q] = <<"close", "release", "commit">> /\ writes[q] = NoRows
             \/ /\ Sale(l).state = "open"
                /\ \/ todo[q] = <<"release", "commit">> /\ writes[q] = Closed(l)
                   \/ todo[q] = <<"commit">> /\ writes[q] = Freed(l)
      PROVE  EndFits(q)'
  <2>1. job'[q] = Job("Close", a, l, 0)'
    BY <1>1, <1>4 DEF Job, NoRows
  <2>2. CASE todo[q] = <<"close", "release", "commit">> /\ writes[q] = NoRows
    <3>1. todo'[q] = <<"close", "release", "commit">> /\ writes'[q] = NoRows'
      BY <1>1, <2>2 DEF NoRows
    <3>2. QED
      BY <2>1, <3>1 DEF EndFits
  <2>3. ASSUME Listing(l) \in DOMAIN writes[q], Sale(l).state = "open"
        PROVE  /\ Sale(l)' = Sale(l) /\ Sale(l)'.state = "open" /\ Closed(l)' = Closed(l)
               /\ Item(Sale(l).item)' = Item(Sale(l).item)
    BY <1>2, <2>3 DEF Sale, Listing, Closed, One, Item
  <2>4. CASE Sale(l).state = "open" /\ todo[q] = <<"release", "commit">> /\ writes[q] = Closed(l)
    <3>1. Sale(l)'.state = "open" /\ writes'[q] = Closed(l)'
      BY <1>1, <2>3, <2>4, WritesAre DEF Closed
    <3>2. QED
      BY <1>1, <2>1, <2>4, <3>1 DEF EndFits
  <2>5. CASE Sale(l).state = "open" /\ todo[q] = <<"commit">> /\ writes[q] = Freed(l)
    <3>1. Listing(l) \in DOMAIN writes[q] /\ Item(Sale(l).item) \in DOMAIN writes[q]
      BY <2>5, WritesAre DEF Freed, Closed
    <3>2. Freed(l)' = Freed(l)
      BY <1>2, <2>3, <2>5, <3>1 DEF Freed, Over, One
    <3>3. Sale(l)'.state = "open" /\ writes'[q] = Freed(l)'
      BY <1>1, <2>3, <2>5, <3>1, <3>2
    <3>4. QED
      BY <1>1, <2>1, <2>5, <3>3 DEF EndFits
  <2>6. QED
    BY <1>4, <2>2, <2>4, <2>5
<1>5. QED
  BY <1>3, <1>4 DEF EndFits

\* So is a seller who redeems.
LEMMA RedeemStays ==
    ASSUME NEW q, Undisturbed(q), RedeemFits(q)
    PROVE  RedeemFits(q)'
<1>1. todo'[q] = todo[q] /\ job'[q] = job[q] /\ writes'[q] = writes[q]
  BY DEF Undisturbed
<1>2. \A r \in DOMAIN writes[q] : rows'[r] = rows[r]
  BY DEF Undisturbed, Locks
<1>3. CASE /\ todo[q] = <<"redeem", "grant", "commit">> /\ job[q] = Job("Redeem", q, None, 0)
           /\ writes[q] = NoRows
  BY <1>1, <1>3 DEF RedeemFits, NoRows, Job
<1>4. ASSUME NEW sold \in SUBSET Proceeds(q), q \in Players,
             job[q] = Job("Redeem", q, None, SumFunction([l \in sold |-> Sale(l).price])),
             \/ todo[q] = <<"grant", "commit">> /\ writes[q] = PaidOut(sold)
             \/ todo[q] = <<"commit">> /\ writes[q] = Over(Paid(q), PaidOut(sold))
      PROVE  RedeemFits(q)'
  <2>1. DOMAIN PaidOut(sold) = {Listing(l) : l \in sold}
    BY DEF PaidOut
  <2>2. DOMAIN PaidOut(sold) \subseteq DOMAIN writes[q]
    BY <1>4, WritesAre
  <2>3. \A l \in sold : rows'[Listing(l)] = rows[Listing(l)]
    BY <1>2, <2>1, <2>2
  <2>4. sold \in SUBSET Proceeds(q)'
    BY <1>4, <2>3 DEF Proceeds, Listing
  <2>5. \A l \in sold : Sale(l)' = Sale(l)
    BY <2>3 DEF Sale, Listing
  <2>6. [l \in sold |-> Sale(l).price]' = [l \in sold |-> Sale(l).price]
    BY <2>5
  <2>7. PaidOut(sold)' = PaidOut(sold)
    BY <2>3 DEF PaidOut, Listing
  <2>8. SumFunction([l \in sold |-> Sale(l).price])' = SumFunction([l \in sold |-> Sale(l).price])
    BY <2>6
  <2>9. job'[q] = Job("Redeem", q, None, SumFunction([l \in sold |-> Sale(l).price]))'
    BY <1>1, <1>4, <2>8 DEF Job, NoRows
  <2>10. CASE todo[q] = <<"grant", "commit">> /\ writes[q] = PaidOut(sold)
    BY <1>1, <1>4, <2>4, <2>7, <2>9, <2>10 DEF RedeemFits
  <2>11. CASE todo[q] = <<"commit">> /\ writes[q] = Over(Paid(q), PaidOut(sold))
    <3>1. Paid(q)' = Paid(q)
      BY <2>11, PaidLocks, PaidStays
    <3>2. writes'[q] = Over(Paid(q), PaidOut(sold))'
      BY <1>1, <2>7, <2>11, <3>1 DEF Over
    <3>3. QED
      BY <1>1, <1>4, <2>4, <2>9, <2>11, <3>2 DEF RedeemFits
  <2>12. QED
    BY <1>4, <2>10, <2>11
<1>5. QED
  BY <1>3, <1>4 DEF RedeemFits

\* So is who settles a trade.
LEMMA SettleStays ==
    ASSUME NEW q, Undisturbed(q), SettleFits(q)
    PROVE  SettleFits(q)'
<1>1. todo'[q] = todo[q] /\ job'[q] = job[q] /\ writes'[q] = writes[q]
  BY DEF Undisturbed
<1>2. \A r \in DOMAIN writes[q] : rows'[r] = rows[r]
  BY DEF Undisturbed, Locks
<1>3. PICK i \in Items, a \in Players :
        /\ q \in Players /\ job[q] = Job("Settle", a, i, 0)
        /\ \/ todo[q] = <<"transferInventory", "commit">> /\ writes[q] = NoRows
           \/ /\ todo[q] = <<"commit">> /\ Withdrawable(rows[Item(i)], q)
              /\ writes[q] = One(Item(i), [rows[Item(i)] EXCEPT !.owner = a])
  BY DEF SettleFits
<1>4. CASE todo[q] = <<"transferInventory", "commit">> /\ writes[q] = NoRows
  BY <1>1, <1>3, <1>4 DEF SettleFits, NoRows, Job
<1>5. CASE /\ todo[q] = <<"commit">> /\ Withdrawable(rows[Item(i)], q)
           /\ writes[q] = One(Item(i), [rows[Item(i)] EXCEPT !.owner = a])
  <2>1. rows'[Item(i)] = rows[Item(i)]
    BY <1>2, <1>5, WritesAre
  <2>2. QED
    BY <1>1, <1>3, <1>5, <2>1 DEF SettleFits, Item, Withdrawable
<1>6. QED
  BY <1>3, <1>4, <1>5

\* So is an administrator who sets a balance.
LEMMA SetStays ==
    ASSUME NEW q, Undisturbed(q), SetFits(q)
    PROVE  SetFits(q)'
  BY DEF SetFits, Undisturbed, Job, NoRows, One, Balance

\* So is a number that is reserved, and one that is sold with its offer.
LEMMA NumberStays ==
    ASSUME NEW q, Undisturbed(q), NEW o \in Offers, NEW n \in Numbers
    PROVE  /\ Unit(o, n) \in Locks(q) => Free(o, n)' = Free(o, n) /\ Number(q, o, n)' = Number(q, o, n)
           /\ Unit(o, n) \in Locks(q) /\ Offer(o) \in Locks(q) =>
                InStock(o)' = InStock(o) /\ NumberSold(q, o, n)' = NumberSold(q, o, n)
<1>1. /\ Unit(o, n) \in Locks(q) => rows'[Unit(o, n)] = rows[Unit(o, n)]
      /\ Offer(o) \in Locks(q) => rows'[Offer(o)] = rows[Offer(o)]
  BY DEF Undisturbed
<1>2. QED
  BY <1>1 DEF Free, InStock, Number, NumberSold, One, Over, Sold, Unit, Offer

\* So is a buyer of an offer.
LEMMA PurchaseStays ==
    ASSUME NEW q, Undisturbed(q), PurchaseFits(q)
    PROVE  PurchaseFits(q)'
<1>1. todo'[q] = todo[q] /\ job'[q] = job[q] /\ writes'[q] = writes[q]
  BY DEF Undisturbed
<1>2. PICK o \in Offers :
        /\ q \in Players
        /\ \/ /\ job[q] = Job("Purchase", q, o, -Cost)
              /\ \/ todo[q] = <<"grant", "commit">> /\ writes[q] = NoRows
                 \/ todo[q] = <<"commit">> /\ CanPay(q) /\ writes[q] = Over(Paid(q), NoRows)
                 \/ /\ todo[q] = <<"reserveUnit", "grant", "completeUnit", "commit", "readCatalog",
                         "storeCatalog">>
                    /\ writes[q] = NoRows
           \/ \E n \in Numbers :
                 /\ job[q] = [Job("Purchase", q, o, -Cost) EXCEPT !.batch = {n}] /\ Free(o, n)
                 /\ \/ /\ todo[q] = <<"grant", "completeUnit", "commit", "readCatalog", "storeCatalog">>
                       /\ writes[q] = Number(q, o, n)
                    \/ /\ todo[q] = <<"completeUnit", "commit", "readCatalog", "storeCatalog">>
                            /\ CanPay(q)
                       /\ writes[q] = Over(Paid(q), Number(q, o, n))
                    \/ /\ todo[q] = <<"commit", "readCatalog", "storeCatalog">> /\ CanPay(q)
                            /\ InStock(o)
                       /\ writes[q] = Over(NumberSold(q, o, n), Over(Paid(q), Number(q, o, n)))
  BY DEF PurchaseFits, NumberFits
<1>3. CASE /\ job[q] = Job("Purchase", q, o, -Cost)
           /\ \/ todo[q] = <<"grant", "commit">> /\ writes[q] = NoRows
              \/ todo[q] = <<"commit">> /\ CanPay(q) /\ writes[q] = Over(Paid(q), NoRows)
              \/ /\ todo[q] = <<"reserveUnit", "grant", "completeUnit", "commit", "readCatalog",
                      "storeCatalog">>
                 /\ writes[q] = NoRows
  <2>1. CASE todo[q] = <<"commit">> /\ CanPay(q) /\ writes[q] = Over(Paid(q), NoRows)
    <3>1. CanPay(q)' /\ Paid(q)' = Paid(q)
      BY <2>1, PaidLocks, PaidStays
    <3>2. writes'[q] = Over(Paid(q), NoRows)'
      BY <1>1, <2>1, <3>1 DEF Over
    <3>3. QED
      BY <1>1, <1>2, <1>3, <2>1, <3>1, <3>2 DEF PurchaseFits, NumberFits
  <2>2. QED
    BY <1>1, <1>2, <1>3, <2>1 DEF PurchaseFits, NumberFits
<1>4. ASSUME NEW n \in Numbers, job[q]
             = [Job("Purchase", q, o, -Cost) EXCEPT !.batch = {n}], Free(o, n),
             \/ /\ todo[q] = <<"grant", "completeUnit", "commit", "readCatalog", "storeCatalog">>
                /\ writes[q] = Number(q, o, n)
             \/ /\ todo[q] = <<"completeUnit", "commit", "readCatalog", "storeCatalog">> /\ CanPay(q)
                /\ writes[q] = Over(Paid(q), Number(q, o, n))
             \/ /\ todo[q] = <<"commit", "readCatalog", "storeCatalog">> /\ CanPay(q) /\ InStock(o)
                /\ writes[q] = Over(NumberSold(q, o, n), Over(Paid(q), Number(q, o, n)))
      PROVE  PurchaseFits(q)'
  <2>1. Unit(o, n) \in DOMAIN Number(q, o, n)
    BY WritesAre DEF Number
  <2>2. Unit(o, n) \in Locks(q)
    BY <1>4, <2>1, WritesAre DEF Locks
  <2>3. Free(o, n)' /\ Number(q, o, n)' = Number(q, o, n)
    BY <1>4, <2>2, NumberStays
  <2>4. job'[q] = [Job("Purchase", q, o, -Cost) EXCEPT !.batch = {n}]'
    BY <1>1, <1>4
  <2>5. CASE /\ todo[q] = <<"grant", "completeUnit", "commit", "readCatalog", "storeCatalog">>
             /\ writes[q] = Number(q, o, n)
    <3>1. writes'[q] = Number(q, o, n)'
      BY <1>1, <2>3, <2>5
    <3>2. QED
      <4>1. NumberFits(q, o, n)'
        BY <1>1, <2>3, <2>4, <2>5, <3>1 DEF NumberFits
      <4>2. QED
        BY <1>1, <1>2, <4>1 DEF PurchaseFits
  <2>6. ASSUME CanPay(q), DOMAIN Over(Paid(q), Number(q, o, n)) \subseteq DOMAIN writes[q]
        PROVE  CanPay(q)' /\ Over(Paid(q), Number(q, o, n))' = Over(Paid(q), Number(q, o, n))
    <3>1. ~Waived(job[q]) => Balance(job[q].account) \in DOMAIN Paid(q)
      BY WritesAre DEF Paid
    <3>2. ~Waived(job[q]) => Balance(job[q].account) \in Locks(q)
      BY <2>6, <3>1, WritesAre DEF Locks
    <3>3. QED
      BY <2>3, <2>6, <3>2, PaidStays DEF Over
  <2>7. CASE /\ todo[q] = <<"completeUnit", "commit", "readCatalog", "storeCatalog">> /\ CanPay(q)
             /\ writes[q] = Over(Paid(q), Number(q, o, n))
    <3>1. CanPay(q)' /\ writes'[q] = Over(Paid(q), Number(q, o, n))'
      BY <1>1, <2>6, <2>7
    <3>2. QED
      <4>1. NumberFits(q, o, n)'
        BY <1>1, <2>3, <2>4, <2>7, <3>1 DEF NumberFits
      <4>2. QED
        BY <1>1, <1>2, <4>1 DEF PurchaseFits
  <2>8. CASE /\ todo[q] = <<"commit", "readCatalog", "storeCatalog">> /\ CanPay(q) /\ InStock(o)
             /\ writes[q] = Over(NumberSold(q, o, n), Over(Paid(q), Number(q, o, n)))
    <3>1. CanPay(q)' /\ Over(Paid(q), Number(q, o, n))' = Over(Paid(q), Number(q, o, n))
      BY <2>6, <2>8, WritesAre
    <3>2. Offer(o) \in DOMAIN NumberSold(q, o, n)
      BY WritesAre DEF NumberSold
    <3>3. Offer(o) \in Locks(q)
      BY <2>8, <3>2, WritesAre DEF Locks
    <3>4. InStock(o)' /\ NumberSold(q, o, n)' = NumberSold(q, o, n)
      BY <2>2, <2>8, <3>3, NumberStays
    <3>5. writes'[q] = Over(NumberSold(q, o, n), Over(Paid(q), Number(q, o, n)))'
      BY <1>1, <2>8, <3>1, <3>4 DEF Over
    <3>6. QED
      <4>1. NumberFits(q, o, n)'
        BY <1>1, <2>3, <2>4, <2>8, <3>1, <3>4, <3>5 DEF NumberFits
      <4>2. QED
        BY <1>1, <1>2, <4>1 DEF PurchaseFits
  <2>9. QED
    BY <1>4, <2>5, <2>7, <2>8
<1>5. QED
  BY <1>2, <1>3, <1>4

\* So is who redeems a voucher.
LEMMA VoucherStays ==
    ASSUME NEW q, Undisturbed(q), VoucherFits(q)
    PROVE  VoucherFits(q)'
<1> DEFINE voucher == Job("Voucher", q, VoucherOffer, VoucherCredits)
<1>1. todo'[q] = todo[q] /\ job'[q] = job[q] /\ writes'[q] = writes[q] /\ q \in Players
  BY DEF Undisturbed, VoucherFits
<1>2. ASSUME Redemption(q) \in Locks(q), ~rows[Redemption(q)]
      PROVE  ~rows'[Redemption(q)]
  BY <1>2 DEF Undisturbed
<1>3. Redemption(q) \in DOMAIN One(Redemption(q), TRUE)
      /\ DOMAIN One(Redemption(q), TRUE) \subseteq DOMAIN Granted(q)
  BY WritesAre DEF Granted
<1>4. ASSUME DOMAIN Granted(q) \subseteq DOMAIN writes[q]
      PROVE  Granted(q)' = Granted(q)
  <2>1. ~Waived(job[q]) => Balance(job[q].account) \in DOMAIN Paid(q)
    BY WritesAre DEF Paid
  <2>2. ~Waived(job[q]) => Balance(job[q].account) \in Locks(q)
    BY <1>4, <2>1, WritesAre DEF Locks, Granted
  <2>3. Paid(q)' = Paid(q)
    BY <2>2, PaidStays
  <2>4. One(Redemption(q), TRUE)' = One(Redemption(q), TRUE)
    OBVIOUS
  <2>5. QED
    BY <2>3, <2>4 DEF Granted, Over
<1>5. CASE /\ job[q] = voucher
           /\ \/ /\ writes[q] = NoRows
                 /\ \E last \in {"commit", "checkOffer"} :
                       todo[q] \in {<<"count", "insertRedemption", "grant", last>>,
                                    <<"insertRedemption", "grant", last>>}
              \/ /\ ~rows[Redemption(q)]
                 /\ \/ /\ writes[q] = One(Redemption(q), TRUE)
                       /\ todo[q] \in {<<"grant", "commit">>, <<"grant", "checkOffer">>}
                    \/ /\ writes[q] = Granted(q)
                       /\ \/ todo[q] \in {<<"commit">>, <<"checkOffer">>}
                          \/ /\ todo[q] = <<"reserveUnit", "completeUnit", "commit">>
                             /\ VoucherOffer \in Offers
  <2>1. CASE writes[q] = NoRows /\ \E last \in {"commit", "checkOffer"} :
                       todo[q] \in {<<"count", "insertRedemption", "grant", last>>,
                                    <<"insertRedemption", "grant", last>>}
    BY <1>1, <1>5, <2>1 DEF VoucherFits
  <2>2. CASE /\ ~rows[Redemption(q)] /\ writes[q] = One(Redemption(q), TRUE)
             /\ todo[q] \in {<<"grant", "commit">>, <<"grant", "checkOffer">>}
    <3>1. ~rows'[Redemption(q)] /\ writes'[q] = One(Redemption(q), TRUE)'
      BY <1>1, <1>2, <1>3, <2>2 DEF Locks, One, Redemption
    <3>2. QED
      BY <1>1, <1>5, <2>2, <3>1 DEF VoucherFits, Redemption
  <2>3. CASE /\ ~rows[Redemption(q)] /\ writes[q] = Granted(q)
             /\ \/ todo[q] \in {<<"commit">>, <<"checkOffer">>}
                \/ /\ todo[q] = <<"reserveUnit", "completeUnit", "commit">>
                   /\ VoucherOffer \in Offers
    <3>1. ~rows'[Redemption(q)] /\ writes'[q] = Granted(q)'
      BY <1>1, <1>2, <1>3, <1>4, <2>3 DEF Locks
    <3>2. QED
      BY <1>1, <1>5, <2>3, <3>1 DEF VoucherFits, Redemption
  <2>4. QED
    BY <1>5, <2>1, <2>2, <2>3
<1>6. ASSUME NEW n \in Numbers, job[q] = [voucher EXCEPT !.batch = {n}], VoucherOffer \in Offers,
             ~rows[Redemption(q)], Free(VoucherOffer, n),
             \/ /\ todo[q] = <<"completeUnit", "commit">>
                /\ writes[q] = Over(Number(q, VoucherOffer, n), Granted(q))
             \/ /\ todo[q] = <<"commit">> /\ InStock(VoucherOffer)
                /\ writes[q] = Over(NumberSold(q, VoucherOffer, n),
                                    Over(Number(q, VoucherOffer, n), Granted(q)))
      PROVE  VoucherFits(q)'
  <2>1. Unit(VoucherOffer, n) \in DOMAIN Number(q, VoucherOffer, n)
    BY WritesAre DEF Number
  <2>2. /\ DOMAIN Over(Number(q, VoucherOffer, n), Granted(q)) \subseteq DOMAIN writes[q]
        /\ DOMAIN Granted(q) \subseteq DOMAIN writes[q] /\ Unit(VoucherOffer, n) \in DOMAIN writes[q]
    BY <1>6, <2>1, WritesAre
  <2>3. /\ Free(VoucherOffer, n)' /\ Number(q, VoucherOffer, n)' = Number(q, VoucherOffer, n)
        /\ ~rows'[Redemption(q)] /\ Granted(q)' = Granted(q)
    BY <1>2, <1>3, <1>4, <1>6, <2>2, NumberStays DEF Locks
  <2>4. Over(Number(q, VoucherOffer, n), Granted(q))' = Over(Number(q, VoucherOffer, n), Granted(q))
    BY <2>3 DEF Over
  <2>5. CASE /\ todo[q] = <<"completeUnit", "commit">>
             /\ writes[q] = Over(Number(q, VoucherOffer, n), Granted(q))
    <3>1. writes'[q] = Over(Number(q, VoucherOffer, n), Granted(q))'
      BY <1>1, <2>4, <2>5
    <3>2. QED
      BY <1>1, <1>6, <2>3, <2>5, <3>1 DEF VoucherFits, Redemption
  <2>6. CASE /\ todo[q] = <<"commit">> /\ InStock(VoucherOffer)
             /\ writes[q] = Over(NumberSold(q, VoucherOffer, n),
                                 Over(Number(q, VoucherOffer, n), Granted(q)))
    <3>1. Offer(VoucherOffer) \in DOMAIN NumberSold(q, VoucherOffer, n)
      BY WritesAre DEF NumberSold
    <3>2. Offer(VoucherOffer) \in Locks(q) /\ Unit(VoucherOffer, n) \in Locks(q)
      BY <2>2, <2>6, <3>1, WritesAre DEF Locks
    <3>3. InStock(VoucherOffer)' /\ NumberSold(q, VoucherOffer, n)' = NumberSold(q, VoucherOffer, n)
      BY <1>6, <2>6, <3>2, NumberStays
    <3>4. writes'[q] = Over(NumberSold(q, VoucherOffer, n),
                            Over(Number(q, VoucherOffer, n), Granted(q)))'
      BY <1>1, <2>4, <2>6, <3>3 DEF Over
    <3>5. QED
      BY <1>1, <1>6, <2>3, <2>6, <3>3, <3>4 DEF VoucherFits, Redemption
  <2>7. QED
    BY <1>6, <2>5, <2>6
<1>7. QED
  BY <1>5, <1>6 DEF VoucherFits

\* So is an administrator who changes an offer; its version tells when it changed
\* before it was locked.
LEMMA UpdateStays ==
    ASSUME NEW q, Undisturbed(q), UpdateFits(q), RowsFit, RowsFit'
    PROVE  UpdateFits(q)'
<1>1. todo'[q] = todo[q] /\ job'[q] = job[q] /\ writes'[q] = writes[q]
  BY DEF Undisturbed
<1>2. PICK o \in Offers :
        \/ /\ todo[q] = <<"findItem", "updateItem", "syncUnits", "commit", "readCatalog",
                "storeCatalog">>
           /\ job[q] = Job("Update", None, o, 0) /\ writes[q] = NoRows
        \/ /\ o \in DOMAIN job[q].read /\ job[q].read[o] \in OfferRows
           /\ job[q] = [Job("Update", None, o, 0) EXCEPT !.read = job[q].read]
           /\ \/ /\ todo[q] = <<"updateItem", "syncUnits", "commit", "readCatalog", "storeCatalog">>
                 /\ writes[q] = NoRows
                 /\ Current(o, job[q].read[o]) \/ job[q].read[o].version < rows[Offer(o)].version
              \/ /\ Current(o, job[q].read[o])
                 /\ \/ /\ todo[q] = <<"syncUnits", "commit", "readCatalog", "storeCatalog">>
                       /\ writes[q] = Changed(o, job[q].read[o])
                    \/ /\ todo[q] = <<"commit", "readCatalog", "storeCatalog">>
                       /\ writes[q] = Over(Synced(o, job[q].read[o]), Changed(o, job[q].read[o]))
  BY DEF UpdateFits
<1>3. CASE /\ todo[q] = <<"findItem", "updateItem", "syncUnits", "commit", "readCatalog",
                "storeCatalog">>
           /\ job[q] = Job("Update", None, o, 0) /\ writes[q] = NoRows
  BY <1>1, <1>3 DEF UpdateFits
<1> DEFINE new == job[q].read[o]
<1> SUFFICES ASSUME ~(/\ todo[q]
                    = <<"findItem", "updateItem", "syncUnits", "commit", "readCatalog", "storeCatalog">>
                      /\ job[q] = Job("Update", None, o, 0) /\ writes[q] = NoRows)
             PROVE  UpdateFits(q)'
  BY <1>3
<1>4. /\ o \in DOMAIN job'[q].read /\ job'[q].read[o] \in OfferRows' /\ job'[q].read[o] = new
      /\ job'[q] = [Job("Update", None, o, 0)' EXCEPT !.read = job'[q].read]
  BY <1>1, <1>2
<1>5. rows'[Offer(o)] = rows[Offer(o)] => (Current(o, new)' <=> Current(o, new))
  BY <1>1 DEF Current, Patched, Offer
<1>6. /\ rows[Offer(o)].version \in Nat /\ rows'[Offer(o)].version \in Nat
      /\ rows'[Offer(o)] = rows[Offer(o)] \/ rows'[Offer(o)].version > rows[Offer(o)].version
      /\ new.version \in Nat /\ rows[Offer(o)] \in OfferRows
  <2>1. rows'[Offer(o)] \in OfferRows
    BY DEF RowsFit, Offer, OfferRows
  <2>2. rows[Offer(o)] \in OfferRows
    BY DEF RowsFit
  <2>3. QED
    BY <1>2, <2>1, <2>2 DEF OfferRows, Undisturbed
<1>7. CASE /\ todo[q] = <<"updateItem", "syncUnits", "commit", "readCatalog", "storeCatalog">>
                /\ writes[q] = NoRows
           /\ Current(o, new) \/ new.version < rows[Offer(o)].version
  <2>1. Current(o, new)' \/ new.version < rows'[Offer(o)].version
    <3>1. CASE rows'[Offer(o)] = rows[Offer(o)]
      BY <1>5, <1>7, <3>1
    <3>2. CASE rows'[Offer(o)].version > rows[Offer(o)].version
      <4>1. new.version <= rows[Offer(o)].version
        <5>1. Current(o, new) => new.version = rows[Offer(o)].version
          BY <1>6, PatchKeeps DEF Current
        <5>2. QED
          BY <1>6, <1>7, <5>1
      <4>2. QED
        BY <1>6, <3>2, <4>1
    <3>3. QED
      BY <1>6, <3>1, <3>2
  <2>2. Current(o, job[q].read[o])' \/ job'[q].read[o].version < rows'[Offer(o)].version
    BY <1>1, <2>1
  <2>3. QED
    BY <1>1, <1>4, <1>7, <2>2 DEF UpdateFits
<1>8. ASSUME Offer(o) \in Locks(q)
      PROVE  /\ Current(o, new)' <=> Current(o, new)
             /\ \A n \in Numbers : Unit(o, n)' = Unit(o, n) /\ rows'[Unit(o, n)] = rows[Unit(o, n)]
  BY <1>5, <1>8 DEF Undisturbed, Unit
<1>9. Offer(o) \in DOMAIN Changed(o, new)
  BY WritesAre DEF Changed
<1>10. CASE /\ Current(o, new) /\ todo[q] = <<"syncUnits", "commit", "readCatalog", "storeCatalog">>
            /\ writes[q] = Changed(o, new)
  <2>1. Current(o, new)'
    BY <1>8, <1>9, <1>10 DEF Locks
  <2>2. writes'[q] = Changed(o, new)'
    BY <1>1, <1>10 DEF Changed, One, Offer
  <2>3. QED
    BY <1>1, <1>4, <1>10, <2>1, <2>2 DEF UpdateFits
<1>11. CASE /\ Current(o, new) /\ todo[q] = <<"commit", "readCatalog", "storeCatalog">>
            /\ writes[q] = Over(Synced(o, new), Changed(o, new))
  <2>1. Offer(o) \in Locks(q)
    BY <1>9, <1>11, WritesAre DEF Locks
  <2>2. /\ Current(o, new)' /\ \A n \in Numbers : rows'[Unit(o, n)] = rows[Unit(o, n)]
    BY <1>8, <1>11, <2>1
  <2>3. 1 .. new.stack \subseteq Numbers
    <3>1. new \in OfferRows
      BY <1>2
    <3>2. new.stack \in 0 .. MaxStack
      BY <3>1 DEF OfferRows
    <3> HIDE DEF new
    <3>3. QED
      BY <3>2, CatalogAssumption DEF Numbers
  <2>4. Gone(o, new.stack)' = Gone(o, new.stack)
    BY <1>1, <2>2 DEF Gone, Free, Unit, Numbers
  <2>5. Added(o, new.stack)' = Added(o, new.stack)
    BY <1>1, <2>2, <2>3 DEF Added, Unit
  <2>6. Synced(o, new)' = Synced(o, new)
    BY <1>1, <2>4, <2>5 DEF Synced, Over, Unit
  <2>7. Changed(o, new)' = Changed(o, new)
    BY <1>1 DEF Changed, One, Offer
  <2>8. writes'[q] = Over(Synced(o, new), Changed(o, new))'
    BY <1>1, <1>11, <2>6, <2>7 DEF Over
  <2>9. QED
    BY <1>1, <1>4, <1>11, <2>2, <2>8 DEF UpdateFits
<1>12. QED
  BY <1>2, <1>7, <1>10, <1>11

\* So is one who deletes an offer.
LEMMA DeleteStays ==
    ASSUME NEW q, Undisturbed(q), DeleteFits(q)
    PROVE  DeleteFits(q)'
<1>1. todo'[q] = todo[q] /\ job'[q] = job[q] /\ writes'[q] = writes[q]
  BY DEF Undisturbed
<1>2. PICK o \in Offers :
        \/ /\ todo[q] = <<"findItem", "deleteItem", "commit", "readCatalog", "storeCatalog">>
           /\ job[q] = Job("Delete", None, o, 0) /\ writes[q] = NoRows
        \/ /\ job[q] = [Job("Delete", None, o, 0) EXCEPT !.read = job[q].read]
           /\ \/ /\ todo[q] = <<"deleteItem", "commit", "readCatalog", "storeCatalog">>
                      /\ writes[q] = NoRows
              \/ /\ todo[q] = <<"commit", "readCatalog", "storeCatalog">> /\ ~rows[Offer(o)].deleted
                 /\ writes[q] = One(Offer(o),
                      [rows[Offer(o)] EXCEPT !.deleted = TRUE, !.version = @ + 1])
  BY DEF DeleteFits
<1>3. CASE /\ todo[q] = <<"findItem", "deleteItem", "commit", "readCatalog", "storeCatalog">>
           /\ job[q] = Job("Delete", None, o, 0) /\ writes[q] = NoRows
  BY <1>1, <1>3 DEF DeleteFits
<1>4. CASE /\ job[q] = [Job("Delete", None, o, 0) EXCEPT !.read = job[q].read]
           /\ todo[q] = <<"deleteItem", "commit", "readCatalog", "storeCatalog">> /\ writes[q] = NoRows
  <2>1. job'[q] = [Job("Delete", None, o, 0)' EXCEPT !.read = job'[q].read]
    BY <1>1, <1>4
  <2>2. QED
    BY <1>1, <1>4, <2>1 DEF DeleteFits
<1>5. CASE /\ job[q] = [Job("Delete", None, o, 0) EXCEPT !.read = job[q].read]
           /\ todo[q] = <<"commit", "readCatalog", "storeCatalog">> /\ ~rows[Offer(o)].deleted
           /\ writes[q] = One(Offer(o), [rows[Offer(o)] EXCEPT !.deleted = TRUE, !.version = @ + 1])
  <2>1. rows'[Offer(o)] = rows[Offer(o)]
    BY <1>5, WritesAre DEF Undisturbed, Locks
  <2>2. job'[q] = [Job("Delete", None, o, 0)' EXCEPT !.read = job'[q].read]
    BY <1>1, <1>5
  <2>3. writes'[q] = One(Offer(o), [rows[Offer(o)] EXCEPT !.deleted = TRUE, !.version = @ + 1])'
    BY <1>1, <1>5, <2>1 DEF One, Offer
  <2>4. QED
    BY <1>1, <1>5, <2>1, <2>2, <2>3 DEF DeleteFits, Offer
<1>6. QED
  BY <1>2, <1>3, <1>4, <1>5

\* So is every process.
LEMMA Stays ==
    ASSUME NEW q, Undisturbed(q), Fits(q), RowsFit, RowsFit'
    PROVE  Fits(q)'
<1>1. todo'[q] = todo[q] /\ job'[q] = job[q] /\ writes'[q] = writes[q]
  BY DEF Undisturbed
<1>2. CASE Resting(q) \/ Reloading(q)
  BY <1>1, <1>2 DEF Resting, Reloading, Fits
<1>3. CASE MarketFits(q)
  <2>1. MarketFits(q)'
    BY <1>3, BuyTokensStays, ListStays, BuyStays, EndStays, RedeemStays, SettleStays, SetStays
       DEF MarketFits
  <2>2. QED
    BY <2>1 DEF Fits
<1>4. CASE CatalogFits(q)
  <2>1. CatalogFits(q)'
    BY <1>4, PurchaseStays, VoucherStays, UpdateStays, DeleteStays DEF CatalogFits
  <2>2. QED
    BY <2>1 DEF Fits
<1>5. QED
  BY <1>2, <1>3, <1>4 DEF Fits

-----------------------------------------------------------------------------
(***************************************************************************)
(* The statements of an operation.                                         *)
(***************************************************************************)
\* A plan of four statements, and a refresh.
LEMMA LongPlan ==
    ASSUME NEW a, NEW b, NEW c, NEW d
    PROVE  <<a, b, c, d>> \o <<"readCatalog", "storeCatalog">>
             = <<a, b, c, d, "readCatalog", "storeCatalog">>
<1> DEFINE S == {a, b, c, d, "readCatalog", "storeCatalog"}   s == <<a, b, c, d>>   r
             == <<"readCatalog", "storeCatalog">>   t == <<a, b, c, d, "readCatalog", "storeCatalog">>
<1>1. s \in Seq(S)
  OBVIOUS
<1>2. r \in Seq(S)
  OBVIOUS
<1>3. t \in Seq(S)
  OBVIOUS
<1>4. Len(s) = 4 /\ Len(r) = 2 /\ Len(t) = 6
  OBVIOUS
<1>5. t[1] = s[1] /\ t[2] = s[2] /\ t[3] = s[3] /\ t[4] = s[4] /\ t[5] = r[1] /\ t[6] = r[2]
  OBVIOUS
<1> HIDE DEF S, s, r, t
<1>6. /\ s \o r \in Seq(S) /\ Len(s \o r) = Len(s) + Len(r)
      /\ \A i \in 1 .. Len(s) + Len(r) : (s \o r)[i] = IF i <= Len(s) THEN s[i] ELSE r[i - Len(s)]
  BY <1>1, <1>2, ConcatProperties
<1>7. \A i \in 1 .. Len(s \o r) : (s \o r)[i] = t[i]
  BY <1>4, <1>5, <1>6
<1>8. s \o r = t
  BY <1>3, <1>4, <1>6, <1>7, SeqEqual
<1>9. QED
  BY <1>8 DEF s, r, t

\* A plan of three, and a refresh.
LEMMA ShortPlan ==
    ASSUME NEW a, NEW b, NEW c
    PROVE  <<a, b, c>> \o <<"readCatalog", "storeCatalog">> = <<a, b, c, "readCatalog", "storeCatalog">>
<1> DEFINE S == {a, b, c, "readCatalog", "storeCatalog"}   s == <<a, b, c>>   r
             == <<"readCatalog", "storeCatalog">>   t == <<a, b, c, "readCatalog", "storeCatalog">>
<1>1. s \in Seq(S)
  OBVIOUS
<1>2. r \in Seq(S)
  OBVIOUS
<1>3. t \in Seq(S)
  OBVIOUS
<1>4. Len(s) = 3 /\ Len(r) = 2 /\ Len(t) = 5
  OBVIOUS
<1>5. t[1] = s[1] /\ t[2] = s[2] /\ t[3] = s[3] /\ t[4] = r[1] /\ t[5] = r[2]
  OBVIOUS
<1> HIDE DEF S, s, r, t
<1>6. /\ s \o r \in Seq(S) /\ Len(s \o r) = Len(s) + Len(r)
      /\ \A i \in 1 .. Len(s) + Len(r) : (s \o r)[i] = IF i <= Len(s) THEN s[i] ELSE r[i - Len(s)]
  BY <1>1, <1>2, ConcatProperties
<1>7. \A i \in 1 .. Len(s \o r) : (s \o r)[i] = t[i]
  BY <1>4, <1>5, <1>6
<1>8. s \o r = t
  BY <1>3, <1>4, <1>6, <1>7, SeqEqual
<1>9. QED
  BY <1>8 DEF s, r, t

\* A plan of three, and one more.
LEMMA GiftPlan ==
    ASSUME NEW a, NEW b, NEW c, NEW z
    PROVE  <<a, b, c>> \o <<z>> = <<a, b, c, z>>
<1> DEFINE S == {a, b, c, z}   s == <<a, b, c>>   r == <<z>>   t == <<a, b, c, z>>
<1>1. s \in Seq(S)
  OBVIOUS
<1>2. r \in Seq(S)
  OBVIOUS
<1>3. t \in Seq(S)
  OBVIOUS
<1>4. Len(s) = 3 /\ Len(r) = 1 /\ Len(t) = 4
  OBVIOUS
<1>5. t[1] = s[1] /\ t[2] = s[2] /\ t[3] = s[3] /\ t[4] = r[1]
  OBVIOUS
<1> HIDE DEF S, s, r, t
<1>6. /\ s \o r \in Seq(S) /\ Len(s \o r) = Len(s) + Len(r)
      /\ \A i \in 1 .. Len(s) + Len(r) : (s \o r)[i] = IF i <= Len(s) THEN s[i] ELSE r[i - Len(s)]
  BY <1>1, <1>2, ConcatProperties
<1>7. \A i \in 1 .. Len(s \o r) : (s \o r)[i] = t[i]
  BY <1>4, <1>5, <1>6
<1>8. s \o r = t
  BY <1>3, <1>4, <1>6, <1>7, SeqEqual
<1>9. QED
  BY <1>8 DEF s, r, t

\* The plans that end with a refresh.
LEMMA Plans ==
    /\ <<"reserveUnit", "grant", "completeUnit", "commit">> \o Refreshing =
          <<"reserveUnit", "grant", "completeUnit", "commit", "readCatalog", "storeCatalog">>
    /\ <<"findItem", "updateItem", "syncUnits", "commit">> \o Refreshing =
          <<"findItem", "updateItem", "syncUnits", "commit", "readCatalog", "storeCatalog">>
    /\ <<"findItem", "deleteItem", "commit">> \o Refreshing =
          <<"findItem", "deleteItem", "commit", "readCatalog", "storeCatalog">>
    /\ \A last \in STRING :
          <<"count", "insertRedemption", "grant">> \o <<last>>
            = <<"count", "insertRedemption", "grant", last>>
  BY LongPlan, ShortPlan, GiftPlan DEF Refreshing

\* What is left of a plan once its first statement is done.
LEMMA Heads ==
    ASSUME NEW p
    PROVE  /\ \A a : todo[p] = <<a>> => Doing(p, a) /\ Tail(todo[p]) = <<>> /\ Len(todo[p]) = 1
           /\ \A a, b : todo[p] = <<a, b>> => Doing(p, a) /\ Tail(todo[p]) = <<b>> /\ Len(todo[p]) = 2
           /\ \A a, b, c : todo[p] = <<a, b, c>>
                => Doing(p, a) /\ Tail(todo[p]) = <<b, c>> /\ Len(todo[p]) = 3
           /\ \A a, b, c, d : todo[p] = <<a, b, c, d>> =>
                Doing(p, a) /\ Tail(todo[p]) = <<b, c, d>> /\ Len(todo[p]) = 4
           /\ \A a, b, c, d, e : todo[p] = <<a, b, c, d, e>> =>
                Doing(p, a) /\ Tail(todo[p]) = <<b, c, d, e>> /\ Len(todo[p]) = 5
           /\ \A a, b, c, d, e, f : todo[p] = <<a, b, c, d, e, f>> =>
                Doing(p, a) /\ Tail(todo[p]) = <<b, c, d, e, f>> /\ Len(todo[p]) = 6
<1>1. \A a : todo[p] = <<a>> => Doing(p, a) /\ Tail(todo[p]) = <<>> /\ Len(todo[p]) = 1
  BY DEF Doing
<1>2. \A a, b : todo[p] = <<a, b>> => Doing(p, a) /\ Tail(todo[p]) = <<b>> /\ Len(todo[p]) = 2
  BY DEF Doing
<1>3. \A a, b, c : todo[p] = <<a, b, c>> => Doing(p, a) /\ Tail(todo[p]) = <<b, c>> /\ Len(todo[p]) = 3
  BY DEF Doing
<1>4. \A a, b, c, d : todo[p] = <<a, b, c, d>>
        => Doing(p, a) /\ Tail(todo[p]) = <<b, c, d>> /\ Len(todo[p]) = 4
  BY DEF Doing
<1>5. \A a, b, c, d, e : todo[p] = <<a, b, c, d, e>> =>
         Doing(p, a) /\ Tail(todo[p]) = <<b, c, d, e>> /\ Len(todo[p]) = 5
  BY DEF Doing
<1>6. \A a, b, c, d, e, f : todo[p] = <<a, b, c, d, e, f>> =>
         Doing(p, a) /\ Tail(todo[p]) = <<b, c, d, e, f>> /\ Len(todo[p]) = 6
  BY DEF Doing
<1>7. QED
  BY <1>1, <1>2, <1>3, <1>4, <1>5, <1>6

\* Well-founded relations, as the library states them of one set and its subsets.
LEMMA WFLeast ==
    ASSUME NEW R, NEW U, IsWellFoundedOn(R, U), NEW T, T \subseteq U, T # {}
    PROVE  \E x \in T : \A y \in T : ~(<<y, x>> \in R)
  BY WFMin

\* A set of numbers has a lowest one.
LEMMA LowestOf == ASSUME NEW S \in SUBSET Nat, S # {} PROVE Min(S) \in S
<1> DEFINE R == {ss \in Nat \X Nat : ss[1] < ss[2]}
<1>1. IsWellFoundedOn(R, Nat)
  BY NatLessThanWellFounded, Zenon DEF OpToRel
<1>2. S \subseteq Nat /\ S # {}
  OBVIOUS
<1>3. \E x \in S : \A y \in S : ~(<<y, x>> \in R)
  BY <1>1, <1>2, WFLeast
<1>4. PICK x \in S : \A y \in S : ~(<<y, x>> \in R)
  BY <1>3
<1>5. ASSUME NEW y \in S PROVE x <= y
  <2>1. x \in Nat /\ y \in Nat /\ ~(<<y, x>> \in R)
    BY <1>4
  <2>2. ~(y < x)
    BY <2>1
  <2>3. QED
    BY <2>1, <2>2
<1>6. QED
  BY <1>5 DEF Min

\* A statement locks rows that nobody else had locked.
Guarded(p) == \A r \in DOMAIN writes'[p] : r \in Locks(p) \/ Unlocked(p, r)

\* At rest it has locked none.
LEMMA RestingGuarded == ASSUME NEW p, Resting(p)' PROVE Guarded(p)
<1>1. DOMAIN writes'[p] = {}
  BY DEF Resting, NoRows
<1>2. QED
  BY <1>1 DEF Guarded

\* What it leaves when it succeeds, and when it does not.
LEMMA RunGives ==
    ASSUME Shapes, NEW p \in Procs, NEW s, NEW ok, NEW new, NEW j, Run(p, s, ok, new, j),
           \A r \in DOMAIN new : r \in Locks(p) \/ Unlocked(p, r)
    PROVE  /\ Guarded(p) /\ UNCHANGED rows
           /\ \/ Resting(p)'
              \/ /\ ok /\ writes'[p] = Over(new, writes[p]) /\ todo'[p] = Tail(todo[p])
                 /\ job'[p] = j
<1>1. UNCHANGED rows /\ (Resting(p)' \/ (/\ ok /\ writes'[p] = Over(new, writes[p])
                                          /\ todo'[p] = Tail(todo[p]) /\ job'[p] = j))
  BY RunIs
<1>2. DOMAIN NoRows = {}
  BY DEF NoRows
<1>3. Resting(p)' \/ writes'[p] = Over(new, writes[p])
  BY <1>1
<1>4. Guarded(p)
  <2>1. CASE Resting(p)'
    BY <1>2, <2>1 DEF Resting, Guarded
  <2>2. CASE writes'[p] = Over(new, writes[p])
    <3>1. DOMAIN writes'[p] = DOMAIN new \union DOMAIN writes[p]
      BY <2>2, Domains
    <3>2. QED
      BY <3>1 DEF Guarded, Locks
  <2>3. QED
    BY <1>3, <2>1, <2>2
<1>5. QED
  BY <1>1, <1>4

\* What depends on the rows alone is as it was when they are.
LEMMA Unmoved ==
    ASSUME UNCHANGED rows
    PROVE  /\ \A l : Sale(l)' = Sale(l)
           /\ \A p : Spent(p)' = Spent(p)
           /\ \A p, i : Kept(p, i)' = Kept(p, i)
           /\ \A p, i, l, price : Opened(p, i, l, price)' = Opened(p, i, l, price)
           /\ \A p, o, n : Number(p, o, n)' = Number(p, o, n)
                /\ NumberSold(p, o, n)' = NumberSold(p, o, n)
           /\ \A o, n : Free(o, n)' = Free(o, n)
           /\ \A o : InStock(o)' = InStock(o)
<1>1. \A l : Sale(l)' = Sale(l)
  BY DEF Sale, Listing
<1>2. \A p : Spent(p)' = Spent(p)
  BY DEF Spent, Tokens
<1>3. \A p, i : Kept(p, i)' = Kept(p, i)
  BY DEF Kept, Spent, Tokens, Item, Over
<1>4. \A p, i, l, price : Opened(p, i, l, price)' = Opened(p, i, l, price)
  BY <1>3 DEF Opened, Over, Listing
<1>5. \A p, o, n : Number(p, o, n)' = Number(p, o, n) /\ NumberSold(p, o, n)' = NumberSold(p, o, n)
  BY DEF Number, NumberSold, Unit, Offer, Sold, Over
<1>6. \A o, n : Free(o, n)' = Free(o, n)
  BY DEF Free, Unit
<1>7. \A o : InStock(o)' = InStock(o)
  BY DEF InStock, Offer
<1>8. QED
  BY <1>1, <1>2, <1>3, <1>4, <1>5, <1>6, <1>7

\* So is what depends on the job besides.
LEMMA Unpaid ==
    ASSUME UNCHANGED rows, NEW p, job'[p] = job[p]
    PROVE  /\ Paid(p)' = Paid(p) /\ CanPay(p)' = CanPay(p) /\ Granted(p)' = Granted(p)
           /\ \A l : Charged(p, l)' = Charged(p, l) /\ Moved(p, l)' = Moved(p, l)
<1>1. Paid(p)' = Paid(p) /\ CanPay(p)' = CanPay(p)
  BY DEF Paid, CanPay, Balance, Waived
<1>2. Granted(p)' = Granted(p)
  BY <1>1 DEF Granted, Over, Redemption
<1>3. \A l : Charged(p, l)' = Charged(p, l)
  BY <1>1 DEF Charged, Over, Sale, Listing
<1>4. \A l : Moved(p, l)' = Moved(p, l)
  BY <1>3 DEF Moved, Over, Sale, Listing, Item
<1>5. QED
  BY <1>1, <1>2, <1>3, <1>4

\* The row that is charged is one balance.
LEMMA PaidRows ==
    ASSUME NEW p
    PROVE  DOMAIN Paid(p) \subseteq {Balance(job[p].account)}
<1>1. CASE Waived(job[p])
  BY <1>1, Writing DEF Paid
<1>2. CASE ~Waived(job[p])
  <2>1. Paid(p) = One(Balance(job[p].account), rows[Balance(job[p].account)] + job[p].sum)
    BY <1>2 DEF Paid
  <2>2. QED
    BY <2>1, Writing
<1>3. QED
  BY <1>1, <1>2

\* Every operation charges alike.
LEMMA GrantPays ==
    ASSUME Shapes, NEW p \in Procs, Statement(p), Doing(p, "grant"),
           Balance(job[p].account) \notin Locks(p)
    PROVE  /\ Guarded(p) /\ UNCHANGED rows
           /\ \/ Resting(p)'
              \/ /\ CanPay(p) /\ writes'[p] = Over(Paid(p), writes[p]) /\ todo'[p] = Tail(todo[p])
                 /\ job'[p] = job[p]
<1>1. Grant(p) /\ Ready(p)
  BY StatementIs
<1>2. Row(p, Balance(job[p].account)) = rows[Balance(job[p].account)]
  BY Seeing
<1>3. Run(p, "grant", CanPay(p), Paid(p), job[p])
  BY <1>1, <1>2 DEF Grant, CanPay, Paid
<1>4. \A r \in DOMAIN Paid(p) : Unlocked(p, r)
  <2>1. CASE Waived(job[p])
    BY <2>1, Writing DEF Paid
  <2>2. CASE ~Waived(job[p])
    BY <1>1, <2>2, ReadyIs, PaidRows
  <2>3. QED
    BY <2>1, <2>2
<1>5. QED
  BY <1>3, <1>4, RunGives

\* A purchase of tokens goes on.
LEMMA BuyTokensGoes ==
    ASSUME Shapes, NEW p \in Procs, Statement(p), BuyTokensFits(p)
    PROVE  (BuyTokensFits(p) \/ Resting(p))' /\ Guarded(p) /\ UNCHANGED rows
<1>1. p \in Players /\ job[p] = Job("BuyTokens", p, None, -TokenCost)
  BY DEF BuyTokensFits
<1>2. CASE todo[p] = <<"grant", "addTokens", "commit">> /\ writes[p] = NoRows
  <2>1. Doing(p, "grant") /\ Tail(todo[p]) = <<"addTokens", "commit">>
    BY <1>2, Heads
  <2>2. Balance(job[p].account) \notin Locks(p)
    BY <1>2, Writing DEF Locks
  <2>3. /\ Guarded(p) /\ UNCHANGED rows
        /\ \/ Resting(p)'
           \/ /\ CanPay(p) /\ writes'[p] = Over(Paid(p), writes[p])
                   /\ todo'[p] = <<"addTokens", "commit">>
              /\ job'[p] = job[p]
    BY <2>1, <2>2, GrantPays
  <2>4. CASE CanPay(p) /\ writes'[p] = Over(Paid(p), NoRows) /\ todo'[p] = <<"addTokens", "commit">>
               /\ job'[p] = job[p]
    <3>1. CanPay(p)' /\ writes'[p] = Over(Paid(p), NoRows)'
      BY <2>3, <2>4, Unpaid
    <3>2. QED
      BY <1>1, <2>3, <2>4, <3>1 DEF BuyTokensFits
  <2>5. QED
    BY <1>2, <2>3, <2>4
<1>3. CASE todo[p] = <<"addTokens", "commit">> /\ CanPay(p) /\ writes[p] = Over(Paid(p), NoRows)
  <2>1. Doing(p, "addTokens") /\ Tail(todo[p]) = <<"commit">>
    BY <1>3, Heads
  <2>2. AddTokens(p) /\ Unlocked(p, Tokens(p))
    BY <2>1, StatementIs, ReadyIs
  <2>3. DOMAIN writes[p] \subseteq {Balance(job[p].account)}
    <3>1. DOMAIN writes[p] = DOMAIN Paid(p)
      BY <1>3, Domains
    <3>2. QED
      BY <3>1, PaidRows
  <2>4. Row(p, Tokens(p)) = rows[Tokens(p)]
    BY <2>3, Keys, Seeing DEF Locks
  <2>5. Run(p, "addTokens", TRUE, One(Tokens(p), rows[Tokens(p)] + TokenPackageSize), job[p])
    BY <2>2, <2>4 DEF AddTokens
  <2>6. \A r \in DOMAIN One(Tokens(p), rows[Tokens(p)] + TokenPackageSize) : Unlocked(p, r)
    BY <2>2, Writing
  <2>7. /\ Guarded(p) /\ UNCHANGED rows
        /\ \/ Resting(p)'
           \/ /\ writes'[p] = Over(One(Tokens(p), rows[Tokens(p)] + TokenPackageSize), writes[p])
              /\ todo'[p] = <<"commit">> /\ job'[p] = job[p]
    BY <2>1, <2>5, <2>6, RunGives
  <2>8. CASE /\ writes'[p] = Over(One(Tokens(p), rows[Tokens(p)] + TokenPackageSize), writes[p])
             /\ todo'[p] = <<"commit">> /\ job'[p] = job[p]
    <3>1. CanPay(p)' /\ Paid(p)' = Paid(p) /\ rows'[Tokens(p)] = rows[Tokens(p)]
      BY <1>3, <2>7, <2>8, Unpaid
    <3>2. writes'[p] = Over(One(Tokens(p), rows[Tokens(p)] + TokenPackageSize), Over(Paid(p), NoRows))'
      BY <1>3, <2>8, <3>1 DEF Tokens
    <3>3. QED
      BY <1>1, <2>7, <2>8, <3>1, <3>2 DEF BuyTokensFits
  <2>9. QED
    BY <2>7, <2>8
<1>4. CASE todo[p] = <<"commit">>
  <2>1. Doing(p, "commit")
    BY <1>4, Heads
  <2>2. QED
    BY <2>1, StatementIs
<1>5. QED
  BY <1>2, <1>3, <1>4 DEF BuyTokensFits

\* So does the listing of furniture.
LEMMA ListGoes ==
    ASSUME Shapes, RowsFit, NEW p \in Procs, Statement(p), ListFits(p)
    PROVE  (ListFits(p) \/ Resting(p))' /\ Guarded(p) /\ UNCHANGED rows
<1>1. PICK i \in Items, price \in Prices :
        /\ p \in Players /\ job[p] = Job("List", p, i, price)
        /\ \/ todo[p] = <<"spendToken", "reserve", "insert", "commit">> /\ writes[p] = NoRows
           \/ /\ rows[Tokens(p)] > 0
              /\ \/ todo[p] = <<"reserve", "insert", "commit">> /\ writes[p] = Spent(p)
                 \/ /\ Withdrawable(rows[Item(i)], p)
                    /\ \/ todo[p] = <<"insert", "commit">> /\ writes[p] = Kept(p, i)
                       \/ /\ todo[p] = <<"commit">>
                          /\ \E l \in Listings :
                                /\ rows[Listing(l)] = Unlisted
                                /\ writes[p] = Opened(p, i, l, price)
  BY DEF ListFits
<1>2. job[p].on = i /\ job[p].sum = price
  BY <1>1 DEF Job
<1>3. CASE todo[p] = <<"spendToken", "reserve", "insert", "commit">> /\ writes[p] = NoRows
  <2>1. Doing(p, "spendToken") /\ Tail(todo[p]) = <<"reserve", "insert", "commit">>
    BY <1>3, Heads
  <2>2. SpendToken(p) /\ Unlocked(p, Tokens(p))
    BY <2>1, StatementIs, ReadyIs
  <2>3. Row(p, Tokens(p)) = rows[Tokens(p)]
    BY <1>3, Writing, Seeing DEF Locks
  <2> DEFINE has == rows[Tokens(p)] > 0
  <2>4. Run(p, "spendToken", has, Spent(p), job[p])
    BY <2>2, <2>3 DEF SpendToken, Spent
  <2>5. \A r \in DOMAIN Spent(p) : Unlocked(p, r)
    <3>1. DOMAIN Spent(p) = {Tokens(p)}
      BY Domains DEF Spent
    <3>2. QED
      BY <2>2, <3>1
  <2> HIDE DEF has
  <2>6. /\ Guarded(p) /\ UNCHANGED rows
        /\ \/ Resting(p)'
           \/ /\ has /\ writes'[p] = Over(Spent(p), NoRows)
              /\ todo'[p] = <<"reserve", "insert", "commit">> /\ job'[p] = job[p]
    <3>1. /\ Guarded(p) /\ UNCHANGED rows
          /\ \/ Resting(p)'
             \/ /\ has /\ writes'[p] = Over(Spent(p), writes[p])
                /\ todo'[p] = Tail(todo[p]) /\ job'[p] = job[p]
      BY <2>4, <2>5, RunGives
    <3>2. QED
      BY <1>3, <2>1, <3>1
  <2>7. CASE /\ has /\ writes'[p] = Over(Spent(p), NoRows)
             /\ todo'[p] = <<"reserve", "insert", "commit">> /\ job'[p] = job[p]
    <3>1. writes'[p] = Spent(p)' /\ (rows[Tokens(p)] > 0)'
      BY <2>6, <2>7, Writing, Unmoved DEF Spent, Tokens, has
    <3>2. QED
      BY <1>1, <2>6, <2>7, <3>1 DEF ListFits
  <2>8. QED
    BY <2>6, <2>7
<1>4. CASE todo[p] = <<"reserve", "insert", "commit">> /\ writes[p] = Spent(p) /\ rows[Tokens(p)] > 0
  <2>1. Doing(p, "reserve") /\ Tail(todo[p]) = <<"insert", "commit">>
    BY <1>4, Heads
  <2>2. Reserve(p) /\ Unlocked(p, Item(i))
    BY <1>2, <2>1, StatementIs, ReadyIs
  <2>3. Item(i) \notin Locks(p)
    <3>1. DOMAIN Spent(p) = {Tokens(p)}
      BY Domains DEF Spent
    <3>2. QED
      BY <1>4, <3>1, Keys DEF Locks
  <2>4. Row(p, Item(i)) = rows[Item(i)]
    BY <2>3, Seeing
  <2> DEFINE kept == One(Item(i), [rows[Item(i)] EXCEPT !.reserved = TRUE])
  <2>5. Run(p, "reserve", Withdrawable(rows[Item(i)], p), kept, job[p])
    BY <1>2, <2>2, <2>4 DEF Reserve
  <2>6. \A r \in DOMAIN kept : Unlocked(p, r)
    BY <2>2, Writing
  <2>7. Over(kept, writes[p]) = Kept(p, i)
    BY <1>4 DEF Kept
  <2> HIDE DEF kept
  <2>8. /\ Guarded(p) /\ UNCHANGED rows
        /\ \/ Resting(p)'
           \/ /\ Withdrawable(rows[Item(i)], p) /\ writes'[p] = Kept(p, i)
              /\ todo'[p] = <<"insert", "commit">> /\ job'[p] = job[p]
    BY <2>1, <2>5, <2>6, <2>7, RunGives
  <2>9. CASE /\ Withdrawable(rows[Item(i)], p) /\ writes'[p] = Kept(p, i)
             /\ todo'[p] = <<"insert", "commit">> /\ job'[p] = job[p]
    <3>1. writes'[p] = Kept(p, i)' /\ (rows[Tokens(p)] > 0)' /\ Withdrawable(rows[Item(i)], p)'
      BY <1>4, <2>8, <2>9, Unmoved DEF Tokens, Item, Withdrawable
    <3>2. QED
      BY <1>1, <2>8, <2>9, <3>1 DEF ListFits
  <2>10. QED
    BY <2>8, <2>9
<1>5. CASE /\ todo[p] = <<"insert", "commit">> /\ writes[p] = Kept(p, i) /\ rows[Tokens(p)] > 0
           /\ Withdrawable(rows[Item(i)], p)
  <2>1. Doing(p, "insert") /\ Tail(todo[p]) = <<"commit">>
    BY <1>5, Heads
  <2> DEFINE free == {l \in Listings : rows[Listing(l)] = Unlisted /\ Unlocked(p, Listing(l))}
             open == {l \in Listings : Row(p, Listing(l)).state = "open"
               /\ Row(p, Listing(l)).item = job[p].on}
             row == [state |-> "open", seller |-> p, item |-> i, price |-> price, redeemed |-> FALSE]
             l == Min(free)
             new == One(Listing(l), row)
  <2>2. Run(p, "insert", free # {} /\ open = {}, new, job[p])
    BY <1>2, <2>1, StatementIs DEF Insert
  <2>3. DOMAIN new = {Listing(l)}
    <3> HIDE DEF l, row
    <3>1. QED
      BY Domains
  <2>4. CASE free = {}
    BY <2>2, <2>4, RunIs, RestingGuarded DEF Resting
  <2>5. CASE free # {}
    <3>1. free \in SUBSET Nat
      BY MarketAssumption
    <3>2. PICK k \in Listings : k = l /\ rows[Listing(k)] = Unlisted /\ Unlocked(p, Listing(k))
      <4>1. Min(free) \in free
        BY <2>5, <3>1, LowestOf
      <4>2. QED
        BY <4>1
    <3> HIDE DEF l, row, free, open
    <3>3. Over(new, writes[p]) = Opened(p, i, k, price)
      BY <1>5, <3>2 DEF Opened, row
    <3> HIDE DEF new
    <3>4. /\ Guarded(p) /\ UNCHANGED rows
          /\ \/ Resting(p)'
             \/ /\ writes'[p] = Over(new, writes[p]) /\ todo'[p] = <<"commit">> /\ job'[p] = job[p]
      BY <2>1, <2>2, <2>3, <3>2, RunGives
    <3>5. CASE writes'[p] = Over(new, writes[p]) /\ todo'[p] = <<"commit">> /\ job'[p] = job[p]
      <4>1. /\ (rows[Tokens(p)] > 0)' /\ Withdrawable(rows[Item(i)], p)'
            /\ (rows[Listing(k)] = Unlisted)'
        BY <1>5, <3>2, <3>4 DEF Tokens, Item, Withdrawable, Listing, Unlisted
      <4>2. writes'[p] = Opened(p, i, k, price)'
        BY <3>3, <3>4, <3>5, Unmoved
      <4>3. p \in Players /\ job'[p] = Job("List", p, i, price)
        BY <1>1, <3>5
      <4>4. QED
        BY <3>2, <3>4, <3>5, <4>1, <4>2, <4>3 DEF ListFits, Listing, Unlisted
    <3>6. QED
      BY <3>4, <3>5
  <2>6. QED
    BY <2>4, <2>5
<1>6. CASE todo[p] = <<"commit">>
  BY <1>6, Heads, StatementIs
<1>7. QED
  BY <1>1, <1>3, <1>4, <1>5, <1>6

\* So does a purchase on the marketplace.
LEMMA BuyGoes ==
    ASSUME Shapes, NEW p \in Procs, Statement(p), BuyFits(p)
    PROVE  (BuyFits(p) \/ Resting(p))' /\ Guarded(p) /\ UNCHANGED rows
<1>1. PICK l \in Listings :
        /\ p \in Players
        /\ \/ /\ todo[p] = <<"findListing", "grant", "transfer", "markSold", "commit">>
              /\ job[p] = Job("Buy", p, l, 0) /\ writes[p] = NoRows
           \/ /\ job[p] = Job("Buy", p, l, -BuyerPrice(Sale(l).price))
              /\ Sale(l).state = "open" /\ Sale(l).seller # p
              /\ \/ /\ todo[p] = <<"grant", "transfer", "markSold", "commit">>
                    /\ writes[p] = One(Listing(l), Sale(l))
                 \/ /\ CanPay(p)
                    /\ \/ /\ todo[p] = <<"transfer", "markSold", "commit">>
                          /\ writes[p] = Charged(p, l)
                       \/ /\ Held(rows[Item(Sale(l).item)], Sale(l).seller)
                          /\ \/ todo[p] = <<"markSold", "commit">> /\ writes[p] = Moved(p, l)
                             \/ /\ todo[p] = <<"commit">>
                                /\ writes[p] =
                                     Over(One(Listing(l), [Sale(l) EXCEPT !.state = "sold"]),
                                          Moved(p, l))
  BY DEF BuyFits
<1>2. job[p].on = l
  BY <1>1 DEF Job
<1>3. CASE /\ todo[p] = <<"findListing", "grant", "transfer", "markSold", "commit">>
           /\ job[p] = Job("Buy", p, l, 0) /\ writes[p] = NoRows
  <2>1. Doing(p, "findListing") /\ Tail(todo[p]) = <<"grant", "transfer", "markSold", "commit">>
    BY <1>3, Heads
  <2>2. FindListing(p) /\ (Sale(l) # Unlisted => Unlocked(p, Listing(l)))
    BY <1>2, <2>1, StatementIs, ReadyIs DEF Sale
  <2>3. Row(p, Listing(l)) = Sale(l)
    BY <1>3, Domains, Seeing DEF Locks, Sale
  <2> DEFINE asked1 == [job[p] EXCEPT !.sum = -BuyerPrice(Sale(l).price)]
             fine == Buyable(Sale(l), l, p)
             new == One(Listing(l), Sale(l))
  <2>4. Run(p, "findListing", fine, new, asked1)
    BY <1>2, <2>2, <2>3 DEF FindListing
  <2>5. asked1 = Job("Buy", p, l, -BuyerPrice(Sale(l).price))
    BY <1>3 DEF Job
  <2>6. CASE fine
    <3>1. Sale(l).state = "open" /\ Sale(l).seller # p /\ Sale(l) # Unlisted
      BY <2>6 DEF Buyable, Unlisted
    <3>2. DOMAIN new = {Listing(l)}
      BY Domains
    <3>3. Over(new, NoRows) = new
      BY Writing
    <3> HIDE DEF fine, new, asked1
    <3>4. /\ Guarded(p) /\ UNCHANGED rows
          /\ \/ Resting(p)'
             \/ /\ writes'[p] = Over(new, writes[p]) /\ todo'[p] = Tail(todo[p]) /\ job'[p] = asked1
      BY <2>2, <2>4, <3>1, <3>2, RunGives
    <3>5. CASE /\ writes'[p] = new /\ todo'[p] = <<"grant", "transfer", "markSold", "commit">>
               /\ job'[p] = Job("Buy", p, l, -BuyerPrice(Sale(l).price))
      <4>1. writes'[p] = One(Listing(l), Sale(l))'
        BY <3>4, <3>5, Unmoved DEF new, Listing, One
      <4>2. /\ job'[p] = Job("Buy", p, l, -BuyerPrice(Sale(l).price))'
            /\ (Sale(l).state = "open" /\ Sale(l).seller # p)'
        BY <3>1, <3>4, <3>5, Unmoved
      <4>3. QED
        BY <1>1, <3>4, <3>5, <4>1, <4>2 DEF BuyFits
    <3>6. QED
      BY <1>3, <2>1, <2>5, <3>3, <3>4, <3>5
  <2>7. CASE ~fine
    <3>1. Rollback(p)
      BY <2>4, <2>7 DEF Run
    <3>2. QED
      BY <3>1, RollbackIs, RestingGuarded
  <2>8. QED
    BY <2>6, <2>7
<1> SUFFICES ASSUME ~(/\ todo[p] = <<"findListing", "grant", "transfer", "markSold", "commit">>
                      /\ job[p] = Job("Buy", p, l, 0) /\ writes[p] = NoRows)
             PROVE  (BuyFits(p) \/ Resting(p))' /\ Guarded(p) /\ UNCHANGED rows
  BY <1>3
<1>4. /\ job[p] = Job("Buy", p, l, -BuyerPrice(Sale(l).price)) /\ job[p].account = p
      /\ Sale(l).state = "open" /\ Sale(l).seller # p
  BY <1>1 DEF Job
<1>5. ASSUME UNCHANGED rows, job'[p] = job[p]
      PROVE  /\ job'[p] = Job("Buy", p, l, -BuyerPrice(Sale(l).price))'
             /\ (Sale(l).state = "open" /\ Sale(l).seller # p)'
             /\ Held(rows[Item(Sale(l).item)], Sale(l).seller)'
                  = Held(rows[Item(Sale(l).item)], Sale(l).seller)
  <2>1. Sale(l)' = Sale(l)
    BY <1>5, Unmoved
  <2>2. QED
    BY <1>4, <1>5, <2>1 DEF Item, Held
<1>6. CASE /\ todo[p] = <<"grant", "transfer", "markSold", "commit">>
           /\ writes[p] = One(Listing(l), Sale(l))
  <2>1. Doing(p, "grant") /\ Tail(todo[p]) = <<"transfer", "markSold", "commit">>
    BY <1>6, Heads
  <2>2. DOMAIN writes[p] = {Listing(l)}
    BY <1>6, Domains
  <2>3. Balance(job[p].account) \notin Locks(p)
    BY <2>2, Keys DEF Locks
  <2>4. /\ Guarded(p) /\ UNCHANGED rows
        /\ \/ Resting(p)'
           \/ /\ CanPay(p) /\ writes'[p] = Over(Paid(p), writes[p])
              /\ todo'[p] = <<"transfer", "markSold", "commit">> /\ job'[p] = job[p]
    BY <2>1, <2>3, GrantPays
  <2>5. CASE /\ CanPay(p) /\ writes'[p] = Over(Paid(p), writes[p])
             /\ todo'[p] = <<"transfer", "markSold", "commit">> /\ job'[p] = job[p]
    <3>1. writes'[p] = Charged(p, l)
      BY <1>6, <2>5 DEF Charged
    <3>2. writes'[p] = Charged(p, l)' /\ CanPay(p)'
      BY <2>4, <2>5, <3>1, Unpaid
    <3>3. QED
      BY <1>1, <1>5, <2>4, <2>5, <3>2 DEF BuyFits
  <2>6. QED
    BY <2>4, <2>5
<1>7. DOMAIN Charged(p, l) \subseteq {Balance(p), Listing(l)} /\ Listing(l) \in DOMAIN Charged(p, l)
      /\ Charged(p, l)[Listing(l)] = Sale(l)
  <2> DEFINE seen == One(Listing(l), Sale(l))
  <2>1. DOMAIN seen = {Listing(l)} /\ seen[Listing(l)] = Sale(l)
    BY Writing
  <2>2. Charged(p, l) = Over(Paid(p), seen)
    BY DEF Charged
  <2> HIDE DEF seen
  <2>3. DOMAIN Charged(p, l) = DOMAIN Paid(p) \union {Listing(l)}
    BY <2>1, <2>2, Domains
  <2>4. DOMAIN Paid(p) \subseteq {Balance(p)} /\ Listing(l) # Balance(p)
    BY <1>4, PaidRows, Keys
  <2>5. Charged(p, l)[Listing(l)] = Sale(l)
    BY <2>1, <2>2, <2>4, Writing
  <2>6. QED
    BY <2>3, <2>4, <2>5
<1>8. CASE CanPay(p) /\ todo[p] = <<"transfer", "markSold", "commit">> /\ writes[p] = Charged(p, l)
  <2>1. Doing(p, "transfer") /\ Tail(todo[p]) = <<"markSold", "commit">>
    BY <1>8, Heads
  <2>2. Row(p, Listing(l)) = Sale(l)
    BY <1>7, <1>8, Seeing DEF Locks
  <2>3. Transfer(p) /\ Unlocked(p, Item(Sale(l).item))
    BY <1>2, <2>1, <2>2, StatementIs, ReadyIs
  <2>4. Item(Sale(l).item) \notin Locks(p)
    BY <1>7, <1>8, Keys DEF Locks
  <2>5. Row(p, Item(Sale(l).item)) = rows[Item(Sale(l).item)]
    BY <2>4, Seeing
  <2> DEFINE held == Held(rows[Item(Sale(l).item)], Sale(l).seller)
             new == One(Item(Sale(l).item), [owner |-> p, reserved |-> FALSE])
  <2>6. Run(p, "transfer", held, new, job[p])
    BY <1>2, <2>2, <2>3, <2>5 DEF Transfer
  <2>7. DOMAIN new = {Item(Sale(l).item)}
    BY Domains
  <2>8. Over(new, writes[p]) = Moved(p, l)
    BY <1>8 DEF Moved
  <2> HIDE DEF held, new
  <2>9. /\ Guarded(p) /\ UNCHANGED rows
        /\ \/ Resting(p)'
           \/ /\ held /\ writes'[p] = Over(new, writes[p]) /\ todo'[p] = Tail(todo[p])
                   /\ job'[p] = job[p]
    BY <2>3, <2>6, <2>7, RunGives
  <2>10. CASE held /\ writes'[p] = Over(new, writes[p]) /\ todo'[p] = Tail(todo[p]) /\ job'[p] = job[p]
    <3>1. writes'[p] = Moved(p, l)' /\ CanPay(p)' /\ todo'[p] = <<"markSold", "commit">>
      BY <1>8, <2>1, <2>8, <2>9, <2>10, Unpaid
    <3>2. QED
      BY <1>1, <1>5, <2>9, <2>10, <3>1 DEF BuyFits, held
  <2>11. QED
    BY <2>9, <2>10
<1>9. CASE /\ CanPay(p) /\ Held(rows[Item(Sale(l).item)], Sale(l).seller)
                /\ todo[p] = <<"markSold", "commit">>
           /\ writes[p] = Moved(p, l)
  <2>1. Doing(p, "markSold") /\ Tail(todo[p]) = <<"commit">>
    BY <1>9, Heads
  <2>2. MarkSold(p)
    BY <2>1, StatementIs
  <2> DEFINE moved == One(Item(Sale(l).item), [owner |-> p, reserved |-> FALSE])
  <2>3. Listing(l) \notin DOMAIN moved
    <3>1. DOMAIN moved = {Item(Sale(l).item)}
      BY Domains
    <3>2. Listing(l) # Item(Sale(l).item)
      BY Keys
    <3>3. QED
      BY <3>1, <3>2
  <2>4. Moved(p, l) = Over(moved, Charged(p, l))
    BY DEF Moved
  <2> HIDE DEF moved
  <2>5. Listing(l) \in DOMAIN Moved(p, l) /\ Moved(p, l)[Listing(l)] = Sale(l)
    <3>1. DOMAIN Charged(p, l) \subseteq DOMAIN Moved(p, l)
      BY <2>4, WritesAre
    <3>2. Moved(p, l)[Listing(l)] = Charged(p, l)[Listing(l)]
      BY <1>7, <2>3, <2>4, Writing
    <3>3. QED
      BY <1>7, <3>1, <3>2
  <2>6. Row(p, Listing(l)) = Sale(l) /\ Listing(l) \in Locks(p)
    BY <1>9, <2>5, Seeing DEF Locks
  <2> DEFINE new == One(Listing(l), [Sale(l) EXCEPT !.state = "sold"])
             open == Sale(l).state = "open"
  <2>7. Run(p, "markSold", open, new, job[p])
    BY <1>2, <2>2, <2>6 DEF MarkSold
  <2>8. DOMAIN new = {Listing(l)}
    BY Domains
  <2> HIDE DEF new, open
  <2>9. /\ Guarded(p) /\ UNCHANGED rows
        /\ \/ Resting(p)'
           \/ /\ writes'[p] = Over(new, writes[p]) /\ todo'[p] = Tail(todo[p]) /\ job'[p] = job[p]
    BY <2>6, <2>7, <2>8, RunGives
  <2>10. CASE writes'[p] = Over(new, writes[p]) /\ todo'[p] = Tail(todo[p]) /\ job'[p] = job[p]
    <3>1. Moved(p, l)' = Moved(p, l) /\ CanPay(p)' /\ todo'[p] = <<"commit">> /\ Sale(l)' = Sale(l)
      BY <1>9, <2>1, <2>9, <2>10, Unpaid, Unmoved
    <3>2. writes'[p] = Over(One(Listing(l), [Sale(l) EXCEPT !.state = "sold"]), Moved(p, l))'
      BY <1>9, <2>10, <3>1 DEF new, Listing, One, Over
    <3>3. QED
      BY <1>1, <1>5, <1>9, <2>9, <2>10, <3>1, <3>2 DEF BuyFits
  <2>11. QED
    BY <2>9, <2>10
<1>10. CASE todo[p] = <<"commit">>
  BY <1>10, Heads, StatementIs
<1>11. QED
  BY <1>1, <1>6, <1>8, <1>9, <1>10

\* So does the settlement of a trade.
LEMMA SettleGoes ==
    ASSUME Shapes, NEW p \in Procs, Statement(p), SettleFits(p)
    PROVE  (SettleFits(p) \/ Resting(p))' /\ Guarded(p) /\ UNCHANGED rows
<1>1. PICK i \in Items, a \in Players :
        /\ p \in Players /\ job[p] = Job("Settle", a, i, 0)
        /\ \/ todo[p] = <<"transferInventory", "commit">> /\ writes[p] = NoRows
           \/ /\ todo[p] = <<"commit">> /\ Withdrawable(rows[Item(i)], p)
              /\ writes[p] = One(Item(i), [rows[Item(i)] EXCEPT !.owner = a])
  BY DEF SettleFits
<1>2. job[p].on = i /\ job[p].account = a
  BY <1>1 DEF Job
<1>3. CASE todo[p] = <<"transferInventory", "commit">> /\ writes[p] = NoRows
  <2>1. Doing(p, "transferInventory") /\ Tail(todo[p]) = <<"commit">>
    BY <1>3, Heads
  <2>2. TransferInventory(p) /\ Unlocked(p, Item(i))
    BY <1>2, <2>1, StatementIs, ReadyIs
  <2>3. Row(p, Item(i)) = rows[Item(i)]
    BY <1>3, Domains, Seeing DEF Locks
  <2> DEFINE new == One(Item(i), [rows[Item(i)] EXCEPT !.owner = a])
             mine == Withdrawable(rows[Item(i)], p)
  <2>4. Run(p, "transferInventory", mine, new, job[p])
    BY <1>2, <2>2, <2>3 DEF TransferInventory
  <2>5. DOMAIN new = {Item(i)} /\ Over(new, NoRows) = new
    BY Writing
  <2> HIDE DEF new, mine
  <2>6. /\ Guarded(p) /\ UNCHANGED rows
        /\ \/ Resting(p)'
           \/ /\ mine /\ writes'[p] = Over(new, writes[p]) /\ todo'[p] = Tail(todo[p])
                   /\ job'[p] = job[p]
    BY <2>2, <2>4, <2>5, RunGives
  <2>7. CASE mine /\ writes'[p] = Over(new, writes[p]) /\ todo'[p] = Tail(todo[p]) /\ job'[p] = job[p]
    <3>1. writes'[p] = One(Item(i), [rows[Item(i)] EXCEPT !.owner = a])'
            /\ Withdrawable(rows[Item(i)], p)'
      BY <1>3, <2>5, <2>6, <2>7 DEF new, mine, Item, Withdrawable
    <3>2. QED
      BY <1>1, <2>1, <2>6, <2>7, <3>1 DEF SettleFits
  <2>8. QED
    BY <2>6, <2>7
<1>4. CASE todo[p] = <<"commit">>
  BY <1>4, Heads, StatementIs
<1>5. QED
  BY <1>1, <1>3, <1>4

\* So does the administration's change of a balance.
LEMMA SetGoes ==
    ASSUME Shapes, NEW p \in Procs, Statement(p), SetFits(p)
    PROVE  (SetFits(p) \/ Resting(p))' /\ Guarded(p) /\ UNCHANGED rows
<1>1. PICK a \in Players :
        /\ job[p] = Job("Set", a, None, 0)
        /\ \/ todo[p] = <<"set", "commit">> /\ writes[p] = NoRows
           \/ todo[p] = <<"commit">> /\ writes[p] = One(Balance(a), 0)
  BY DEF SetFits
<1>2. job[p].account = a /\ job[p].sum = 0
  BY <1>1 DEF Job
<1>3. CASE todo[p] = <<"set", "commit">> /\ writes[p] = NoRows
  <2>1. Doing(p, "set") /\ Tail(todo[p]) = <<"commit">>
    BY <1>3, Heads
  <2>2. Set(p) /\ Unlocked(p, Balance(a))
    BY <1>2, <2>1, StatementIs, ReadyIs
  <2> DEFINE new == One(Balance(a), 0)
  <2>3. Run(p, "set", TRUE, new, job[p])
    BY <1>2, <2>2 DEF Set
  <2>4. DOMAIN new = {Balance(a)} /\ Over(new, NoRows) = new
    BY Writing
  <2> HIDE DEF new
  <2>5. /\ Guarded(p) /\ UNCHANGED rows
        /\ \/ Resting(p)'
           \/ /\ writes'[p] = Over(new, writes[p]) /\ todo'[p] = Tail(todo[p]) /\ job'[p] = job[p]
    BY <2>2, <2>3, <2>4, RunGives
  <2>6. CASE writes'[p] = Over(new, writes[p]) /\ todo'[p] = Tail(todo[p]) /\ job'[p] = job[p]
    <3>1. writes'[p] = One(Balance(a), 0)'
      BY <1>3, <2>4, <2>6 DEF new
    <3>2. QED
      BY <1>1, <2>1, <2>5, <2>6, <3>1 DEF SetFits
  <2>7. QED
    BY <2>5, <2>6
<1>4. CASE todo[p] = <<"commit">>
  BY <1>4, Heads, StatementIs
<1>5. QED
  BY <1>1, <1>3, <1>4

\* So does the payment of what was sold.
LEMMA RedeemGoes ==
    ASSUME Shapes, NEW p \in Procs, Statement(p), RedeemFits(p)
    PROVE  (RedeemFits(p) \/ Resting(p))' /\ Guarded(p) /\ UNCHANGED rows
<1>1. CASE /\ todo[p] = <<"redeem", "grant", "commit">> /\ job[p] = Job("Redeem", p, None, 0)
           /\ writes[p] = NoRows /\ p \in Players
  <2>1. Doing(p, "redeem") /\ Tail(todo[p]) = <<"grant", "commit">>
    BY <1>1, Heads
  <2>2. RedeemSold(p) /\ \A l \in Proceeds(p) : Unlocked(p, Listing(l))
    BY <2>1, StatementIs, ReadyIs
  <2> DEFINE total == SumFunction([l \in Proceeds(p) |-> Sale(l).price])
             next == [job[p] EXCEPT !.sum = total]
             new == PaidOut(Proceeds(p))
  <2>3. Run(p, "redeem", TRUE, new, next)
    BY <2>2 DEF RedeemSold, PaidOut, Sale
  <2> HIDE DEF total
  <2>4. next = Job("Redeem", p, None, total)
    BY <1>1 DEF Job
  <2>5. DOMAIN new = {Listing(l) : l \in Proceeds(p)}
    BY DEF PaidOut
  <2>6. Over(new, NoRows) = new
    BY Writing DEF PaidOut, Over, NoRows
  <2> HIDE DEF next, new
  <2>7. \A r \in DOMAIN new : Unlocked(p, r)
    BY <2>2, <2>5
  <2>8. /\ Guarded(p) /\ UNCHANGED rows
        /\ \/ Resting(p)'
           \/ /\ writes'[p] = Over(new, writes[p]) /\ todo'[p] = Tail(todo[p]) /\ job'[p] = next
    BY <2>3, <2>7, RunGives
  <2>9. CASE writes'[p] = Over(new, writes[p]) /\ todo'[p] = Tail(todo[p]) /\ job'[p] = next
    <3> DEFINE sold == Proceeds(p)
    <3>1. PICK s \in SUBSET Proceeds(p) : s = sold
      OBVIOUS
    <3>2. s \in SUBSET Proceeds(p)'
      BY <2>8 DEF Proceeds, Listing
    <3>3. writes'[p] = PaidOut(s)'
      BY <1>1, <2>6, <2>8, <2>9, <3>1 DEF new, PaidOut, Listing
    <3>4. [l \in s |-> Sale(l).price]' = [l \in Proceeds(p) |-> Sale(l).price]
      BY <2>8, <3>1, Unmoved
    <3>5. SumFunction([l \in s |-> Sale(l).price])' = total
      BY <3>4 DEF total
    <3>6. job'[p] = Job("Redeem", p, None, SumFunction([l \in s |-> Sale(l).price]))'
      BY <2>4, <2>9, <3>5
    <3>7. todo'[p] = <<"grant", "commit">>
      BY <2>1, <2>9
    <3>8. QED
      BY <1>1, <2>8, <3>2, <3>3, <3>6, <3>7 DEF RedeemFits
  <2>10. QED
    BY <2>8, <2>9
<1>2. ASSUME NEW sold \in SUBSET Proceeds(p), p \in Players,
             job[p] = Job("Redeem", p, None, SumFunction([l \in sold |-> Sale(l).price])),
             todo[p] = <<"grant", "commit">> /\ writes[p] = PaidOut(sold)
      PROVE  (RedeemFits(p) \/ Resting(p))' /\ Guarded(p) /\ UNCHANGED rows
  <2>1. Doing(p, "grant") /\ Tail(todo[p]) = <<"commit">>
    BY <1>2, Heads
  <2>2. DOMAIN writes[p] = {Listing(l) : l \in sold}
    BY <1>2 DEF PaidOut
  <2>3. Balance(job[p].account) \notin Locks(p)
    BY <2>2, Keys DEF Locks
  <2>4. /\ Guarded(p) /\ UNCHANGED rows
        /\ \/ Resting(p)'
           \/ /\ writes'[p] = Over(Paid(p), writes[p]) /\ todo'[p] = <<"commit">> /\ job'[p] = job[p]
    BY <2>1, <2>3, GrantPays
  <2>5. CASE writes'[p] = Over(Paid(p), writes[p]) /\ todo'[p] = <<"commit">> /\ job'[p] = job[p]
    <3>1. sold \in SUBSET Proceeds(p)'
      BY <1>2, <2>4 DEF Proceeds, Listing
    <3>2. PaidOut(sold)' = PaidOut(sold)
      BY <2>4 DEF PaidOut, Listing
    <3>3. writes'[p] = Over(Paid(p), PaidOut(sold))'
      BY <1>2, <2>4, <2>5, <3>2, Unpaid DEF Over
    <3>4. [l \in sold |-> Sale(l).price]' = [l \in sold |-> Sale(l).price]
      BY <2>4, Unmoved
    <3>5. SumFunction([l \in sold |-> Sale(l).price])' = SumFunction([l \in sold |-> Sale(l).price])
      BY <3>4
    <3>6. job'[p] = Job("Redeem", p, None, SumFunction([l \in sold |-> Sale(l).price]))'
      BY <1>2, <2>5, <3>5
    <3>7. QED
      BY <1>2, <2>4, <2>5, <3>1, <3>3, <3>6 DEF RedeemFits
  <2>6. QED
    BY <2>4, <2>5
<1>3. CASE todo[p] = <<"commit">>
  BY <1>3, Heads, StatementIs
<1>4. QED
  BY <1>1, <1>2, <1>3 DEF RedeemFits

\* So does the end of a listing: it is closed, and then its furniture is released.
LEMMA EndGoes ==
    ASSUME Shapes, RowsFit, NEW p \in Procs, Statement(p), EndFits(p)
    PROVE  (EndFits(p) \/ Resting(p))' /\ Guarded(p) /\ UNCHANGED rows
<1>1. CASE todo[p] = <<"expire", "release", "commit">>
  <2>1. ExpireListings(p)
    BY <1>1, Heads, StatementIs
  <2>2. Rollback(p)
    BY <2>1 DEF ExpireListings, Run
  <2>3. QED
    BY <2>2, RollbackIs, RestingGuarded
<1>2. ASSUME NEW l \in Listings, NEW a \in Players \union {None}, job[p] = Job("Close", a, l, 0),
             \/ todo[p] = <<"close", "release", "commit">> /\ writes[p] = NoRows
             \/ /\ Sale(l).state = "open"
                /\ \/ todo[p] = <<"release", "commit">> /\ writes[p] = Closed(l)
                   \/ todo[p] = <<"commit">> /\ writes[p] = Freed(l)
      PROVE  (EndFits(p) \/ Resting(p))' /\ Guarded(p) /\ UNCHANGED rows
  <2>1. job[p].on = l
    BY <1>2 DEF Job
  <2>2. Sale(l) \in ListingRows
    BY DEF RowsFit, Sale
  <2>3. ASSUME UNCHANGED rows, job'[p] = job[p], Sale(l).state = "open"
        PROVE  /\ job'[p] = Job("Close", a, l, 0)' /\ Sale(l)'.state = "open"
               /\ Closed(l)' = Closed(l) /\ Freed(l)' = Freed(l)
    <3>1. Sale(l)' = Sale(l)
      BY <2>3, Unmoved
    <3>2. Closed(l)' = Closed(l)
      BY <3>1 DEF Closed, One, Listing
    <3>3. Freed(l)' = Freed(l)
      BY <2>3, <3>1, <3>2 DEF Freed, Over, One, Item
    <3>4. QED
      BY <1>2, <2>3, <3>1, <3>2, <3>3
  <2>4. CASE todo[p] = <<"close", "release", "commit">> /\ writes[p] = NoRows
    <3>1. Doing(p, "close") /\ Tail(todo[p]) = <<"release", "commit">>
      BY <2>4, Heads
    <3>2. Close(p) /\ (Sale(l) # Unlisted => Unlocked(p, Listing(l)))
      BY <2>1, <3>1, StatementIs, ReadyIs DEF Sale
    <3>3. Row(p, Listing(l)) = Sale(l)
      BY <2>4, Domains, Seeing DEF Locks, Sale
    <3> DEFINE mine == Sale(l).state = "open" /\ (Sale(l).seller = p \/ p = Admin)
    <3>4. Run(p, "close", mine, Closed(l), job[p])
      BY <2>1, <3>2, <3>3 DEF Close, Closed
    <3>5. DOMAIN Closed(l) = {Listing(l)} /\ Over(Closed(l), NoRows) = Closed(l)
      BY Writing DEF Closed
    <3>6. CASE mine
      <4>1. Unlocked(p, Listing(l)) /\ Sale(l).state = "open"
        BY <3>2, <3>6 DEF Unlisted
      <4> HIDE DEF mine
      <4>2. /\ Guarded(p) /\ UNCHANGED rows
            /\ \/ Resting(p)'
               \/ /\ writes'[p] = Over(Closed(l), writes[p]) /\ todo'[p] = Tail(todo[p])
                  /\ job'[p] = job[p]
        BY <3>4, <3>5, <4>1, RunGives
      <4>3. CASE /\ writes'[p] = Over(Closed(l), writes[p]) /\ todo'[p] = Tail(todo[p])
                 /\ job'[p] = job[p]
        <5>1. writes'[p] = Closed(l)' /\ todo'[p] = <<"release", "commit">>
          BY <2>3, <2>4, <3>1, <3>5, <4>1, <4>2, <4>3
        <5>2. QED
          BY <2>3, <4>1, <4>2, <4>3, <5>1 DEF EndFits
      <4>4. QED
        BY <4>2, <4>3
    <3>7. CASE ~mine
      <4>1. Rollback(p)
        BY <3>4, <3>7 DEF Run
      <4>2. QED
        BY <4>1, RollbackIs, RestingGuarded
    <3>8. QED
      BY <3>6, <3>7
  <2>5. CASE /\ Sale(l).state = "open"
             /\ todo[p] = <<"release", "commit">> /\ writes[p] = Closed(l)
    <3>1. Doing(p, "release") /\ Tail(todo[p]) = <<"commit">>
      BY <2>5, Heads
    <3>2. DOMAIN Closed(l) = {Listing(l)} /\ Closed(l)[Listing(l)] = [Sale(l) EXCEPT !.state = "closed"]
      BY Writing DEF Closed
    <3>3. Row(p, Listing(l)) = [Sale(l) EXCEPT !.state = "closed"]
      BY <2>5, <3>2, Seeing DEF Locks
    <3>4. Row(p, Listing(l)).item = Sale(l).item /\ Row(p, Listing(l)).seller = Sale(l).seller
      BY <2>2, <3>3 DEF ListingRows
    <3>5. Release(p) /\ Unlocked(p, Item(Sale(l).item))
      BY <2>1, <3>1, <3>4, StatementIs, ReadyIs
    <3>6. Item(Sale(l).item) \notin Locks(p)
      BY <2>5, <3>2, Keys DEF Locks
    <3>7. Row(p, Item(Sale(l).item)) = rows[Item(Sale(l).item)]
      BY <3>6, Seeing
    <3> DEFINE held == Held(rows[Item(Sale(l).item)], Sale(l).seller)
               new == One(Item(Sale(l).item), [rows[Item(Sale(l).item)] EXCEPT !.reserved = FALSE])
    <3>8. Run(p, "release", held, new, job[p])
      BY <2>1, <3>4, <3>5, <3>7 DEF Release
    <3>9. DOMAIN new = {Item(Sale(l).item)}
      BY Domains
    <3>10. Over(new, writes[p]) = Freed(l)
      BY <2>5 DEF Freed
    <3> HIDE DEF held, new
    <3>11. /\ Guarded(p) /\ UNCHANGED rows
           /\ \/ Resting(p)'
              \/ /\ writes'[p] = Over(new, writes[p]) /\ todo'[p] = Tail(todo[p])
                 /\ job'[p] = job[p]
      BY <3>5, <3>8, <3>9, RunGives
    <3>12. CASE writes'[p] = Over(new, writes[p]) /\ todo'[p] = Tail(todo[p]) /\ job'[p] = job[p]
      <4>1. writes'[p] = Freed(l)' /\ todo'[p] = <<"commit">>
        BY <2>3, <2>5, <3>1, <3>10, <3>11, <3>12
      <4>2. QED
        BY <2>3, <2>5, <3>11, <3>12, <4>1 DEF EndFits
    <3>13. QED
      BY <3>11, <3>12
  <2>6. CASE todo[p] = <<"commit">>
    BY <2>6, Heads, StatementIs
  <2>7. QED
    BY <1>2, <2>4, <2>5, <2>6
<1>3. QED
  BY <1>1, <1>2 DEF EndFits

\* The number of an offer that is reserved is free, and nobody else has it.
LEMMA ReserveGoes ==
    ASSUME Shapes, NEW p \in Procs, Statement(p), Doing(p, "reserveUnit"), NEW o \in Offers, job[p].on
           = o,
           \A n \in Numbers : Unit(o, n) \notin Locks(p)
    PROVE  /\ Guarded(p) /\ UNCHANGED rows
           /\ \/ Resting(p)'
              \/ \E n \in Numbers :
                    /\ Free(o, n) /\ writes'[p] = Over(Number(p, o, n), writes[p])
                    /\ todo'[p] = Tail(todo[p]) /\ job'[p] = [job[p] EXCEPT !.batch = {n}]
<1> DEFINE free == FreeNumbers(p, o)
           new(n) == One(Unit(o, n), [Row(p, Unit(o, n)) EXCEPT !.owner = p])
           some == free # {}
<1>1. Run(p, "reserveUnit", some, new(Min(free)), [job[p] EXCEPT !.batch = {Min(free)}])
  BY StatementIs DEF ReserveUnit
<1>2. CASE ~some
  <2>1. Rollback(p)
    BY <1>1, <1>2 DEF Run
  <2>2. QED
    BY <2>1, RollbackIs, RestingGuarded
<1>3. CASE some
  <2>1. free \in SUBSET Nat
    BY CatalogAssumption DEF FreeNumbers, Numbers
  <2>2. PICK n \in free : n = Min(free)
    BY <1>3, <2>1, LowestOf
  <2>3. n \in Numbers /\ Unlocked(p, Unit(o, n)) /\ Row(p, Unit(o, n)) = rows[Unit(o, n)]
    BY <2>2, Seeing DEF FreeNumbers
  <2>4. Free(o, n)
    BY <2>2, <2>3 DEF FreeNumbers, Free
  <2>5. new(n) = Number(p, o, n) /\ DOMAIN new(n) = {Unit(o, n)}
    BY <2>3, Domains DEF Number
  <2> DEFINE wrote == Number(p, o, n)   next == [job[p] EXCEPT !.batch = {n}]
  <2>6. Run(p, "reserveUnit", some, wrote, next)
    BY <1>1, <2>2, <2>5
  <2>7. \A r \in DOMAIN wrote : Unlocked(p, r)
    BY <2>3, <2>5
  <2> HIDE DEF some, wrote, next
  <2>8. /\ Guarded(p) /\ UNCHANGED rows
        /\ \/ Resting(p)'
           \/ /\ writes'[p] = Over(wrote, writes[p]) /\ todo'[p] = Tail(todo[p]) /\ job'[p] = next
    BY <2>6, <2>7, RunGives
  <2>9. QED
    BY <2>3, <2>4, <2>8 DEF wrote, next
<1>4. QED
  BY <1>2, <1>3

\* The only number of a job.
LEMMA OnlyOf == ASSUME NEW n \in Nat PROVE Min({n}) = n
  BY LowestOf

\* A number is sold with its offer, which has one in stock.
LEMMA CompleteGoes ==
    ASSUME Shapes, NEW p \in Procs, Statement(p), Doing(p, "completeUnit"), NEW o \in Offers,
           NEW n \in Numbers,
           job[p].on = o, job[p].batch = {n}, Offer(o) \notin Locks(p), Unit(o, n) \in Locks(p),
           writes[p][Unit(o, n)] = [rows[Unit(o, n)] EXCEPT !.owner = p]
    PROVE  /\ Guarded(p) /\ UNCHANGED rows
           /\ \/ Resting(p)'
              \/ /\ InStock(o) /\ writes'[p] = Over(NumberSold(p, o, n), writes[p])
                 /\ todo'[p] = Tail(todo[p]) /\ job'[p] = job[p]
<1>1. Min(job[p].batch) = n
  BY OnlyOf, CatalogAssumption DEF Numbers
<1>2. CompleteUnit(p) /\ Unlocked(p, Offer(o))
  BY StatementIs, ReadyIs
<1>3. Row(p, Offer(o)) = rows[Offer(o)] /\ Row(p, Unit(o, n)) = [rows[Unit(o, n)] EXCEPT !.owner = p]
  BY Seeing
<1> DEFINE left == InStock(o)   wrote == NumberSold(p, o, n)
<1>4. Run(p, "completeUnit", left, wrote, job[p])
  BY <1>1, <1>2, <1>3 DEF CompleteUnit, InStock, NumberSold
<1>5. DOMAIN wrote = {Unit(o, n), Offer(o)}
  <2>1. DOMAIN wrote = {Unit(o, n)} \union {Offer(o)}
    BY DEF NumberSold, Over, One
  <2>2. QED
    BY <2>1
<1>6. \A r \in DOMAIN wrote : r \in Locks(p) \/ Unlocked(p, r)
  BY <1>2, <1>5
<1> HIDE DEF left, wrote
<1>7. /\ Guarded(p) /\ UNCHANGED rows
      /\ \/ Resting(p)'
         \/ /\ left /\ writes'[p] = Over(wrote, writes[p]) /\ todo'[p] = Tail(todo[p])
                 /\ job'[p] = job[p]
  BY <1>4, <1>6, RunGives
<1>8. QED
  BY <1>7 DEF left, wrote

\* So does a purchase from the catalog.
LEMMA PurchaseGoes ==
    ASSUME Shapes, NEW p \in Procs, Statement(p), PurchaseFits(p)
    PROVE  (PurchaseFits(p) \/ Resting(p))' /\ Guarded(p) /\ UNCHANGED rows
<1>1. PICK o \in Offers :
        /\ p \in Players
        /\ \/ /\ job[p] = Job("Purchase", p, o, -Cost)
              /\ \/ todo[p] = <<"grant", "commit">> /\ writes[p] = NoRows
                 \/ todo[p] = <<"commit">> /\ CanPay(p) /\ writes[p] = Over(Paid(p), NoRows)
                 \/ /\ todo[p] = <<"reserveUnit", "grant", "completeUnit", "commit", "readCatalog",
                         "storeCatalog">>
                    /\ writes[p] = NoRows
           \/ \E n \in Numbers :
                 /\ job[p] = [Job("Purchase", p, o, -Cost) EXCEPT !.batch = {n}] /\ Free(o, n)
                 /\ \/ /\ todo[p] = <<"grant", "completeUnit", "commit", "readCatalog", "storeCatalog">>
                       /\ writes[p] = Number(p, o, n)
                    \/ /\ todo[p] = <<"completeUnit", "commit", "readCatalog", "storeCatalog">>
                            /\ CanPay(p)
                       /\ writes[p] = Over(Paid(p), Number(p, o, n))
                    \/ /\ todo[p] = <<"commit", "readCatalog", "storeCatalog">> /\ CanPay(p)
                            /\ InStock(o)
                       /\ writes[p] = Over(NumberSold(p, o, n), Over(Paid(p), Number(p, o, n)))
  BY DEF PurchaseFits, NumberFits
<1>2. CASE job[p] = Job("Purchase", p, o, -Cost) /\ todo[p] = <<"grant", "commit">>
             /\ writes[p] = NoRows
  <2>1. Doing(p, "grant") /\ Tail(todo[p]) = <<"commit">>
    BY <1>2, Heads
  <2>2. Balance(job[p].account) \notin Locks(p)
    BY <1>2, Domains DEF Locks
  <2>3. /\ Guarded(p) /\ UNCHANGED rows
        /\ \/ Resting(p)'
           \/ /\ CanPay(p) /\ writes'[p] = Over(Paid(p), writes[p]) /\ todo'[p] = <<"commit">>
              /\ job'[p] = job[p]
    BY <2>1, <2>2, GrantPays
  <2>4. CASE CanPay(p) /\ writes'[p] = Over(Paid(p), writes[p]) /\ todo'[p] = <<"commit">>
               /\ job'[p] = job[p]
    <3>1. CanPay(p)' /\ writes'[p] = Over(Paid(p), NoRows)' /\ job'[p] = Job("Purchase", p, o, -Cost)'
      BY <1>2, <2>3, <2>4, Unpaid
    <3>2. QED
      BY <1>1, <2>3, <2>4, <3>1 DEF PurchaseFits, NumberFits
  <2>5. QED
    BY <2>3, <2>4
<1>3. CASE /\ job[p] = Job("Purchase", p, o, -Cost) /\ writes[p] = NoRows
           /\ todo[p] = <<"reserveUnit", "grant", "completeUnit", "commit", "readCatalog",
                "storeCatalog">>
  <2>1. /\ Doing(p, "reserveUnit") /\ job[p].on = o
        /\ Tail(todo[p]) = <<"grant", "completeUnit", "commit", "readCatalog", "storeCatalog">>
    BY <1>3, Heads DEF Job
  <2>2. \A n \in Numbers : Unit(o, n) \notin Locks(p)
    BY <1>3, Domains DEF Locks
  <2>3. /\ Guarded(p) /\ UNCHANGED rows
        /\ \/ Resting(p)'
           \/ \E n \in Numbers :
                 /\ Free(o, n) /\ writes'[p] = Over(Number(p, o, n), writes[p])
                 /\ todo'[p] = Tail(todo[p]) /\ job'[p] = [job[p] EXCEPT !.batch = {n}]
    BY <2>1, <2>2, ReserveGoes
  <2>4. ASSUME NEW n \in Numbers, Free(o, n), writes'[p] = Over(Number(p, o, n), writes[p]),
               todo'[p] = Tail(todo[p]), job'[p] = [job[p] EXCEPT !.batch = {n}]
        PROVE  PurchaseFits(p)'
    <3>1. Free(o, n)' /\ Number(p, o, n)' = Number(p, o, n)
      BY <2>3, <2>4, Unmoved
    <3>2. Over(Number(p, o, n), NoRows) = Number(p, o, n)
      BY Writing DEF Number
    <3>3. writes'[p] = Number(p, o, n)'
            /\ job'[p] = [Job("Purchase", p, o, -Cost) EXCEPT !.batch = {n}]'
      BY <1>3, <2>4, <3>1, <3>2
    <3>4. QED
      <4>1. NumberFits(p, o, n)'
        BY <2>1, <2>4, <3>1, <3>3 DEF NumberFits
      <4>2. QED
        BY <1>1, <4>1 DEF PurchaseFits
  <2>5. QED
    BY <2>3, <2>4
<1>4. ASSUME NEW n \in Numbers, job[p] = [Job("Purchase", p, o, -Cost) EXCEPT !.batch = {n}], Free(o, n)
      PROVE  /\ job[p].on = o /\ job[p].batch = {n} /\ job[p].account = p
             /\ DOMAIN Number(p, o, n) = {Unit(o, n)}
             /\ Number(p, o, n)[Unit(o, n)] = [rows[Unit(o, n)] EXCEPT !.owner = p]
             /\ UNCHANGED rows => Free(o, n)' /\ Number(p, o, n)' = Number(p, o, n)
             /\ job'[p] = job[p] => job'[p] = [Job("Purchase", p, o, -Cost) EXCEPT !.batch = {n}]'
  <2>1. job[p].on = o /\ job[p].batch = {n} /\ job[p].account = p
    BY <1>4 DEF Job
  <2>2. DOMAIN Number(p, o, n) = {Unit(o, n)}
          /\ Number(p, o, n)[Unit(o, n)] = [rows[Unit(o, n)] EXCEPT !.owner = p]
    BY Writing DEF Number
  <2>3. UNCHANGED rows => Free(o, n)' /\ Number(p, o, n)' = Number(p, o, n)
    BY <1>4, Unmoved
  <2>4. QED
    BY <1>4, <2>1, <2>2, <2>3
<1>5. ASSUME NEW n \in Numbers, job[p]
             = [Job("Purchase", p, o, -Cost) EXCEPT !.batch = {n}], Free(o, n),
             todo[p] = <<"grant", "completeUnit", "commit", "readCatalog", "storeCatalog">>,
             writes[p] = Number(p, o, n)
      PROVE  (PurchaseFits(p) \/ Resting(p))' /\ Guarded(p) /\ UNCHANGED rows
  <2>1. Doing(p, "grant") /\ Tail(todo[p]) = <<"completeUnit", "commit", "readCatalog", "storeCatalog">>
    BY <1>5, Heads
  <2>2. DOMAIN writes[p] = {Unit(o, n)}
    BY <1>4, <1>5
  <2>3. Balance(job[p].account) \notin Locks(p)
    BY <2>2, Keys DEF Locks
  <2>4. /\ Guarded(p) /\ UNCHANGED rows
        /\ \/ Resting(p)'
           \/ /\ CanPay(p) /\ writes'[p] = Over(Paid(p), writes[p])
              /\ todo'[p] = <<"completeUnit", "commit", "readCatalog", "storeCatalog">>
              /\ job'[p] = job[p]
    BY <2>1, <2>3, GrantPays
  <2>5. CASE /\ CanPay(p) /\ writes'[p] = Over(Paid(p), writes[p])
             /\ todo'[p] = <<"completeUnit", "commit", "readCatalog", "storeCatalog">>
                  /\ job'[p] = job[p]
    <3>1. CanPay(p)' /\ Paid(p)' = Paid(p) /\ Number(p, o, n)' = Number(p, o, n) /\ Free(o, n)'
      BY <1>4, <1>5, <2>4, <2>5, Unpaid
    <3>2. writes'[p] = Over(Paid(p), Number(p, o, n))'
      BY <1>5, <2>5, <3>1 DEF Over
    <3>3. job'[p] = [Job("Purchase", p, o, -Cost) EXCEPT !.batch = {n}]'
      BY <1>5, <2>5
    <3>4. QED
      <4>1. NumberFits(p, o, n)'
        BY <2>5, <3>1, <3>2, <3>3 DEF NumberFits
      <4>2. QED
        BY <1>1, <2>4, <4>1 DEF PurchaseFits
  <2>6. QED
    BY <2>4, <2>5
<1>6. ASSUME NEW n \in Numbers, job[p]
             = [Job("Purchase", p, o, -Cost) EXCEPT !.batch = {n}], Free(o, n),
             todo[p] = <<"completeUnit", "commit", "readCatalog", "storeCatalog">>, CanPay(p),
             writes[p] = Over(Paid(p), Number(p, o, n))
      PROVE  (PurchaseFits(p) \/ Resting(p))' /\ Guarded(p) /\ UNCHANGED rows
  <2>1. Doing(p, "completeUnit") /\ Tail(todo[p]) = <<"commit", "readCatalog", "storeCatalog">>
    BY <1>6, Heads
  <2>2. /\ job[p].on = o /\ job[p].batch = {n} /\ job[p].account = p
        /\ DOMAIN Number(p, o, n) = {Unit(o, n)}
        /\ Number(p, o, n)[Unit(o, n)] = [rows[Unit(o, n)] EXCEPT !.owner = p]
    BY <1>4, <1>6
  <2>3. DOMAIN Paid(p) \subseteq {Balance(p)} /\ Unit(o, n) # Balance(p) /\ Offer(o) # Balance(p)
          /\ Offer(o) # Unit(o, n)
    BY <2>2, PaidRows, Keys
  <2>4. DOMAIN writes[p] = DOMAIN Paid(p) \union {Unit(o, n)}
    BY <1>6, <2>2 DEF Over
  <2>5. writes[p][Unit(o, n)] = [rows[Unit(o, n)] EXCEPT !.owner = p]
    BY <1>6, <2>2, <2>3 DEF Over
  <2>6. Offer(o) \notin Locks(p) /\ Unit(o, n) \in Locks(p)
    BY <2>3, <2>4 DEF Locks
  <2>7. /\ Guarded(p) /\ UNCHANGED rows
        /\ \/ Resting(p)'
           \/ /\ InStock(o) /\ writes'[p] = Over(NumberSold(p, o, n), writes[p])
              /\ todo'[p] = Tail(todo[p]) /\ job'[p] = job[p]
    BY <2>1, <2>2, <2>5, <2>6, CompleteGoes
  <2>8. CASE /\ InStock(o) /\ writes'[p] = Over(NumberSold(p, o, n), writes[p])
             /\ todo'[p] = Tail(todo[p]) /\ job'[p] = job[p]
    <3>1. /\ CanPay(p)' /\ Paid(p)' = Paid(p) /\ Number(p, o, n)' = Number(p, o, n) /\ Free(o, n)'
          /\ NumberSold(p, o, n)' = NumberSold(p, o, n) /\ InStock(o)'
      BY <1>4, <1>6, <2>7, <2>8, Unpaid, Unmoved
    <3>2. writes'[p] = Over(NumberSold(p, o, n), Over(Paid(p), Number(p, o, n)))'
      BY <1>6, <2>8, <3>1 DEF Over
    <3>3. job'[p] = [Job("Purchase", p, o, -Cost) EXCEPT !.batch = {n}]'
      BY <1>6, <2>8
    <3>4. QED
      <4>1. NumberFits(p, o, n)'
        BY <2>1, <2>8, <3>1, <3>2, <3>3 DEF NumberFits
      <4>2. QED
        BY <1>1, <2>7, <4>1 DEF PurchaseFits
  <2>9. QED
    BY <2>7, <2>8
<1>7. CASE todo[p] = <<"commit">> \/ todo[p] = <<"commit", "readCatalog", "storeCatalog">>
  BY <1>7, Heads, StatementIs
<1>8. QED
  BY <1>1, <1>2, <1>3, <1>5, <1>6, <1>7

\* So does the redemption of a voucher.
LEMMA VoucherGoes ==
    ASSUME Shapes, NEW p \in Procs, Statement(p), VoucherFits(p)
    PROVE  (VoucherFits(p) \/ Resting(p))' /\ Guarded(p) /\ UNCHANGED rows
<1> DEFINE voucher == Job("Voucher", p, VoucherOffer, VoucherCredits)
           redeems == One(Redemption(p), TRUE)
           o == VoucherOffer
<1>1. p \in Players /\ voucher.on = o /\ voucher.account = p
  BY DEF VoucherFits, Job
<1>2. DOMAIN redeems = {Redemption(p)} /\ redeems' = redeems
  BY Domains
<1>3. ASSUME NEW last \in {"commit", "checkOffer"}, job[p] = voucher, writes[p] = NoRows,
             todo[p] = <<"count", "insertRedemption", "grant", last>>
      PROVE  (VoucherFits(p) \/ Resting(p))' /\ Guarded(p) /\ UNCHANGED rows
  <2>1. Doing(p, "count") /\ Tail(todo[p]) = <<"insertRedemption", "grant", last>>
    BY <1>3, Heads
  <2> DEFINE few == Cardinality(Redeemed) < RedemptionCap
  <2>2. Run(p, "count", few, NoRows, job[p])
    BY <2>1, StatementIs DEF CountRedemptions
  <2>3. DOMAIN NoRows = {} /\ Over(NoRows, NoRows) = NoRows
    BY Writing DEF Over, NoRows
  <2> HIDE DEF few
  <2>4. /\ Guarded(p) /\ UNCHANGED rows
        /\ \/ Resting(p)'
           \/ /\ writes'[p] = Over(NoRows, writes[p]) /\ todo'[p] = Tail(todo[p]) /\ job'[p] = job[p]
    BY <2>2, <2>3, RunGives
  <2>5. CASE writes'[p] = Over(NoRows, writes[p]) /\ todo'[p] = Tail(todo[p]) /\ job'[p] = job[p]
    <3>1. job'[p] = voucher' /\ writes'[p] = NoRows' /\ todo'[p] = <<"insertRedemption", "grant", last>>
      BY <1>3, <2>1, <2>3, <2>5
    <3>2. QED
      BY <1>1, <2>4, <3>1 DEF VoucherFits
  <2>6. QED
    BY <2>4, <2>5
<1>4. ASSUME NEW last \in {"commit", "checkOffer"}, job[p] = voucher, writes[p] = NoRows,
             todo[p] = <<"insertRedemption", "grant", last>>
      PROVE  (VoucherFits(p) \/ Resting(p))' /\ Guarded(p) /\ UNCHANGED rows
  <2>1. Doing(p, "insertRedemption") /\ Tail(todo[p]) = <<"grant", last>>
    BY <1>4, Heads
  <2>2. InsertRedemption(p) /\ Unlocked(p, Redemption(p))
    BY <2>1, StatementIs, ReadyIs
  <2>3. Row(p, Redemption(p)) = rows[Redemption(p)]
    BY <1>4, Domains, Seeing DEF Locks
  <2> DEFINE first == ~rows[Redemption(p)]
  <2>4. Run(p, "insertRedemption", first, redeems, job[p])
    BY <2>2, <2>3 DEF InsertRedemption
  <2>5. Over(redeems, NoRows) = redeems
    BY Writing
  <2> HIDE DEF first, redeems
  <2>6. /\ Guarded(p) /\ UNCHANGED rows
        /\ \/ Resting(p)'
           \/ /\ first /\ writes'[p] = Over(redeems, writes[p]) /\ todo'[p] = Tail(todo[p])
                   /\ job'[p] = job[p]
    BY <1>2, <2>2, <2>4, RunGives
  <2>7. CASE first /\ writes'[p] = Over(redeems, writes[p]) /\ todo'[p] = Tail(todo[p])
               /\ job'[p] = job[p]
    <3>1. job'[p] = voucher' /\ writes'[p] = redeems' /\ todo'[p] = <<"grant", last>>
            /\ (~rows[Redemption(p)])'
      BY <1>2, <1>4, <2>1, <2>5, <2>6, <2>7 DEF first, Redemption
    <3>2. todo'[p] \in {<<"grant", "commit">>, <<"grant", "checkOffer">>}
      BY <3>1
    <3>3. QED
      BY <1>1, <2>6, <3>1, <3>2 DEF VoucherFits, redeems
  <2>8. QED
    BY <2>6, <2>7
<1>5. ASSUME NEW last \in {"commit", "checkOffer"}, job[p] = voucher, writes[p] = redeems,
             todo[p] = <<"grant", last>>, ~rows[Redemption(p)]
      PROVE  (VoucherFits(p) \/ Resting(p))' /\ Guarded(p) /\ UNCHANGED rows
  <2>1. Doing(p, "grant") /\ Tail(todo[p]) = <<last>>
    BY <1>5, Heads
  <2>2. Balance(job[p].account) \notin Locks(p)
    <3>1. DOMAIN writes[p] = {Redemption(p)}
      BY <1>2, <1>5
    <3>2. QED
      BY <3>1, Keys DEF Locks
  <2>3. /\ Guarded(p) /\ UNCHANGED rows
        /\ \/ Resting(p)'
           \/ /\ writes'[p] = Over(Paid(p), writes[p]) /\ todo'[p] = <<last>> /\ job'[p] = job[p]
    BY <2>1, <2>2, GrantPays
  <2>4. CASE writes'[p] = Over(Paid(p), writes[p]) /\ todo'[p] = <<last>> /\ job'[p] = job[p]
    <3>1. writes'[p] = Granted(p)
      BY <1>5, <2>4 DEF Granted
    <3>2. writes'[p] = Granted(p)' /\ job'[p] = voucher' /\ (~rows[Redemption(p)])'
      BY <1>5, <2>3, <2>4, <3>1, Unpaid DEF Redemption
    <3>3. todo'[p] \in {<<"commit">>, <<"checkOffer">>}
      BY <2>4
    <3>4. QED
      BY <1>1, <2>3, <3>2, <3>3 DEF VoucherFits
  <2>5. QED
    BY <2>3, <2>4
<1>6. CASE job[p] = voucher /\ writes[p] = Granted(p) /\ todo[p] = <<"checkOffer">>
             /\ ~rows[Redemption(p)]
  <2>1. Doing(p, "checkOffer") /\ job[p].on = o
    BY <1>1, <1>6, Heads
  <2>2. CheckOffer(p)
    BY <2>1, StatementIs
  <2>3. CASE o \notin Purchasable
    <3>1. Rollback(p)
      BY <2>1, <2>2, <2>3 DEF CheckOffer
    <3>2. QED
      BY <3>1, RollbackIs, RestingGuarded
  <2>4. CASE o \in Purchasable
    <3>1. /\ UNCHANGED <<rows, writes, job>>
          /\ todo'[p] = <<"reserveUnit", "completeUnit", "commit">> \/ todo'[p] = <<"commit">>
      BY <2>1, <2>2, <2>4 DEF CheckOffer, Shapes
    <3>2. o \in Offers
      BY <2>4 DEF Purchasable
    <3>3. Guarded(p)
      BY <3>1 DEF Guarded, Locks
    <3>4. Granted(p)' = Granted(p)
      BY <3>1, Unpaid
    <3>5. writes'[p] = Granted(p)' /\ job'[p] = voucher' /\ (~rows[Redemption(p)])'
      BY <1>6, <3>1, <3>4 DEF Redemption
    <3>6. QED
      BY <1>1, <3>1, <3>2, <3>3, <3>5 DEF VoucherFits
  <2>5. QED
    BY <2>3, <2>4
<1>7. ASSUME job[p].account = p
      PROVE  DOMAIN Granted(p) \subseteq {Balance(p), Redemption(p)}
  <2>1. DOMAIN Granted(p) = DOMAIN Paid(p) \union DOMAIN redeems
    BY Domains DEF Granted
  <2>2. QED
    BY <1>2, <1>7, <2>1, PaidRows
<1>8. CASE /\ job[p] = voucher /\ writes[p] = Granted(p) /\ ~rows[Redemption(p)] /\ o \in Offers
           /\ todo[p] = <<"reserveUnit", "completeUnit", "commit">>
  <2>1. Doing(p, "reserveUnit") /\ job[p].on = o /\ Tail(todo[p]) = <<"completeUnit", "commit">>
    BY <1>1, <1>8, Heads
  <2>2. \A n \in Numbers : Unit(o, n) \notin Locks(p)
    <3>1. DOMAIN writes[p] \subseteq {Balance(p), Redemption(p)}
      BY <1>1, <1>7, <1>8
    <3>2. QED
      BY <3>1, Keys DEF Locks
  <2>3. /\ Guarded(p) /\ UNCHANGED rows
        /\ \/ Resting(p)'
           \/ \E n \in Numbers :
                 /\ Free(o, n) /\ writes'[p] = Over(Number(p, o, n), writes[p])
                 /\ todo'[p] = Tail(todo[p]) /\ job'[p] = [job[p] EXCEPT !.batch = {n}]
    BY <1>8, <2>1, <2>2, ReserveGoes
  <2>4. ASSUME NEW n \in Numbers, Free(o, n), writes'[p] = Over(Number(p, o, n), writes[p]),
               todo'[p] = Tail(todo[p]), job'[p] = [job[p] EXCEPT !.batch = {n}]
        PROVE  VoucherFits(p)'
    <3>1. Free(o, n)' /\ Number(p, o, n)' = Number(p, o, n) /\ (~rows[Redemption(p)])'
      BY <1>8, <2>3, <2>4, Unmoved DEF Redemption
    <3>2. Granted(p)' = Granted(p)
      <4>1. Waived(job[p])' = Waived(job[p]) /\ job'[p].account = job[p].account
              /\ job'[p].sum = job[p].sum
        BY <1>8, <2>4 DEF Job, Waived
      <4>2. Paid(p)' = Paid(p)
        BY <2>3, <4>1 DEF Paid, One, Balance
      <4>3. QED
        BY <4>2 DEF Granted, Over
    <3>3. writes'[p] = Over(Number(p, o, n), Granted(p))' /\ job'[p] = [voucher EXCEPT !.batch = {n}]'
      BY <1>8, <2>4, <3>1, <3>2 DEF Over
    <3>4. QED
      BY <1>1, <1>8, <2>1, <2>4, <3>1, <3>3 DEF VoucherFits
  <2>5. QED
    BY <2>3, <2>4
<1>9. ASSUME NEW n \in Numbers, job[p] = [voucher EXCEPT !.batch = {n}], o \in Offers,
             ~rows[Redemption(p)], Free(o, n), todo[p] = <<"completeUnit", "commit">>,
             writes[p] = Over(Number(p, o, n), Granted(p))
      PROVE  (VoucherFits(p) \/ Resting(p))' /\ Guarded(p) /\ UNCHANGED rows
  <2>1. Doing(p, "completeUnit") /\ Tail(todo[p]) = <<"commit">>
    BY <1>9, Heads
  <2>2. /\ job[p].on = o /\ job[p].batch = {n} /\ job[p].account = p
    BY <1>1, <1>9 DEF Job
  <2>3. /\ DOMAIN Number(p, o, n) = {Unit(o, n)}
        /\ Number(p, o, n)[Unit(o, n)] = [rows[Unit(o, n)] EXCEPT !.owner = p]
    BY Writing DEF Number
  <2>4. DOMAIN Granted(p) \subseteq {Balance(p), Redemption(p)}
    BY <1>7, <2>2
  <2>5. DOMAIN writes[p] = {Unit(o, n)} \union DOMAIN Granted(p)
    BY <1>9, <2>3 DEF Over
  <2>6. writes[p][Unit(o, n)] = [rows[Unit(o, n)] EXCEPT !.owner = p]
    BY <1>9, <2>3 DEF Over
  <2>7. Offer(o) # Unit(o, n) /\ Offer(o) # Balance(p) /\ Offer(o) # Redemption(p)
    BY Keys
  <2>8. Offer(o) \notin Locks(p) /\ Unit(o, n) \in Locks(p)
    BY <2>4, <2>5, <2>7 DEF Locks
  <2>9. /\ Guarded(p) /\ UNCHANGED rows
        /\ \/ Resting(p)'
           \/ /\ InStock(o) /\ writes'[p] = Over(NumberSold(p, o, n), writes[p])
              /\ todo'[p] = Tail(todo[p]) /\ job'[p] = job[p]
    <3>1. o \in Offers /\ n \in Numbers
      BY <1>9
    <3> HIDE DEF o, voucher
    <3>2. QED
      BY <2>1, <2>2, <2>6, <2>8, <3>1, CompleteGoes
  <2>10. CASE /\ InStock(o) /\ writes'[p] = Over(NumberSold(p, o, n), writes[p])
              /\ todo'[p] = Tail(todo[p]) /\ job'[p] = job[p]
    <3>1. /\ Granted(p)' = Granted(p) /\ Number(p, o, n)' = Number(p, o, n) /\ Free(o, n)'
          /\ NumberSold(p, o, n)' = NumberSold(p, o, n) /\ InStock(o)' /\ (~rows[Redemption(p)])'
      BY <1>9, <2>9, <2>10, Unpaid, Unmoved DEF Redemption
    <3>2. writes'[p] = Over(NumberSold(p, o, n), Over(Number(p, o, n), Granted(p)))'
      BY <1>9, <2>10, <3>1 DEF Over
    <3>3. job'[p] = [voucher EXCEPT !.batch = {n}]'
      BY <1>9, <2>10
    <3>4. QED
      BY <1>1, <1>9, <2>1, <2>9, <2>10, <3>1, <3>2, <3>3 DEF VoucherFits
  <2>11. QED
    BY <2>9, <2>10
<1>10. CASE todo[p] = <<"commit">>
  BY <1>10, Heads, StatementIs
<1>11. QED
  BY <1>3, <1>4, <1>5, <1>6, <1>8, <1>9, <1>10 DEF VoucherFits

\* So does the administration's change of an offer.
LEMMA UpdateGoes ==
    ASSUME Shapes, RowsFit, NEW p \in Procs, Statement(p), UpdateFits(p),
           \A o \in Offers : Offer(o) \in Locks(p) =>
              \A n \in Added(o, writes[p][Offer(o)].stack) \cap Numbers : Unlocked(p, Unit(o, n))
    PROVE  (UpdateFits(p) \/ Resting(p))' /\ Guarded(p) /\ UNCHANGED rows
<1>1. PICK o \in Offers :
        \/ /\ todo[p] = <<"findItem", "updateItem", "syncUnits", "commit", "readCatalog",
                "storeCatalog">>
           /\ job[p] = Job("Update", None, o, 0) /\ writes[p] = NoRows
        \/ /\ o \in DOMAIN job[p].read /\ job[p].read[o] \in OfferRows
           /\ job[p] = [Job("Update", None, o, 0) EXCEPT !.read = job[p].read]
           /\ \/ /\ todo[p] = <<"updateItem", "syncUnits", "commit", "readCatalog", "storeCatalog">>
                 /\ writes[p] = NoRows
                 /\ Current(o, job[p].read[o]) \/ job[p].read[o].version < rows[Offer(o)].version
              \/ /\ Current(o, job[p].read[o])
                 /\ \/ /\ todo[p] = <<"syncUnits", "commit", "readCatalog", "storeCatalog">>
                       /\ writes[p] = Changed(o, job[p].read[o])
                    \/ /\ todo[p] = <<"commit", "readCatalog", "storeCatalog">>
                       /\ writes[p] = Over(Synced(o, job[p].read[o]), Changed(o, job[p].read[o]))
  BY DEF UpdateFits
<1> DEFINE plain == Job("Update", None, o, 0)
<1>2. plain.op = "Update" /\ plain.on = o
  BY DEF Job
<1>3. CASE /\ todo[p] = <<"findItem", "updateItem", "syncUnits", "commit", "readCatalog",
                "storeCatalog">>
           /\ job[p] = plain /\ writes[p] = NoRows
  <2> DEFINE old == rows[Offer(o)]
  <2>1. /\ Doing(p, "findItem") /\ job[p].on = o /\ job[p].op = "Update"
        /\ Tail(todo[p]) = <<"updateItem", "syncUnits", "commit", "readCatalog", "storeCatalog">>
    BY <1>2, <1>3, Heads
  <2>2. FindItem(p)
    BY <2>1, StatementIs
  <2>3. PICK new \in Patched(o) : Run(p, "findItem", ~old.deleted /\ Admissible(old, new), NoRows,
                                      [job[p] EXCEPT !.read = One(o, new)])
    BY <2>1, <2>2 DEF FindItem
  <2>4. old \in OfferRows
    BY DEF RowsFit
  <2>5. new \in OfferRows
    BY <2>3, <2>4, PatchKeeps
  <2> DEFINE fine == ~old.deleted /\ Admissible(old, new)
             next == [job[p] EXCEPT !.read = One(o, new)]
  <2>6. Run(p, "findItem", fine, NoRows, next)
    BY <2>3
  <2>7. DOMAIN NoRows = {} /\ Over(NoRows, NoRows) = NoRows
    BY DEF Over, NoRows
  <2>8. One(o, new)[o] = new /\ o \in DOMAIN One(o, new)
    BY DEF One
  <2>9. next = [plain EXCEPT !.read = One(o, new)] /\ next.read = One(o, new)
    BY <1>3 DEF Job
  <2>10. fine => Current(o, new)
    BY <2>3 DEF Current
  <2> HIDE DEF fine, next
  <2>11. /\ Guarded(p) /\ UNCHANGED rows
         /\ \/ Resting(p)'
            \/ /\ fine /\ writes'[p] = Over(NoRows, writes[p]) /\ todo'[p] = Tail(todo[p])
                    /\ job'[p] = next
    BY <2>6, <2>7, RunGives
  <2>12. CASE fine /\ writes'[p] = Over(NoRows, writes[p]) /\ todo'[p] = Tail(todo[p]) /\ job'[p] = next
    <3>1. Current(o, new)'
      BY <2>10, <2>11, <2>12 DEF Current, Patched, Offer
    <3>2. /\ o \in DOMAIN job'[p].read /\ job'[p].read[o] = new /\ job'[p].read[o] \in OfferRows'
          /\ job'[p] = [plain' EXCEPT !.read = job'[p].read]
      BY <2>5, <2>8, <2>9, <2>12
    <3>3. Current(o, job[p].read[o])'
      BY <3>1, <3>2 DEF Current
    <3>4. writes'[p] = NoRows'
            /\ todo'[p] = <<"updateItem", "syncUnits", "commit", "readCatalog", "storeCatalog">>
      BY <1>3, <2>1, <2>7, <2>12
    <3>5. UpdateFits(p)'
      BY <3>2, <3>3, <3>4 DEF UpdateFits
    <3>6. QED
      BY <2>11, <3>5
  <2>13. QED
    BY <2>11, <2>12
<1> DEFINE new == job[p].read[o]
<1>4. ASSUME ~(/\ todo[p]
             = <<"findItem", "updateItem", "syncUnits", "commit", "readCatalog", "storeCatalog">>
               /\ job[p] = plain /\ writes[p] = NoRows)
      PROVE  /\ o \in DOMAIN job[p].read /\ new \in OfferRows /\ job[p].on = o
             /\ job[p] = [plain EXCEPT !.read = job[p].read]
             /\ job'[p] = job[p]
                  => /\ o \in DOMAIN job'[p].read /\ job'[p].read[o] \in OfferRows' /\ job'[p].read[o] = new
                                    /\ job'[p] = [plain' EXCEPT !.read = job'[p].read]
  <2>1. /\ o \in DOMAIN job[p].read /\ new \in OfferRows
        /\ job[p] = [plain EXCEPT !.read = job[p].read]
    BY <1>1, <1>4
  <2>2. [plain EXCEPT !.read = job[p].read].on = o
    BY DEF Job
  <2>3. job[p].on = o
    BY <2>1, <2>2
  <2>4. QED
    BY <2>1, <2>3
<1>5. CASE /\ todo[p] = <<"updateItem", "syncUnits", "commit", "readCatalog", "storeCatalog">>
           /\ writes[p] = NoRows
           /\ Current(o, new) \/ new.version < rows[Offer(o)].version
  <2>1. Doing(p, "updateItem")
          /\ Tail(todo[p]) = <<"syncUnits", "commit", "readCatalog", "storeCatalog">>
    BY <1>5, Heads
  <2>2. /\ o \in DOMAIN job[p].read /\ new \in OfferRows /\ job[p].on = o
        /\ job'[p] = job[p]
             => /\ o \in DOMAIN job'[p].read /\ job'[p].read[o] \in OfferRows' /\ job'[p].read[o] = new
                               /\ job'[p] = [plain' EXCEPT !.read = job'[p].read]
    <3>1. todo[p] # <<"findItem", "updateItem", "syncUnits", "commit", "readCatalog", "storeCatalog">>
      BY <2>1, Heads DEF Doing
    <3>2. QED
      BY <1>4, <3>1
  <2>3. UpdateItem(p) /\ Unlocked(p, Offer(o))
    BY <2>1, <2>2, StatementIs, ReadyIs
  <2>4. Row(p, Offer(o)) = rows[Offer(o)]
    BY <1>5, Domains, Seeing DEF Locks
  <2> DEFINE same == SameVersion(rows[Offer(o)], new)   wrote == Changed(o, new)
  <2>5. Run(p, "updateItem", same, wrote, job[p])
    BY <2>2, <2>3, <2>4 DEF UpdateItem, Changed
  <2>6. DOMAIN wrote = {Offer(o)} /\ Over(wrote, NoRows) = wrote
    BY Writing DEF Changed
  <2>7. same => Current(o, new)
    <3>1. same => new.version = rows[Offer(o)].version
      BY DEF SameVersion
    <3>2. new.version \in Nat
      BY <2>2 DEF OfferRows
    <3>3. QED
      BY <1>5, <3>1, <3>2
  <2> HIDE DEF same, wrote, new
  <2>8. /\ Guarded(p) /\ UNCHANGED rows
        /\ \/ Resting(p)'
           \/ /\ same /\ writes'[p] = Over(wrote, writes[p]) /\ todo'[p] = Tail(todo[p])
                   /\ job'[p] = job[p]
    BY <2>3, <2>5, <2>6, RunGives
  <2>9. CASE same /\ writes'[p] = Over(wrote, writes[p]) /\ todo'[p] = Tail(todo[p]) /\ job'[p] = job[p]
    <3>1. Current(o, job[p].read[o])'
      BY <2>2, <2>7, <2>8, <2>9 DEF Current, Patched, Offer
    <3>2. writes'[p] = Changed(o, job[p].read[o])'
      BY <1>5, <2>2, <2>6, <2>9 DEF wrote, Changed, Offer, One
    <3>3. UpdateFits(p)'
      BY <2>1, <2>2, <2>9, <3>1, <3>2 DEF UpdateFits
    <3>4. QED
      BY <2>8, <3>3
  <2>10. QED
    BY <2>8, <2>9
<1>6. CASE /\ todo[p] = <<"syncUnits", "commit", "readCatalog", "storeCatalog">> /\ Current(o, new)
           /\ writes[p] = Changed(o, new)
  <2>1. Doing(p, "syncUnits") /\ Tail(todo[p]) = <<"commit", "readCatalog", "storeCatalog">>
    BY <1>6, Heads
  <2>2. /\ o \in DOMAIN job[p].read /\ new \in OfferRows /\ job[p].on = o
        /\ job'[p] = job[p]
             => /\ o \in DOMAIN job'[p].read /\ job'[p].read[o] \in OfferRows' /\ job'[p].read[o] = new
                               /\ job'[p] = [plain' EXCEPT !.read = job'[p].read]
    <3>1. todo[p] # <<"findItem", "updateItem", "syncUnits", "commit", "readCatalog", "storeCatalog">>
      BY <2>1, Heads DEF Doing
    <3>2. QED
      BY <1>4, <3>1
  <2>3. SyncUnits(p) /\ \A n \in Surplus(p, o) : Unlocked(p, Unit(o, n))
    BY <2>1, <2>2, StatementIs, ReadyIs
  <2> DEFINE later == [new EXCEPT !.version = @ + 1]
  <2>4. writes[p] = One(Offer(o), later)
    BY <1>6 DEF Changed
  <2>5. later.stack = new.stack
    BY <2>2 DEF OfferRows
  <2> HIDE DEF later
  <2>6. DOMAIN writes[p] = {Offer(o)} /\ writes[p][Offer(o)] = later
    BY <2>4 DEF One
  <2>7. writes[p][Offer(o)].stack = new.stack
    BY <2>5, <2>6
  <2>8. Row(p, Offer(o)).stack = new.stack
    BY <2>6, <2>7, Seeing DEF Locks
  <2>9. Surplus(p, o) = Gone(o, new.stack) /\ Missing(p, o) = Added(o, new.stack)
    BY <2>8 DEF Surplus, Gone, Missing, Added, Free
  <2> DEFINE wrote == Synced(o, new)
  <2>10. Run(p, "syncUnits", TRUE, wrote, job[p])
    <3> DEFINE synced(x) == Over([r \in {Unit(x, n) : n \in Surplus(p, x)} |-> NoUnit],
                                 [r \in {Unit(x, n) : n \in Missing(p, x)} |-> Unsold])
    <3>1. Run(p, "syncUnits", TRUE, synced(job[p].on), job[p])
      BY <2>3 DEF SyncUnits
    <3>2. Run(p, "syncUnits", TRUE, synced(o), job[p])
      <4> HIDE DEF synced
      <4>1. QED
        BY <2>2, <3>1
    <3>3. synced(o) = wrote
      BY <2>9 DEF Synced
    <3> HIDE DEF synced, wrote
    <3>4. QED
      BY <3>2, <3>3
  <2>11. \A r \in DOMAIN wrote : Unlocked(p, r)
    <3>1. DOMAIN wrote = {Unit(o, n) : n \in Gone(o, new.stack)}
            \union {Unit(o, n) : n \in Added(o, new.stack)}
      BY DEF Synced, Over
    <3>2. \A n \in Added(o, new.stack) : Unlocked(p, Unit(o, n))
      <4>1. Added(o, new.stack) \subseteq Numbers
        BY <2>2, CatalogAssumption DEF OfferRows, Added, Numbers
      <4>2. Offer(o) \in Locks(p)
        BY <2>6 DEF Locks
      <4>3. QED
        BY <2>7, <4>1, <4>2
    <3>3. QED
      BY <2>3, <2>9, <3>1, <3>2
  <2> HIDE DEF wrote, new
  <2>12. /\ Guarded(p) /\ UNCHANGED rows
         /\ \/ Resting(p)'
            \/ /\ writes'[p] = Over(wrote, writes[p]) /\ todo'[p] = Tail(todo[p]) /\ job'[p] = job[p]
    BY <2>10, <2>11, RunGives
  <2>13. CASE writes'[p] = Over(wrote, writes[p]) /\ todo'[p] = Tail(todo[p]) /\ job'[p] = job[p]
    <3>1. Current(o, job[p].read[o])'
      BY <1>6, <2>2, <2>12, <2>13 DEF Current, Patched, Offer
    <3>2. Changed(o, job[p].read[o])' = Changed(o, new)
      BY <2>2, <2>13 DEF Changed, Offer, One
    <3>3. Synced(o, job[p].read[o])' = Synced(o, new)
      BY <2>2, <2>12, <2>13 DEF Synced, Gone, Added, Unit, Free, Over
    <3>4. writes'[p] = Over(Synced(o, job[p].read[o]), Changed(o, job[p].read[o]))'
      BY <1>6, <2>13, <3>2, <3>3 DEF wrote, Over
    <3>5. UpdateFits(p)'
      BY <2>1, <2>2, <2>13, <3>1, <3>4 DEF UpdateFits
    <3>6. QED
      BY <2>12, <3>5
  <2>14. QED
    BY <2>12, <2>13
<1>7. CASE todo[p] = <<"commit", "readCatalog", "storeCatalog">>
  BY <1>7, Heads, StatementIs
<1>8. QED
  BY <1>1, <1>3, <1>5, <1>6, <1>7

\* So does its deletion.
LEMMA DeleteGoes ==
    ASSUME Shapes, NEW p \in Procs, Statement(p), DeleteFits(p)
    PROVE  (DeleteFits(p) \/ Resting(p))' /\ Guarded(p) /\ UNCHANGED rows
<1>1. PICK o \in Offers :
        \/ /\ todo[p] = <<"findItem", "deleteItem", "commit", "readCatalog", "storeCatalog">>
           /\ job[p] = Job("Delete", None, o, 0) /\ writes[p] = NoRows
        \/ /\ job[p] = [Job("Delete", None, o, 0) EXCEPT !.read = job[p].read]
           /\ \/ /\ todo[p] = <<"deleteItem", "commit", "readCatalog", "storeCatalog">>
                 /\ writes[p] = NoRows
              \/ /\ todo[p] = <<"commit", "readCatalog", "storeCatalog">>
                 /\ ~rows[Offer(o)].deleted
                 /\ writes[p] = One(Offer(o),
                      [rows[Offer(o)] EXCEPT !.deleted = TRUE, !.version = @ + 1])
  BY DEF DeleteFits
<1> DEFINE plain == Job("Delete", None, o, 0)
<1>2. /\ plain.op = "Delete" /\ plain.on = o
      /\ \A read : [plain EXCEPT !.read = read].on = o
      /\ \A read : [plain EXCEPT !.read = read].read = read
  BY DEF Job
<1>3. CASE /\ todo[p] = <<"findItem", "deleteItem", "commit", "readCatalog", "storeCatalog">>
           /\ job[p] = plain /\ writes[p] = NoRows
  <2> DEFINE old == rows[Offer(o)]
  <2>1. /\ Doing(p, "findItem") /\ job[p].on = o /\ job[p].op # "Update"
        /\ Tail(todo[p]) = <<"deleteItem", "commit", "readCatalog", "storeCatalog">>
    BY <1>2, <1>3, Heads
  <2>2. FindItem(p)
    BY <2>1, StatementIs
  <2> DEFINE fine == ~old.deleted /\ Admissible(old, old)
             next == [job[p] EXCEPT !.read = One(o, old)]
  <2>3. Run(p, "findItem", fine, NoRows, next)
    BY <2>1, <2>2 DEF FindItem
  <2>4. DOMAIN NoRows = {} /\ Over(NoRows, NoRows) = NoRows
    BY DEF Over, NoRows
  <2>5. next = [plain EXCEPT !.read = next.read]
    BY <1>2, <1>3
  <2> HIDE DEF fine, next
  <2>6. /\ Guarded(p) /\ UNCHANGED rows
        /\ \/ Resting(p)'
           \/ /\ fine /\ writes'[p] = Over(NoRows, writes[p]) /\ todo'[p] = Tail(todo[p])
                   /\ job'[p] = next
    BY <2>3, <2>4, RunGives
  <2>7. CASE writes'[p] = Over(NoRows, writes[p]) /\ todo'[p] = Tail(todo[p]) /\ job'[p] = next
    <3>1. /\ job'[p] = [plain' EXCEPT !.read = job'[p].read]
          /\ todo'[p] = <<"deleteItem", "commit", "readCatalog", "storeCatalog">> /\ writes'[p] = NoRows
      BY <1>3, <2>1, <2>4, <2>5, <2>7
    <3>2. DeleteFits(p)'
      BY <3>1 DEF DeleteFits
    <3>3. QED
      BY <2>6, <3>2
  <2>8. QED
    BY <2>6, <2>7
<1>4. CASE /\ todo[p] = <<"deleteItem", "commit", "readCatalog", "storeCatalog">> /\ writes[p] = NoRows
           /\ job[p] = [plain EXCEPT !.read = job[p].read]
  <2>1. Doing(p, "deleteItem") /\ Tail(todo[p]) = <<"commit", "readCatalog", "storeCatalog">>
    BY <1>4, Heads
  <2>2. job[p].on = o
    BY <1>2, <1>4
  <2>3. DeleteItem(p) /\ Unlocked(p, Offer(o))
    BY <2>1, <2>2, StatementIs, ReadyIs
  <2>4. Row(p, Offer(o)) = rows[Offer(o)]
    BY <1>4, Domains, Seeing DEF Locks
  <2> DEFINE same == SameVersion(rows[Offer(o)], job[p].read[o])
             wrote == One(Offer(o), [rows[Offer(o)] EXCEPT !.deleted = TRUE, !.version = @ + 1])
  <2>5. Run(p, "deleteItem", same, wrote, job[p])
    BY <2>2, <2>3, <2>4 DEF DeleteItem
  <2>6. DOMAIN wrote = {Offer(o)} /\ Over(wrote, NoRows) = wrote
    BY Writing
  <2>7. same => ~rows[Offer(o)].deleted
    BY DEF SameVersion
  <2> HIDE DEF same, wrote
  <2>8. /\ Guarded(p) /\ UNCHANGED rows
        /\ \/ Resting(p)'
           \/ /\ same /\ writes'[p] = Over(wrote, writes[p]) /\ todo'[p] = Tail(todo[p])
                   /\ job'[p] = job[p]
    BY <2>3, <2>5, <2>6, RunGives
  <2>9. CASE same /\ writes'[p] = Over(wrote, writes[p]) /\ todo'[p] = Tail(todo[p]) /\ job'[p] = job[p]
    <3>1. writes'[p] = wrote /\ (~rows[Offer(o)].deleted)'
      BY <1>4, <2>6, <2>7, <2>8, <2>9 DEF Offer
    <3>2. writes'[p] = One(Offer(o), [rows[Offer(o)] EXCEPT !.deleted = TRUE, !.version = @ + 1])'
      BY <2>8, <3>1 DEF wrote, Offer, One
    <3>3. job'[p] = [plain' EXCEPT !.read = job'[p].read]
            /\ todo'[p] = <<"commit", "readCatalog", "storeCatalog">>
      BY <1>4, <2>1, <2>9
    <3>4. DeleteFits(p)'
      BY <3>1, <3>2, <3>3 DEF DeleteFits
    <3>5. QED
      BY <2>8, <3>4
  <2>10. QED
    BY <2>8, <2>9
<1>5. CASE todo[p] = <<"commit", "readCatalog", "storeCatalog">>
  BY <1>5, Heads, StatementIs
<1>6. QED
  BY <1>1, <1>3, <1>4, <1>5

\* After a commit, the catalog is read.
LEMMA ReloadingGoes ==
    ASSUME Shapes, NEW p \in Procs, Statement(p), Reloading(p)
    PROVE  (Reloading(p) \/ Resting(p))' /\ Guarded(p) /\ UNCHANGED rows
<1>1. CASE todo[p] = <<"readCatalog", "storeCatalog">>
  <2>1. Doing(p, "readCatalog") /\ Tail(todo[p]) = <<"storeCatalog">>
    BY <1>1, Heads
  <2>2. ReadCatalog(p)
    BY <2>1, StatementIs
  <2> DEFINE next == [job[p] EXCEPT !.read = Generation]
  <2>3. Run(p, "readCatalog", TRUE, NoRows, next)
    BY <2>2 DEF ReadCatalog
  <2>4. DOMAIN NoRows = {} /\ Over(NoRows, NoRows) = NoRows
    BY DEF Over, NoRows
  <2>5. next.op = job[p].op
    OBVIOUS
  <2> HIDE DEF next
  <2>6. /\ Guarded(p) /\ UNCHANGED rows
        /\ \/ Resting(p)'
           \/ /\ writes'[p] = Over(NoRows, writes[p]) /\ todo'[p] = Tail(todo[p]) /\ job'[p] = next
    BY <2>3, <2>4, RunGives
  <2>7. QED
    BY <2>1, <2>4, <2>5, <2>6 DEF Reloading
<1>2. CASE todo[p] = <<"storeCatalog">>
  BY <1>2, Heads, StatementIs
<1>3. QED
  BY <1>1, <1>2 DEF Reloading

-----------------------------------------------------------------------------
(***************************************************************************)
(* What follows for the committed rows and for Bazaar.                     *)
(***************************************************************************)
CommerceSpec == CommerceInit /\ [][CommerceNext]_commerce

\* No two transactions have locked one row.
LocksApart == \A p, q \in Procs : p # q => Locks(p) \cap Locks(q) = {}
TransactionsFit == Shapes /\ LocksApart /\ \A p \in Procs : Fits(p)

\* A number is sold, for sale, or not there.
UnitsFit ==
    \A o \in Offers, n \in Numbers :
        IF rows[Unit(o, n)].owner = None THEN rows[Unit(o, n)] \in {NoUnit, Unsold}
        ELSE rows[Unit(o, n)].exists

\* What the committed rows keep, which is what Bazaar keeps.
CommittedFit == RowsFit /\ UnitsFit /\ ListedIsReserved /\ UnitsCounted

CommerceInv == CommittedFit /\ TransactionsFit /\ lapsed \subseteq Listings

-----------------------------------------------------------------------------
(***************************************************************************)
(* A request, a statement, the end of a reload.                            *)
(***************************************************************************)
MarketRow(r) == r[1] \in {"balance", "tokens", "item", "listing"}

\* Marketplace transactions lock rows of the marketplace's tables.
LEMMA MarketLocks ==
    ASSUME NEW p, MarketFits(p)
    PROVE  \A r \in Locks(p) : MarketRow(r)
<1>1. \A a : MarketRow(Balance(a)) /\ MarketRow(Tokens(a)) /\ MarketRow(Item(a))
        /\ MarketRow(Listing(a))
  BY Keys DEF MarketRow
<1>2. \A f, g : (\A r \in DOMAIN f : MarketRow(r)) /\ (\A r \in DOMAIN g : MarketRow(r))
                   => \A r \in DOMAIN Over(f, g) : MarketRow(r)
  BY DEF Over
<1>3. \A r, value : MarketRow(r) => \A x \in DOMAIN One(r, value) : MarketRow(x)
  BY DEF One
<1>4. \A r \in DOMAIN NoRows : MarketRow(r)
  BY Domains
<1>5. \A r \in DOMAIN Paid(p) : MarketRow(r)
  BY <1>1, <1>3, <1>4 DEF Paid
<1>6. CASE BuyTokensFits(p)
  BY <1>1, <1>2, <1>3, <1>4, <1>5, <1>6 DEF BuyTokensFits, Locks
<1>7. CASE ListFits(p)
  <2>1. \A r \in DOMAIN Spent(p) : MarketRow(r)
    BY <1>1, <1>3 DEF Spent
  <2>2. \A i : \A r \in DOMAIN Kept(p, i) : MarketRow(r)
    BY <1>1, <1>2, <1>3, <2>1 DEF Kept
  <2>3. \A i, l, price : \A r \in DOMAIN Opened(p, i, l, price) : MarketRow(r)
    BY <1>1, <1>2, <1>3, <2>2 DEF Opened
  <2>4. QED
    BY <1>4, <1>7, <2>1, <2>2, <2>3 DEF ListFits, Locks
<1>8. CASE BuyFits(p)
  <2>1. \A l : \A r \in DOMAIN Charged(p, l) : MarketRow(r)
    BY <1>1, <1>2, <1>3, <1>5 DEF Charged
  <2>2. \A l : \A r \in DOMAIN Moved(p, l) : MarketRow(r)
    BY <1>1, <1>2, <1>3, <2>1 DEF Moved
  <2>3. \A l, value : \A r \in DOMAIN Over(One(Listing(l), value), Moved(p, l)) : MarketRow(r)
    BY <1>1, <1>2, <1>3, <2>2
  <2>4. QED
    BY <1>1, <1>3, <1>4, <1>8, <2>1, <2>2, <2>3 DEF BuyFits, Locks
<1>9. CASE EndFits(p)
  <2>1. \A l : \A r \in DOMAIN Closed(l) \union DOMAIN Freed(l) : MarketRow(r)
    BY <1>1, <1>2, <1>3 DEF Closed, Freed
  <2>2. QED
    BY <1>4, <1>9, <2>1 DEF EndFits, Locks
<1>10. CASE RedeemFits(p)
  <2>1. \A sold : \A r \in DOMAIN PaidOut(sold) : MarketRow(r)
    BY <1>1 DEF PaidOut
  <2>2. QED
    BY <1>2, <1>4, <1>5, <1>10, <2>1 DEF RedeemFits, Locks
<1>11. CASE SettleFits(p)
  BY <1>1, <1>3, <1>4, <1>11 DEF SettleFits, Locks
<1>12. CASE SetFits(p)
  BY <1>1, <1>3, <1>4, <1>12 DEF SetFits, Locks
<1>13. QED
  BY <1>6, <1>7, <1>8, <1>9, <1>10, <1>11, <1>12 DEF MarketFits

\* At rest, or reading the catalog again, none.
LEMMA NothingLocked ==
    ASSUME NEW p, Resting(p) \/ Reloading(p)
    PROVE  Locks(p) = {}
  BY Domains DEF Resting, Reloading, Locks

\* Who has locked a number has locked its offer, or the number is there.
LEMMA NumbersLocked ==
    ASSUME NEW p, Fits(p), NEW o \in Offers, NEW n \in Numbers, Unit(o, n) \in Locks(p)
    PROVE  rows[Unit(o, n)].exists \/ Offer(o) \in Locks(p)
<1>1. /\ ~MarketRow(Unit(o, n))
      /\ \A a : Unit(o, n) # Balance(a) /\ Unit(o, n) # Redemption(a)
      /\ \A x : Unit(o, n) # Offer(x)
      /\ \A x, m : Unit(o, n) = Unit(x, m) => x = o /\ m = n
  BY Keys DEF MarketRow
<1>2. CatalogFits(p)
  BY <1>1, MarketLocks, NothingLocked DEF Fits
<1>3. Unit(o, n) \notin DOMAIN Paid(p)
  BY <1>1, PaidRows
<1>4. Unit(o, n) \notin DOMAIN NoRows /\ Unit(o, n) \notin DOMAIN Over(Paid(p), NoRows)
  BY <1>3, Domains
<1>5. ASSUME NEW x, NEW m, Free(x, m)
      PROVE  /\ Unit(o, n) \in DOMAIN Number(p, x, m) => rows[Unit(o, n)].exists
             /\ Unit(o, n) \in DOMAIN NumberSold(p, x, m) => rows[Unit(o, n)].exists
  <2>1. DOMAIN Number(p, x, m) = {Unit(x, m)} /\ DOMAIN NumberSold(p, x, m) = {Unit(x, m), Offer(x)}
    BY DEF Number, NumberSold, Over, One
  <2>2. QED
    BY <1>1, <1>5, <2>1 DEF Free
<1> DEFINE there == rows[Unit(o, n)].exists
           here(f) == Unit(o, n) \in DOMAIN f
<1>6. \A f, g : here(Over(f, g)) <=> here(f) \/ here(g)
  BY DEF Over
<1>7. here(writes[p])
  BY DEF Locks
<1>8. CASE PurchaseFits(p)
  <2>1. CASE \E x \in Offers : \/ writes[p] = NoRows \/ writes[p] = Over(Paid(p), NoRows)
    BY <1>4, <1>7, <2>1
  <2>2. ASSUME NEW x \in Offers, NEW m \in Numbers, Free(x, m),
               \/ writes[p] = Number(p, x, m) \/ writes[p] = Over(Paid(p), Number(p, x, m))
               \/ writes[p] = Over(NumberSold(p, x, m), Over(Paid(p), Number(p, x, m)))
        PROVE  there
    <3>1. here(Number(p, x, m)) \/ here(NumberSold(p, x, m))
      <4> HIDE DEF here
      <4>1. QED
        BY <1>3, <1>6, <1>7, <2>2 DEF here
    <3>2. QED
      BY <1>5, <2>2, <3>1
  <2>3. QED
    BY <1>8, <2>1, <2>2 DEF PurchaseFits, NumberFits
<1>9. CASE VoucherFits(p)
  <2>1. ~here(One(Redemption(p), TRUE)) /\ ~here(Granted(p))
    BY <1>1, <1>3 DEF Granted, Over, One
  <2>2. ~(writes[p] = NoRows \/ writes[p] = One(Redemption(p), TRUE) \/ writes[p] = Granted(p))
    BY <1>4, <1>7, <2>1
  <2>3. ASSUME NEW m \in Numbers, Free(VoucherOffer, m),
               \/ writes[p] = Over(Number(p, VoucherOffer, m), Granted(p))
               \/ writes[p] = Over(NumberSold(p, VoucherOffer, m),
                                   Over(Number(p, VoucherOffer, m), Granted(p)))
        PROVE  there
    <3>1. here(Number(p, VoucherOffer, m)) \/ here(NumberSold(p, VoucherOffer, m))
      <4> HIDE DEF here
      <4>1. QED
        BY <1>6, <1>7, <2>1, <2>3 DEF here
    <3>2. QED
      BY <1>5, <2>3, <3>1
  <2>4. QED
    BY <1>9, <2>2, <2>3 DEF VoucherFits
<1>10. CASE UpdateFits(p)
  <2>1. \A x, new : Offer(x) \in DOMAIN Changed(x, new) /\ ~here(Changed(x, new))
    BY <1>1 DEF Changed, One
  <2>2. \A x, new : here(Synced(x, new)) => x = o
    BY <1>1 DEF Synced, Over
  <2>3. PICK x, new : x \in Offers /\ writes[p] \in {NoRows, Changed(x, new),
                                                 Over(Synced(x, new), Changed(x, new))}
    BY <1>10 DEF UpdateFits
  <2>4. writes[p] = Over(Synced(x, new), Changed(x, new))
    BY <1>4, <1>7, <2>1, <2>3
  <2>5. here(Synced(x, new))
    <3> HIDE DEF here
    <3>1. QED
      BY <1>6, <1>7, <2>1, <2>4 DEF here
  <2>6. x = o /\ Offer(x) \in DOMAIN writes[p]
    BY <2>1, <2>2, <2>4, <2>5, WritesAre
  <2>7. QED
    BY <2>6 DEF Locks
<1>11. CASE DeleteFits(p)
  <2>1. \A x, value : ~here(One(Offer(x), value))
    BY <1>1 DEF One
  <2>2. QED
    BY <1>4, <1>7, <1>11, <2>1 DEF DeleteFits
<1>12. QED
  BY <1>2, <1>8, <1>9, <1>10, <1>11 DEF CatalogFits

\* What a step of p leaves to the others.
Others(p) ==
    \A q \in Procs \ {p} : todo'[q] = todo[q] /\ job'[q] = job[q] /\ writes'[q] = writes[q]

\* A statement concerns its own transaction.
LEMMA StatementLeaves ==
    ASSUME Shapes, NEW p \in Procs, Statement(p)
    PROVE  Shapes' /\ Others(p)
<1>1. \A s, ok, new, j : Run(p, s, ok, new, j) => Shapes' /\ Others(p)
  BY RunIs DEF Others
<1>2. Rollback(p) => Shapes' /\ Others(p)
  BY RollbackIs DEF Others
<1>3. Grant(p) \/ Set(p) \/ AddTokens(p) \/ SpendToken(p) \/ Reserve(p) => Shapes' /\ Others(p)
  BY <1>1 DEF Grant, Set, AddTokens, SpendToken, Reserve
<1>4. Insert(p) \/ FindListing(p) \/ Transfer(p) \/ MarkSold(p) \/ Close(p) => Shapes' /\ Others(p)
  BY <1>1 DEF Insert, FindListing, Transfer, MarkSold, Close
<1>5. ExpireListings(p) \/ RedeemSold(p) \/ TransferInventory(p) => Shapes' /\ Others(p)
  BY <1>1 DEF ExpireListings, RedeemSold, TransferInventory
<1>6. Release(p) => Shapes' /\ Others(p)
  BY <1>1 DEF Release
<1>7. ReserveUnit(p) \/ CompleteUnit(p) \/ ReadCatalog(p) \/ CountRedemptions(p) => Shapes' /\ Others(p)
  BY <1>1 DEF ReserveUnit, CompleteUnit, ReadCatalog, CountRedemptions
<1>8. InsertRedemption(p) \/ FindItem(p) \/ UpdateItem(p) \/ DeleteItem(p) \/ SyncUnits(p)
        => Shapes' /\ Others(p)
  BY <1>1 DEF InsertRedemption, FindItem, UpdateItem, DeleteItem, SyncUnits
<1>9. CheckOffer(p) => Shapes' /\ Others(p)
  BY <1>2 DEF CheckOffer, Shapes, Others
<1>10. QED
  BY <1>3, <1>4, <1>5, <1>6, <1>7, <1>8, <1>9 DEF Statement, MarketStatement, CatalogStatement

\* A statement brings its operation to its next stage, or to its end, and locks
\* rows that nobody else had locked.
LEMMA StatementGoes ==
    ASSUME RowsFit, TransactionsFit, NEW p \in Procs, Statement(p)
    PROVE  Fits(p)' /\ Guarded(p) /\ UNCHANGED rows /\ Shapes' /\ Others(p)
<1>1. Shapes /\ Fits(p) /\ ~Resting(p)
  BY StatementIs DEF TransactionsFit, Resting, Idle
<1>2. Shapes' /\ Others(p)
  BY <1>1, StatementLeaves
<1>3. CASE Reloading(p)
  BY <1>1, <1>2, <1>3, ReloadingGoes DEF Fits
<1>4. CASE BuyTokensFits(p)
  BY <1>1, <1>2, <1>4, BuyTokensGoes DEF Fits, MarketFits
<1>5. CASE ListFits(p)
  BY <1>1, <1>2, <1>5, ListGoes DEF Fits, MarketFits
<1>6. CASE BuyFits(p)
  BY <1>1, <1>2, <1>6, BuyGoes DEF Fits, MarketFits
<1>7. CASE EndFits(p)
  BY <1>1, <1>2, <1>7, EndGoes DEF Fits, MarketFits
<1>8. CASE RedeemFits(p)
  BY <1>1, <1>2, <1>8, RedeemGoes DEF Fits, MarketFits
<1>9. CASE SettleFits(p)
  BY <1>1, <1>2, <1>9, SettleGoes DEF Fits, MarketFits
<1>10. CASE SetFits(p)
  BY <1>1, <1>2, <1>10, SetGoes DEF Fits, MarketFits
<1>11. CASE PurchaseFits(p)
  BY <1>1, <1>2, <1>11, PurchaseGoes DEF Fits, CatalogFits
<1>12. CASE VoucherFits(p)
  BY <1>1, <1>2, <1>12, VoucherGoes DEF Fits, CatalogFits
<1>13. CASE UpdateFits(p)
  <2>1. ASSUME NEW o \in Offers, Offer(o) \in Locks(p),
               NEW n \in Added(o, writes[p][Offer(o)].stack) \cap Numbers
        PROVE  Unlocked(p, Unit(o, n))
    <3> SUFFICES ASSUME NEW q \in Procs \ {p}, Unit(o, n) \in Locks(q)
                 PROVE  FALSE
      BY DEF Unlocked
    <3>1. ~rows[Unit(o, n)].exists
      BY DEF Added
    <3>2. Fits(q) /\ Locks(p) \cap Locks(q) = {}
      BY DEF TransactionsFit, LocksApart
    <3>3. Offer(o) \in Locks(q)
      BY <3>1, <3>2, NumbersLocked
    <3>4. QED
      BY <2>1, <3>2, <3>3
  <2>2. QED
    BY <1>1, <1>2, <1>13, <2>1, UpdateGoes DEF Fits, CatalogFits
<1>14. CASE DeleteFits(p)
  BY <1>1, <1>2, <1>14, DeleteGoes DEF Fits, CatalogFits
<1>15. QED
  BY <1>1, <1>3, <1>4, <1>5, <1>6, <1>7, <1>8, <1>9, <1>10, <1>11, <1>12, <1>13, <1>14
     DEF Fits, MarketFits, CatalogFits

\* The plans of the operations.
LEMMA PlanIs ==
    ASSUME NEW j
    PROVE  /\ j.op = "BuyTokens" => Plan(j) = <<"grant", "addTokens", "commit">>
           /\ j.op = "List" => Plan(j) = <<"spendToken", "reserve", "insert", "commit">>
           /\ j.op = "Buy" => Plan(j) = <<"findListing", "grant", "transfer", "markSold", "commit">>
           /\ j.op = "Close" => Plan(j) = <<"close", "release", "commit">>
           /\ j.op = "Expire" => Plan(j) = <<"expire", "release", "commit">>
           /\ j.op = "Redeem" => Plan(j) = <<"redeem", "grant", "commit">>
           /\ j.op = "Settle" => Plan(j) = <<"transferInventory", "commit">>
           /\ j.op = "Set" => Plan(j) = <<"set", "commit">>
           /\ j.op = "Purchase" =>
                \/ Plan(j) = <<"reserveUnit", "grant", "completeUnit", "commit", "readCatalog",
                     "storeCatalog">>
                \/ Plan(j) = <<"grant", "commit">>
           /\ j.op = "Voucher" =>
                \E last \in {"commit", "checkOffer"} : Plan(j)
                  = <<"count", "insertRedemption", "grant", last>>
           /\ j.op = "Update" =>
                Plan(j) = <<"findItem", "updateItem", "syncUnits", "commit", "readCatalog",
                  "storeCatalog">>
           /\ j.op = "Delete"
                => Plan(j) = <<"findItem", "deleteItem", "commit", "readCatalog", "storeCatalog">>
<1>1. j.op \in DOMAIN MarketPlan => Plan(j) = MarketPlan[j.op]
  BY DEF Plan
<1>2. DOMAIN MarketPlan = {"BuyTokens", "List", "Buy", "Close", "Expire", "Redeem", "Settle", "Set"}
  BY DEF MarketPlan
<1>3. /\ MarketPlan["BuyTokens"] = <<"grant", "addTokens", "commit">>
      /\ MarketPlan["List"] = <<"spendToken", "reserve", "insert", "commit">>
      /\ MarketPlan["Buy"] = <<"findListing", "grant", "transfer", "markSold", "commit">>
      /\ MarketPlan["Close"] = <<"close", "release", "commit">>
      /\ MarketPlan["Expire"] = <<"expire", "release", "commit">>
      /\ MarketPlan["Redeem"] = <<"redeem", "grant", "commit">>
      /\ MarketPlan["Settle"] = <<"transferInventory", "commit">>
      /\ MarketPlan["Set"] = <<"set", "commit">>
  BY DEF MarketPlan
<1>4. j.op \notin DOMAIN MarketPlan => Plan(j) = CatalogPlan(j)
  BY DEF Plan
<1>5. j.op = "Purchase" => CatalogPlan(j) = PurchasePlan(cache[j.on])
  BY DEF CatalogPlan
<1>6. j.op = "Voucher" => CatalogPlan(j) = VoucherPlan
  BY DEF CatalogPlan
<1>7. \E last \in {"commit", "checkOffer"} : VoucherPlan
        = <<"count", "insertRedemption", "grant", last>>
  <2>1. /\ <<"count", "insertRedemption", "grant">> \o <<"commit">>
             = <<"count", "insertRedemption", "grant", "commit">>
        /\ <<"count", "insertRedemption", "grant">> \o <<"checkOffer">> =
              <<"count", "insertRedemption", "grant", "checkOffer">>
    BY GiftPlan
  <2>2. CASE VoucherOffer = None
    <3>1. VoucherPlan = <<"count", "insertRedemption", "grant">> \o <<"commit">>
      BY <2>2 DEF VoucherPlan
    <3>2. QED
      BY <2>1, <3>1
  <2>3. CASE VoucherOffer # None
    <3>1. VoucherPlan = <<"count", "insertRedemption", "grant">> \o <<"checkOffer">>
      BY <2>3 DEF VoucherPlan
    <3>2. QED
      BY <2>1, <3>1
  <2>4. QED
    BY <2>2, <2>3
<1>8. j.op = "Update" =>
        CatalogPlan(j)
          = <<"findItem", "updateItem", "syncUnits", "commit", "readCatalog", "storeCatalog">>
  BY Plans DEF CatalogPlan
<1>9. j.op = "Delete"
        => CatalogPlan(j) = <<"findItem", "deleteItem", "commit", "readCatalog", "storeCatalog">>
  BY Plans DEF CatalogPlan
<1>10. \A offer : \/ PurchasePlan(offer) =
                      <<"reserveUnit", "grant", "completeUnit", "commit", "readCatalog",
                        "storeCatalog">>
                 \/ PurchasePlan(offer) = <<"grant", "commit">>
  BY Plans DEF PurchasePlan
<1>11. QED
  BY <1>1, <1>2, <1>3, <1>4, <1>5, <1>6, <1>7, <1>8, <1>9, <1>10

\* A request begins an operation.
LEMMA AskFits ==
    ASSUME TransactionsFit, NEW p \in Procs, Ask(p)
    PROVE  Fits(p)' /\ UNCHANGED rows /\ UNCHANGED writes /\ Shapes' /\ Others(p)
<1>1. Shapes /\ Idle(p) /\ Fits(p)
  BY DEF TransactionsFit, Ask
<1>2. writes[p] = NoRows
  <2>1. todo[p] = <<>>
    BY <1>1 DEF Idle
  <2>2. ~Reloading(p)
    BY <2>1 DEF Reloading
  <2>3. ~MarketFits(p)
    BY <2>1 DEF MarketFits, BuyTokensFits, ListFits, BuyFits, EndFits, RedeemFits,
       SettleFits, SetFits
  <2>4. ~CatalogFits(p)
    BY <2>1 DEF CatalogFits, PurchaseFits, NumberFits, VoucherFits, UpdateFits, DeleteFits
  <2>5. QED
    BY <1>1, <2>2, <2>3, <2>4 DEF Fits, Resting
<1>3. PICK j \in MarketJobs(p) \union CatalogJobs(p) : Begin(p, Plan(j), j)
  BY DEF Ask
<1>4. /\ todo'[p] = Plan(j) /\ job'[p] = j /\ writes'[p] = NoRows
      /\ UNCHANGED rows /\ UNCHANGED writes /\ Shapes' /\ Others(p)
  BY <1>1, <1>2, <1>3 DEF Begin, Shapes, Others
<1>5. p = Timer \/ p = Admin \/ p \in Players
  BY DEF Procs
<1>6. \A op, a, on, sum : Job(op, a, on, sum).op = op /\ Job(op, a, on, sum).on = on
  BY DEF Job
<1>7. CASE p = Timer
  <2>1. j = Job("Expire", None, None, 0)
    BY <1>7, ProcsAssumption DEF MarketJobs, CatalogJobs, Procs
  <2>2. Plan(j) = <<"expire", "release", "commit">>
    BY <1>6, <2>1, PlanIs
  <2>3. EndFits(p)'
    BY <1>4, <2>1, <2>2 DEF EndFits
  <2>4. QED
    BY <1>4, <2>3 DEF Fits, MarketFits
<1>8. CASE p = Admin
  <2>1. j \in {Job("Close", None, l, 0) : l \in Listings}
          \union {Job("Set", a, None, 0) : a \in Players}
             \union {Job(op, None, o, 0) : op \in {"Update", "Delete"}, o \in Offers}
    BY <1>8, ProcsAssumption DEF MarketJobs, CatalogJobs
  <2>2. ASSUME NEW l \in Listings, j = Job("Close", None, l, 0)
        PROVE  Fits(p)'
    <3>1. Plan(j) = <<"close", "release", "commit">>
      BY <1>6, <2>2, PlanIs
    <3>2. EndFits(p)'
      BY <1>4, <2>2, <3>1 DEF EndFits
    <3>3. QED
      BY <3>2 DEF Fits, MarketFits
  <2>3. ASSUME NEW a \in Players, j = Job("Set", a, None, 0)
        PROVE  Fits(p)'
    <3>1. Plan(j) = <<"set", "commit">>
      BY <1>6, <2>3, PlanIs
    <3>2. SetFits(p)'
      BY <1>4, <2>3, <3>1 DEF SetFits
    <3>3. QED
      BY <3>2 DEF Fits, MarketFits
  <2>4. ASSUME NEW o \in Offers, j = Job("Update", None, o, 0)
        PROVE  Fits(p)'
    <3>1. Plan(j) = <<"findItem", "updateItem", "syncUnits", "commit", "readCatalog", "storeCatalog">>
      BY <1>6, <2>4, PlanIs
    <3>2. UpdateFits(p)'
      BY <1>4, <2>4, <3>1 DEF UpdateFits
    <3>3. QED
      BY <3>2 DEF Fits, CatalogFits
  <2>5. ASSUME NEW o \in Offers, j = Job("Delete", None, o, 0)
        PROVE  Fits(p)'
    <3>1. Plan(j) = <<"findItem", "deleteItem", "commit", "readCatalog", "storeCatalog">>
      BY <1>6, <2>5, PlanIs
    <3>2. DeleteFits(p)'
      BY <1>4, <2>5, <3>1 DEF DeleteFits
    <3>3. QED
      BY <3>2 DEF Fits, CatalogFits
  <2>6. QED
    BY <1>4, <2>1, <2>2, <2>3, <2>4, <2>5
<1>9. CASE p \in Players
  <2>1. j \in {Job("BuyTokens", p, None, -TokenCost), Job("Redeem", p, None, 0)}
             \union {Job("List", p, i, price) : i \in Items, price \in Prices}
             \union {Job(op, p, l, 0) : op \in {"Buy", "Close"}, l \in Listings}
             \union {Job("Settle", a, i, 0) : a \in Players \ {p}, i \in Items}
             \union {Job("Purchase", p, o, -Cost) : o \in Purchasable}
             \union {Job("Voucher", p, VoucherOffer, VoucherCredits)}
    BY <1>9, ProcsAssumption DEF MarketJobs, CatalogJobs
  <2>2. CASE j = Job("BuyTokens", p, None, -TokenCost)
    <3>1. Plan(j) = <<"grant", "addTokens", "commit">>
      BY <1>6, <2>2, PlanIs
    <3>2. BuyTokensFits(p)'
      BY <1>4, <1>9, <2>2, <3>1 DEF BuyTokensFits
    <3>3. QED
      BY <1>4, <3>2 DEF Fits, MarketFits
  <2>3. CASE j = Job("Redeem", p, None, 0)
    <3>1. Plan(j) = <<"redeem", "grant", "commit">>
      BY <1>6, <2>3, PlanIs
    <3>2. RedeemFits(p)'
      BY <1>4, <1>9, <2>3, <3>1 DEF RedeemFits
    <3>3. QED
      BY <1>4, <3>2 DEF Fits, MarketFits
  <2>4. ASSUME NEW i \in Items, NEW price \in Prices, j = Job("List", p, i, price)
        PROVE  Fits(p)'
    <3>1. Plan(j) = <<"spendToken", "reserve", "insert", "commit">>
      BY <1>6, <2>4, PlanIs
    <3>2. ListFits(p)'
      BY <1>4, <1>9, <2>4, <3>1 DEF ListFits
    <3>3. QED
      BY <3>2 DEF Fits, MarketFits
  <2>5. ASSUME NEW l \in Listings, j = Job("Buy", p, l, 0)
        PROVE  Fits(p)'
    <3>1. Plan(j) = <<"findListing", "grant", "transfer", "markSold", "commit">>
      BY <1>6, <2>5, PlanIs
    <3>2. BuyFits(p)'
      BY <1>4, <1>9, <2>5, <3>1 DEF BuyFits
    <3>3. QED
      BY <3>2 DEF Fits, MarketFits
  <2>6. ASSUME NEW l \in Listings, j = Job("Close", p, l, 0)
        PROVE  Fits(p)'
    <3>1. Plan(j) = <<"close", "release", "commit">>
      BY <1>6, <2>6, PlanIs
    <3>2. EndFits(p)'
      BY <1>4, <1>9, <2>6, <3>1 DEF EndFits
    <3>3. QED
      BY <3>2 DEF Fits, MarketFits
  <2>7. ASSUME NEW a \in Players, NEW i \in Items, j = Job("Settle", a, i, 0)
        PROVE  Fits(p)'
    <3>1. Plan(j) = <<"transferInventory", "commit">>
      BY <1>6, <2>7, PlanIs
    <3>2. SettleFits(p)'
      BY <1>4, <1>9, <2>7, <3>1 DEF SettleFits
    <3>3. QED
      BY <3>2 DEF Fits, MarketFits
  <2>8. ASSUME NEW o \in Offers, j = Job("Purchase", p, o, -Cost)
        PROVE  Fits(p)'
    <3>1. \/ Plan(j) = <<"reserveUnit", "grant", "completeUnit", "commit", "readCatalog",
               "storeCatalog">>
          \/ Plan(j) = <<"grant", "commit">>
      BY <1>6, <2>8, PlanIs
    <3>2. PurchaseFits(p)'
      BY <1>4, <1>9, <2>8, <3>1 DEF PurchaseFits, NumberFits
    <3>3. QED
      BY <3>2 DEF Fits, CatalogFits
  <2>9. CASE j = Job("Voucher", p, VoucherOffer, VoucherCredits)
    <3>1. \E last \in {"commit", "checkOffer"} : Plan(j)
            = <<"count", "insertRedemption", "grant", last>>
      BY <1>6, <2>9, PlanIs
    <3>2. VoucherFits(p)'
      BY <1>4, <1>9, <2>9, <3>1 DEF VoucherFits
    <3>3. QED
      BY <1>4, <3>2 DEF Fits, CatalogFits
  <2>10. Purchasable \subseteq Offers
    BY DEF Purchasable
  <2>11. QED
    BY <1>4, <2>1, <2>2, <2>3, <2>4, <2>5, <2>6, <2>7, <2>8, <2>9, <2>10
<1>10. QED
  BY <1>5, <1>7, <1>8, <1>9

-----------------------------------------------------------------------------
(***************************************************************************)
(* The rows that are locked.                                               *)
(***************************************************************************)
\* Rows that are locked exist.
LEMMA LocksExist ==
    ASSUME RowsFit, NEW p, Fits(p)
    PROVE  Locks(p) \subseteq DOMAIN rows
<1> DEFINE known(f) == DOMAIN f \subseteq DOMAIN rows
<1>1. \A f, g : known(f) /\ known(g) => known(Over(f, g))
  BY DEF Over
<1>2. \A r, value : r \in DOMAIN rows => known(One(r, value))
  BY DEF One
<1>3. known(NoRows)
  BY DEF NoRows
<1>4. job[p].account \in Players => known(Paid(p))
  BY <1>2, <1>3, RowIds DEF Paid
<1>5. SUFFICES known(writes[p])
  BY DEF Locks
<1>6. \A l \in Listings : Sale(l).state # "none" => Sale(l).item \in Items
  BY DEF RowsFit, Sale
<1>7. \A op, a, on, sum : Job(op, a, on, sum).account = a
  BY DEF Job
<1>8. CASE Resting(p) \/ Reloading(p)
  BY <1>3, <1>8 DEF Resting, Reloading
<1>9. CASE BuyTokensFits(p)
  <2>1. p \in Players /\ job[p].account \in Players
    BY <1>7, <1>9 DEF BuyTokensFits
  <2>2. known(Over(Paid(p), NoRows)) /\ Tokens(p) \in DOMAIN rows
    <3> HIDE DEF known
    <3>1. QED
      BY <1>1, <1>3, <1>4, <2>1, RowIds
  <2> HIDE DEF known
  <2>3. QED
    BY <1>1, <1>2, <1>3, <1>9, <2>2 DEF BuyTokensFits
<1>10. CASE ListFits(p)
  <2> HIDE DEF known
  <2>1. p \in Players
    BY <1>10 DEF ListFits
  <2>2. known(Spent(p)) /\ \A i \in Items : known(Kept(p, i))
    BY <1>1, <1>2, <2>1, RowIds DEF Spent, Kept
  <2>3. \A i \in Items, l \in Listings, price \in Prices : known(Opened(p, i, l, price))
    BY <1>1, <1>2, <2>2, RowIds DEF Opened
  <2>4. QED
    BY <1>3, <1>10, <2>2, <2>3 DEF ListFits
<1>11. CASE BuyFits(p)
  <2> HIDE DEF known
  <2>1. PICK l \in Listings :
        /\ p \in Players
        /\ \/ writes[p] = NoRows
           \/ /\ job[p] = Job("Buy", p, l, -BuyerPrice(Sale(l).price)) /\ Sale(l).state = "open"
              /\ \/ writes[p] = One(Listing(l), Sale(l))
                 \/ writes[p] = Charged(p, l)
                 \/ writes[p] = Moved(p, l)
                 \/ writes[p] = Over(One(Listing(l), [Sale(l) EXCEPT !.state = "sold"]), Moved(p, l))
    BY <1>11 DEF BuyFits
  <2>2. CASE writes[p] = NoRows
    BY <1>3, <2>2
  <2>3. CASE job[p] = Job("Buy", p, l, -BuyerPrice(Sale(l).price)) /\ Sale(l).state = "open"
    <3>1. known(Paid(p)) /\ Listing(l) \in DOMAIN rows /\ Item(Sale(l).item) \in DOMAIN rows
      BY <1>4, <1>6, <1>7, <2>1, <2>3, RowIds
    <3>2. known(One(Listing(l), Sale(l)))
      BY <1>2, <3>1
    <3>3. known(Charged(p, l))
      BY <1>1, <3>1, <3>2 DEF Charged
    <3>4. known(Moved(p, l))
      BY <1>1, <1>2, <3>1, <3>3 DEF Moved
    <3>5. known(Over(One(Listing(l), [Sale(l) EXCEPT !.state = "sold"]), Moved(p, l)))
      BY <1>1, <1>2, <3>1, <3>4
    <3>6. QED
      BY <1>3, <2>1, <3>2, <3>3, <3>4, <3>5
  <2>4. QED
    BY <2>1, <2>2, <2>3
<1>12. CASE EndFits(p)
  <2> HIDE DEF known
  <2>1. ASSUME NEW l \in Listings, Sale(l).state = "open"
        PROVE  known(Closed(l)) /\ known(Freed(l))
    <3>1. Listing(l) \in DOMAIN rows /\ Item(Sale(l).item) \in DOMAIN rows
      BY <1>6, <2>1, RowIds
    <3>2. known(Closed(l))
      BY <1>2, <3>1 DEF Closed
    <3>3. QED
      BY <1>1, <1>2, <3>1, <3>2 DEF Freed
  <2>2. QED
    BY <1>3, <1>12, <2>1 DEF EndFits
<1>13. CASE RedeemFits(p)
  <2>1. \A sold \in SUBSET Proceeds(p) : known(PaidOut(sold))
    BY RowIds DEF Proceeds, PaidOut
  <2> HIDE DEF known
  <2>2. p \in Players
    BY <1>13 DEF RedeemFits
  <2>3. job[p].account = p
    <3>1. \E sum : job[p] = Job("Redeem", p, None, sum)
      BY <1>13 DEF RedeemFits
    <3>2. QED
      BY <1>7, <3>1
  <2>4. known(Paid(p))
    BY <1>4, <2>2, <2>3
  <2>5. QED
    BY <1>1, <1>3, <1>13, <2>1, <2>4 DEF RedeemFits
<1>14. CASE SettleFits(p)
  <2> HIDE DEF known
  <2>1. QED
    BY <1>2, <1>3, <1>14, RowIds DEF SettleFits
<1>15. CASE SetFits(p)
  <2> HIDE DEF known
  <2>1. QED
    BY <1>2, <1>3, <1>15, RowIds DEF SetFits
<1>16. \A o \in Offers, n \in Numbers : known(Number(p, o, n)) /\ known(NumberSold(p, o, n))
  <2> HIDE DEF known
  <2>1. \A o \in Offers, n \in Numbers : Unit(o, n) \in DOMAIN rows /\ Offer(o) \in DOMAIN rows
    BY RowIds
  <2>2. \A o \in Offers, n \in Numbers : known(Number(p, o, n))
    BY <1>2, <2>1 DEF Number
  <2>3. ASSUME NEW o \in Offers, NEW n \in Numbers PROVE known(NumberSold(p, o, n))
    BY <1>1, <1>2, <2>1 DEF NumberSold
  <2>4. QED
    BY <2>2, <2>3
<1>17. CASE PurchaseFits(p)
  <2> HIDE DEF known
  <2>1. p \in Players /\ job[p].account = p
    <3>1. p \in Players /\ \E o, n : \/ job[p] = Job("Purchase", p, o, -Cost)
                                    \/ job[p] = [Job("Purchase", p, o, -Cost) EXCEPT !.batch = {n}]
      BY <1>17 DEF PurchaseFits, NumberFits
    <3>2. QED
      BY <3>1 DEF Job
  <2>2. known(Paid(p)) /\ known(Over(Paid(p), NoRows))
    BY <1>1, <1>3, <1>4, <2>1
  <2>3. ASSUME NEW o \in Offers, NEW n \in Numbers
        PROVE  /\ known(Over(Paid(p), Number(p, o, n)))
               /\ known(Over(NumberSold(p, o, n), Over(Paid(p), Number(p, o, n))))
    BY <1>1, <1>16, <2>2
  <2>4. QED
    BY <1>3, <1>16, <1>17, <2>2, <2>3 DEF PurchaseFits, NumberFits
<1>18. CASE VoucherFits(p)
  <2> HIDE DEF known
  <2>1. p \in Players /\ job[p].account = p
    <3>1. /\ p \in Players
          /\ \/ job[p] = Job("Voucher", p, VoucherOffer, VoucherCredits)
             \/ \E n : job[p] = [Job("Voucher", p, VoucherOffer, VoucherCredits) EXCEPT !.batch = {n}]
      BY <1>18 DEF VoucherFits
    <3>2. CASE job[p] = Job("Voucher", p, VoucherOffer, VoucherCredits)
      BY <1>7, <3>1, <3>2
    <3>3. ASSUME NEW n, job[p] = [Job("Voucher", p, VoucherOffer, VoucherCredits) EXCEPT !.batch = {n}]
          PROVE  job[p].account = p
      BY <3>3 DEF Job
    <3>4. QED
      BY <3>1, <3>2, <3>3
  <2>2. known(One(Redemption(p), TRUE)) /\ known(Granted(p))
    BY <1>1, <1>2, <1>4, <2>1, RowIds DEF Granted
  <2>3. ASSUME VoucherOffer \in Offers, NEW n \in Numbers
        PROVE  /\ known(Over(Number(p, VoucherOffer, n), Granted(p)))
               /\ known(Over(NumberSold(p, VoucherOffer, n),
                    Over(Number(p, VoucherOffer, n), Granted(p))))
    BY <1>1, <1>16, <2>2, <2>3
  <2>4. QED
    BY <1>3, <1>18, <2>2, <2>3 DEF VoucherFits
<1>19. CASE UpdateFits(p)
  <2>1. PICK o \in Offers : \/ writes[p] = NoRows
                            \/ /\ job[p].read[o] \in OfferRows
                               /\ \/ writes[p] = Changed(o, job[p].read[o])
                                  \/ writes[p] = Over(Synced(o, job[p].read[o]),
                                       Changed(o, job[p].read[o]))
    BY <1>19 DEF UpdateFits
  <2>2. known(Changed(o, job[p].read[o]))
    BY <1>2, RowIds DEF Changed
  <2>3. ASSUME job[p].read[o] \in OfferRows PROVE known(Synced(o, job[p].read[o]))
    <3> DEFINE stack == job[p].read[o].stack
    <3>1. Gone(o, stack) \subseteq Numbers /\ Added(o, stack) \subseteq Numbers
      BY <2>3, CatalogAssumption DEF Gone, Added, Numbers, OfferRows
    <3>2. DOMAIN Synced(o, job[p].read[o])
            = {Unit(o, n) : n \in Gone(o, stack)} \union {Unit(o, n) : n \in Added(o, stack)}
      BY DEF Synced, Over
    <3>3. QED
      BY <3>1, <3>2, RowIds
  <2> HIDE DEF known
  <2>4. QED
    BY <1>1, <1>3, <2>1, <2>2, <2>3
<1>20. CASE DeleteFits(p)
  <2> HIDE DEF known
  <2>1. QED
    BY <1>2, <1>3, <1>20, RowIds DEF DeleteFits
<1>21. QED
  BY <1>8, <1>9, <1>10, <1>11, <1>12, <1>13, <1>14, <1>15, <1>17, <1>18, <1>19, <1>20
     DEF Fits, MarketFits, CatalogFits

-----------------------------------------------------------------------------
(***************************************************************************)
(* Commits.                                                                *)
(***************************************************************************)
\* Writes of different rows can be written in any order, and again.
LEMMA Orders ==
    /\ \A f, g : DOMAIN f \cap DOMAIN g = {} => Over(f, g) = Over(g, f)
    /\ \A f, g, h, old :
         /\ DOMAIN f \cap DOMAIN g = {} /\ DOMAIN f \cap DOMAIN h = {} /\ DOMAIN g \cap DOMAIN h = {}
         /\ DOMAIN old \subseteq DOMAIN h
         => /\ Over(h, Over(g, Over(f, old))) = Over(f, Over(g, h))
            /\ Over(h, Over(old, Over(g, f))) = Over(f, Over(g, h))
    /\ \A f, h, old :
         DOMAIN f \cap DOMAIN h = {} /\ DOMAIN old \subseteq DOMAIN h
         => Over(h, Over(f, old)) = Over(f, h)
  BY DEF Over

\* Bazaar's rows are the tables' rows, and its writes theirs.
LEMMA Alike ==
    /\ \A a : Atomic!Balance(a) = rows[Balance(a)] /\ Atomic!Tokens(a) = rows[Tokens(a)]
    /\ \A i : Atomic!Item(i) = rows[Item(i)]
    /\ \A l : Atomic!Listing(l) = rows[Listing(l)]
    /\ \A o : Atomic!Offer(o) = rows[Offer(o)]
    /\ \A o, n : Atomic!Unit(o, n) = rows[Unit(o, n)]
    /\ \A f, g : Atomic!And(f, g) = Over(f, g)
    /\ \A a, value : Atomic!To("balance", a, value) = One(Balance(a), value)
    /\ \A a, value : Atomic!To("tokens", a, value) = One(Tokens(a), value)
    /\ \A i, value : Atomic!To("item", i, value) = One(Item(i), value)
    /\ \A l, value : Atomic!To("listing", l, value) = One(Listing(l), value)
    /\ \A o, value : Atomic!To("offer", o, value) = One(Offer(o), value)
    /\ \A o, n, value : Atomic!To("unit", <<o, n>>, value) = One(Unit(o, n), value)
    /\ \A a, value : Atomic!To("redemption", a, value) = One(Redemption(a), value)
  BY DEF Atomic!Balance, Atomic!Tokens, Atomic!Item, Atomic!Listing, Atomic!Offer, Atomic!Unit,
     Atomic!And, Atomic!To, Over, One, Balance, Tokens, Item, Listing, Offer, Unit, Redemption

\* It charges as the repositories do.
LEMMA PaysAlike ==
    ASSUME NEW p
    PROVE  /\ Atomic!Pay(job[p].account, job[p].sum) = Paid(p)
           /\ Atomic!Affords(job[p].account, job[p].sum) <=> CanPay(p)
<1>1. Atomic!Free(job[p].account, job[p].sum) <=> Waived(job[p])
  BY DEF Atomic!Free, Waived
<1>2. Atomic!Balance(job[p].account) = rows[Balance(job[p].account)]
  BY Alike
<1>3. Atomic!Affords(job[p].account, job[p].sum) <=> CanPay(p)
  BY <1>1, <1>2 DEF Atomic!Affords, CanPay
<1>4. Atomic!Pay(job[p].account, job[p].sum) = Paid(p)
  <2>1. CASE Waived(job[p])
    BY <1>1, <2>1 DEF Atomic!Pay, Paid, NoRows
  <2>2. CASE ~Waived(job[p])
    BY <1>1, <1>2, <2>2 DEF Atomic!Pay, Paid, One, Balance
  <2>3. QED
    BY <2>1, <2>2
<1>5. QED
  BY <1>3, <1>4

\* A charge is a write, of a balance.
LEMMA PaidWrites ==
    ASSUME NEW p
    PROVE  Over(Paid(p), NoRows) = Paid(p) /\ DOMAIN Paid(p) \subseteq {Balance(job[p].account)}
<1>1. Over(NoRows, NoRows) = NoRows
  BY DEF Over, NoRows
<1>2. QED
  BY <1>1, Writing, PaidRows DEF Paid

\* A commit puts the writes of its transaction into the rows.
LEMMA CommitWrites ==
    ASSUME RowsFit, NEW p, Commit(p)
    PROVE  /\ Atomic!Become(writes[p])
           /\ writes[p] = NoRows => UNCHANGED rows
<1>1. Atomic!Become(writes[p])
  BY DEF Commit, Atomic!Become, Row
<1>2. ASSUME writes[p] = NoRows PROVE UNCHANGED rows
  <2>1. rows' = [r \in DOMAIN rows |-> rows[r]]
    BY <1>2 DEF Commit, Row, NoRows
  <2>2. rows = [r \in DOMAIN rows |-> rows[r]]
    BY DEF RowsFit
  <2>3. QED
    BY <2>1, <2>2
<1>3. QED
  BY <1>1, <1>2

\* What is equal to them, row by row, is as good.
LEMMA Becomes ==
    ASSUME RowsFit, NEW p, Commit(p), NEW new,
           \A r \in Locks(p) : r \in DOMAIN new /\ new[r] = writes[p][r],
           \A r \in DOMAIN new : r \notin Locks(p) => new[r] = rows[r]
    PROVE  Atomic!Become(new)
<1>1. Atomic!Become(writes[p])
  BY CommitWrites
<1>2. rows' = [r \in DOMAIN rows |-> IF r \in DOMAIN writes[p] THEN writes[p][r] ELSE rows[r]]
  BY <1>1 DEF Atomic!Become
<1>3. \A r \in DOMAIN rows : (IF r \in DOMAIN writes[p] THEN writes[p][r] ELSE rows[r])
                             = IF r \in DOMAIN new THEN new[r] ELSE rows[r]
  BY DEF Locks
<1>4. QED
  BY <1>2, <1>3 DEF Atomic!Become

\* After a commit the transaction is at rest, or it reads the catalog again.
LEMMA CommitEnds ==
    ASSUME Shapes, NEW p \in Procs, Commit(p),
           \/ todo[p] = <<"commit">>
           \/ todo[p] = <<"commit", "readCatalog", "storeCatalog">>
                /\ job[p].op \notin DOMAIN MarketPlan
    PROVE  /\ (Resting(p) \/ Reloading(p))' /\ Shapes' /\ Others(p)
<1>1. /\ writes'[p] = NoRows /\ todo'[p] = Tail(todo[p]) /\ Shapes' /\ Others(p)
      /\ Len(todo[p]) # 1 => job'[p] = job[p]
  BY DEF Commit, Shapes, Others
<1>2. CASE todo[p] = <<"commit">>
  BY <1>1, <1>2 DEF Resting
<1>3. CASE todo[p] = <<"commit", "readCatalog", "storeCatalog">> /\ job[p].op \notin DOMAIN MarketPlan
  BY <1>1, <1>3 DEF Reloading
<1>4. QED
  BY <1>2, <1>3

Furniture(owner, reserved) == [owner |-> owner, reserved |-> reserved]
Given(row, owner) == [row EXCEPT !.owner = owner]
Marked(row, reserved) == [row EXCEPT !.reserved = reserved]

\* Furniture changes its owner.
LEMMA OwnerChanges ==
    ASSUME NEW owner, NEW reserved, NEW value
    PROVE  Given(Furniture(owner, reserved), value) = Furniture(value, reserved)
<1> DEFINE row == Furniture(owner, reserved)
<1>1. row = [owner |-> owner, reserved |-> reserved]
  BY DEF Furniture
<1> HIDE DEF row
<1>2. Given(row, value) = [owner |-> value, reserved |-> reserved]
  BY <1>1 DEF Given
<1>3. QED
  BY <1>2 DEF Furniture, row

\* Furniture is withdrawn.
LEMMA ReservedChanges ==
    ASSUME NEW owner, NEW reserved, NEW value
    PROVE  Marked(Furniture(owner, reserved), value) = Furniture(owner, value)
<1> DEFINE row == Furniture(owner, reserved)
<1>1. row = [owner |-> owner, reserved |-> reserved]
  BY DEF Furniture
<1> HIDE DEF row
<1>2. Marked(row, value) = [owner |-> owner, reserved |-> value]
  BY <1>1 DEF Marked
<1>3. QED
  BY <1>2 DEF Furniture, row

\* Sums are the same in Bazaar.
LEMMA SumsAlike ==
    ASSUME NEW f
    PROVE  Atomic!SumFunction(f) = SumFunction(f)
  BY DEF Atomic!SumFunction, SumFunction, Atomic!SumFunctionOnSet, SumFunctionOnSet,
     Atomic!FoldFunctionOnSet, FoldFunctionOnSet, Atomic!MapThenFoldSet, MapThenFoldSet

\* A commit of one of the operations is that operation of Bazaar, or nothing.
Commits(p) == (Resting(p) \/ Reloading(p))' /\ (Atomic!Operation \/ UNCHANGED rows)

\* Tokens are bought.
LEMMA BuyTokensCommits ==
    ASSUME RowsFit, Shapes, NEW p \in Procs, Commit(p), BuyTokensFits(p)
    PROVE  Commits(p)
<1>1. Doing(p, "commit")
  BY DEF Commit
<1>2. /\ p \in Players /\ job[p] = Job("BuyTokens", p, None, -TokenCost)
      /\ todo[p] = <<"commit">> /\ CanPay(p)
      /\ writes[p] = Over(One(Tokens(p), rows[Tokens(p)] + TokenPackageSize), Over(Paid(p), NoRows))
  BY <1>1, Heads DEF BuyTokensFits, Doing
<1>3. job[p].account = p /\ job[p].sum = -TokenCost
  BY <1>2 DEF Job
<1> DEFINE more == One(Tokens(p), rows[Tokens(p)] + TokenPackageSize)
<1>4. Over(Paid(p), NoRows) = Paid(p) /\ DOMAIN Paid(p) \subseteq {Balance(p)}
  BY <1>3, PaidWrites
<1>5. DOMAIN more = {Tokens(p)} /\ Tokens(p) # Balance(p)
  BY Keys DEF One
<1>6. writes[p] = Over(more, Paid(p))
  BY <1>2, <1>4
<1>7. more = Atomic!To("tokens", p, Atomic!Tokens(p) + TokenPackageSize)
  BY Alike
<1> HIDE DEF more
<1>8. writes[p] = Over(Paid(p), more)
  BY <1>4, <1>5, <1>6, Orders
<1>9. Atomic!Affords(p, -TokenCost) /\ Paid(p) = Atomic!Pay(p, -TokenCost)
  BY <1>2, <1>3, PaysAlike
<1>10. Atomic!BuyTokens(p)
  BY <1>7, <1>8, <1>9, CommitWrites, Alike DEF Atomic!BuyTokens
<1>11. Atomic!Operation
  BY <1>2, <1>10 DEF Atomic!Operation
<1>12. QED
  BY <1>2, <1>11, CommitEnds DEF Commits

\* Furniture is put on sale.
LEMMA ListCommits ==
    ASSUME RowsFit, Shapes, NEW p \in Procs, Commit(p), ListFits(p)
    PROVE  Commits(p)
<1>1. Doing(p, "commit")
  BY DEF Commit
<1>2. PICK i \in Items, price \in Prices, l \in Listings :
        /\ p \in Players /\ todo[p] = <<"commit">> /\ rows[Tokens(p)] > 0
        /\ Withdrawable(rows[Item(i)], p) /\ rows[Listing(l)] = Unlisted
        /\ writes[p] = Opened(p, i, l, price)
  BY <1>1, Heads DEF ListFits, Doing
<1> DEFINE token == One(Tokens(p), rows[Tokens(p)] - 1)
           item == One(Item(i), [owner |-> p, reserved |-> TRUE])
           listing == One(Listing(l), [state |-> "open", seller |-> p, item |-> i, price |-> price,
                                       redeemed |-> FALSE])
<1>3. rows[Item(i)] = [owner |-> p, reserved |-> FALSE]
  <2>1. rows[Item(i)] \in ItemRows
    BY DEF RowsFit
  <2>2. QED
    BY <1>2, <2>1 DEF Withdrawable, ItemRows
<1>4. [rows[Item(i)] EXCEPT !.reserved = TRUE] = [owner |-> p, reserved |-> TRUE]
  <2>1. rows[Item(i)] = Furniture(p, FALSE)
    BY <1>3 DEF Furniture
  <2>2. Marked(rows[Item(i)], TRUE) = Furniture(p, TRUE)
    BY <2>1, ReservedChanges
  <2>3. QED
    BY <2>2, Zenon DEF Furniture, Marked
<1>5. writes[p] = Over(listing, Over(item, token))
  BY <1>2, <1>4 DEF Opened, Kept, Spent
<1>6. /\ DOMAIN token = {Tokens(p)} /\ DOMAIN item = {Item(i)} /\ DOMAIN listing = {Listing(l)}
      /\ Over(token, NoRows) = token
  <2>1. \A r, value : DOMAIN One(r, value) = {r} /\ Over(One(r, value), NoRows) = One(r, value)
    BY Writing
  <2>2. QED
    BY <2>1
<1>7. Tokens(p) # Item(i) /\ Tokens(p) # Listing(l) /\ Item(i) # Listing(l)
  BY Keys
<1>8. Atomic!And(Atomic!To("tokens", p, Atomic!Tokens(p) - 1),
         Atomic!And(Atomic!To("item", i, [owner |-> p, reserved |-> TRUE]),
             Atomic!To("listing", l, [state |-> "open", seller |-> p, item |-> i, price |-> price,
                                      redeemed |-> FALSE])))
        = Over(token, Over(item, listing))
  BY Alike
<1> HIDE DEF token, item, listing
<1>9. Over(listing, Over(item, token)) = Over(token, Over(item, listing))
  <2>1. Over(listing, Over(item, Over(token, NoRows))) = Over(token, Over(item, listing))
    BY <1>6, <1>7, Domains, Orders
  <2>2. QED
    BY <1>6, <2>1
<1>10. Atomic!Become(Over(token, Over(item, listing)))
  BY <1>5, <1>9, CommitWrites
<1>11. Atomic!List(p, i, l, price)
  <2>1. Atomic!Tokens(p) > 0 /\ Atomic!Item(i) = [owner |-> p, reserved |-> FALSE]
        /\ Atomic!Listing(l).state = "none"
    BY <1>2, <1>3, Alike DEF Unlisted
  <2>2. QED
    BY <1>8, <1>10, <2>1 DEF Atomic!List
<1>12. Atomic!Operation
  BY <1>2, <1>11 DEF Atomic!Operation
<1>13. QED
  BY <1>2, <1>12, CommitEnds DEF Commits

\* A listing is sold.
LEMMA BuyCommits ==
    ASSUME RowsFit, Shapes, NEW p \in Procs, Commit(p), BuyFits(p)
    PROVE  Commits(p)
<1>1. Doing(p, "commit")
  BY DEF Commit
<1>2. PICK l \in Listings :
        /\ p \in Players /\ todo[p] = <<"commit">>
        /\ job[p] = Job("Buy", p, l, -BuyerPrice(Sale(l).price))
        /\ Sale(l).state = "open" /\ Sale(l).seller # p /\ CanPay(p)
        /\ Held(rows[Item(Sale(l).item)], Sale(l).seller)
        /\ writes[p] = Over(One(Listing(l), [Sale(l) EXCEPT !.state = "sold"]), Moved(p, l))
  BY <1>1, Heads DEF BuyFits, Doing
<1> DEFINE i == Sale(l).item
           item == One(Item(i), [owner |-> p, reserved |-> FALSE])
           seen == One(Listing(l), Sale(l))
           listing == One(Listing(l), [Sale(l) EXCEPT !.state = "sold"])
           price == Atomic!Price(l)
<1>3. job[p].account = p /\ job[p].sum = -price
  BY <1>2, Alike DEF Job, BuyerPrice, Atomic!Price, Sale
<1>4. i \in Items /\ rows[Item(i)] = [owner |-> Sale(l).seller, reserved |-> TRUE]
  <2>1. i \in Items
    BY <1>2 DEF RowsFit, Sale
  <2>2. rows[Item(i)] \in ItemRows
    BY <2>1 DEF RowsFit
  <2>3. QED
    BY <1>2, <2>1, <2>2 DEF Held, ItemRows
<1>5. writes[p] = Over(listing, Over(item, Over(Paid(p), seen)))
  BY <1>2 DEF Moved, Charged
<1>6. DOMAIN item = {Item(i)} /\ DOMAIN seen = {Listing(l)} /\ DOMAIN listing = {Listing(l)}
  BY Domains
<1>7. Balance(p) # Item(i) /\ Balance(p) # Listing(l) /\ Item(i) # Listing(l)
  BY Keys
<1>8. Atomic!Affords(p, -price) /\ Atomic!Pay(p, -price) = Paid(p)
        /\ DOMAIN Paid(p) \subseteq {Balance(p)}
  BY <1>2, <1>3, PaysAlike, PaidRows
<1>9. Atomic!And(Atomic!Pay(p, -price),
         Atomic!And(Atomic!To("item", Atomic!Listing(l).item, [owner |-> p, reserved |-> FALSE]),
             Atomic!To("listing", l, [Atomic!Listing(l) EXCEPT !.state = "sold"])))
        = Over(Paid(p), Over(item, listing))
  BY <1>8, Alike DEF Sale
<1>10. /\ Atomic!Open(l) /\ Atomic!Listing(l).seller # p
       /\ Atomic!Item(Atomic!Listing(l).item) = [owner |-> Atomic!Listing(l).seller, reserved |-> TRUE]
  BY <1>2, <1>4, Alike DEF Atomic!Open, Sale
<1> HIDE DEF item, listing, seen, price
<1>11. Over(listing, Over(item, Over(Paid(p), seen))) = Over(Paid(p), Over(item, listing))
  BY <1>6, <1>7, <1>8, Orders
<1>12. Atomic!Become(Over(Paid(p), Over(item, listing)))
  BY <1>5, <1>11, CommitWrites
<1>13. Atomic!Buy(p, l)
  BY <1>8, <1>9, <1>10, <1>12 DEF Atomic!Buy, price
<1>14. Atomic!Operation
  BY <1>2, <1>13 DEF Atomic!Operation
<1>15. QED
  BY <1>2, <1>14, CommitEnds DEF Commits

\* A listing is closed.
LEMMA EndCommits ==
    ASSUME RowsFit, Shapes, NEW p \in Procs, Commit(p), EndFits(p)
    PROVE  Commits(p)
<1>1. Doing(p, "commit")
  BY DEF Commit
<1>2. PICK l \in Listings :
        todo[p] = <<"commit">> /\ Sale(l).state = "open" /\ writes[p] = Freed(l)
  BY <1>1, Heads DEF EndFits, Doing
<1> DEFINE i == Sale(l).item
           item == One(Item(i), [rows[Item(i)] EXCEPT !.reserved = FALSE])
           listing == One(Listing(l), [Sale(l) EXCEPT !.state = "closed"])
<1>3. writes[p] = Over(item, listing)
  BY <1>2 DEF Freed, Closed
<1>4. Atomic!And(
        Atomic!To("item", Atomic!Listing(l).item,
                  [Atomic!Item(Atomic!Listing(l).item) EXCEPT !.reserved = FALSE]),
        Atomic!To("listing", l, [Atomic!Listing(l) EXCEPT !.state = "closed"]))
        = Over(item, listing)
  BY Alike DEF Sale
<1>5. Atomic!Open(l)
  BY <1>2, Alike DEF Atomic!Open, Sale
<1> HIDE DEF item, listing
<1>6. Atomic!Become(Over(item, listing))
  BY <1>3, CommitWrites
<1>7. Atomic!Withdraw(l)
  BY <1>4, <1>5, <1>6 DEF Atomic!Withdraw
<1>8. Atomic!Operation
  BY <1>7 DEF Atomic!Operation
<1>9. QED
  BY <1>2, <1>8, CommitEnds DEF Commits

\* Sales are paid out.
LEMMA RedeemCommits ==
    ASSUME RowsFit, Shapes, NEW p \in Procs, Commit(p), RedeemFits(p)
    PROVE  Commits(p)
<1>1. Doing(p, "commit")
  BY DEF Commit
<1>2. PICK sold \in SUBSET Proceeds(p) :
        /\ p \in Players /\ todo[p] = <<"commit">>
        /\ job[p] = Job("Redeem", p, None, SumFunction([l \in sold |-> Sale(l).price]))
        /\ writes[p] = Over(Paid(p), PaidOut(sold))
  <2>1. todo[p] # <<"redeem", "grant", "commit">> /\ todo[p] # <<"grant", "commit">>
    BY <1>1, Heads DEF Doing
  <2>2. QED
    BY <2>1, Zenon DEF RedeemFits
<1> DEFINE total == Atomic!SumFunction([l \in sold |-> Atomic!Listing(l).price])
           redeemed == [r \in {<<"listing", l>> : l \in sold} |-> [rows[r] EXCEPT !.redeemed = TRUE]]
<1>3. job[p].account = p /\ job[p].sum = total
  <2>1. [l \in sold |-> Sale(l).price] = [l \in sold |-> Atomic!Listing(l).price]
    BY Alike DEF Sale
  <2> DEFINE sum == SumFunction([l \in sold |-> Sale(l).price])
  <2>2. job[p] = Job("Redeem", p, None, sum) /\ sum = total
    BY <1>2, <2>1, SumsAlike
  <2> HIDE DEF sum, total
  <2>3. QED
    BY <2>2 DEF Job
<1>4. redeemed = PaidOut(sold)
  BY DEF PaidOut, Listing
<1>5. DOMAIN PaidOut(sold) = {Listing(l) : l \in sold}
  BY DEF PaidOut
<1> HIDE DEF redeemed, total
<1>6. Atomic!Pay(p, total) = Paid(p) /\ DOMAIN Paid(p) \subseteq {Balance(p)}
  BY <1>3, PaysAlike, PaidRows
<1>7. \A l : Balance(p) # Listing(l)
  BY Keys
<1>8. Over(Paid(p), PaidOut(sold)) = Over(PaidOut(sold), Paid(p))
  BY <1>5, <1>6, <1>7, Orders
<1>9. Atomic!And(redeemed, Atomic!Pay(p, total)) = Over(PaidOut(sold), Paid(p))
  BY <1>4, <1>6, Alike
<1>10. Atomic!Become(Atomic!And(redeemed, Atomic!Pay(p, total)))
  BY <1>2, <1>8, <1>9, CommitWrites
<1>11. Atomic!Redeem(p, sold)
  BY <1>10, Zenon DEF Atomic!Redeem, redeemed, total
<1>12. sold \in SUBSET Atomic!Sales(p)
  <2>1. \A l \in Proceeds(p) : l \in Atomic!Sales(p)
    BY Alike DEF Proceeds, Atomic!Sales
  <2>2. QED
    BY <2>1
<1>13. Atomic!Operation
  BY <1>2, <1>11, <1>12 DEF Atomic!Operation
<1>14. QED
  BY <1>2, <1>13, CommitEnds DEF Commits

\* A trade is settled.
LEMMA SettleCommits ==
    ASSUME RowsFit, Shapes, NEW p \in Procs, Commit(p), SettleFits(p)
    PROVE  Commits(p)
<1>1. Doing(p, "commit")
  BY DEF Commit
<1>2. PICK i \in Items, a \in Players :
        /\ p \in Players /\ todo[p] = <<"commit">> /\ Withdrawable(rows[Item(i)], p)
        /\ writes[p] = One(Item(i), [rows[Item(i)] EXCEPT !.owner = a])
  BY <1>1, Heads DEF SettleFits, Doing
<1>3. rows[Item(i)] = [owner |-> p, reserved |-> FALSE]
  <2>1. rows[Item(i)] \in ItemRows
    BY DEF RowsFit
  <2>2. QED
    BY <1>2, <2>1 DEF Withdrawable, ItemRows
<1>4. [rows[Item(i)] EXCEPT !.owner = a] = [owner |-> a, reserved |-> FALSE]
  <2>1. rows[Item(i)] = Furniture(p, FALSE)
    BY <1>3 DEF Furniture
  <2>2. Given(rows[Item(i)], a) = Furniture(a, FALSE)
    BY <2>1, OwnerChanges
  <2>3. QED
    BY <2>2, Zenon DEF Furniture, Given
<1>5. Atomic!Become(Atomic!To("item", i, [owner |-> a, reserved |-> FALSE]))
  BY <1>2, <1>4, CommitWrites, Alike
<1>6. Atomic!Settle(p, a, i)
  BY <1>3, <1>5, Alike DEF Atomic!Settle
<1>7. Atomic!Operation
  BY <1>2, <1>6 DEF Atomic!Operation
<1>8. QED
  BY <1>2, <1>7, CommitEnds DEF Commits

\* A balance is set.
LEMMA SetCommits ==
    ASSUME RowsFit, Shapes, NEW p \in Procs, Commit(p), SetFits(p)
    PROVE  Commits(p)
<1>1. Doing(p, "commit")
  BY DEF Commit
<1>2. PICK a \in Players : todo[p] = <<"commit">> /\ writes[p] = One(Balance(a), 0)
  BY <1>1, Heads DEF SetFits, Doing
<1>3. Atomic!Set(a, 0)
  BY <1>2, CommitWrites, Alike DEF Atomic!Set
<1>4. Atomic!Operation
  BY <1>3 DEF Atomic!Operation
<1>5. QED
  BY <1>2, <1>4, CommitEnds DEF Commits

Ticket(exists, owner, complete) == [exists |-> exists, owner |-> owner, complete |-> complete]
Taken(row, owner) == [row EXCEPT !.owner = owner]
Completed(row, complete) == [row EXCEPT !.complete = complete]

\* A number is taken.
LEMMA OwnerTakes ==
    ASSUME NEW exists, NEW owner, NEW complete, NEW value
    PROVE  Taken(Ticket(exists, owner, complete), value) = Ticket(exists, value, complete)
<1> DEFINE row == Ticket(exists, owner, complete)
<1>1. row = [exists |-> exists, owner |-> owner, complete |-> complete]
  BY DEF Ticket
<1> HIDE DEF row
<1>2. Taken(row, value) = [exists |-> exists, owner |-> value, complete |-> complete]
  BY <1>1 DEF Taken
<1>3. QED
  BY <1>2 DEF Ticket, row

\* A number is completed.
LEMMA TicketCompletes ==
    ASSUME NEW exists, NEW owner, NEW complete, NEW value
    PROVE  Completed(Ticket(exists, owner, complete), value) = Ticket(exists, owner, value)
<1> DEFINE row == Ticket(exists, owner, complete)
<1>1. row = [exists |-> exists, owner |-> owner, complete |-> complete]
  BY DEF Ticket
<1> HIDE DEF row
<1>2. Completed(row, value) = [exists |-> exists, owner |-> owner, complete |-> value]
  BY <1>1 DEF Completed
<1>3. QED
  BY <1>2 DEF Ticket, row

\* Its sale writes what Bazaar's does.
LEMMA SalesAlike ==
    ASSUME RowsFit, NEW p, NEW o \in Offers, NEW n \in Numbers, Free(o, n), InStock(o)
    PROVE  Atomic!Sale(p, o, n) = NumberSold(p, o, n) /\ Atomic!Saleable(o, n)
<1> DEFINE row == rows[Unit(o, n)]
<1>1. row \in UnitRows /\ row.exists
  BY DEF RowsFit, Free
<1> HIDE DEF row
<1>2. row.exists = TRUE
  BY <1>1 DEF UnitRows
<1>3. row = Ticket(row.exists, row.owner, row.complete)
  BY <1>1 DEF UnitRows, Ticket
<1>5. Completed(Taken(row, p), TRUE) = Ticket(TRUE, p, TRUE)
  <2>1. PICK yes : yes = TRUE
    OBVIOUS
  <2>2. Taken(row, p) = Ticket(row.exists, p, row.complete)
    BY <1>3, OwnerTakes
  <2>3. Completed(Taken(row, p), yes) = Ticket(row.exists, p, yes)
    BY <2>2, TicketCompletes
  <2>4. QED
    BY <1>2, <2>1, <2>3, Zenon
<1>6. [[row EXCEPT !.owner = p] EXCEPT !.complete = TRUE]
        = [exists |-> TRUE, owner |-> p, complete |-> TRUE]
  BY <1>5, Zenon DEF Completed, Taken, Ticket
<1>7. NumberSold(p, o, n) = Over(One(Unit(o, n), [exists |-> TRUE, owner |-> p, complete |-> TRUE]),
                                 One(Offer(o), Sold(rows[Offer(o)])))
  BY <1>6, Zenon DEF NumberSold, row
<1>8. Atomic!Sale(p, o, n) = Over(One(Unit(o, n), [exists |-> TRUE, owner |-> p, complete |-> TRUE]),
                                  One(Offer(o), Sold(rows[Offer(o)])))
  <2> DEFINE unit == [exists |-> TRUE, owner |-> p, complete |-> TRUE]
             sold(offer) == [offer EXCEPT !.sells = @ + 1, !.enabled = offer.sells + 1 < offer.stack,
                                          !.version = @ + 1]
  <2>1. Atomic!Sale(p, o, n) =
          Atomic!And(Atomic!To("unit", <<o, n>>, unit), Atomic!To("offer", o, sold(Atomic!Offer(o))))
    BY Zenon DEF Atomic!Sale
  <2>2. sold(rows[Offer(o)]) = Sold(rows[Offer(o)])
    BY Zenon DEF Sold
  <2> HIDE DEF unit, sold
  <2>3. Atomic!Sale(p, o, n) = Over(One(Unit(o, n), unit), One(Offer(o), sold(rows[Offer(o)])))
    BY <2>1, Alike
  <2>4. QED
    BY <2>2, <2>3 DEF unit
<1>9. Atomic!Saleable(o, n)
  <2>1. rows[Offer(o)].sells < rows[Offer(o)].stack
    BY DEF RowsFit, OfferRows, InStock
  <2>2. QED
    BY <2>1, Alike DEF Atomic!Saleable, Free
<1>10. QED
  BY <1>7, <1>8, <1>9

\* An offer is sold.
LEMMA PurchaseCommits ==
    ASSUME RowsFit, Shapes, NEW p \in Procs, Commit(p), PurchaseFits(p)
    PROVE  Commits(p)
<1>1. Doing(p, "commit")
  BY DEF Commit
<1>2. PICK o \in Offers :
        /\ p \in Players
        /\ \/ /\ job[p] = Job("Purchase", p, o, -Cost) /\ todo[p] = <<"commit">> /\ CanPay(p)
              /\ writes[p] = Over(Paid(p), NoRows)
           \/ \E n \in Numbers :
                 /\ job[p] = [Job("Purchase", p, o, -Cost) EXCEPT !.batch = {n}] /\ Free(o, n)
                 /\ todo[p] = <<"commit", "readCatalog", "storeCatalog">> /\ CanPay(p) /\ InStock(o)
                 /\ writes[p] = Over(NumberSold(p, o, n), Over(Paid(p), Number(p, o, n)))
  <2>1. /\ todo[p] # <<"grant", "commit">>
        /\ todo[p] # <<"reserveUnit", "grant", "completeUnit", "commit", "readCatalog", "storeCatalog">>
        /\ todo[p] # <<"grant", "completeUnit", "commit", "readCatalog", "storeCatalog">>
        /\ todo[p] # <<"completeUnit", "commit", "readCatalog", "storeCatalog">>
    BY <1>1, Heads DEF Doing
  <2>2. QED
    BY <2>1, Zenon DEF PurchaseFits, NumberFits
<1>3. job[p].account = p /\ job[p].sum = -Cost /\ job[p].op = "Purchase"
  <2>1. CASE job[p] = Job("Purchase", p, o, -Cost)
    BY <2>1 DEF Job
  <2>2. ASSUME NEW n, job[p] = [Job("Purchase", p, o, -Cost) EXCEPT !.batch = {n}]
        PROVE  job[p].account = p /\ job[p].sum = -Cost /\ job[p].op = "Purchase"
    BY <2>2 DEF Job
  <2>3. QED
    BY <1>2, <2>1, <2>2
<1>4. Atomic!Affords(p, -Cost) /\ Atomic!Pay(p, -Cost) = Paid(p)
        /\ DOMAIN Paid(p) \subseteq {Balance(p)}
  BY <1>2, <1>3, PaysAlike, PaidRows
<1>5. CASE writes[p] = Over(Paid(p), NoRows) /\ todo[p] = <<"commit">>
  <2>1. Atomic!Become(Atomic!Pay(p, -Cost))
    BY <1>4, <1>5, CommitWrites, PaidWrites
  <2>2. Atomic!PurchaseUnlimited(p)
    BY <1>4, <2>1 DEF Atomic!PurchaseUnlimited
  <2>3. Atomic!Operation
    BY <1>2, <2>2 DEF Atomic!Operation
  <2>4. QED
    BY <1>5, <2>3, CommitEnds DEF Commits
<1>6. ASSUME NEW n \in Numbers, Free(o, n), InStock(o),
             todo[p] = <<"commit", "readCatalog", "storeCatalog">>,
             writes[p] = Over(NumberSold(p, o, n), Over(Paid(p), Number(p, o, n)))
      PROVE  Commits(p)
  <2>1. DOMAIN Number(p, o, n) = {Unit(o, n)} /\ DOMAIN NumberSold(p, o, n) = {Unit(o, n), Offer(o)}
    BY DEF Number, NumberSold, Over, One
  <2>2. Balance(p) # Unit(o, n) /\ Balance(p) # Offer(o)
    BY Keys
  <2>3. writes[p] = Over(Paid(p), NumberSold(p, o, n))
    BY <1>4, <1>6, <2>1, <2>2, Orders
  <2>4. Atomic!Sale(p, o, n) = NumberSold(p, o, n) /\ Atomic!Saleable(o, n)
    BY <1>6, SalesAlike
  <2>5. Atomic!Become(Atomic!And(Atomic!Pay(p, -Cost), Atomic!Sale(p, o, n)))
    BY <1>4, <2>3, <2>4, CommitWrites, Alike
  <2>6. Atomic!Purchase(p, o, n)
    BY <1>4, <2>4, <2>5 DEF Atomic!Purchase
  <2>7. Atomic!Operation
    BY <1>2, <2>6 DEF Atomic!Operation, Numbers
  <2>8. job[p].op \notin DOMAIN MarketPlan
    BY <1>3 DEF MarketPlan
  <2>9. QED
    BY <1>6, <2>7, <2>8, CommitEnds DEF Commits
<1>7. QED
  BY <1>2, <1>5, <1>6

\* A voucher is redeemed.
LEMMA VoucherCommits ==
    ASSUME RowsFit, Shapes, NEW p \in Procs, Commit(p), VoucherFits(p)
    PROVE  Commits(p)
<1>1. Doing(p, "commit")
  BY DEF Commit
<1> DEFINE voucher == Job("Voucher", p, VoucherOffer, VoucherCredits)
           red == One(Redemption(p), TRUE)
<1>2. /\ p \in Players /\ todo[p] = <<"commit">> /\ ~rows[Redemption(p)]
      /\ \/ job[p] = voucher /\ writes[p] = Granted(p)
         \/ \E n \in Numbers :
               /\ job[p] = [voucher EXCEPT !.batch = {n}] /\ VoucherOffer \in Offers
               /\ Free(VoucherOffer, n) /\ InStock(VoucherOffer)
               /\ writes[p] = Over(NumberSold(p, VoucherOffer, n),
                                   Over(Number(p, VoucherOffer, n), Granted(p)))
  <2>1. \A last : /\ todo[p] # <<"count", "insertRedemption", "grant", last>>
                  /\ todo[p] # <<"insertRedemption", "grant", last>>
                  /\ todo[p] # <<"grant", last>>
    BY <1>1, Heads DEF Doing
  <2>2. /\ todo[p] # <<"reserveUnit", "completeUnit", "commit">>
             /\ todo[p] # <<"completeUnit", "commit">>
        /\ todo[p] # <<"checkOffer">>
    BY <1>1, Heads DEF Doing
  <2> HIDE DEF voucher
  <2>3. QED
    BY <2>1, <2>2, Zenon DEF VoucherFits, voucher
<1>3. job[p].account = p /\ job[p].sum = VoucherCredits
  <2>1. CASE job[p] = voucher
    BY <2>1 DEF Job
  <2>2. ASSUME NEW n, job[p] = [voucher EXCEPT !.batch = {n}]
        PROVE  job[p].account = p /\ job[p].sum = VoucherCredits
    BY <2>2 DEF Job
  <2>3. QED
    BY <1>2, <2>1, <2>2
<1>4. Atomic!Pay(p, VoucherCredits) = Paid(p) /\ DOMAIN Paid(p) \subseteq {Balance(p)}
  BY <1>3, PaysAlike, PaidRows
<1>5. DOMAIN red = {Redemption(p)} /\ Granted(p) = Over(Paid(p), red)
  BY Domains DEF Granted
<1>6. Balance(p) # Redemption(p)
  BY Keys
<1>7. ~rows[<<"redemption", p>>] /\ Atomic!To("redemption", p, TRUE) = red
  BY <1>2, Alike DEF Redemption
<1>8. Over(Paid(p), NoRows) = Paid(p)
  BY PaidWrites
<1> HIDE DEF voucher, red
<1>9. CASE writes[p] = Granted(p)
  <2> DEFINE gift == Atomic!Pay(p, 0)
  <2>1. gift = NoRows
    BY DEF Atomic!Pay, Atomic!Free, NoRows
  <2> HIDE DEF gift
  <2>2. writes[p] = Over(red, Over(Paid(p), gift))
    BY <1>4, <1>5, <1>6, <1>8, <1>9, <2>1, Orders
  <2>3. Atomic!Become(Atomic!And(red, Atomic!And(Paid(p), gift)))
    BY <2>2, CommitWrites, Alike
  <2>4. Atomic!Voucher(p, gift)
    BY <1>4, <1>7, <2>3 DEF Atomic!Voucher
  <2>5. gift \in Atomic!Gifts(p)
    BY DEF Atomic!Gifts, gift
  <2>6. Atomic!Operation
    BY <1>2, <2>4, <2>5 DEF Atomic!Operation
  <2>7. QED
    BY <1>2, <2>6, CommitEnds DEF Commits
<1>10. ASSUME NEW n \in Numbers, VoucherOffer \in Offers, Free(VoucherOffer, n), InStock(VoucherOffer),
              writes[p] = Over(NumberSold(p, VoucherOffer, n),
                Over(Number(p, VoucherOffer, n), Granted(p)))
       PROVE  Commits(p)
  <2> DEFINE gift == NumberSold(p, VoucherOffer, n)
             old == Number(p, VoucherOffer, n)
  <2>1. DOMAIN old = {Unit(VoucherOffer, n)}
          /\ DOMAIN gift = {Unit(VoucherOffer, n), Offer(VoucherOffer)}
    BY DEF Number, NumberSold, Over, One
  <2>2. /\ Balance(p) # Unit(VoucherOffer, n) /\ Balance(p) # Offer(VoucherOffer)
        /\ Redemption(p) # Unit(VoucherOffer, n) /\ Redemption(p) # Offer(VoucherOffer)
    BY Keys
  <2>3. Atomic!Sale(p, VoucherOffer, n) = gift /\ Atomic!Saleable(VoucherOffer, n)
    BY <1>10, SalesAlike
  <2> HIDE DEF gift, old
  <2>4. writes[p] = Over(red, Over(Paid(p), gift))
    <3>1. writes[p] = Over(gift, Over(old, Over(Paid(p), red)))
      BY <1>5, <1>10 DEF gift, old
    <3>2. QED
      BY <1>4, <1>5, <1>6, <2>1, <2>2, <3>1, Orders
  <2>5. Atomic!Become(Atomic!And(red, Atomic!And(Paid(p), gift)))
    BY <2>4, CommitWrites, Alike
  <2>6. Atomic!Voucher(p, gift)
    BY <1>4, <1>7, <2>5 DEF Atomic!Voucher
  <2>7. gift \in Atomic!Gifts(p)
    <3>1. VoucherOffer # None
      BY <1>10, CatalogAssumption
    <3>2. QED
      BY <2>3, <3>1 DEF Atomic!Gifts, Numbers
  <2>8. Atomic!Operation
    BY <1>2, <2>6, <2>7 DEF Atomic!Operation
  <2>9. QED
    BY <1>2, <2>8, CommitEnds DEF Commits
<1>11. QED
  BY <1>2, <1>9, <1>10

Standing(row, exists) == [row EXCEPT !.exists = exists]

\* A number that is not sold comes and goes.
LEMMA NumberStands ==
    ASSUME NEW row \in {NoUnit, Unsold}, NEW exists \in BOOLEAN
    PROVE  Standing(row, exists) = IF exists THEN Unsold ELSE NoUnit
<1>1. \A was, is, complete : Standing(Ticket(was, None, complete), is) = Ticket(is, None, complete)
  <2> TAKE was, is, complete
  <2> DEFINE unit == Ticket(was, None, complete)
  <2>1. unit = [exists |-> was, owner |-> None, complete |-> complete]
    BY DEF Ticket
  <2> HIDE DEF unit
  <2>2. Standing(unit, is) = [exists |-> is, owner |-> None, complete |-> complete]
    BY <2>1 DEF Standing
  <2>3. QED
    BY <2>2 DEF Ticket, unit
<1>2. NoUnit = Ticket(FALSE, None, FALSE)
  BY DEF NoUnit, Ticket
<1>3. Unsold = Standing(NoUnit, TRUE)
  BY DEF Unsold, Standing
<1>4. Unsold = Ticket(TRUE, None, FALSE)
  BY <1>1, <1>2, <1>3
<1>5. PICK yes, no : yes = TRUE /\ no = FALSE
  OBVIOUS
<1>6. NoUnit = Ticket(no, None, no) /\ Unsold = Ticket(yes, None, no)
  BY <1>2, <1>4, <1>5, Zenon
<1>7. Standing(NoUnit, exists) = Ticket(exists, None, no)
  BY <1>1, <1>6
<1>8. Standing(Unsold, exists) = Ticket(exists, None, no)
  BY <1>1, <1>6
<1>9. QED
  BY <1>2, <1>4, <1>5, <1>7, <1>8

\* An offer is deleted.
LEMMA DeleteCommits ==
    ASSUME RowsFit, Shapes, NEW p \in Procs, Commit(p), DeleteFits(p)
    PROVE  Commits(p)
<1>1. Doing(p, "commit")
  BY DEF Commit
<1>2. PICK o \in Offers :
        /\ todo[p] = <<"commit", "readCatalog", "storeCatalog">> /\ ~rows[Offer(o)].deleted
        /\ job[p] = [Job("Delete", None, o, 0) EXCEPT !.read = job[p].read]
        /\ writes[p] = One(Offer(o), [rows[Offer(o)] EXCEPT !.deleted = TRUE, !.version = @ + 1])
  <2>1. /\ todo[p] # <<"findItem", "deleteItem", "commit", "readCatalog", "storeCatalog">>
        /\ todo[p] # <<"deleteItem", "commit", "readCatalog", "storeCatalog">>
    BY <1>1, Heads DEF Doing
  <2>2. QED
    BY <2>1, Zenon DEF DeleteFits
<1>3. job[p].op = "Delete"
  BY <1>2 DEF Job
<1>4. Atomic!Delete(o)
  <2> DEFINE removed(row) == [row EXCEPT !.deleted = TRUE, !.version = @ + 1]
  <2>1. writes[p] = One(Offer(o), removed(rows[Offer(o)]))
    BY <1>2
  <2> HIDE DEF removed
  <2>2. Atomic!Become(Atomic!To("offer", o, removed(Atomic!Offer(o)))) /\ ~Atomic!Offer(o).deleted
    BY <1>2, <2>1, CommitWrites, Alike
  <2>3. QED
    BY <2>2, Zenon DEF Atomic!Delete, removed
<1>5. Atomic!Operation
  BY <1>4 DEF Atomic!Operation
<1>6. job[p].op \notin DOMAIN MarketPlan
  BY <1>3 DEF MarketPlan
<1>7. QED
  BY <1>2, <1>5, <1>6, CommitEnds DEF Commits

\* An offer is changed, and its numbers with it.
LEMMA UpdateCommits ==
    ASSUME RowsFit, UnitsFit, Shapes, NEW p \in Procs, Commit(p), UpdateFits(p)
    PROVE  Commits(p)
<1>1. Doing(p, "commit")
  BY DEF Commit
<1>2. PICK o \in Offers :
        /\ todo[p] = <<"commit", "readCatalog", "storeCatalog">>
        /\ job[p].read[o] \in OfferRows /\ Current(o, job[p].read[o])
        /\ job[p] = [Job("Update", None, o, 0) EXCEPT !.read = job[p].read]
        /\ writes[p] = Over(Synced(o, job[p].read[o]), Changed(o, job[p].read[o]))
  <2>1. /\ todo[p] # <<"findItem", "updateItem", "syncUnits", "commit", "readCatalog", "storeCatalog">>
        /\ todo[p] # <<"updateItem", "syncUnits", "commit", "readCatalog", "storeCatalog">>
        /\ todo[p] # <<"syncUnits", "commit", "readCatalog", "storeCatalog">>
    BY <1>1, Heads DEF Doing
  <2>2. QED
    BY <2>1, Zenon DEF UpdateFits
<1>3. job[p].op \notin DOMAIN MarketPlan
  <2>1. job[p].op = "Update"
    BY <1>2 DEF Job
  <2>2. QED
    BY <2>1 DEF MarketPlan
<1> DEFINE offer == job[p].read[o]
           stack == offer.stack
           new == [r \in {<<"offer", o>>} \union {<<"unit", <<o, n>>>> : n \in 1 .. MaxStack} |->
                     IF r[1] = "offer"
                     THEN [offer EXCEPT !.version = @ + 1]
                     ELSE IF rows[r].owner # None THEN rows[r]
                     ELSE [rows[r] EXCEPT !.exists = r[2][2] <= stack]]
<1>4. stack \in 0 .. MaxStack /\ offer.enabled \in BOOLEAN /\ rows[Offer(o)] \in OfferRows
      /\ Added(o, stack) \subseteq Numbers
  <2>1. stack \in 0 .. MaxStack /\ offer.enabled \in BOOLEAN
    BY <1>2 DEF OfferRows
  <2>2. rows[Offer(o)] \in OfferRows
    BY DEF RowsFit
  <2> HIDE DEF stack
  <2>3. Added(o, stack) \subseteq Numbers
    BY <2>1, CatalogAssumption DEF Added, Numbers
  <2>4. QED
    BY <2>1, <2>2, <2>3
<1>5. DOMAIN new = {Offer(o)} \union {Unit(o, n) : n \in Numbers}
  BY DEF Offer, Unit, Numbers
<1>6. new[Offer(o)] = [offer EXCEPT !.version = @ + 1]
  BY <1>5, Keys
<1>7. ASSUME NEW n \in Numbers
      PROVE  new[Unit(o, n)] = IF rows[Unit(o, n)].owner # None THEN rows[Unit(o, n)]
                               ELSE IF n <= stack THEN Unsold ELSE NoUnit
  <2>1. Unit(o, n)[1] = "unit" /\ Unit(o, n)[2][2] = n /\ Unit(o, n) \in DOMAIN new
    BY <1>5, Keys
  <2>2. CASE rows[Unit(o, n)].owner # None
    BY <2>1, <2>2
  <2>3. CASE rows[Unit(o, n)].owner = None
    <3>1. new[Unit(o, n)] = Standing(rows[Unit(o, n)], n <= stack)
      BY <2>1, <2>3 DEF Standing
    <3>2. rows[Unit(o, n)] \in {NoUnit, Unsold}
      BY <2>3 DEF UnitsFit
    <3>3. (n <= stack) \in BOOLEAN
      BY <1>4 DEF Numbers
    <3>4. QED
      BY <2>3, <3>1, <3>2, <3>3, NumberStands
  <2>4. QED
    BY <2>2, <2>3
<1> DEFINE gone == [r \in {Unit(o, n) : n \in Gone(o, stack)} |-> NoUnit]
           added == [r \in {Unit(o, n) : n \in Added(o, stack)} |-> Unsold]
           changed == One(Offer(o), [offer EXCEPT !.version = @ + 1])
<1>8. writes[p] = Over(Over(gone, added), changed)
  BY <1>2 DEF Synced, Changed
<1>9. /\ DOMAIN gone = {Unit(o, n) : n \in Gone(o, stack)} /\ \A r \in DOMAIN gone : gone[r] = NoUnit
      /\ DOMAIN added = {Unit(o, n) : n \in Added(o, stack)}
           /\ \A r \in DOMAIN added : added[r] = Unsold
      /\ DOMAIN changed = {Offer(o)} /\ changed[Offer(o)] = [offer EXCEPT !.version = @ + 1]
  BY DEF One
<1>10. ASSUME NEW n \in Numbers
       PROVE  /\ rows[Unit(o, n)].exists <=> rows[Unit(o, n)] # NoUnit
              /\ rows[Unit(o, n)].owner # None => rows[Unit(o, n)].exists
              /\ rows[Unit(o, n)].owner = None => rows[Unit(o, n)] \in {NoUnit, Unsold}
              /\ rows[Unit(o, n)].exists /\ rows[Unit(o, n)].owner = None => rows[Unit(o, n)] = Unsold
  <2>1. ~NoUnit.exists /\ NoUnit.owner = None /\ Unsold.exists /\ Unsold.owner = None
    BY DEF NoUnit, Unsold
  <2>2. QED
    BY <2>1 DEF UnitsFit
<1>11. Gone(o, stack) \subseteq Numbers /\ \A n \in Numbers :
         /\ n \in Gone(o, stack)
              <=> rows[Unit(o, n)].exists /\ rows[Unit(o, n)].owner = None /\ ~(n <= stack)
         /\ n \in Added(o, stack) <=> ~rows[Unit(o, n)].exists /\ n <= stack
  BY <1>4 DEF Gone, Added, Free, Numbers
<1> HIDE DEF new, gone, added, changed, stack
<1>12. /\ Locks(p) = DOMAIN gone \union DOMAIN added \union DOMAIN changed
       /\ \A r \in DOMAIN gone : writes[p][r] = gone[r]
       /\ \A r \in DOMAIN added : r \notin DOMAIN gone => writes[p][r] = added[r]
       /\ \A r \in DOMAIN changed : r \notin DOMAIN gone /\ r \notin DOMAIN added
            => writes[p][r] = changed[r]
  BY <1>8 DEF Over, Locks
<1>13. ASSUME NEW r, r \in Locks(p) PROVE r \in DOMAIN new /\ new[r] = writes[p][r]
  <2>1. r \in DOMAIN gone \union DOMAIN added \union DOMAIN changed
    BY <1>12, <1>13
  <2>2. CASE r \in DOMAIN gone
    <3>1. PICK n \in Gone(o, stack) : r = Unit(o, n)
      BY <1>9, <2>2
    <3>2. writes[p][r] = NoUnit
      BY <1>9, <1>12, <2>2
    <3>3. QED
      BY <1>5, <1>7, <1>11, <3>1, <3>2
  <2>3. CASE r \in DOMAIN added
    <3>1. PICK n \in Added(o, stack) : r = Unit(o, n)
      BY <1>9, <2>3
    <3>2. r \notin DOMAIN gone
      BY <1>4, <1>9, <1>11, <3>1, Keys
    <3>3. writes[p][r] = Unsold
      BY <1>9, <1>12, <2>3, <3>2
    <3>4. QED
      BY <1>4, <1>5, <1>7, <1>10, <1>11, <3>1, <3>3
  <2>4. CASE r \in DOMAIN changed
    <3>1. r = Offer(o) /\ r \notin DOMAIN gone /\ r \notin DOMAIN added
      BY <1>9, <2>4, Keys
    <3>2. writes[p][r] = [offer EXCEPT !.version = @ + 1]
      BY <1>9, <1>12, <2>4, <3>1
    <3>3. QED
      BY <1>5, <1>6, <3>1, <3>2
  <2>5. QED
    BY <2>1, <2>2, <2>3, <2>4
<1>14. ASSUME NEW r, r \in DOMAIN new, r \notin Locks(p) PROVE new[r] = rows[r]
  <2>1. r \notin DOMAIN gone /\ r \notin DOMAIN added /\ r # Offer(o)
    BY <1>9, <1>12, <1>14
  <2>2. PICK n \in Numbers : r = Unit(o, n)
    BY <1>5, <1>14, <2>1
  <2>3. n \notin Gone(o, stack) /\ n \notin Added(o, stack)
    BY <1>9, <2>1, <2>2
  <2>4. QED
    BY <1>7, <1>10, <1>11, <2>2, <2>3
<1>15. Atomic!Become(new)
  BY <1>13, <1>14, Becomes
<1>16. Atomic!Change(o, offer)
  BY <1>15 DEF Atomic!Change, new, stack
<1>17. Atomic!Operation
  <2> HIDE DEF offer
  <2>1. /\ offer \in Patched(o) /\ ~rows[Offer(o)].deleted /\ Admissible(rows[Offer(o)], offer)
        /\ Atomic!Offer(o) = rows[Offer(o)]
    BY <1>2, Alike DEF Current, offer
  <2>2. ASSUME NEW n \in 0 .. MaxStack, NEW enabled \in BOOLEAN,
               offer = Patch(rows[Offer(o)], n, enabled)
        PROVE  Atomic!Operation
    <3>1. offer.stack = n /\ offer.sells = rows[Offer(o)].sells
      BY <1>4, <2>2 DEF Patch, OfferRows
    <3>2. n >= Atomic!Offer(o).sells /\ (Atomic!Offer(o).sells > 0 => n >= Atomic!Offer(o).stack)
      BY <1>4, <2>1, <3>1 DEF Admissible, OfferRows
    <3>3. Atomic!Change(o, [Atomic!Offer(o) EXCEPT !.stack = n, !.enabled = enabled])
      BY <1>16, <2>1, <2>2 DEF Patch
    <3>4. Atomic!Update(o, n, enabled)
      BY <2>1, <3>2, <3>3 DEF Atomic!Update
    <3>5. QED
      BY <3>4 DEF Atomic!Operation
  <2>3. ASSUME NEW enabled \in BOOLEAN, offer = Bundle(rows[Offer(o)], enabled)
        PROVE  Atomic!Operation
    <3>1. Atomic!Change(o, [Atomic!Offer(o) EXCEPT !.stack = 0, !.sells = 0, !.enabled = enabled,
                                                   !.forgotten = @ + Atomic!Offer(o).sells])
      BY <1>16, <2>1, <2>3 DEF Bundle
    <3>2. Atomic!Unlimit(o, enabled)
      BY <2>1, <3>1 DEF Atomic!Unlimit
    <3>3. QED
      BY <3>2 DEF Atomic!Operation
  <2>4. QED
    BY <2>1, <2>2, <2>3 DEF Patched
<1>18. QED
  BY <1>2, <1>3, <1>17, CommitEnds DEF Commits

\* Every commit is an operation of Bazaar, or changes nothing.
LEMMA CommitGoes ==
    ASSUME RowsFit, UnitsFit, Shapes, NEW p \in Procs, Fits(p), Commit(p)
    PROVE  Commits(p)
<1>1. Doing(p, "commit")
  BY DEF Commit
<1>2. ~Resting(p) /\ ~Reloading(p)
  BY <1>1, Heads DEF Resting, Reloading, Doing
<1>3. QED
  BY <1>2, BuyTokensCommits, ListCommits, BuyCommits, EndCommits, RedeemCommits, SettleCommits,
     SetCommits,
     PurchaseCommits, VoucherCommits, UpdateCommits, DeleteCommits DEF Fits, MarketFits, CatalogFits

-----------------------------------------------------------------------------
(***************************************************************************)
(* What Bazaar keeps of the rows.                                          *)
(***************************************************************************)
Goods ==
    /\ \A i \in Items : rows[Item(i)] \in ItemRows
    /\ \A l \in Listings :
          /\ rows[Listing(l)] \in ListingRows
          /\ rows[Listing(l)].state # "none" =>
                rows[Listing(l)].item \in Items /\ rows[Listing(l)].seller \in Players
    /\ ListedIsReserved
Numbered ==
    /\ \A o \in Offers : rows[Offer(o)] \in OfferRows
    /\ \A o \in Offers, n \in Numbers : rows[Unit(o, n)] \in UnitRows
    /\ UnitsFit /\ UnitsCounted

\* The offers and their numbers are as they were, or newer.
SameGoods ==
    /\ \A i \in Items : rows'[Item(i)] = rows[Item(i)]
    /\ \A l \in Listings : rows'[Listing(l)] = rows[Listing(l)]
SameOffer(o) ==
    rows'[Offer(o)] = rows[Offer(o)] /\ \A n \in Numbers : rows'[Unit(o, n)] = rows[Unit(o, n)]
Forward == \A o \in Offers : SameOffer(o) \/ rows'[Offer(o)].version > rows[Offer(o)].version

\* ListedIsReserved, with quantifiers only.
OnOffer(table, l, i) == table[Listing(l)].state = "open" /\ table[Listing(l)].item = i
Listed(table) ==
    \A i \in Items :
        /\ table[Item(i)].reserved <=> \E l \in Listings : OnOffer(table, l, i)
        /\ \A l, m \in Listings :
              OnOffer(table, l, i) /\ OnOffer(table, m, i)
              => l = m /\ table[Listing(l)].seller = table[Item(i)].owner

\* ListedIsReserved says, of each furniture and each listing, what Listed does.
LEMMA ListedMeans == (ListedIsReserved <=> Listed(rows)) /\ (ListedIsReserved' <=> Listed(rows'))
<1> DEFINE open(table, i) ==
               {l \in Listings : table[Listing(l)].state = "open" /\ table[Listing(l)].item = i}
           alone(table, i, l, m) == l = m /\ table[Listing(l)].seller = table[Item(i)].owner
           listed(table) ==
               \A i \in Items :
                  /\ table[Item(i)].reserved <=> open(table, i) # {}
                  /\ \A l, m \in open(table, i) : alone(table, i, l, m)
<1>1. ASSUME NEW table
      PROVE  listed(table) <=> Listed(table)
  <2>1. \A i, l : l \in open(table, i) <=> l \in Listings /\ OnOffer(table, l, i)
    BY DEF OnOffer
  <2> HIDE DEF open, alone
  <2>2. \A i : open(table, i) # {} <=> \E l \in Listings : OnOffer(table, l, i)
    BY <2>1
  <2>3. \A i : (\A l, m \in open(table, i) : alone(table, i, l, m)) <=>
               (\A l, m \in Listings : OnOffer(table, l, i) /\ OnOffer(table, m, i)
                 => alone(table, i, l, m))
    BY <2>1
  <2>4. Listed(table) <=>
          \A i \in Items :
             /\ table[Item(i)].reserved <=> \E l \in Listings : OnOffer(table, l, i)
             /\ \A l, m \in Listings : OnOffer(table, l, i) /\ OnOffer(table, m, i)
                  => alone(table, i, l, m)
    BY Zenon DEF Listed, alone
  <2>5. QED
    BY <2>2, <2>3, <2>4, Zenon
<1>2. ListedIsReserved <=> listed(rows)
  BY Zenon DEF ListedIsReserved
<1>3. ListedIsReserved' <=> listed(rows')
  BY Zenon DEF ListedIsReserved, Item, Listing
<1>4. QED
  BY <1>1, <1>2, <1>3, Zenon

\* Rows fall into the marketplace's and the catalog's.
LEMMA Halves ==
    CommittedFit <=> rows = [r \in MarketRows \union CatalogRows |-> rows[r]] /\ Goods /\ Numbered
  BY DEF CommittedFit, RowsFit, Goods, Numbered

\* And so they do after a step.
LEMMA HalvesNext ==
    ASSUME rows' = [r \in MarketRows \union CatalogRows |-> rows'[r]], Goods', Numbered'
    PROVE  CommittedFit'
  BY DEF CommittedFit, RowsFit, Goods, Numbered

\* What an operation writes is what changes.
LEMMA Becoming ==
    ASSUME RowsFit, NEW new, Atomic!Become(new)
    PROVE  /\ rows' = [r \in MarketRows \union CatalogRows |-> rows'[r]]
           /\ \A r \in DOMAIN rows : r \in DOMAIN new => rows'[r] = new[r]
           /\ \A r \in DOMAIN rows : r \notin DOMAIN new => rows'[r] = rows[r]
<1>1. DOMAIN rows = MarketRows \union CatalogRows
  BY DEF RowsFit
<1>2. QED
  BY <1>1 DEF Atomic!Become

\* The marketplace's rows stay when they are not written.
LEMMA GoodsStay ==
    ASSUME RowsFit, Goods, NEW new, Atomic!Become(new),
           \A r \in DOMAIN new : r[1] \notin {"item", "listing"}
    PROVE  Goods'
<1>1. SameGoods
  BY Becoming, RowIds, Keys DEF SameGoods
<1>2. ListedIsReserved'
  BY <1>1, ListedMeans DEF Goods, SameGoods, Listed, OnOffer
<1>3. QED
  BY <1>1, <1>2 DEF Goods, SameGoods, Item, Listing, ItemRows, ListingRows

\* UnitsCounted, of an offer, the numbers there are and those that are sold.
There(table, o) == {m \in Numbers : table[Unit(o, m)].exists}
Bought(table, o) == {m \in Numbers : table[Unit(o, m)].owner # None}
Tallied(offer, there, taken) ==
    /\ there = (1 .. offer.stack) \union taken
    /\ offer.forgotten = 0 => taken \subseteq 1 .. offer.stack
    /\ offer.sells + offer.forgotten = Cardinality(taken)
    /\ offer.sells <= offer.stack
CountedIn(table) == \A o \in Offers : Tallied(table[Offer(o)], There(table, o), Bought(table, o))

\* Which is the same.
LEMMA CountedMeans ==
    (UnitsCounted <=> CountedIn(rows)) /\ (UnitsCounted' <=> CountedIn(rows'))
  BY DEF UnitsCounted, CountedIn, Tallied, There, Bought, Offer, Unit, Numbers

\* The numbers that are sold are as many as there are at most.
LEMMA TakenFinite ==
    ASSUME NEW table, NEW o
    PROVE  IsFiniteSet(Bought(table, o)) /\ Bought(table, o) \subseteq Numbers
<1>1. IsFiniteSet(Numbers)
  BY CatalogAssumption, FS_Interval DEF Numbers
<1>2. QED
  BY <1>1, FS_Subset DEF Bought

\* The catalog's rows stay when they are not written.
LEMMA NumbersStay ==
    ASSUME RowsFit, Numbered, NEW new, Atomic!Become(new),
           \A r \in DOMAIN new : r[1] \notin {"offer", "unit"}
    PROVE  Numbered' /\ Forward
<1>1. \A o \in Offers : SameOffer(o)
  BY Becoming, RowIds, Keys DEF SameOffer
<1>2. UnitsFit'
  BY <1>1 DEF UnitsFit, Numbered, SameOffer, Offer, Unit, NoUnit, Unsold, Numbers
<1>3. UnitsCounted'
  <2>1. \A o \in Offers : There(rows', o) = There(rows, o) /\ Bought(rows', o) = Bought(rows, o)
    BY <1>1 DEF SameOffer, There, Bought
  <2>2. QED
    BY <1>1, <2>1, CountedMeans DEF Numbered, CountedIn, SameOffer
<1>4. QED
  BY <1>1, <1>2, <1>3 DEF Numbered, Forward, SameOffer, Offer, Unit, OfferRows, UnitRows, Numbers

\* A charge touches a balance, a write its row.
LEMMA Touches ==
    /\ \A a, sum : \A r \in DOMAIN Atomic!Pay(a, sum) : r[1] = "balance"
    /\ \A r, value : DOMAIN One(r, value) = {r} /\ One(r, value)[r] = value
  BY DEF Atomic!Pay, One

\* Where writes land.
Land2(f, g, r) == IF r \in DOMAIN f THEN f[r] ELSE IF r \in DOMAIN g THEN g[r] ELSE rows[r]
Land3(f, g, h, r) == IF r \in DOMAIN f THEN f[r] ELSE Land2(g, h, r)

\* Two or three writes that come together change the rows they name.
LEMMA Landing ==
    ASSUME RowsFit
    PROVE  /\ \A f, g : Atomic!Become(Atomic!And(f, g))
                => \A r \in DOMAIN rows : rows'[r] = Land2(f, g, r)
           /\ \A f, g, h :
                 Atomic!Become(Atomic!And(f, Atomic!And(g, h))) =>
                    \A r \in DOMAIN rows : rows'[r] = Land3(f, g, h, r)
<1>1. \A new : Atomic!Become(new) =>
        \A r \in DOMAIN rows : rows'[r] = IF r \in DOMAIN new THEN new[r] ELSE rows[r]
  BY DEF Atomic!Become
<1>2. ASSUME NEW f, NEW g, Atomic!Become(Atomic!And(f, g)), NEW r \in DOMAIN rows
      PROVE  rows'[r] = Land2(f, g, r)
  <2> DEFINE new == Atomic!And(f, g)
  <2>1. rows'[r] = IF r \in DOMAIN new THEN new[r] ELSE rows[r]
    BY <1>1, <1>2
  <2>2. QED
    BY <2>1 DEF Atomic!And, Land2
<1>3. ASSUME NEW f, NEW g, NEW h, Atomic!Become(Atomic!And(f, Atomic!And(g, h))), NEW r \in DOMAIN rows
      PROVE  rows'[r] = Land3(f, g, h, r)
  <2> DEFINE new == Atomic!And(f, Atomic!And(g, h))
  <2>1. rows'[r] = IF r \in DOMAIN new THEN new[r] ELSE rows[r]
    BY <1>1, <1>3
  <2>2. QED
    BY <2>1 DEF Atomic!And, Land2, Land3
<1>4. QED
  BY <1>2, <1>3

\* Listing furniture withdraws it.
LEMMA ListKeeps ==
    ASSUME RowsFit, Goods, NEW a \in Players, NEW i \in Items, NEW l \in Listings, NEW price \in Prices,
           Atomic!List(a, i, l, price)
    PROVE  Goods'
<1> DEFINE token == Atomic!To("tokens", a, Atomic!Tokens(a) - 1)
           kept == [owner |-> a, reserved |-> TRUE]
           sale == [state |-> "open", seller |-> a, item |-> i, price |-> price, redeemed |-> FALSE]
<1>1. rows[Item(i)] = [owner |-> a, reserved |-> FALSE] /\ rows[Listing(l)].state = "none"
  BY Alike DEF Atomic!List
<1>2. kept.reserved /\ kept.owner = a /\ kept \in ItemRows
  BY DEF ItemRows
<1>3. sale.state = "open" /\ sale.item = i /\ sale.seller = a /\ sale \in ListingRows
  BY DEF ListingRows
<1>4. /\ \A x \in Items : x # i => rows'[Item(x)] = rows[Item(x)]
      /\ \A x \in Listings : x # l => rows'[Listing(x)] = rows[Listing(x)]
      /\ rows'[Item(i)] = kept /\ rows'[Listing(l)] = sale
  <2>1. Atomic!Become(Atomic!And(token,
          Atomic!And(Atomic!To("item", i, kept), Atomic!To("listing", l, sale))))
    BY DEF Atomic!List
  <2>2. token = One(Tokens(a), Atomic!Tokens(a) - 1)
    BY Alike
  <2> HIDE DEF token, kept, sale
  <2>3. Atomic!Become(Atomic!And(token, Atomic!And(One(Item(i), kept), One(Listing(l), sale))))
    BY <2>1, Alike
  <2>4. DOMAIN token = {Tokens(a)}
    BY <2>2, Touches
  <2> DEFINE f == One(Item(i), kept) g == One(Listing(l), sale)
  <2>5. \A r \in DOMAIN rows : rows'[r] = Land3(token, f, g, r)
    BY <2>3, Landing
  <2>6. DOMAIN f = {Item(i)} /\ f[Item(i)] = kept /\ DOMAIN g = {Listing(l)} /\ g[Listing(l)] = sale
    BY Touches
  <2> HIDE DEF f, g
  <2>7. QED
    BY <2>4, <2>5, <2>6, RowIds, Keys DEF Land2, Land3
<1> HIDE DEF token, kept, sale
<1>5. Listed(rows)
  BY ListedMeans DEF Goods
<1>6. \A x \in Listings : ~OnOffer(rows, x, i)
  BY <1>1, <1>5 DEF Listed
<1>7. /\ \A x \in Listings, y \in Items : OnOffer(rows', x, y)
           <=> OnOffer(rows, x, y) \/ (x = l /\ y = i)
  BY <1>1, <1>3, <1>4 DEF OnOffer
<1>8. Listed(rows')
  <2> SUFFICES ASSUME NEW y \in Items
               PROVE  /\ rows'[Item(y)].reserved <=> \E x \in Listings : OnOffer(rows', x, y)
                      /\ \A x, z \in Listings :
                            OnOffer(rows', x, y) /\ OnOffer(rows', z, y)
                            => x = z /\ rows'[Listing(x)].seller = rows'[Item(y)].owner
    BY DEF Listed
  <2>1. CASE y = i
    BY <1>2, <1>3, <1>4, <1>6, <1>7, <2>1
  <2>2. CASE y # i
    <3>1. \A x \in Listings : OnOffer(rows', x, y) <=> OnOffer(rows, x, y)
      BY <1>7, <2>2
    <3>2. \A x \in Listings : OnOffer(rows, x, y) => rows'[Listing(x)] = rows[Listing(x)]
      BY <1>1, <1>4 DEF OnOffer
    <3>3. rows'[Item(y)] = rows[Item(y)]
      BY <1>4, <2>2
    <3>4. QED
      BY <1>5, <3>1, <3>2, <3>3 DEF Listed
  <2>3. QED
    BY <2>1, <2>2
<1>9. ListedIsReserved'
  BY <1>8, ListedMeans
<1>10. \A x \in Items : rows'[Item(x)] \in ItemRows
  BY <1>2, <1>4 DEF Goods
<1>11. ASSUME NEW x \in Listings
       PROVE  /\ rows'[Listing(x)] \in ListingRows
              /\ rows'[Listing(x)].state # "none" =>
                    rows'[Listing(x)].item \in Items /\ rows'[Listing(x)].seller \in Players
  <2>1. CASE x = l
    BY <1>3, <1>4, <2>1
  <2>2. CASE x # l
    BY <1>4, <2>2 DEF Goods
  <2>3. QED
    BY <2>1, <2>2
<1>12. QED
  BY <1>9, <1>10, <1>11 DEF Goods, Item, Listing, ItemRows, ListingRows

\* A listing that ends, with a sale or without, lets its furniture go.
LEMMA SaleEnds ==
    ASSUME Goods, NEW l \in Listings, NEW i \in Items, NEW given \in ItemRows, NEW sale \in ListingRows,
           rows[Listing(l)].state = "open", rows[Listing(l)].item = i, ~given.reserved,
           sale.state # "open", sale.item \in Items, sale.seller \in Players,
           \A x \in Items : x # i => rows'[Item(x)] = rows[Item(x)],
           \A x \in Listings : x # l => rows'[Listing(x)] = rows[Listing(x)],
           rows'[Item(i)] = given, rows'[Listing(l)] = sale
    PROVE  Goods'
<1>1. Listed(rows) /\ OnOffer(rows, l, i)
  BY ListedMeans DEF Goods, OnOffer
<1>2. \A x \in Listings : OnOffer(rows, x, i) => x = l
  BY <1>1 DEF Listed
<1>3. \A x \in Listings, y \in Items : OnOffer(rows', x, y) <=> OnOffer(rows, x, y) /\ x # l
  BY DEF OnOffer
<1>4. Listed(rows')
  <2> SUFFICES ASSUME NEW y \in Items
               PROVE  /\ rows'[Item(y)].reserved <=> \E x \in Listings : OnOffer(rows', x, y)
                      /\ \A x, z \in Listings :
                            OnOffer(rows', x, y) /\ OnOffer(rows', z, y)
                            => x = z /\ rows'[Listing(x)].seller = rows'[Item(y)].owner
    BY DEF Listed
  <2>1. CASE y = i
    BY <1>2, <1>3, <2>1
  <2>2. CASE y # i
    <3>1. ~OnOffer(rows, l, y)
      BY <1>1, <2>2 DEF OnOffer
    <3>2. \A x \in Listings : OnOffer(rows', x, y) <=> OnOffer(rows, x, y)
      BY <1>3, <3>1
    <3>3. \A x \in Listings : OnOffer(rows, x, y) => rows'[Listing(x)] = rows[Listing(x)]
      BY <3>1
    <3>4. rows'[Item(y)] = rows[Item(y)]
      BY <2>2
    <3>5. QED
      BY <1>1, <3>2, <3>3, <3>4 DEF Listed
  <2>3. QED
    BY <2>1, <2>2
<1>5. ListedIsReserved'
  BY <1>4, ListedMeans
<1>6. \A x \in Items : rows'[Item(x)] \in ItemRows
  BY DEF Goods
<1>7. \A x \in Listings :
         /\ rows'[Listing(x)] \in ListingRows
         /\ rows'[Listing(x)].state # "none" =>
               rows'[Listing(x)].item \in Items /\ rows'[Listing(x)].seller \in Players
  BY DEF Goods
<1>8. QED
  BY <1>5, <1>6, <1>7 DEF Goods, Item, Listing, ItemRows, ListingRows

\* Selling a listing gives its furniture free, to another owner.
LEMMA BuyKeeps ==
    ASSUME RowsFit, Goods, NEW a \in Players, NEW l \in Listings, Atomic!Buy(a, l)
    PROVE  Goods'
<1> DEFINE i == rows[Listing(l)].item
           given == [owner |-> a, reserved |-> FALSE]
           sale == [rows[Listing(l)] EXCEPT !.state = "sold"]
           pay == Atomic!Pay(a, -Atomic!Price(l))
<1>1. rows[Listing(l)].state = "open"
  BY Alike DEF Atomic!Buy, Atomic!Open
<1>2. i \in Items /\ rows[Listing(l)] \in ListingRows
  BY <1>1 DEF Goods
<1>3. ~given.reserved /\ given \in ItemRows
  BY DEF ItemRows
<1>4. Atomic!Become(Atomic!And(pay, Atomic!And(One(Item(i), given), One(Listing(l), sale))))
  <2>1. Atomic!Listing(l) = rows[Listing(l)]
    BY Alike
  <2>2. Atomic!Become(Atomic!And(pay,
          Atomic!And(Atomic!To("item", i, given), Atomic!To("listing", l, sale))))
    BY <2>1, Zenon DEF Atomic!Buy
  <2> HIDE DEF i, given, sale, pay
  <2>3. QED
    BY <2>2, Alike
<1>5. /\ \A x \in Items : x # i => rows'[Item(x)] = rows[Item(x)]
      /\ \A x \in Listings : x # l => rows'[Listing(x)] = rows[Listing(x)]
      /\ rows'[Item(i)] = given /\ rows'[Listing(l)] = sale
  <2>1. \A r \in DOMAIN pay : r[1] = "balance"
    BY Touches
  <2> HIDE DEF i, given, sale, pay
  <2> DEFINE f == One(Item(i), given) g == One(Listing(l), sale)
  <2>2. \A r \in DOMAIN rows : rows'[r] = Land3(pay, f, g, r)
    BY <1>4, Landing
  <2>3. DOMAIN f = {Item(i)} /\ f[Item(i)] = given /\ DOMAIN g = {Listing(l)} /\ g[Listing(l)] = sale
    BY Touches
  <2> HIDE DEF f, g
  <2>4. QED
    BY <1>2, <2>1, <2>2, <2>3, RowIds, Keys DEF Land2, Land3
<1>6. rows[Listing(l)].item = i
  OBVIOUS
<1>7. sale \in ListingRows /\ sale.state = "sold" /\ sale.item \in Items /\ sale.seller \in Players
  BY <1>1, <1>2 DEF ListingRows, Goods
<1> HIDE DEF i, given, sale, pay
<1>8. QED
  BY <1>1, <1>2, <1>3, <1>5, <1>6, <1>7, SaleEnds

\* Ending a listing releases its furniture.
LEMMA WithdrawKeeps ==
    ASSUME RowsFit, Goods, NEW l \in Listings, Atomic!Withdraw(l)
    PROVE  Goods'
<1> DEFINE i == rows[Listing(l)].item
           given == [rows[Item(i)] EXCEPT !.reserved = FALSE]
           sale == [rows[Listing(l)] EXCEPT !.state = "closed"]
<1>1. rows[Listing(l)].state = "open"
  BY Alike DEF Atomic!Withdraw, Atomic!Open
<1>2. i \in Items /\ rows[Listing(l)] \in ListingRows
  BY <1>1 DEF Goods
<1>3. ~given.reserved /\ given \in ItemRows
  <2>1. rows[Item(i)] \in ItemRows
    BY <1>2 DEF Goods
  <2> HIDE DEF i
  <2>2. QED
    BY <2>1 DEF ItemRows
<1>4. Atomic!Become(Atomic!And(One(Item(i), given), One(Listing(l), sale)))
  <2>1. Atomic!Listing(l) = rows[Listing(l)] /\ Atomic!Item(i) = rows[Item(i)]
    BY Alike
  <2>2. Atomic!Become(Atomic!And(Atomic!To("item", i, given), Atomic!To("listing", l, sale)))
    BY <2>1, Zenon DEF Atomic!Withdraw
  <2> HIDE DEF i, given, sale
  <2>3. QED
    BY <2>2, Alike
<1>5. /\ \A x \in Items : x # i => rows'[Item(x)] = rows[Item(x)]
      /\ \A x \in Listings : x # l => rows'[Listing(x)] = rows[Listing(x)]
      /\ rows'[Item(i)] = given /\ rows'[Listing(l)] = sale
  <2> HIDE DEF i, given, sale
  <2> DEFINE f == One(Item(i), given) g == One(Listing(l), sale)
  <2>1. \A r \in DOMAIN rows : rows'[r] = Land2(f, g, r)
    BY <1>4, Landing
  <2>2. DOMAIN f = {Item(i)} /\ f[Item(i)] = given /\ DOMAIN g = {Listing(l)} /\ g[Listing(l)] = sale
    BY Touches
  <2> HIDE DEF f, g
  <2>3. QED
    BY <1>2, <2>1, <2>2, RowIds, Keys DEF Land2
<1>6. rows[Listing(l)].item = i
  OBVIOUS
<1>7. sale \in ListingRows /\ sale.state = "closed" /\ sale.item \in Items /\ sale.seller \in Players
  BY <1>1, <1>2 DEF ListingRows, Goods
<1> HIDE DEF i, given, sale
<1>8. QED
  BY <1>1, <1>2, <1>3, <1>5, <1>6, <1>7, SaleEnds

\* Paying out leaves what is listed.
LEMMA RedeemKeeps ==
    ASSUME RowsFit, Goods, NEW a \in Players, NEW sold \in SUBSET Atomic!Sales(a),
           Atomic!Redeem(a, sold)
    PROVE  Goods'
<1> DEFINE redeemed == [r \in {<<"listing", l>> : l \in sold} |-> [rows[r] EXCEPT !.redeemed = TRUE]]
           pay == Atomic!Pay(a, Atomic!SumFunction([l \in sold |-> Atomic!Listing(l).price]))
<1>1. Atomic!Become(Atomic!And(redeemed, pay)) /\ sold \subseteq Listings
  BY DEF Atomic!Redeem, Atomic!Sales
<1>2. DOMAIN redeemed = {Listing(l) : l \in sold}
      /\ \A l \in sold : redeemed[Listing(l)] = [rows[Listing(l)] EXCEPT !.redeemed = TRUE]
  BY DEF Listing
<1>3. \A r \in DOMAIN pay : r[1] = "balance"
  BY Touches
<1> HIDE DEF redeemed, pay
<1>4. \A r \in DOMAIN rows : rows'[r] = Land2(redeemed, pay, r)
  BY <1>1, Landing
<1>5. \A y \in Items : rows'[Item(y)] = rows[Item(y)]
  BY <1>2, <1>3, <1>4, RowIds, Keys DEF Land2
<1>6. \A x \in Listings : rows'[Listing(x)]
        = IF x \in sold THEN [rows[Listing(x)] EXCEPT !.redeemed = TRUE]
                                              ELSE rows[Listing(x)]
  BY <1>2, <1>3, <1>4, RowIds, Keys DEF Land2
<1>7. ASSUME NEW x \in Listings
      PROVE  /\ rows'[Listing(x)] \in ListingRows /\ rows'[Listing(x)].item = rows[Listing(x)].item
             /\ rows'[Listing(x)].seller = rows[Listing(x)].seller
             /\ rows'[Listing(x)].state = rows[Listing(x)].state
  BY <1>6 DEF Goods, ListingRows
<1>8. \A x \in Listings, y \in Items : OnOffer(rows', x, y) <=> OnOffer(rows, x, y)
  BY <1>7 DEF OnOffer
<1>9. Listed(rows')
  BY <1>5, <1>7, <1>8, ListedMeans DEF Goods, Listed
<1>10. ListedIsReserved'
  BY <1>9, ListedMeans
<1>11. \A x \in Listings : rows'[Listing(x)].state # "none" =>
          rows'[Listing(x)].item \in Items /\ rows'[Listing(x)].seller \in Players
  BY <1>7 DEF Goods
<1>12. QED
  BY <1>5, <1>7, <1>10, <1>11 DEF Goods, Item, Listing, ItemRows, ListingRows

\* A trade takes furniture that is not listed.
LEMMA SettleKeeps ==
    ASSUME RowsFit, Goods, NEW a \in Players, NEW b \in Players, NEW i \in Items, Atomic!Settle(a, b, i)
    PROVE  Goods'
<1> DEFINE given == [owner |-> b, reserved |-> FALSE]
<1>1. rows[Item(i)] = [owner |-> a, reserved |-> FALSE] /\ Atomic!Become(One(Item(i), given))
  BY Alike DEF Atomic!Settle
<1>2. ~given.reserved /\ given \in ItemRows
  BY DEF ItemRows
<1>3. ~rows[Item(i)].reserved
  BY <1>1
<1> HIDE DEF given
<1>4. /\ \A x \in Items : x # i => rows'[Item(x)] = rows[Item(x)]
      /\ \A x \in Listings : rows'[Listing(x)] = rows[Listing(x)]
      /\ rows'[Item(i)] = given
  <2> DEFINE new == One(Item(i), given)
  <2>1. DOMAIN new = {Item(i)} /\ new[Item(i)] = given
    BY Touches
  <2> HIDE DEF new
  <2>2. Atomic!Become(new)
    BY <1>1 DEF new
  <2>3. QED
    BY <2>1, <2>2, Becoming, RowIds, Keys
<1>5. Listed(rows)
  BY ListedMeans DEF Goods
<1>6. \A x \in Listings : ~OnOffer(rows, x, i)
  BY <1>3, <1>5 DEF Listed
<1>7. \A x \in Listings, y \in Items : OnOffer(rows', x, y) <=> OnOffer(rows, x, y)
  BY <1>4 DEF OnOffer
<1>8. Listed(rows')
  <2> SUFFICES ASSUME NEW y \in Items
               PROVE  /\ rows'[Item(y)].reserved <=> \E x \in Listings : OnOffer(rows', x, y)
                      /\ \A x, z \in Listings :
                            OnOffer(rows', x, y) /\ OnOffer(rows', z, y)
                            => x = z /\ rows'[Listing(x)].seller = rows'[Item(y)].owner
    BY DEF Listed
  <2>1. CASE y = i
    BY <1>2, <1>4, <1>6, <1>7, <2>1
  <2>2. CASE y # i
    BY <1>4, <1>5, <1>7, <2>2 DEF Listed
  <2>3. QED
    BY <2>1, <2>2
<1>9. ListedIsReserved'
  BY <1>8, ListedMeans
<1>10. \A x \in Items : rows'[Item(x)] \in ItemRows
  BY <1>2, <1>4 DEF Goods
<1>11. QED
  BY <1>4, <1>9, <1>10 DEF Goods, Item, Listing, ItemRows, ListingRows

\* A sale counts itself, and disables the offer with the last number.
LEMMA SoldIs ==
    ASSUME NEW offer \in OfferRows
    PROVE  /\ Sold(offer) \in OfferRows /\ Sold(offer).stack = offer.stack
           /\ Sold(offer).sells = offer.sells + 1 /\ Sold(offer).version = offer.version + 1
           /\ Sold(offer).forgotten = offer.forgotten
<1> DEFINE left == offer.sells + 1 < offer.stack
           sells == offer.sells + 1
           version == offer.version + 1
           first == [offer EXCEPT !.sells = sells]
           second == [first EXCEPT !.enabled = left]
<1>1. /\ offer = Row6(offer.stack, offer.sells, offer.enabled, offer.version, offer.deleted,
                     offer.forgotten)
      /\ left \in BOOLEAN /\ sells \in Nat /\ offer.stack \in 0 .. MaxStack /\ version \in Nat
      /\ offer.deleted \in BOOLEAN /\ offer.forgotten \in Nat
  <2>1. offer.sells \in Nat /\ offer.version \in Nat
    BY OfferFields
  <2>2. QED
    BY <2>1, OfferFields
<1>2. Sold(offer) = [second EXCEPT !.version = version]
  <2>1. second.version = offer.version
    BY <1>1 DEF Row6
  <2>2. QED
    BY <2>1 DEF Sold
<1> HIDE DEF left, sells, version
<1>3. first = Row6(offer.stack, sells, offer.enabled, offer.version, offer.deleted, offer.forgotten)
  BY <1>1 DEF Row6
<1> HIDE DEF first
<1>4. second = Row6(offer.stack, sells, left, offer.version, offer.deleted, offer.forgotten)
  BY <1>3 DEF Row6
<1> HIDE DEF second
<1>5. Sold(offer) = Row6(offer.stack, sells, left, version, offer.deleted, offer.forgotten)
  BY <1>2, <1>4, RowFields
<1>6. QED
  <2>1. Sold(offer) \in OfferRows
    BY <1>1, <1>5, OfferMade
  <2>2. QED
    BY <1>5, <2>1, RowFields DEF sells, version

\* One number of an offer is sold.
Sells(a, o, n) ==
    /\ rows'[Unit(o, n)] = Ticket(TRUE, a, TRUE) /\ rows'[Offer(o)] = Sold(rows[Offer(o)])
    /\ \A x \in Offers : x # o => rows'[Offer(x)] = rows[Offer(x)]
    /\ \A x \in Offers, m \in Numbers : x # o \/ m # n => rows'[Unit(x, m)] = rows[Unit(x, m)]

\* A sale keeps the numbers counted.
LEMMA SellsKeeps ==
    ASSUME Numbered, NEW a \in Players, NEW o \in Offers, NEW n \in Numbers, Free(o, n), InStock(o),
           Sells(a, o, n)
    PROVE  Numbered' /\ Forward
<1>1. a # None
  BY ProcsAssumption DEF Procs
<1>2. /\ rows'[Unit(o, n)].exists /\ rows'[Unit(o, n)].owner = a /\ rows'[Unit(o, n)] \in UnitRows
  BY DEF Sells, Ticket, UnitRows
<1>3. /\ rows'[Offer(o)] \in OfferRows /\ rows'[Offer(o)].stack = rows[Offer(o)].stack
      /\ rows'[Offer(o)].sells = rows[Offer(o)].sells + 1
           /\ rows'[Offer(o)].sells <= rows'[Offer(o)].stack
      /\ rows'[Offer(o)].version > rows[Offer(o)].version
      /\ rows'[Offer(o)].forgotten = rows[Offer(o)].forgotten
  <2>1. rows[Offer(o)] \in OfferRows /\ rows'[Offer(o)] = Sold(rows[Offer(o)])
    BY DEF Numbered, Sells
  <2>2. QED
    BY <2>1, SoldIs DEF OfferRows, InStock
<1>4. ASSUME NEW x \in Offers, x # o PROVE SameOffer(x)
  BY <1>4 DEF Sells, SameOffer
<1>5. \A m \in Numbers : m # n => rows'[Unit(o, m)] = rows[Unit(o, m)]
  BY DEF Sells
<1>6. Forward
  BY <1>3, <1>4 DEF Forward
<1>7. UnitsFit'
  <2> SUFFICES ASSUME NEW x \in Offers, NEW m \in Numbers
               PROVE  IF rows'[Unit(x, m)].owner = None THEN rows'[Unit(x, m)] \in {NoUnit, Unsold}
                      ELSE rows'[Unit(x, m)].exists
    BY DEF UnitsFit, Unit, Numbers, NoUnit, Unsold
  <2>1. CASE x # o \/ m # n
    BY <2>1 DEF Numbered, UnitsFit, Sells
  <2>2. CASE x = o /\ m = n
    BY <1>1, <1>2, <2>2
  <2>3. QED
    BY <2>1, <2>2
<1>8. UnitsCounted'
  <2> SUFFICES ASSUME NEW x \in Offers
               PROVE  Tallied(rows'[Offer(x)], There(rows', x), Bought(rows', x))
    BY CountedMeans DEF CountedIn
  <2>1. Tallied(rows[Offer(x)], There(rows, x), Bought(rows, x))
    BY CountedMeans DEF CountedIn, Numbered
  <2>2. CASE x # o
    <3>1. There(rows', x) = There(rows, x) /\ Bought(rows', x) = Bought(rows, x)
      BY <1>4, <2>2 DEF SameOffer, There, Bought
    <3>2. QED
      BY <1>4, <2>1, <2>2, <3>1 DEF SameOffer
  <2>3. CASE x = o
    <3>1. There(rows', o) = There(rows, o) /\ n \in There(rows, o)
      BY <1>2, <1>5 DEF Free, There
    <3>2. Bought(rows', o) = Bought(rows, o) \union {n} /\ n \notin Bought(rows, o)
      BY <1>1, <1>2, <1>5 DEF Free, Bought
    <3>3. Cardinality(Bought(rows', o)) = Cardinality(Bought(rows, o)) + 1
      BY <3>2, TakenFinite, FS_AddElement
    <3>4. n \in 1 .. rows[Offer(o)].stack
      BY <2>1, <2>3, <3>1, <3>2 DEF Tallied
    <3>5. rows[Offer(o)].sells \in Nat /\ rows[Offer(o)].forgotten \in Nat
      BY OfferFields DEF Numbered
    <3>6. Cardinality(Bought(rows, o)) = rows[Offer(o)].sells + rows[Offer(o)].forgotten
      BY <2>1, <2>3 DEF Tallied
    <3>7. There(rows', o) = (1 .. rows'[Offer(o)].stack) \union Bought(rows', o)
      BY <1>3, <2>1, <2>3, <3>1, <3>2, <3>4 DEF Tallied
    <3>8. rows'[Offer(o)].forgotten = 0 => Bought(rows', o) \subseteq 1 .. rows'[Offer(o)].stack
      BY <1>3, <2>1, <2>3, <3>2, <3>4 DEF Tallied
    <3>9. QED
      BY <1>3, <2>3, <3>3, <3>5, <3>6, <3>7, <3>8 DEF Tallied
  <2>4. QED
    BY <2>2, <2>3
<1>9. \A x \in Offers : rows'[Offer(x)] \in OfferRows
  BY <1>3, <1>4 DEF SameOffer, Numbered
<1>10. \A x \in Offers, m \in Numbers : rows'[Unit(x, m)] \in UnitRows
  BY <1>2, <1>4, <1>5 DEF SameOffer, Numbered
<1>11. QED
  BY <1>6, <1>7, <1>8, <1>9, <1>10 DEF Numbered, Offer, Unit, OfferRows, UnitRows, Numbers

\* A sale of Bazaar sells one number, whatever else is written.
LEMMA SaleSells ==
    ASSUME RowsFit, NEW a, NEW o \in Offers, NEW n \in Numbers, NEW f, NEW g,
           Atomic!Saleable(o, n), \A r \in DOMAIN f \union DOMAIN g : r[1] \notin {"offer", "unit"},
           \/ Atomic!Become(Atomic!And(f, Atomic!Sale(a, o, n)))
           \/ Atomic!Become(Atomic!And(g, Atomic!And(f, Atomic!Sale(a, o, n))))
    PROVE  Sells(a, o, n) /\ Free(o, n) /\ InStock(o)
<1>1. Free(o, n) /\ InStock(o)
  <2>1. rows[Offer(o)].sells < rows[Offer(o)].stack /\ Free(o, n)
    BY Alike DEF Atomic!Saleable, Free
  <2>2. QED
    BY <2>1 DEF RowsFit, OfferRows, InStock
<1> DEFINE sale == Atomic!Sale(a, o, n)
<1>2. sale = NumberSold(a, o, n)
  BY <1>1, SalesAlike
<1>3. /\ DOMAIN sale = {Unit(o, n), Offer(o)} /\ sale[Offer(o)] = Sold(rows[Offer(o)])
      /\ sale[Unit(o, n)] = Ticket(TRUE, a, TRUE)
  <2> DEFINE unit == Ticket(TRUE, a, TRUE)
  <2>1. sale = Over(One(Unit(o, n), unit), One(Offer(o), Sold(rows[Offer(o)])))
    <3>1. sale = Atomic!And(Atomic!To("unit", <<o, n>>, unit),
            Atomic!To("offer", o, Sold(Atomic!Offer(o))))
      BY Zenon DEF Atomic!Sale, Sold, Ticket
    <3> HIDE DEF unit, sale
    <3>2. QED
      BY <3>1, Alike
  <2> HIDE DEF unit, sale
  <2>2. Unit(o, n) # Offer(o)
    BY Keys
  <2>3. QED
    BY <2>1, <2>2 DEF Over, One, unit
<1> HIDE DEF sale
<1>4. \/ \A r \in DOMAIN rows : rows'[r] = Land2(f, sale, r)
      \/ \A r \in DOMAIN rows : rows'[r] = Land3(g, f, sale, r)
  BY Landing DEF sale
<1>5. \A r \in DOMAIN rows : r[1] \in {"offer", "unit"} =>
         rows'[r] = IF r \in DOMAIN sale THEN sale[r] ELSE rows[r]
  BY <1>4 DEF Land2, Land3
<1>6. Sells(a, o, n)
  <2>1. /\ \A x \in Offers : Offer(x) \in DOMAIN rows /\ Offer(x)[1] = "offer"
        /\ \A x \in Offers, m \in Numbers : Unit(x, m) \in DOMAIN rows /\ Unit(x, m)[1] = "unit"
    BY RowIds, Keys
  <2>2. /\ \A x \in Offers : Offer(x) \in DOMAIN sale <=> x = o
        /\ \A x \in Offers, m \in Numbers : Unit(x, m) \in DOMAIN sale <=> x = o /\ m = n
    BY <1>3, Keys
  <2>3. QED
    BY <1>3, <1>5, <2>1, <2>2 DEF Sells
<1>7. QED
  BY <1>1, <1>6

\* An offer changes, and its unsold numbers are those up to its stack.
Restacked(old, new) ==
    \/ /\ new.sells = old.sells /\ new.forgotten = old.forgotten
       /\ new.stack >= old.sells /\ (old.sells > 0 => new.stack >= old.stack)
    \/ new.stack = 0 /\ new.sells = 0 /\ new.forgotten = old.forgotten + old.sells
Restocked(o) ==
    /\ \A x \in Offers : x # o => SameOffer(x)
    /\ rows'[Offer(o)] \in OfferRows /\ rows'[Offer(o)].version > rows[Offer(o)].version
    /\ Restacked(rows[Offer(o)], rows'[Offer(o)])
    /\ \A m \in Numbers : rows'[Unit(o, m)] = IF rows[Unit(o, m)].owner # None THEN rows[Unit(o, m)]
                                              ELSE IF m <= rows'[Offer(o)].stack THEN Unsold ELSE NoUnit

\* Sold numbers stay counted when the stack grows, and when their sales are dropped.
LEMMA StillTallied ==
    ASSUME NEW old \in OfferRows, NEW new \in OfferRows, NEW taken, IsFiniteSet(taken),
           NEW there, NEW there1, Tallied(old, there, taken), Restacked(old, new),
           there1 = (1 .. new.stack) \union taken
    PROVE  Tallied(new, there1, taken)
<1>1. /\ old.sells \in Nat /\ old.forgotten \in Nat /\ old.stack \in Nat
      /\ new.sells \in Nat /\ new.forgotten \in Nat /\ new.stack \in Nat
  BY OfferFields
<1>2. Cardinality(taken) = old.sells + old.forgotten
  BY DEF Tallied
<1>3. new.sells + new.forgotten = Cardinality(taken) /\ new.sells <= new.stack
  BY <1>1, <1>2 DEF Restacked
<1>4. ASSUME new.forgotten = 0
      PROVE  taken \subseteq 1 .. new.stack
  <2>1. old.forgotten = 0
    BY <1>1, <1>4 DEF Restacked
  <2>2. CASE old.sells = 0
    <3>1. taken = {}
      BY <1>2, <2>1, <2>2, FS_EmptySet
    <3>2. QED
      BY <3>1
  <2>3. CASE old.sells > 0
    <3>1. new.stack >= old.stack
      BY <1>1, <1>4, <2>3 DEF Restacked
    <3>2. taken \subseteq 1 .. old.stack
      BY <2>1 DEF Tallied
    <3>3. QED
      BY <1>1, <3>1, <3>2
  <2>4. QED
    BY <1>1, <2>2, <2>3
<1>5. QED
  BY <1>3, <1>4 DEF Tallied

\* So a change of an offer keeps the numbers counted.
LEMMA RestockedKeeps ==
    ASSUME Numbered, NEW o \in Offers, Restocked(o)
    PROVE  Numbered' /\ Forward
<1>1. /\ ~NoUnit.exists /\ NoUnit.owner = None /\ Unsold.exists /\ Unsold.owner = None
      /\ NoUnit \in UnitRows /\ Unsold \in UnitRows
  BY DEF NoUnit, Unsold, UnitRows
<1>2. Forward
  BY DEF Forward, Restocked
<1>3. UnitsFit'
  <2> SUFFICES ASSUME NEW x \in Offers, NEW m \in Numbers
               PROVE  IF rows'[Unit(x, m)].owner = None THEN rows'[Unit(x, m)] \in {NoUnit, Unsold}
                      ELSE rows'[Unit(x, m)].exists
    BY DEF UnitsFit, Unit, Numbers, NoUnit, Unsold
  <2>1. CASE x # o
    BY <2>1 DEF Numbered, UnitsFit, Restocked, SameOffer
  <2>2. CASE x = o
    BY <1>1, <2>2 DEF Numbered, UnitsFit, Restocked
  <2>3. QED
    BY <2>1, <2>2
<1>4. UnitsCounted'
  <2> SUFFICES ASSUME NEW x \in Offers
               PROVE  Tallied(rows'[Offer(x)], There(rows', x), Bought(rows', x))
    BY CountedMeans DEF CountedIn
  <2>1. Tallied(rows[Offer(x)], There(rows, x), Bought(rows, x))
    BY CountedMeans DEF CountedIn, Numbered
  <2>2. CASE x # o
    <3>1. SameOffer(x)
      BY <2>2 DEF Restocked
    <3>2. There(rows', x) = There(rows, x) /\ Bought(rows', x) = Bought(rows, x)
      BY <3>1 DEF SameOffer, There, Bought
    <3>3. QED
      BY <2>1, <3>1, <3>2 DEF SameOffer
  <2>3. CASE x = o
    <3>1. Bought(rows', o) = Bought(rows, o)
      BY <1>1 DEF Restocked, Bought
    <3>2. rows'[Offer(o)] \in OfferRows /\ rows[Offer(o)] \in OfferRows
          /\ rows'[Offer(o)].stack \in 0 .. MaxStack
      BY OfferFields DEF Restocked, Numbered
    <3>3. \A m \in Numbers : rows'[Unit(o, m)].exists <=>
             rows[Unit(o, m)].owner # None \/ m <= rows'[Offer(o)].stack
      <4> TAKE m \in Numbers
      <4>1. CASE rows[Unit(o, m)].owner # None
        BY <4>1 DEF Restocked, Numbered, UnitsFit
      <4>2. CASE rows[Unit(o, m)].owner = None
        BY <1>1, <4>2 DEF Restocked
      <4>3. QED
        BY <4>1, <4>2
    <3>4. There(rows', o) = (1 .. rows'[Offer(o)].stack) \union Bought(rows', o)
      <4>1. \A m : m \in 1 .. rows'[Offer(o)].stack <=> m \in Numbers /\ m <= rows'[Offer(o)].stack
        BY <3>2, CatalogAssumption DEF Numbers
      <4>2. There(rows', o) = {m \in Numbers : rows[Unit(o, m)].owner # None
                                                \/ m <= rows'[Offer(o)].stack}
        BY <3>3 DEF There
      <4>3. QED
        BY <3>1, <4>1, <4>2 DEF Bought
    <3>5. Restacked(rows[Offer(o)], rows'[Offer(o)])
      BY DEF Restocked
    <3>6. QED
      BY <2>1, <2>3, <3>1, <3>2, <3>4, <3>5, TakenFinite, StillTallied
  <2>4. QED
    BY <2>2, <2>3
<1>5. \A x \in Offers : rows'[Offer(x)] \in OfferRows
  BY DEF Restocked, SameOffer, Numbered
<1>6. \A x \in Offers, m \in Numbers : rows'[Unit(x, m)] \in UnitRows
  BY <1>1 DEF Restocked, SameOffer, Numbered
<1>7. QED
  BY <1>2, <1>3, <1>4, <1>5, <1>6 DEF Numbered, Offer, Unit, OfferRows, UnitRows, Numbers

Removed(row) == [row EXCEPT !.deleted = TRUE, !.version = @ + 1]

\* A change and a removal move the version on.
LEMMA NewerOffers ==
    ASSUME NEW row \in OfferRows
    PROVE  /\ row.version \in Nat
           /\ [row EXCEPT !.version = @ + 1]
                = Row6(row.stack, row.sells, row.enabled, row.version + 1, row.deleted, row.forgotten)
           /\ Removed(row).stack = row.stack /\ Removed(row).sells = row.sells
           /\ Removed(row).version = row.version + 1 /\ Removed(row).forgotten = row.forgotten
           /\ [row EXCEPT !.version = @ + 1] \in OfferRows /\ Removed(row) \in OfferRows
<1> DEFINE gone == TRUE
           next == row.version + 1
           first == [row EXCEPT !.deleted = gone]
<1>1. /\ row = Row6(row.stack, row.sells, row.enabled, row.version, row.deleted, row.forgotten)
      /\ row.version \in Nat /\ next \in Nat /\ gone \in BOOLEAN
  <2>1. row.version \in Nat
    BY OfferFields
  <2>2. QED
    BY <2>1, OfferFields
<1>2. [row EXCEPT !.version = @ + 1] = [row EXCEPT !.version = next]
  OBVIOUS
<1>3. Removed(row) = [first EXCEPT !.version = next]
  <2>1. first.version = row.version
    BY <1>1 DEF Row6
  <2>2. QED
    BY <2>1 DEF Removed
<1> HIDE DEF gone, next
<1>4. first = Row6(row.stack, row.sells, row.enabled, row.version, gone, row.forgotten)
  BY <1>1 DEF Row6
<1> HIDE DEF first
<1>5. Removed(row) = Row6(row.stack, row.sells, row.enabled, next, gone, row.forgotten)
  BY <1>3, <1>4, RowFields
<1>6. [row EXCEPT !.version = @ + 1]
        = Row6(row.stack, row.sells, row.enabled, next, row.deleted, row.forgotten)
  BY <1>1, <1>2, RowFields
<1>7. Removed(row) \in OfferRows /\ [row EXCEPT !.version = @ + 1] \in OfferRows
  <2>1. /\ row.stack \in 0 .. MaxStack /\ row.sells \in Nat /\ row.forgotten \in Nat
        /\ row.deleted \in BOOLEAN /\ row.enabled \in BOOLEAN
    BY OfferFields
  <2>2. Row6(row.stack, row.sells, row.enabled, next, gone, row.forgotten) \in OfferRows
    BY <1>1, <2>1, OfferMade
  <2>3. Row6(row.stack, row.sells, row.enabled, next, row.deleted, row.forgotten) \in OfferRows
    BY <1>1, <2>1, OfferMade
  <2>4. QED
    BY <1>5, <1>6, <2>2, <2>3, Zenon
<1>8. /\ Removed(row).stack = row.stack /\ Removed(row).sells = row.sells
      /\ Removed(row).version = next /\ Removed(row).forgotten = row.forgotten
  BY <1>5, RowFields
<1>9. /\ Removed(row).version = row.version + 1
      /\ [row EXCEPT !.version = @ + 1]
           = Row6(row.stack, row.sells, row.enabled, row.version + 1, row.deleted, row.forgotten)
  BY <1>6, <1>8, Zenon DEF next
<1>10. QED
  BY <1>1, <1>7, <1>8, <1>9, Zenon

\* Changing an offer restocks it.
LEMMA ChangeRestocks ==
    ASSUME RowsFit, Numbered, NEW o \in Offers, NEW offer \in OfferRows,
           offer.version = rows[Offer(o)].version, Restacked(rows[Offer(o)], offer),
           Atomic!Change(o, offer)
    PROVE  Restocked(o)
<1> DEFINE later == [offer EXCEPT !.version = @ + 1]
           new == [r \in {<<"offer", o>>} \union {<<"unit", <<o, n>>>> : n \in 1 .. MaxStack} |->
                     IF r[1] = "offer" THEN later
                     ELSE IF rows[r].owner # None THEN rows[r]
                     ELSE [rows[r] EXCEPT !.exists = r[2][2] <= offer.stack]]
           row == rows[Offer(o)]
<1>1. Atomic!Become(new)
  BY DEF Atomic!Change
<1>2. DOMAIN new = {Offer(o)} \union {Unit(o, n) : n \in Numbers}
  BY DEF Offer, Unit, Numbers
<1>3. row \in OfferRows /\ row.version \in Nat /\ offer.stack \in Nat
  BY OfferFields DEF RowsFit
<1>4. new[Offer(o)] = later
  BY <1>2, Keys
<1>5. ASSUME NEW n \in Numbers
      PROVE  new[Unit(o, n)] = IF rows[Unit(o, n)].owner # None THEN rows[Unit(o, n)]
                               ELSE IF n <= offer.stack THEN Unsold ELSE NoUnit
  <2>1. Unit(o, n)[1] = "unit" /\ Unit(o, n)[2][2] = n /\ Unit(o, n) \in DOMAIN new
    BY <1>2, Keys
  <2>2. CASE rows[Unit(o, n)].owner # None
    BY <2>1, <2>2
  <2>3. CASE rows[Unit(o, n)].owner = None
    <3>1. new[Unit(o, n)] = Standing(rows[Unit(o, n)], n <= offer.stack)
      BY <2>1, <2>3 DEF Standing
    <3>2. rows[Unit(o, n)] \in {NoUnit, Unsold}
      BY <2>3 DEF Numbered, UnitsFit
    <3>3. (n <= offer.stack) \in BOOLEAN
      BY <1>3 DEF Numbers
    <3>4. QED
      BY <2>3, <3>1, <3>2, <3>3, NumberStands
  <2>4. QED
    BY <2>2, <2>3
<1> HIDE DEF new
<1>6. /\ rows'[Offer(o)] = later /\ \A n \in Numbers : rows'[Unit(o, n)] = new[Unit(o, n)]
      /\ \A x \in Offers : x # o => SameOffer(x)
  BY <1>1, <1>2, <1>4, Becoming, RowIds, Keys DEF SameOffer
<1>7. /\ later \in OfferRows /\ later.stack = offer.stack /\ later.sells = offer.sells
      /\ later.forgotten = offer.forgotten /\ later.version = row.version + 1
  <2>1. later = Row6(offer.stack, offer.sells, offer.enabled, offer.version + 1, offer.deleted,
                     offer.forgotten) /\ later \in OfferRows
    BY NewerOffers
  <2> HIDE DEF later, row
  <2>2. QED
    BY <2>1, RowFields DEF row
<1> HIDE DEF later, row
<1>8. Restacked(row, later)
  BY <1>7 DEF Restacked, row
<1>9. \A m \in Numbers : rows'[Unit(o, m)] = IF rows[Unit(o, m)].owner # None THEN rows[Unit(o, m)]
                                            ELSE IF m <= later.stack THEN Unsold ELSE NoUnit
  BY <1>5, <1>6, <1>7
<1>10. QED
  BY <1>3, <1>6, <1>7, <1>8, <1>9 DEF Restocked, row

\* So do the two patches.
LEMMA PatchRestocks ==
    ASSUME RowsFit, Numbered, NEW o \in Offers, NEW enabled \in BOOLEAN,
           Atomic!Unlimit(o, enabled) \/ \E stack \in 0 .. MaxStack : Atomic!Update(o, stack, enabled)
    PROVE  Restocked(o)
<1> DEFINE row == rows[Offer(o)]
<1>1. row \in OfferRows /\ Atomic!Offer(o) = row
  BY Alike DEF RowsFit
<1>2. ASSUME NEW stack \in 0 .. MaxStack, Atomic!Update(o, stack, enabled)
      PROVE  Restocked(o)
  <2> DEFINE offer == Patch(row, stack, enabled)
  <2>1. stack >= row.sells /\ (row.sells > 0 => stack >= row.stack) /\ Atomic!Change(o, offer)
    BY <1>1, <1>2 DEF Atomic!Update, Patch
  <2>2. offer = Row6(stack, row.sells, enabled, row.version, row.deleted, row.forgotten)
        /\ offer \in OfferRows
    BY <1>1, Patches
  <2> HIDE DEF row, offer
  <2>3. /\ offer.stack = stack /\ offer.sells = row.sells /\ offer.version = row.version
        /\ offer.forgotten = row.forgotten
    BY <2>2, RowFields
  <2>4. Restacked(row, offer)
    BY <2>1, <2>3 DEF Restacked
  <2>5. QED
    BY <2>1, <2>2, <2>3, <2>4, ChangeRestocks DEF row
<1>3. ASSUME Atomic!Unlimit(o, enabled)
      PROVE  Restocked(o)
  <2> DEFINE offer == Bundle(row, enabled)
  <2>1. Atomic!Change(o, offer)
    BY <1>1, <1>3 DEF Atomic!Unlimit, Bundle
  <2>2. offer = Row6(0, 0, enabled, row.version, row.deleted, row.forgotten + row.sells)
        /\ offer \in OfferRows
    <3>1. 0 \in 0 .. MaxStack
      BY CatalogAssumption
    <3>2. QED
      BY <1>1, <3>1, Patches
  <2> HIDE DEF row, offer
  <2>3. /\ offer.stack = 0 /\ offer.sells = 0 /\ offer.version = row.version
        /\ offer.forgotten = row.forgotten + row.sells
    BY <2>2, RowFields
  <2>4. Restacked(row, offer)
    BY <2>3 DEF Restacked
  <2>5. QED
    BY <2>1, <2>2, <2>3, <2>4, ChangeRestocks DEF row
<1>4. QED
  BY <1>2, <1>3

\* Deleting an offer leaves its stack.
LEMMA DeleteRestocks ==
    ASSUME RowsFit, Numbered, NEW o \in Offers, Atomic!Delete(o)
    PROVE  Restocked(o)
<1> DEFINE row == rows[Offer(o)]
           new == One(Offer(o), Removed(row))
<1>1. Atomic!Become(new)
  <2>1. Atomic!Become(Atomic!To("offer", o, Removed(Atomic!Offer(o))))
    BY Zenon DEF Atomic!Delete, Removed
  <2>2. QED
    BY <2>1, Alike
<1>2. row \in OfferRows /\ row.version \in Nat /\ row.stack \in 0 .. MaxStack /\ row.sells \in Nat
  BY OfferFields DEF RowsFit
<1>3. /\ Removed(row) \in OfferRows /\ Removed(row).stack = row.stack /\ Removed(row).sells = row.sells
      /\ Removed(row).version = row.version + 1 /\ Removed(row).forgotten = row.forgotten
  BY <1>2, NewerOffers
<1>4. DOMAIN new = {Offer(o)} /\ new[Offer(o)] = Removed(row)
  BY Touches
<1> HIDE DEF new
<1>5. /\ rows'[Offer(o)] = Removed(row) /\ \A n \in Numbers : rows'[Unit(o, n)] = rows[Unit(o, n)]
      /\ \A x \in Offers : x # o => SameOffer(x)
  BY <1>1, <1>4, Becoming, RowIds, Keys DEF SameOffer
<1>6. Tallied(row, There(rows, o), Bought(rows, o))
  BY CountedMeans DEF CountedIn, Numbered
<1>7. ASSUME NEW m \in Numbers, rows[Unit(o, m)].owner = None
      PROVE  rows[Unit(o, m)] = IF m <= row.stack THEN Unsold ELSE NoUnit
  <2>1. rows[Unit(o, m)] \in {NoUnit, Unsold}
    BY <1>7 DEF Numbered, UnitsFit
  <2>2. rows[Unit(o, m)].exists <=> m <= row.stack
    <3>1. m \in There(rows, o) <=> m \in 1 .. row.stack
      BY <1>6, <1>7 DEF Tallied, Bought
    <3>2. QED
      BY <1>2, <3>1 DEF There, Numbers
  <2>3. ~NoUnit.exists /\ Unsold.exists
    BY DEF NoUnit, Unsold
  <2>4. QED
    BY <2>1, <2>2, <2>3
<1> HIDE DEF row
<1>8. Restacked(row, Removed(row))
  BY <1>2, <1>3, <1>6 DEF Restacked, Tallied
<1>9. QED
  BY <1>2, <1>3, <1>5, <1>7, <1>8 DEF Restocked, row

\* The tables that Bazaar's writes name.
LEMMA Tables ==
    /\ \A a, sum : \A r \in DOMAIN Atomic!Pay(a, sum) : r[1] = "balance"
    /\ \A kind, id, value : \A r \in DOMAIN Atomic!To(kind, id, value) : r[1] = kind
    /\ \A f, g : \A r \in DOMAIN Atomic!And(f, g) : r \in DOMAIN f \/ r \in DOMAIN g
  BY DEF Atomic!Pay, Atomic!To, Atomic!And

\* What keeps the marketplace's rows, and leaves the catalog's.
LEMMA MarketKeeps ==
    ASSUME CommittedFit, NEW a \in Players,
           \/ Atomic!BuyTokens(a) \/ Atomic!PurchaseUnlimited(a) \/ Atomic!Set(a, 0)
           \/ \E i \in Items, l \in Listings, price \in Prices : Atomic!List(a, i, l, price)
           \/ \E l \in Listings : Atomic!Buy(a, l)
           \/ \E sold \in SUBSET Atomic!Sales(a) : Atomic!Redeem(a, sold)
           \/ \E b \in Players, i \in Items : Atomic!Settle(a, b, i)
    PROVE  CommittedFit' /\ Forward
<1>1. RowsFit /\ Goods /\ Numbered
  BY Halves DEF CommittedFit
<1>2. ASSUME NEW new, Atomic!Become(new), \A r \in DOMAIN new : r[1] \notin {"offer", "unit"}, Goods'
      PROVE  CommittedFit' /\ Forward
  <2>1. rows' = [r \in MarketRows \union CatalogRows |-> rows'[r]]
    BY <1>1, <1>2, Becoming
  <2>2. Numbered' /\ Forward
    BY <1>1, <1>2, NumbersStay
  <2>3. QED
    BY <1>2, <2>1, <2>2, HalvesNext
<1>3. ASSUME NEW new, Atomic!Become(new), \A r \in DOMAIN new : r[1] \in {"balance", "tokens"}
      PROVE  CommittedFit' /\ Forward
  <2>1. Goods'
    BY <1>1, <1>3, GoodsStay
  <2>2. QED
    BY <1>2, <1>3, <2>1
<1>4. CASE Atomic!BuyTokens(a)
  BY <1>3, <1>4, Tables DEF Atomic!BuyTokens
<1>5. CASE Atomic!PurchaseUnlimited(a)
  BY <1>3, <1>5, Tables DEF Atomic!PurchaseUnlimited
<1>6. CASE Atomic!Set(a, 0)
  BY <1>3, <1>6, Tables DEF Atomic!Set
<1>7. ASSUME NEW i \in Items, NEW l \in Listings, NEW price \in Prices, Atomic!List(a, i, l, price)
      PROVE  CommittedFit' /\ Forward
  <2>1. Goods'
    BY <1>1, <1>7, ListKeeps
  <2>2. PICK f, g, h : /\ Atomic!Become(Atomic!And(f, Atomic!And(g, h)))
                       /\ \A r \in DOMAIN f \union DOMAIN g
                            \union DOMAIN h : r[1] \notin {"offer", "unit"}
    BY <1>7, Tables DEF Atomic!List
  <2>3. QED
    BY <1>2, <2>1, <2>2, Tables
<1>8. ASSUME NEW l \in Listings, Atomic!Buy(a, l)
      PROVE  CommittedFit' /\ Forward
  <2>1. Goods'
    BY <1>1, <1>8, BuyKeeps
  <2>2. PICK f, g, h : /\ Atomic!Become(Atomic!And(f, Atomic!And(g, h)))
                       /\ \A r \in DOMAIN f \union DOMAIN g
                            \union DOMAIN h : r[1] \notin {"offer", "unit"}
    BY <1>8, Tables DEF Atomic!Buy
  <2>3. QED
    BY <1>2, <2>1, <2>2, Tables
<1>9. ASSUME NEW sold \in SUBSET Atomic!Sales(a), Atomic!Redeem(a, sold)
      PROVE  CommittedFit' /\ Forward
  <2>1. Goods'
    BY <1>1, <1>9, RedeemKeeps
  <2> DEFINE redeemed == [r \in {<<"listing", l>> : l \in sold} |-> [rows[r] EXCEPT !.redeemed = TRUE]]
             pay == Atomic!Pay(a, Atomic!SumFunction([l \in sold |-> Atomic!Listing(l).price]))
  <2>2. Atomic!Become(Atomic!And(redeemed, pay))
    BY <1>9 DEF Atomic!Redeem
  <2>3. \A r \in DOMAIN redeemed : r[1] = "listing"
    OBVIOUS
  <2>4. \A r \in DOMAIN pay : r[1] = "balance"
    BY Tables
  <2> HIDE DEF redeemed, pay
  <2>5. QED
    BY <1>2, <2>1, <2>2, <2>3, <2>4, Tables
<1>10. ASSUME NEW b \in Players, NEW i \in Items, Atomic!Settle(a, b, i)
       PROVE  CommittedFit' /\ Forward
  <2>1. Goods'
    BY <1>1, <1>10, SettleKeeps
  <2>2. QED
    BY <1>2, <1>10, <2>1, Tables DEF Atomic!Settle
<1>11. QED
  BY <1>4, <1>5, <1>6, <1>7, <1>8, <1>9, <1>10

\* What keeps the catalog's rows, and leaves the marketplace's.
LEMMA CatalogKeeps ==
    ASSUME CommittedFit,
           \/ \E a \in Players, o \in Offers, n \in 1 .. MaxStack : Atomic!Purchase(a, o, n)
           \/ \E a \in Players : \E gift \in Atomic!Gifts(a) : Atomic!Voucher(a, gift)
           \/ \E o \in Offers : Atomic!Delete(o)
           \/ \E o \in Offers, enabled \in BOOLEAN :
                 \/ Atomic!Unlimit(o, enabled)
                 \/ \E stack \in 0 .. MaxStack : Atomic!Update(o, stack, enabled)
    PROVE  CommittedFit' /\ Forward
<1>1. RowsFit /\ Goods /\ Numbered
  BY Halves DEF CommittedFit
<1>2. ASSUME NEW new, Atomic!Become(new), \A r \in DOMAIN new : r[1] \notin {"item", "listing"},
             Numbered' /\ Forward
      PROVE  CommittedFit' /\ Forward
  <2>1. rows' = [r \in MarketRows \union CatalogRows |-> rows'[r]]
    BY <1>1, <1>2, Becoming
  <2>2. Goods'
    BY <1>1, <1>2, GoodsStay
  <2>3. QED
    BY <1>2, <2>1, <2>2, HalvesNext
<1>3. \A a, o, n : \A r \in DOMAIN Atomic!Sale(a, o, n) : r[1] \in {"offer", "unit"}
  BY Tables DEF Atomic!Sale
<1>4. ASSUME NEW a \in Players, NEW o \in Offers, NEW n \in 1 .. MaxStack, Atomic!Purchase(a, o, n)
      PROVE  CommittedFit' /\ Forward
  <2> DEFINE pay == Atomic!Pay(a, -Cost) sale == Atomic!Sale(a, o, n)
  <2>1. n \in Numbers /\ Atomic!Saleable(o, n) /\ Atomic!Become(Atomic!And(pay, sale))
    BY <1>4 DEF Atomic!Purchase, Numbers
  <2>2. \A r \in DOMAIN pay : r[1] = "balance"
    BY Tables
  <2>3. Sells(a, o, n) /\ Free(o, n) /\ InStock(o)
    <3> HIDE DEF pay
    <3>1. QED
      BY <1>1, <2>1, <2>2, SaleSells
  <2>4. Numbered' /\ Forward
    BY <1>1, <2>1, <2>3, SellsKeeps
  <2> HIDE DEF pay
  <2>5. QED
    BY <1>2, <1>3, <2>1, <2>2, <2>4, Tables
<1>5. ASSUME NEW a \in Players, NEW gift \in Atomic!Gifts(a), Atomic!Voucher(a, gift)
      PROVE  CommittedFit' /\ Forward
  <2> DEFINE pay == Atomic!Pay(a, VoucherCredits) red == Atomic!To("redemption", a, TRUE)
  <2>1. Atomic!Become(Atomic!And(red, Atomic!And(pay, gift)))
    BY <1>5 DEF Atomic!Voucher
  <2>2. \A r \in DOMAIN pay \union DOMAIN red : r[1] \in {"balance", "redemption"}
    BY Tables
  <2> HIDE DEF pay, red
  <2>3. CASE gift = Atomic!Pay(a, 0)
    <3>1. \A r \in DOMAIN Atomic!And(red, Atomic!And(pay, gift)) : r[1] \in {"balance", "redemption"}
      BY <2>2, <2>3, Tables
    <3>2. Numbered' /\ Forward
      BY <1>1, <2>1, <3>1, NumbersStay
    <3>3. QED
      BY <1>2, <2>1, <3>1, <3>2
  <2>4. ASSUME NEW n \in 1 .. MaxStack, VoucherOffer # None, Atomic!Saleable(VoucherOffer, n),
               gift = Atomic!Sale(a, VoucherOffer, n)
        PROVE  CommittedFit' /\ Forward
    <3>1. VoucherOffer \in Offers /\ n \in Numbers
      BY <2>4, CatalogAssumption DEF Numbers
    <3>2. Sells(a, VoucherOffer, n) /\ Free(VoucherOffer, n) /\ InStock(VoucherOffer)
      BY <1>1, <2>1, <2>2, <2>4, <3>1, SaleSells
    <3>3. Numbered' /\ Forward
      BY <1>1, <3>1, <3>2, SellsKeeps
    <3>4. \A r \in DOMAIN Atomic!And(red, Atomic!And(pay, gift)) : r[1] \notin {"item", "listing"}
      BY <1>3, <2>2, <2>4, Tables
    <3>5. QED
      BY <1>2, <2>1, <3>3, <3>4
  <2>5. gift = Atomic!Pay(a, 0)
        \/ \E n \in 1 .. MaxStack : VoucherOffer # None /\ Atomic!Saleable(VoucherOffer, n)
                                    /\ gift = Atomic!Sale(a, VoucherOffer, n)
    BY <1>5 DEF Atomic!Gifts
  <2>6. QED
    BY <2>3, <2>4, <2>5
<1>6. ASSUME NEW o \in Offers, Atomic!Delete(o)
      PROVE  CommittedFit' /\ Forward
  <2>1. Numbered' /\ Forward
    BY <1>1, <1>6, DeleteRestocks, RestockedKeeps
  <2>2. PICK value : Atomic!Become(Atomic!To("offer", o, value))
    BY <1>6 DEF Atomic!Delete
  <2>3. QED
    BY <1>2, <2>1, <2>2, Tables
<1>7. ASSUME NEW o \in Offers, NEW enabled \in BOOLEAN,
             \/ Atomic!Unlimit(o, enabled)
             \/ \E stack \in 0 .. MaxStack : Atomic!Update(o, stack, enabled)
      PROVE  CommittedFit' /\ Forward
  <2>1. Numbered' /\ Forward
    BY <1>1, <1>7, PatchRestocks, RestockedKeeps
  <2>2. PICK offer : Atomic!Change(o, offer)
    BY <1>7 DEF Atomic!Update, Atomic!Unlimit
  <2> DEFINE new == [r \in {<<"offer", o>>} \union {<<"unit", <<o, n>>>> : n \in 1 .. MaxStack} |->
                       IF r[1] = "offer" THEN [offer EXCEPT !.version = @ + 1]
                       ELSE IF rows[r].owner # None THEN rows[r]
                       ELSE [rows[r] EXCEPT !.exists = r[2][2] <= offer.stack]]
  <2>3. Atomic!Become(new)
    BY <2>2 DEF Atomic!Change
  <2>4. \A r \in DOMAIN new : r[1] \in {"offer", "unit"}
    OBVIOUS
  <2> HIDE DEF new
  <2>5. QED
    BY <1>2, <2>1, <2>3, <2>4
<1>8. QED
  BY <1>4, <1>5, <1>6, <1>7

\* Every operation of Bazaar keeps what is committed.
LEMMA OperationKeeps ==
    ASSUME CommittedFit, Atomic!Operation
    PROVE  CommittedFit' /\ Forward
<1>1. ASSUME NEW l \in Listings, Atomic!Withdraw(l)
      PROVE  CommittedFit' /\ Forward
  <2>1. RowsFit /\ Goods /\ Numbered
    BY Halves DEF CommittedFit
  <2>2. PICK f, g : /\ Atomic!Become(Atomic!And(f, g))
                    /\ \A r \in DOMAIN f \union DOMAIN g : r[1] \in {"listing", "item"}
    BY <1>1, Tables DEF Atomic!Withdraw
  <2>3. \A r \in DOMAIN Atomic!And(f, g) : r[1] \notin {"offer", "unit"}
    BY <2>2, Tables
  <2>4. Goods'
    BY <1>1, <2>1, WithdrawKeeps
  <2>5. Numbered' /\ Forward
    BY <2>1, <2>2, <2>3, NumbersStay
  <2>6. rows' = [r \in MarketRows \union CatalogRows |-> rows'[r]]
    BY <2>1, <2>2, Becoming
  <2>7. QED
    BY <2>4, <2>5, <2>6, HalvesNext
<1>2. QED
  BY <1>1, MarketKeeps, CatalogKeeps DEF Atomic!Operation

-----------------------------------------------------------------------------
(***************************************************************************)
(* Every step.                                                             *)
(***************************************************************************)
\* While nothing is committed the rows keep what they keep.
LEMMA RowsStay ==
    ASSUME UNCHANGED rows
    PROVE  (CommittedFit => CommittedFit') /\ (RowsFit => RowsFit')
<1>1. RowsFit => RowsFit'
  <2>1. RowsFit => rows' = [r \in MarketRows \union CatalogRows |-> rows'[r]]
    BY DEF RowsFit
  <2>2. RowsFit => \A i \in Items : rows'[Item(i)] \in ItemRows
    BY DEF RowsFit
  <2>3. RowsFit => \A l \in Listings :
                      /\ rows'[Listing(l)] \in ListingRows
                      /\ rows'[Listing(l)].state # "none" =>
                            rows'[Listing(l)].item \in Items /\ rows'[Listing(l)].seller \in Players
    BY DEF RowsFit
  <2>4. RowsFit => \A o \in Offers : rows'[Offer(o)] \in OfferRows
    BY DEF RowsFit
  <2>5. RowsFit => \A o \in Offers, n \in Numbers : rows'[Unit(o, n)] \in UnitRows
    BY DEF RowsFit
  <2>6. QED
    BY <2>1, <2>2, <2>3, <2>4, <2>5 DEF RowsFit
<1>2. ListedIsReserved => ListedIsReserved'
  BY ListedMeans
<1>3. UnitsFit => UnitsFit'
  BY DEF UnitsFit
<1>4. UnitsCounted => UnitsCounted'
  BY DEF UnitsCounted
<1>5. QED
  BY <1>1, <1>2, <1>3, <1>4 DEF CommittedFit

\* A commit of p leaves what the others have locked, and read.
LEMMA CommitUndisturbs ==
    ASSUME RowsFit, TransactionsFit, NEW p \in Procs, Commit(p), Forward \/ UNCHANGED rows,
           NEW q \in Procs \ {p}
    PROVE  Undisturbed(q)
<1>1. Fits(q) /\ Locks(p) \cap Locks(q) = {} /\ Shapes
  BY DEF TransactionsFit, LocksApart
<1>2. \A r \in Locks(q) : rows'[r] = rows[r]
  BY <1>1, LocksExist, CommitIs
<1>3. todo'[q] = todo[q] /\ job'[q] = job[q] /\ writes'[q] = writes[q]
  BY <1>1, CommitIs
<1>4. ASSUME NEW o \in Offers
      PROVE  /\ rows'[Offer(o)] = rows[Offer(o)] \/ rows'[Offer(o)].version > rows[Offer(o)].version
             /\ Offer(o) \in Locks(q) => \A n \in Numbers : rows'[Unit(o, n)] = rows[Unit(o, n)]
  <2>1. rows[Offer(o)].version \in Nat
    BY DEF RowsFit, OfferRows
  <2>2. CASE UNCHANGED rows
    BY <2>2
  <2>3. CASE Forward
    BY <1>2, <2>1, <2>3 DEF Forward, SameOffer
  <2>4. QED
    BY <2>2, <2>3
<1>5. QED
  BY <1>2, <1>3, <1>4 DEF Undisturbed

\* A step that commits nothing keeps the others' transactions, if it locks only
\* what nobody else had locked.
LEMMA QuietStep ==
    ASSUME RowsFit, TransactionsFit, NEW p \in Procs, UNCHANGED rows, Shapes', Others(p), Fits(p)',
           Guarded(p)
    PROVE  TransactionsFit'
<1>1. RowsFit'
  BY RowsStay
<1>2. ASSUME NEW q \in Procs \ {p}
      PROVE  Fits(q)' /\ Locks(q)' = Locks(q)
  <2>1. Undisturbed(q)
    BY DEF Others, Undisturbed
  <2>2. Fits(q)
    BY DEF TransactionsFit
  <2>3. Fits(q)'
    BY <1>1, <2>1, <2>2, Stays
  <2>4. QED
    BY <2>3 DEF Others, Locks
<1>3. ASSUME NEW q \in Procs \ {p}
      PROVE  Locks(p)' \cap Locks(q) = {}
  <2>1. Locks(p) \cap Locks(q) = {}
    BY DEF TransactionsFit, LocksApart
  <2>2. \A r \in Locks(p)' : r \in Locks(p) \/ r \notin Locks(q)
    BY DEF Guarded, Unlocked, Locks
  <2>3. QED
    BY <2>1, <2>2
<1>4. ASSUME NEW a \in Procs, NEW b \in Procs, a # b
      PROVE  Locks(a)' \cap Locks(b)' = {}
  <2>1. CASE a = p
    BY <1>2, <1>3, <1>4, <2>1
  <2>2. CASE b = p
    BY <1>2, <1>3, <1>4, <2>2
  <2>3. CASE a # p /\ b # p
    BY <1>2, <1>4, <2>3 DEF TransactionsFit, LocksApart
  <2>4. QED
    BY <2>1, <2>2, <2>3
<1>5. LocksApart'
  BY <1>4 DEF LocksApart
<1>6. \A q \in Procs : Fits(q)'
  BY <1>2
<1>7. QED
  BY <1>5, <1>6 DEF TransactionsFit

\* A commit keeps them too.
LEMMA CommitStep ==
    ASSUME CommittedFit, TransactionsFit, NEW p \in Procs, Commit(p)
    PROVE  CommittedFit' /\ TransactionsFit' /\ (Atomic!Operation \/ UNCHANGED rows)
<1>1. RowsFit /\ UnitsFit /\ Shapes /\ Fits(p)
  BY DEF CommittedFit, TransactionsFit
<1>2. (Resting(p) \/ Reloading(p))' /\ (Atomic!Operation \/ UNCHANGED rows)
  BY <1>1, CommitGoes DEF Commits
<1>3. CommittedFit' /\ (Forward \/ UNCHANGED rows)
  <2>1. CASE Atomic!Operation
    BY <2>1, OperationKeeps
  <2>2. CASE UNCHANGED rows
    BY <2>2, RowsStay
  <2>3. QED
    BY <1>2, <2>1, <2>2
<1>4. RowsFit'
  BY <1>3 DEF CommittedFit
<1>5. ASSUME NEW q \in Procs \ {p}
      PROVE  Fits(q)' /\ Locks(q)' = Locks(q)
  <2>1. Undisturbed(q)
    BY <1>1, <1>3, CommitUndisturbs
  <2>2. Fits(q)
    BY DEF TransactionsFit
  <2>3. Fits(q)'
    BY <1>1, <1>4, <2>1, <2>2, Stays
  <2>4. QED
    BY <2>1, <2>3 DEF Undisturbed, Locks
<1>6. Locks(p)' = {} /\ Shapes'
  <2>1. writes'[p] = NoRows /\ Shapes'
    BY <1>1, CommitIs
  <2>2. QED
    BY <2>1, Domains DEF Locks
<1>7. Fits(p)'
  BY <1>2 DEF Fits
<1>8. LocksApart'
  BY <1>5, <1>6 DEF TransactionsFit, LocksApart
<1>9. TransactionsFit'
  BY <1>5, <1>6, <1>7, <1>8 DEF TransactionsFit
<1>10. QED
  BY <1>2, <1>3, <1>9

\* Who is about to store the catalog has committed.
LEMMA StoringReloads ==
    ASSUME NEW p, Fits(p), Doing(p, "storeCatalog")
    PROVE  Reloading(p)
<1>1. /\ \A a : todo[p] = <<a>> => a = "storeCatalog"
      /\ \A a, b : todo[p] = <<a, b>> => a = "storeCatalog"
      /\ \A a, b, c : todo[p] = <<a, b, c>> => a = "storeCatalog"
      /\ \A a, b, c, d : todo[p] = <<a, b, c, d>> => a = "storeCatalog"
      /\ \A a, b, c, d, e : todo[p] = <<a, b, c, d, e>> => a = "storeCatalog"
      /\ \A a, b, c, d, e, f : todo[p] = <<a, b, c, d, e, f>> => a = "storeCatalog"
  BY DEF Doing
<1>2. BuyTokensFits(p) =>
        \/ todo[p] = <<"grant", "addTokens", "commit">>
        \/ todo[p] = <<"addTokens", "commit">>
        \/ todo[p] = <<"commit">>
  BY Zenon DEF BuyTokensFits
<1>3. ListFits(p) =>
        \/ todo[p] = <<"spendToken", "reserve", "insert", "commit">>
        \/ todo[p] = <<"reserve", "insert", "commit">>
        \/ todo[p] = <<"insert", "commit">>
        \/ todo[p] = <<"commit">>
  BY Zenon DEF ListFits
<1>4. BuyFits(p) =>
        \/ todo[p] = <<"findListing", "grant", "transfer", "markSold", "commit">>
        \/ todo[p] = <<"grant", "transfer", "markSold", "commit">>
        \/ todo[p] = <<"transfer", "markSold", "commit">>
        \/ todo[p] = <<"markSold", "commit">>
        \/ todo[p] = <<"commit">>
  BY Zenon DEF BuyFits
<1>5. EndFits(p) =>
        \/ todo[p] = <<"close", "release", "commit">>
        \/ todo[p] = <<"expire", "release", "commit">>
        \/ todo[p] = <<"release", "commit">>
        \/ todo[p] = <<"commit">>
  BY Zenon DEF EndFits
<1>6. RedeemFits(p) =>
        \/ todo[p] = <<"redeem", "grant", "commit">>
        \/ todo[p] = <<"grant", "commit">>
        \/ todo[p] = <<"commit">>
  BY Zenon DEF RedeemFits
<1>7. SettleFits(p) =>
        \/ todo[p] = <<"transferInventory", "commit">>
        \/ todo[p] = <<"commit">>
  BY Zenon DEF SettleFits
<1>8. SetFits(p) =>
        \/ todo[p] = <<"set", "commit">>
        \/ todo[p] = <<"commit">>
  BY Zenon DEF SetFits
<1>9. PurchaseFits(p) =>
        \/ todo[p] = <<"grant", "commit">>
        \/ todo[p] = <<"commit">>
        \/ todo[p] = <<"reserveUnit", "grant", "completeUnit", "commit", "readCatalog", "storeCatalog">>
        \/ todo[p] = <<"grant", "completeUnit", "commit", "readCatalog", "storeCatalog">>
        \/ todo[p] = <<"completeUnit", "commit", "readCatalog", "storeCatalog">>
        \/ todo[p] = <<"commit", "readCatalog", "storeCatalog">>
  BY Zenon DEF PurchaseFits, NumberFits
<1>10. VoucherFits(p) =>
         \/ todo[p] = <<"commit">> \/ todo[p] = <<"checkOffer">>
         \/ todo[p] = <<"grant", "commit">> \/ todo[p] = <<"grant", "checkOffer">>
         \/ todo[p] = <<"completeUnit", "commit">>
              \/ todo[p] = <<"reserveUnit", "completeUnit", "commit">>
         \/ \E last \in {"commit", "checkOffer"} :
               todo[p] \in {<<"count", "insertRedemption", "grant", last>>,
                           <<"insertRedemption", "grant", last>>}
  BY DEF VoucherFits
<1>11. UpdateFits(p) =>
        \/ todo[p] = <<"findItem", "updateItem", "syncUnits", "commit", "readCatalog", "storeCatalog">>
        \/ todo[p] = <<"updateItem", "syncUnits", "commit", "readCatalog", "storeCatalog">>
        \/ todo[p] = <<"syncUnits", "commit", "readCatalog", "storeCatalog">>
        \/ todo[p] = <<"commit", "readCatalog", "storeCatalog">>
  BY Zenon DEF UpdateFits
<1>12. DeleteFits(p) =>
        \/ todo[p] = <<"findItem", "deleteItem", "commit", "readCatalog", "storeCatalog">>
        \/ todo[p] = <<"deleteItem", "commit", "readCatalog", "storeCatalog">>
        \/ todo[p] = <<"commit", "readCatalog", "storeCatalog">>
  BY Zenon DEF DeleteFits
<1>13. ~Resting(p)
  BY DEF Resting, Doing
<1>14. ~BuyTokensFits(p) /\ ~ListFits(p) /\ ~BuyFits(p) /\ ~EndFits(p)
  BY <1>1, <1>2, <1>3, <1>4, <1>5
<1>15. ~RedeemFits(p) /\ ~SettleFits(p) /\ ~SetFits(p)
  BY <1>1, <1>6, <1>7, <1>8
<1>16. ~PurchaseFits(p) /\ ~VoucherFits(p)
  BY <1>1, <1>9, <1>10
<1>17. ~UpdateFits(p) /\ ~DeleteFits(p)
  BY <1>1, <1>11, <1>12
<1>18. QED
  BY <1>13, <1>14, <1>15, <1>16, <1>17 DEF Fits, MarketFits, CatalogFits

\* The marketplace's rows at first.
LEMMA FirstGoods ==
    ASSUME CommerceInit
    PROVE  /\ \A i \in Items :
                 /\ rows[Item(i)] \in ItemRows /\ rows[Item(i)].owner = Owned[i]
                 /\ rows[Item(i)].reserved <=> \E l \in DOMAIN OnSale : OnSale[l].item = i
           /\ \A l \in Listings :
                 /\ rows[Listing(l)] \in ListingRows
                 /\ l \in DOMAIN OnSale =>
                       /\ rows[Listing(l)].state = "open" /\ rows[Listing(l)].item = OnSale[l].item
                       /\ rows[Listing(l)].seller = Owned[OnSale[l].item]
                 /\ l \notin DOMAIN OnSale => rows[Listing(l)].state = "none"
<1>1. \A r \in MarketRows \union CatalogRows : rows[r] = FirstRow(r)
  BY DEF CommerceInit
<1>2. ASSUME NEW i \in Items
      PROVE  /\ rows[Item(i)] \in ItemRows /\ rows[Item(i)].owner = Owned[i]
             /\ rows[Item(i)].reserved <=> \E l \in DOMAIN OnSale : OnSale[l].item = i
  <2> DEFINE listed == \E l \in DOMAIN OnSale : OnSale[l].item = i
  <2>1. rows[Item(i)] = FirstRow(Item(i))
    BY <1>1 DEF MarketRows
  <2>2. FirstRow(Item(i)) = Furniture(Owned[i], listed)
    BY DEF FirstRow, Item, Furniture
  <2>3. Owned[i] \in Players /\ listed \in BOOLEAN
    BY CommerceAssumption
  <2> HIDE DEF listed
  <2>4. /\ Furniture(Owned[i], listed) \in ItemRows /\ Furniture(Owned[i], listed).owner = Owned[i]
        /\ Furniture(Owned[i], listed).reserved = listed
    BY <2>3 DEF Furniture, ItemRows
  <2>5. QED
    BY <2>1, <2>2, <2>4 DEF listed
<1>3. ASSUME NEW l \in Listings
      PROVE  /\ rows[Listing(l)] \in ListingRows
             /\ l \in DOMAIN OnSale =>
                   /\ rows[Listing(l)].state = "open" /\ rows[Listing(l)].item = OnSale[l].item
                   /\ rows[Listing(l)].seller = Owned[OnSale[l].item]
             /\ l \notin DOMAIN OnSale => rows[Listing(l)].state = "none"
  <2>1. rows[Listing(l)] = FirstRow(Listing(l))
    BY <1>1 DEF MarketRows
  <2>2. CASE l \in DOMAIN OnSale
    <3>1. FirstRow(Listing(l)) =
             [state |-> "open", seller |-> Owned[OnSale[l].item], item |-> OnSale[l].item,
              price |-> OnSale[l].price, redeemed |-> FALSE]
      BY <2>2 DEF FirstRow, Listing
    <3>2. OnSale[l].item \in Items /\ OnSale[l].price \in Prices /\ Owned[OnSale[l].item] \in Players
      BY <2>2, CommerceAssumption
    <3>3. QED
      BY <2>1, <2>2, <3>1, <3>2 DEF ListingRows
  <2>3. CASE l \notin DOMAIN OnSale
    <3>1. FirstRow(Listing(l)) = Unlisted
      BY <2>3 DEF FirstRow, Listing
    <3>2. QED
      BY <2>1, <2>3, <3>1 DEF ListingRows, Unlisted
  <2>4. QED
    BY <2>2, <2>3
<1>4. QED
  BY <1>2, <1>3

\* The catalog's rows at first.
LEMMA FirstNumbers ==
    ASSUME CommerceInit
    PROVE  /\ \A o \in Offers :
                 /\ rows[Offer(o)] \in OfferRows /\ rows[Offer(o)].stack = Stacks[o]
                 /\ rows[Offer(o)].sells = 0 /\ rows[Offer(o)].forgotten = 0
                 /\ Stacks[o] \in 0 .. MaxStack
           /\ \A o \in Offers, n \in Numbers :
                 /\ rows[Unit(o, n)] \in {NoUnit, Unsold} /\ rows[Unit(o, n)] \in UnitRows
                 /\ rows[Unit(o, n)].owner = None
                 /\ rows[Unit(o, n)].exists <=> n <= Stacks[o]
<1>1. \A r \in MarketRows \union CatalogRows : rows[r] = FirstRow(r)
  BY DEF CommerceInit
<1>2. ASSUME NEW o \in Offers
      PROVE  /\ rows[Offer(o)] \in OfferRows /\ rows[Offer(o)].stack = Stacks[o]
             /\ rows[Offer(o)].sells = 0 /\ rows[Offer(o)].forgotten = 0
             /\ Stacks[o] \in 0 .. MaxStack
  <2>1. rows[Offer(o)] = FirstRow(Offer(o))
    BY <1>1 DEF CatalogRows
  <2> DEFINE yes == TRUE no == FALSE
  <2>2. FirstRow(Offer(o)) = Row6(Stacks[o], 0, yes, 1, no, 0)
    BY DEF FirstRow, Offer, Row6
  <2>3. Stacks[o] \in 0 .. MaxStack
    BY CommerceAssumption
  <2>4. QED
    <3>1. yes \in BOOLEAN /\ no \in BOOLEAN
      OBVIOUS
    <3> HIDE DEF yes, no
    <3>2. Row6(Stacks[o], 0, yes, 1, no, 0) \in OfferRows
      BY <2>3, <3>1, OfferMade
    <3>3. QED
      BY <2>1, <2>2, <2>3, <3>2, RowFields
<1>3. ASSUME NEW o \in Offers, NEW n \in Numbers
      PROVE  /\ rows[Unit(o, n)] \in {NoUnit, Unsold} /\ rows[Unit(o, n)] \in UnitRows
             /\ rows[Unit(o, n)].owner = None
             /\ rows[Unit(o, n)].exists <=> n <= Stacks[o]
  <2>1. rows[Unit(o, n)] = FirstRow(Unit(o, n))
    BY <1>1 DEF CatalogRows
  <2>2. FirstRow(Unit(o, n)) = IF n <= Stacks[o] THEN Unsold ELSE NoUnit
    BY DEF FirstRow, Unit
  <2>3. /\ Unsold.exists /\ Unsold.owner = None /\ Unsold \in UnitRows
        /\ ~NoUnit.exists /\ NoUnit.owner = None /\ NoUnit \in UnitRows
    BY DEF Unsold, NoUnit, UnitRows
  <2>4. QED
    BY <2>1, <2>2, <2>3
<1>4. QED
  BY <1>2, <1>3

\* At first the open listings offer different furniture, nothing is sold, and
\* nobody has locked anything.
LEMMA InitFits ==
    ASSUME CommerceInit
    PROVE  CommerceInv
<1>1. \A i \in Items :
         /\ rows[Item(i)] \in ItemRows /\ rows[Item(i)].owner = Owned[i]
         /\ rows[Item(i)].reserved <=> \E l \in DOMAIN OnSale : OnSale[l].item = i
  BY FirstGoods
<1>2. \A l \in Listings :
         /\ rows[Listing(l)] \in ListingRows
         /\ l \in DOMAIN OnSale =>
               /\ rows[Listing(l)].state = "open" /\ rows[Listing(l)].item = OnSale[l].item
               /\ rows[Listing(l)].seller = Owned[OnSale[l].item]
         /\ l \notin DOMAIN OnSale => rows[Listing(l)].state = "none"
  BY FirstGoods
<1>3. Listed(rows)
  <2>1. \A l \in Listings, i \in Items : OnOffer(rows, l, i)
          <=> l \in DOMAIN OnSale /\ OnSale[l].item = i
    BY <1>2 DEF OnOffer
  <2>2. QED
    BY <1>1, <1>2, <2>1, CommerceAssumption DEF Listed
<1>4. ListedIsReserved
  BY <1>3, ListedMeans
<1>5. \A l \in Listings : rows[Listing(l)].state # "none" =>
          rows[Listing(l)].item \in Items /\ rows[Listing(l)].seller \in Players
  BY <1>2, CommerceAssumption
<1>6. Goods
  BY <1>1, <1>2, <1>4, <1>5 DEF Goods
<1>7. \A o \in Offers :
         /\ rows[Offer(o)] \in OfferRows /\ rows[Offer(o)].stack = Stacks[o]
         /\ rows[Offer(o)].sells = 0 /\ rows[Offer(o)].forgotten = 0
         /\ Stacks[o] \in 0 .. MaxStack
  BY FirstNumbers
<1>8. \A o \in Offers, n \in Numbers :
         /\ rows[Unit(o, n)] \in {NoUnit, Unsold} /\ rows[Unit(o, n)] \in UnitRows
         /\ rows[Unit(o, n)].owner = None
         /\ rows[Unit(o, n)].exists <=> n <= Stacks[o]
  BY FirstNumbers
<1>9. UnitsFit
  BY <1>8 DEF UnitsFit
<1>10. UnitsCounted
  <2> SUFFICES ASSUME NEW o \in Offers
               PROVE  Tallied(rows[Offer(o)], There(rows, o), Bought(rows, o))
    BY CountedMeans DEF CountedIn
  <2>1. Bought(rows, o) = {}
    BY <1>8 DEF Bought
  <2>2. There(rows, o) = 1 .. Stacks[o]
    BY <1>7, <1>8, CatalogAssumption DEF There, Numbers
  <2>3. Cardinality({}) = 0
    BY FS_EmptySet
  <2>4. /\ rows[Offer(o)].stack = Stacks[o] /\ rows[Offer(o)].sells = 0
        /\ rows[Offer(o)].forgotten = 0 /\ 0 <= Stacks[o]
    BY <1>7, CatalogAssumption
  <2>5. QED
    BY <2>1, <2>2, <2>3, <2>4 DEF Tallied
<1>11. Numbered
  BY <1>7, <1>8, <1>9, <1>10 DEF Numbered
<1>12. rows = [r \in MarketRows \union CatalogRows |-> rows[r]]
  BY DEF CommerceInit
<1>13. CommittedFit
  BY <1>6, <1>11, <1>12, Halves
<1>14. /\ DOMAIN todo = Procs /\ DOMAIN job = Procs /\ DOMAIN writes = Procs /\ lapsed = {}
       /\ \A p \in Procs : todo[p] = <<>> /\ writes[p] = NoRows
  BY DEF CommerceInit
<1>15. \A p \in Procs : Fits(p) /\ Locks(p) = {}
  BY <1>14, NothingLocked DEF Fits, Resting
<1>16. QED
  BY <1>13, <1>14, <1>15 DEF CommerceInv, TransactionsFit, Shapes, LocksApart

\* Every step of every process keeps the invariant, and is an operation or
\* changes no committed row.
LEMMA StepFits ==
    ASSUME CommerceInv, [CommerceNext]_commerce
    PROVE  CommerceInv' /\ (Atomic!Operation \/ UNCHANGED rows)
<1>1. CommittedFit /\ TransactionsFit /\ lapsed \subseteq Listings /\ Shapes
  BY DEF CommerceInv, TransactionsFit
<1>2. RowsFit /\ ListedIsReserved
  BY <1>1 DEF CommittedFit
<1>3. ASSUME NEW p \in Procs, UNCHANGED rows, Shapes', Others(p), Fits(p)', Guarded(p), lapsed' = lapsed
      PROVE  CommerceInv' /\ UNCHANGED rows
  <2>1. TransactionsFit'
    BY <1>1, <1>2, <1>3, QuietStep
  <2>2. CommittedFit'
    BY <1>1, <1>3, RowsStay
  <2>3. QED
    BY <1>1, <1>3, <2>1, <2>2 DEF CommerceInv
<1>4. ASSUME NEW p \in Procs, Ask(p)
      PROVE  CommerceInv' /\ UNCHANGED rows
  <2>1. Fits(p)' /\ UNCHANGED rows /\ UNCHANGED writes /\ Shapes' /\ Others(p)
    BY <1>1, <1>4, AskFits
  <2>2. Guarded(p)
    BY <2>1 DEF Guarded, Locks
  <2>3. lapsed' = lapsed
    BY <1>4 DEF Ask
  <2>4. QED
    BY <1>3, <2>1, <2>2, <2>3
<1>5. ASSUME NEW p \in Procs, Statement(p)
      PROVE  CommerceInv' /\ UNCHANGED rows
  <2>1. Fits(p)' /\ Guarded(p) /\ UNCHANGED rows /\ Shapes' /\ Others(p)
    BY <1>1, <1>2, <1>5, StatementGoes
  <2>2. lapsed' = lapsed
    BY <1>5 DEF Statement
  <2>3. QED
    BY <1>3, <2>1, <2>2
<1>6. ASSUME NEW p \in Procs, End(p)
      PROVE  CommerceInv' /\ (Atomic!Operation \/ UNCHANGED rows)
  <2>1. Commit(p) /\ lapsed' = lapsed
    BY <1>6 DEF End
  <2>2. CommittedFit' /\ TransactionsFit' /\ (Atomic!Operation \/ UNCHANGED rows)
    BY <1>1, <2>1, CommitStep
  <2>3. QED
    BY <1>1, <2>1, <2>2 DEF CommerceInv
<1>7. ASSUME NEW p \in Procs, Abort(p)
      PROVE  CommerceInv' /\ UNCHANGED rows
  <2>1. Rollback(p) /\ lapsed' = lapsed
    BY <1>7 DEF Abort, Fail
  <2>2. Shapes' /\ UNCHANGED rows /\ Resting(p)' /\ Others(p)
    BY <1>1, <2>1, RollbackIs DEF Others
  <2>3. Fits(p)' /\ Guarded(p)
    BY <2>2, RestingGuarded DEF Fits
  <2>4. QED
    BY <1>3, <2>1, <2>2, <2>3
<1>8. ASSUME NEW p \in Procs, Publish(p)
      PROVE  CommerceInv' /\ UNCHANGED rows
  <2>1. /\ Doing(p, "storeCatalog") /\ lapsed' = lapsed /\ UNCHANGED <<rows, writes>>
        /\ todo' = [todo EXCEPT ![p] = <<>>] /\ job' = [job EXCEPT ![p] = None]
    BY <1>8 DEF Publish, StoreCatalog
  <2>2. Shapes' /\ Others(p) /\ todo'[p] = <<>>
    BY <1>1, <2>1 DEF Shapes, Others
  <2>3. Reloading(p)
    BY <1>1, <2>1, StoringReloads DEF TransactionsFit
  <2>4. Resting(p)'
    BY <2>1, <2>2, <2>3 DEF Reloading, Resting
  <2>5. Fits(p)' /\ Guarded(p)
    BY <2>4, RestingGuarded DEF Fits
  <2>6. QED
    BY <1>3, <2>1, <2>2, <2>5
<1>9. ASSUME UNCHANGED db, lapsed' \subseteq Listings
      PROVE  CommerceInv' /\ UNCHANGED rows
  <2>1. UNCHANGED <<rows, writes, todo, job>>
    BY <1>9 DEF db
  <2>2. CommittedFit' /\ RowsFit'
    BY <1>1, <1>2, <2>1, RowsStay
  <2>3. Shapes' /\ \A q \in Procs : Locks(q)' = Locks(q)
    BY <1>1, <2>1 DEF Shapes, Locks
  <2>4. LocksApart'
    BY <1>1, <2>3 DEF TransactionsFit, LocksApart
  <2>5. \A q \in Procs : Fits(q)'
    <3> SUFFICES ASSUME NEW q \in Procs PROVE Fits(q)'
      OBVIOUS
    <3>1. Undisturbed(q) /\ Fits(q)
      BY <1>1, <2>1 DEF TransactionsFit, Undisturbed
    <3>2. QED
      BY <1>1, <1>2, <2>2, <3>1, Stays
  <2>6. QED
    BY <1>9, <2>1, <2>2, <2>3, <2>4, <2>5 DEF CommerceInv, TransactionsFit
<1>10. ASSUME NEW l \in Listings, Lapse(l)
       PROVE  CommerceInv' /\ UNCHANGED rows
  BY <1>1, <1>9, <1>10 DEF Lapse
<1>11. CASE UNCHANGED commerce
  BY <1>1, <1>9, <1>11 DEF commerce
<1>12. QED
  BY <1>4, <1>5, <1>6, <1>7, <1>8, <1>10, <1>11 DEF CommerceNext

-----------------------------------------------------------------------------
(***************************************************************************)
(* The order of the locks.                                                 *)
(***************************************************************************)
\* Listings are locked before balances, these before tokens, and furniture last.
Rank(r) ==
    IF r[1] = "listing" THEN 1 ELSE IF r[1] = "balance" THEN 2 ELSE IF r[1] = "tokens" THEN 3 ELSE 4

\* The ranks of the rows.
LEMMA Ranks ==
    /\ \A r : Rank(r) \in 1 .. 4
    /\ \A a : Rank(Listing(a)) = 1 /\ Rank(Balance(a)) = 2 /\ Rank(Tokens(a)) = 3 /\ Rank(Item(a)) = 4
  BY DEF Rank, Listing, Balance, Tokens, Item

\* All that was written comes before a rank.
Below(f, k) == \A r \in DOMAIN f : Rank(r) < k

\* What is written below a rank.
LEMMA BelowRank ==
    /\ \A k : Below(NoRows, k)
    /\ \A f, g, k : Below(f, k) /\ Below(g, k) => Below(Over(f, g), k)
    /\ \A a, value : Below(One(Listing(a), value), 2) /\ Below(One(Listing(a), value), 4)
    /\ \A a, value : Below(One(Balance(a), value), 3) /\ Below(One(Balance(a), value), 4)
    /\ \A a, value : Below(One(Tokens(a), value), 4)
<1>1. \A r, value, k : Rank(r) < k => Below(One(r, value), k)
  BY DEF Below, One
<1>2. \A k : Below(NoRows, k)
  BY Domains DEF Below
<1>3. \A f, g, k : Below(f, k) /\ Below(g, k) => Below(Over(f, g), k)
  BY DEF Below, Over
<1>4. \A a : Rank(Listing(a)) < 2 /\ Rank(Listing(a)) < 4 /\ Rank(Balance(a)) < 3
        /\ Rank(Balance(a)) < 4
             /\ Rank(Tokens(a)) < 4
  BY Ranks
<1>5. QED
  BY <1>1, <1>2, <1>3, <1>4

\* The rank of what a statement of the marketplace waits for.
LEMMA Awaited ==
    ASSUME NEW p, NEW r, r \in Needs(p)
    PROVE  /\ Doing(p, "grant") \/ Doing(p, "set") => Rank(r) = 2
           /\ Doing(p, "addTokens") \/ Doing(p, "spendToken") => Rank(r) = 3
           /\ Doing(p, "reserve") \/ Doing(p, "transferInventory") => Rank(r) = 4
           /\ Doing(p, "transfer") \/ Doing(p, "release") => Rank(r) = 4
           /\ Doing(p, "findListing") \/ Doing(p, "close") \/ Doing(p, "redeem") => Rank(r) = 1
           /\ Doing(p, "markSold") => r = Listing(job[p].on)
           /\ ~Doing(p, "commit") /\ ~Doing(p, "insert") /\ ~Doing(p, "expire")
<1>1. \A s, t : Doing(p, s) /\ Doing(p, t) => s = t
  BY DEF Doing
<1>2. \/ Doing(p, "completeUnit") \/ Doing(p, "updateItem") \/ Doing(p, "deleteItem")
      \/ Doing(p, "syncUnits") \/ Doing(p, "insertRedemption")
           \/ r \in MarketNeeds(p)
  BY DEF Needs, CatalogNeeds
<1>3. ASSUME r \in MarketNeeds(p)
      PROVE  \/ (Doing(p, "grant") \/ Doing(p, "set")) /\ Rank(r) = 2
             \/ (Doing(p, "addTokens") \/ Doing(p, "spendToken")) /\ Rank(r) = 3
             \/ /\ \/ Doing(p, "reserve") \/ Doing(p, "transferInventory")
                   \/ Doing(p, "transfer") \/ Doing(p, "release")
                /\ Rank(r) = 4
             \/ /\ Doing(p, "findListing") \/ Doing(p, "markSold") \/ Doing(p, "close")
                /\ r = Listing(job[p].on) /\ Rank(r) = 1
             \/ Doing(p, "redeem") /\ Rank(r) = 1
  BY <1>3, Ranks DEF MarketNeeds
<1>4. QED
  BY <1>1, <1>2, <1>3

\* A transaction of the marketplace waits for a row that comes after all it has
\* locked.
LEMMA MarketWaits ==
    ASSUME NEW p, MarketFits(p), NEW r, r \in Needs(p), r \notin Locks(p)
    PROVE  \A x \in Locks(p) : Rank(x) < Rank(r)
<1>1. SUFFICES Below(writes[p], Rank(r))
  BY DEF Below, Locks
<1>2. writes[p] = NoRows => Below(writes[p], Rank(r))
  BY BelowRank
<1>3. Below(Paid(p), 3) /\ Below(Paid(p), 4)
  BY BelowRank DEF Paid
<1>4. todo[p] # <<"commit">> /\ todo[p] # <<"insert", "commit">>
  BY Heads, Awaited
<1>5. CASE BuyTokensFits(p)
  <2>1. writes[p] = NoRows \/ (todo[p] = <<"addTokens", "commit">> /\ writes[p] = Over(Paid(p), NoRows))
    BY <1>4, <1>5, Zenon DEF BuyTokensFits
  <2>2. CASE todo[p] = <<"addTokens", "commit">> /\ writes[p] = Over(Paid(p), NoRows)
    <3>1. Rank(r) = 3
      BY <2>2, Heads, Awaited
    <3>2. Below(Over(Paid(p), NoRows), 3)
      BY <1>3, BelowRank
    <3>3. QED
      BY <2>2, <3>1, <3>2
  <2>3. QED
    BY <1>2, <2>1, <2>2
<1>6. CASE ListFits(p)
  <2>1. writes[p] = NoRows \/ (todo[p] = <<"reserve", "insert", "commit">> /\ writes[p] = Spent(p))
    BY <1>4, <1>6, Zenon DEF ListFits
  <2>2. CASE todo[p] = <<"reserve", "insert", "commit">> /\ writes[p] = Spent(p)
    <3>1. Rank(r) = 4
      BY <2>2, Heads, Awaited
    <3>2. Below(Spent(p), 4)
      BY BelowRank DEF Spent
    <3>3. QED
      BY <2>2, <3>1, <3>2
  <2>3. QED
    BY <1>2, <2>1, <2>2
<1>7. CASE BuyFits(p)
  <2>1. \/ writes[p] = NoRows
        \/ \E l \in Listings :
              /\ job[p] = Job("Buy", p, l, -BuyerPrice(Sale(l).price))
              /\ \/ /\ todo[p] = <<"grant", "transfer", "markSold", "commit">>
                    /\ writes[p] = One(Listing(l), Sale(l))
                 \/ todo[p] = <<"transfer", "markSold", "commit">> /\ writes[p] = Charged(p, l)
                 \/ todo[p] = <<"markSold", "commit">> /\ writes[p] = Moved(p, l)
    BY <1>4, <1>7, Zenon DEF BuyFits
  <2>2. ASSUME NEW l \in Listings, todo[p] = <<"grant", "transfer", "markSold", "commit">>,
               writes[p] = One(Listing(l), Sale(l))
        PROVE  Below(writes[p], Rank(r))
    <3>1. Rank(r) = 2
      BY <2>2, Heads, Awaited
    <3>2. QED
      BY <2>2, <3>1, BelowRank
  <2>3. ASSUME NEW l \in Listings, todo[p] = <<"transfer", "markSold", "commit">>,
               writes[p] = Charged(p, l)
        PROVE  Below(writes[p], Rank(r))
    <3>1. Rank(r) = 4
      BY <2>3, Heads, Awaited
    <3>2. Below(Charged(p, l), 4)
      BY <1>3, BelowRank DEF Charged
    <3>3. QED
      BY <2>3, <3>1, <3>2
  <2>4. ASSUME NEW l \in Listings, todo[p] = <<"markSold", "commit">>, writes[p] = Moved(p, l),
               job[p] = Job("Buy", p, l, -BuyerPrice(Sale(l).price))
        PROVE  FALSE
    <3>1. job[p].on = l
      BY <2>4 DEF Job
    <3>2. r = Listing(l)
      BY <2>4, <3>1, Heads, Awaited
    <3>3. Listing(l) \in DOMAIN One(Listing(l), Sale(l))
      BY WritesAre
    <3>4. Listing(l) \in DOMAIN Charged(p, l)
      BY <3>3, WritesAre DEF Charged
    <3>5. Listing(l) \in DOMAIN Moved(p, l)
      BY <3>4, WritesAre DEF Moved
    <3>6. QED
      BY <2>4, <3>2, <3>5 DEF Locks
  <2>5. QED
    BY <1>2, <2>1, <2>2, <2>3, <2>4
<1>8. CASE EndFits(p)
  <2>1. \/ writes[p] = NoRows
        \/ \E l \in Listings : todo[p] = <<"release", "commit">> /\ writes[p] = Closed(l)
    BY <1>4, <1>8, Zenon DEF EndFits
  <2>2. ASSUME NEW l \in Listings, todo[p] = <<"release", "commit">>, writes[p] = Closed(l)
        PROVE  Below(writes[p], Rank(r))
    <3>1. Rank(r) = 4
      BY <2>2, Heads, Awaited
    <3>2. QED
      BY <2>2, <3>1, BelowRank DEF Closed
  <2>3. QED
    BY <1>2, <2>1, <2>2
<1>9. CASE RedeemFits(p)
  <2>1. writes[p] = NoRows \/ (todo[p] = <<"grant", "commit">> /\ \E sold : writes[p] = PaidOut(sold))
    BY <1>4, <1>9, Zenon DEF RedeemFits
  <2>2. ASSUME NEW sold, todo[p] = <<"grant", "commit">>, writes[p] = PaidOut(sold)
        PROVE  Below(writes[p], Rank(r))
    <3>1. Rank(r) = 2
      BY <2>2, Heads, Awaited
    <3>2. DOMAIN PaidOut(sold) = {Listing(l) : l \in sold}
      BY DEF PaidOut
    <3>3. QED
      BY <2>2, <3>1, <3>2, Ranks DEF Below
  <2>3. QED
    BY <1>2, <2>1, <2>2
<1>10. CASE SettleFits(p)
  <2>1. writes[p] = NoRows
    BY <1>4, <1>10, Zenon DEF SettleFits
  <2>2. QED
    BY <1>2, <2>1
<1>11. CASE SetFits(p)
  <2>1. writes[p] = NoRows
    BY <1>4, <1>11, Zenon DEF SetFits
  <2>2. QED
    BY <1>2, <2>1
<1>12. QED
  BY <1>5, <1>6, <1>7, <1>8, <1>9, <1>10, <1>11 DEF MarketFits

\* Who runs an operation of the marketplace is at one of its statements.
LEMMA MarketRuns ==
    ASSUME NEW p, Fits(p), ~Idle(p), job[p].op \in DOMAIN MarketPlan
    PROVE  MarketFits(p)
<1>1. job[p].op \notin {"Purchase", "Voucher", "Update", "Delete"}
  BY DEF MarketPlan
<1>2. PurchaseFits(p) => job[p].op = "Purchase"
  <2> DEFINE plain(o) == Job("Purchase", p, o, -Cost)
  <2>1. PurchaseFits(p) => \E o, batch : job[p] = plain(o) \/ job[p] = [plain(o) EXCEPT !.batch = batch]
    BY Zenon DEF PurchaseFits, NumberFits
  <2>2. \A o, batch : plain(o).op = "Purchase" /\ [plain(o) EXCEPT !.batch = batch].op = "Purchase"
    BY DEF Job
  <2> HIDE DEF plain
  <2>3. QED
    BY <2>1, <2>2, Zenon
<1>3. VoucherFits(p) => job[p].op = "Voucher"
  <2> DEFINE voucher == Job("Voucher", p, VoucherOffer, VoucherCredits)
  <2>1. VoucherFits(p) => \E batch : job[p] = voucher \/ job[p] = [voucher EXCEPT !.batch = batch]
    BY Zenon DEF VoucherFits
  <2>2. \A batch : voucher.op = "Voucher" /\ [voucher EXCEPT !.batch = batch].op = "Voucher"
    BY DEF Job
  <2> HIDE DEF voucher
  <2>3. QED
    BY <2>1, <2>2, Zenon
<1>4. UpdateFits(p) => job[p].op = "Update"
  <2> DEFINE plain(o) == Job("Update", None, o, 0)
  <2>1. UpdateFits(p) => \E o, read : job[p] = plain(o) \/ job[p] = [plain(o) EXCEPT !.read = read]
    BY Zenon DEF UpdateFits
  <2>2. \A o, read : plain(o).op = "Update" /\ [plain(o) EXCEPT !.read = read].op = "Update"
    BY DEF Job
  <2> HIDE DEF plain
  <2>3. QED
    BY <2>1, <2>2, Zenon
<1>5. DeleteFits(p) => job[p].op = "Delete"
  <2> DEFINE plain(o) == Job("Delete", None, o, 0)
  <2>1. DeleteFits(p) => \E o, read : job[p] = plain(o) \/ job[p] = [plain(o) EXCEPT !.read = read]
    BY Zenon DEF DeleteFits
  <2>2. \A o, read : plain(o).op = "Delete" /\ [plain(o) EXCEPT !.read = read].op = "Delete"
    BY DEF Job
  <2> HIDE DEF plain
  <2>3. QED
    BY <2>1, <2>2, Zenon
<1>6. ~Resting(p) /\ ~Reloading(p)
  BY DEF Resting, Reloading, Idle
<1>7. QED
  BY <1>1, <1>2, <1>3, <1>4, <1>5, <1>6 DEF Fits, CatalogFits

\* So nobody in a circle waits for furniture, who has it waiting for nothing;
\* then nobody waits for tokens, for balances, or for listings.
LEMMA NoCircle ==
    ASSUME CommerceInv
    PROVE  MarketOrdered
<1>1. SUFFICES ASSUME NEW circle \in SUBSET {p \in Procs : ~Idle(p) /\ job[p].op \in DOMAIN MarketPlan},
                      Stuck(circle)
               PROVE  FALSE
  BY DEF MarketOrdered
<1> DEFINE waits(p, k) ==
              \E q \in circle \ {p} : \E r \in Locks(q) :
                 r \in Needs(p) \ Locks(p) /\ Rank(r) = k
<1>2. \A p \in circle : MarketFits(p)
  BY <1>1, MarketRuns DEF CommerceInv, TransactionsFit
<1>3. \A p \in circle : \E k \in 1 .. 4 : waits(p, k)
  BY <1>1, Ranks DEF Stuck, Waits
<1>4. ASSUME NEW p \in circle, NEW k \in 1 .. 4, waits(p, k)
      PROVE  \E q \in circle \ {p} : \E m \in 1 .. 4 : waits(q, m) /\ m > k
  <2>1. PICK q, r : q \in circle \ {p} /\ r \in Locks(q) /\ Rank(r) = k
    BY <1>4
  <2>2. PICK m \in 1 .. 4 : waits(q, m)
    BY <1>3, <2>1
  <2>3. PICK s : s \in Needs(q) \ Locks(q) /\ Rank(s) = m
    BY <2>2
  <2>4. Rank(r) < Rank(s)
    BY <1>2, <2>1, <2>3, MarketWaits
  <2>5. QED
    BY <2>1, <2>2, <2>3, <2>4
<1> HIDE DEF waits
<1>5. \A p \in circle : ~waits(p, 4)
  BY <1>4
<1>6. \A p \in circle : ~waits(p, 3)
  BY <1>4, <1>5
<1>7. \A p \in circle : ~waits(p, 2)
  BY <1>4, <1>5, <1>6
<1>8. \A p \in circle : ~waits(p, 1)
  BY <1>4, <1>5, <1>6, <1>7
<1>9. QED
  BY <1>1, <1>3, <1>5, <1>6, <1>7, <1>8 DEF Stuck

-----------------------------------------------------------------------------
(***************************************************************************)
(* Theorems.                                                               *)
(***************************************************************************)
\* The inductive invariant: what the committed rows keep, that every open
\* transaction has written what its operation has come to, and that no two have
\* locked one row.
THEOREM CommerceInductive == CommerceSpec => []CommerceInv
<1>1. CommerceInit => CommerceInv
  BY InitFits
<1>2. CommerceInv /\ [CommerceNext]_commerce => CommerceInv'
  BY StepFits
<1>3. QED
  BY <1>1, <1>2, PTL DEF CommerceSpec

\* Furniture is withdrawn exactly while one open listing of its owner offers it,
\* however List, Buy, Close and the settlement of trades interleave.
THEOREM FurnitureIsListedOnce == CommerceSpec => []ListedIsReserved
<1>1. CommerceInv => ListedIsReserved
  BY DEF CommerceInv, CommittedFit
<1>2. QED
  BY <1>1, CommerceInductive, PTL

\* The numbers of an offer are 1 to its stack and the sold ones, and LimitedSells
\* counts the sold ones but for the sales that a patch to a room bundle dropped,
\* however purchases, vouchers and the administration interleave.
THEOREM NumbersAreCounted == CommerceSpec => []UnitsCounted
<1>1. CommerceInv => UnitsCounted
  BY DEF CommerceInv, CommittedFit
<1>2. QED
  BY <1>1, CommerceInductive, PTL

\* No two open transactions have written or locked one row.
THEOREM RowsLockedOnce == CommerceSpec => []LocksApart
<1>1. CommerceInv => LocksApart
  BY DEF CommerceInv, TransactionsFit
<1>2. QED
  BY <1>1, CommerceInductive, PTL

\* Read committed is enough: each operation takes effect in one step, at its
\* commit, or not at all, as Bazaar says it does.
THEOREM CommerceImplementsBazaar == CommerceSpec => BazaarSpec
<1>1. CommerceInv /\ [CommerceNext]_commerce => [Atomic!Next]_rows
  BY StepFits DEF Atomic!Next
<1>2. QED
  BY <1>1, CommerceInductive, PTL DEF CommerceSpec, BazaarSpec, Atomic!Spec, Atomic!Init

\* Transactions of the marketplace take their locks in one order, and never
\* wait for each other in a circle.
THEOREM LocksAreOrdered == CommerceSpec => []MarketOrdered
<1>1. CommerceInv => MarketOrdered
  BY NoCircle
<1>2. QED
  BY <1>1, CommerceInductive, PTL
=============================================================================
