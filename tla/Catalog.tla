------------------------------ MODULE Catalog ------------------------------
(***************************************************************************)
(* Catalog offers (src/internal/realm/catalog): purchases, of numbered     *)
(* units when the offer is limited, vouchers, and the administration's     *)
(* changes of offers.  One action per SQL statement, charging as Market.   *)
(*                                                                         *)
(* Purchases decide by a cached generation of the catalog; Refresh reads   *)
(* the rows and then replaces the whole generation, without a lock.        *)
(***************************************************************************)
EXTENDS Market

CONSTANTS
    Offers,
    MaxStack,       \* bound: the largest LimitedStack
    Cost,           \* CostCredits of every offer
    VoucherCredits, \* CostCredits of the one voucher
    VoucherOffer,   \* its CatalogItemID, None without one
    RedemptionCap   \* its RedemptionCap

ASSUME CatalogAssumption ==
    /\ MaxStack \in Nat /\ Cost \in Nat /\ VoucherCredits \in Nat
    /\ RedemptionCap \in Nat \ {0}
    /\ None \notin Offers /\ VoucherOffer \in Offers \union {None}

VARIABLE cache   \* catalogCache.snapshot: the offers as some Refresh read them

Offer(o) == <<"offer", o>>        \* catalog_items
Unit(o, n) == <<"unit", <<o, n>>>>  \* catalog_item_limited_units
Redemption(a) == <<"redemption", a>> \* catalog_voucher_redemptions, of the voucher

Numbers == 1 .. MaxStack
CatalogRows ==
    UNION { {Offer(o) : o \in Offers}, {Unit(o, n) : o \in Offers, n \in Numbers},
            {Redemption(a) : a \in Players} }

\* Units: there is no such row, or it is unsold, reserved and then complete.
NoUnit == [exists |-> FALSE, owner |-> None, complete |-> FALSE]
Unsold == [NoUnit EXCEPT !.exists = TRUE]

Limited(offer) == offer.stack > 0

(***************************************************************************)
(* Purchases.                                                              *)
(***************************************************************************)
\* ReserveLimitedUnit: the lowest unsold number that nobody has locked.
FreeNumbers(p, o) ==
    {n \in Numbers : LET row == Row(p, Unit(o, n))
                     IN  row.exists /\ row.owner = None /\ Unlocked(p, Unit(o, n))}

ReserveUnit(p) ==
    LET j == job[p]
        n == Min(FreeNumbers(p, j.on))
    IN  Run(p, "reserveUnit", FreeNumbers(p, j.on) # {},
            One(Unit(j.on, n), [Row(p, Unit(j.on, n)) EXCEPT !.owner = p]),
            [j EXCEPT !.batch = {n}])

\* CompleteLimitedUnit: counts the sale, and disables the offer with the last
\* unit of its stack.
Sold(offer) == [offer EXCEPT !.sells = @ + 1, !.enabled = offer.sells + 1 < offer.stack,
                             !.version = @ + 1]

CompleteUnit(p) ==
    LET j == job[p]
        offer == Row(p, Offer(j.on))
        unit == Unit(j.on, Min(j.batch))
    IN  Run(p, "completeUnit", offer.stack > offer.sells,
            Over(One(unit, [Row(p, unit) EXCEPT !.complete = TRUE]),
                 One(Offer(j.on), Sold(offer))), j)

\* Refresh, in two halves: ListItems, and the replacement of the generation.
Generation == [o \in Offers |-> rows[Offer(o)]]

ReadCatalog(p) == Run(p, "readCatalog", TRUE, NoRows, [job[p] EXCEPT !.read = Generation])

StoreCatalog(p) ==
    /\ Doing(p, "storeCatalog")
    /\ cache' = job[p].read
    /\ todo' = [todo EXCEPT ![p] = <<>>]
    /\ job' = [job EXCEPT ![p] = None]
    /\ UNCHANGED <<rows, writes>>

(***************************************************************************)
(* Vouchers.                                                               *)
(***************************************************************************)
\* CountVoucherRedemptions, before the transaction.
Redeemed == {a \in Players : rows[Redemption(a)]}
CountRedemptions(p) ==
    Run(p, "count", Cardinality(Redeemed) < RedemptionCap, NoRows, job[p])

\* InsertVoucherRedemption: its primary key admits one per player.
InsertRedemption(p) ==
    Run(p, "insertRedemption", ~Row(p, Redemption(p)), One(Redemption(p), TRUE), job[p])

\* The voucher's offer is granted free of charge, a unit of it if the cached
\* generation says that it is limited.
Purchasable == {o \in Offers : cache[o].enabled /\ ~cache[o].deleted}

CheckOffer(p) ==
    /\ Doing(p, "checkOffer")
    /\ IF job[p].on \notin Purchasable THEN Rollback(p)
       ELSE /\ todo' = [todo EXCEPT ![p] =
                   IF Limited(cache[job[p].on])
                   THEN <<"reserveUnit", "completeUnit", "commit">> ELSE <<"commit">>]
            /\ UNCHANGED <<rows, writes, job>>

(***************************************************************************)
(* Administration: optimistic locking by the version that was read.        *)
(***************************************************************************)
\* UpdateItem reads the offer, applies the patch and refuses to take the stack
\* below what was sold, or to shrink it once something was.
Patch(offer, stack, enabled) == [offer EXCEPT !.stack = stack, !.enabled = enabled]
\* A patch that names the template of a room bundle also sets the stack and the
\* sales to 0, and so is never refused.  History: forgotten, the sales so dropped.
Bundle(offer, enabled) ==
    [offer EXCEPT !.stack = 0, !.sells = 0, !.enabled = enabled, !.forgotten = @ + offer.sells]
Patched(o) ==
    {Patch(rows[Offer(o)], n, e) : n \in 0 .. MaxStack, e \in BOOLEAN}
    \union {Bundle(rows[Offer(o)], e) : e \in BOOLEAN}
Admissible(old, new) == ~(new.stack < new.sells \/ (new.sells > 0 /\ new.stack < old.stack))

FindItem(p) ==
    LET old == rows[Offer(job[p].on)] IN
    /\ Doing(p, "findItem")
    /\ \E new \in IF job[p].op = "Update" THEN Patched(job[p].on) ELSE {old} :
           Run(p, "findItem", ~old.deleted /\ Admissible(old, new), NoRows,
               [job[p] EXCEPT !.read = One(job[p].on, new)])

\* The guard of updateItemSQL and softDeleteItemSQL.
NotDeleted(row, read) == ~row.deleted
SameVersion(row, read) == row.version = read.version /\ ~row.deleted

UpdateItem(p) ==
    LET j == job[p] IN
    Run(p, "updateItem", SameVersion(Row(p, Offer(j.on)), j.read[j.on]),
        One(Offer(j.on), [j.read[j.on] EXCEPT !.version = @ + 1]), j)

DeleteItem(p) ==
    LET j == job[p]
        row == Row(p, Offer(j.on))
    IN  Run(p, "deleteItem", SameVersion(row, j.read[j.on]),
            One(Offer(j.on), [row EXCEPT !.deleted = TRUE, !.version = @ + 1]), j)

\* SyncLimitedUnits: unsold numbers above the stack go, missing ones up to it come.
Surplus(p, o) ==
    {n \in Numbers : LET row == rows[Unit(o, n)]
                     IN  row.exists /\ row.owner = None /\ n > Row(p, Offer(o)).stack}
Missing(p, o) == {n \in 1 .. Row(p, Offer(o)).stack : ~rows[Unit(o, n)].exists}

SyncUnits(p) ==
    LET o == job[p].on IN
    Run(p, "syncUnits", TRUE,
        Over([r \in {Unit(o, n) : n \in Surplus(p, o)} |-> NoUnit],
             [r \in {Unit(o, n) : n \in Missing(p, o)} |-> Unsold]), job[p])

(***************************************************************************)
(* Needs, plans and requests.                                              *)
(***************************************************************************)
CatalogNeeds(p) ==
    LET o == job[p].on
    IN  CASE Doing(p, "completeUnit") \/ Doing(p, "updateItem") \/ Doing(p, "deleteItem")
                -> {Offer(o)}
          [] Doing(p, "syncUnits") -> {Unit(o, n) : n \in Surplus(p, o)}
          [] Doing(p, "insertRedemption") -> {Redemption(p)}
          [] OTHER -> {}

\* Purchase decides by the cached offer whether a unit has to be reserved.
Refreshing == <<"readCatalog", "storeCatalog">>
PurchasePlan(offer) ==
    IF Limited(offer)
    THEN <<"reserveUnit", "grant", "completeUnit", "commit">> \o Refreshing
    ELSE <<"grant", "commit">>
VoucherPlan ==
    <<"count", "insertRedemption", "grant">>
    \o (IF VoucherOffer = None THEN <<"commit">> ELSE <<"checkOffer">>)
CatalogPlan(j) ==
    CASE j.op = "Purchase" -> PurchasePlan(cache[j.on])
      [] j.op = "Voucher" -> VoucherPlan
      [] j.op = "Update" -> <<"findItem", "updateItem", "syncUnits", "commit">> \o Refreshing
      [] j.op = "Delete" -> <<"findItem", "deleteItem", "commit">> \o Refreshing

\* The requests; purchaseOffer admits what the cached generation has enabled.
CatalogJobs(p) ==
    CASE p = Timer -> {}
      [] p = Admin -> {Job(op, None, o, 0) : op \in {"Update", "Delete"}, o \in Offers}
      [] OTHER -> {Job("Purchase", p, o, -Cost) : o \in Purchasable}
                  \union {Job("Voucher", p, VoucherOffer, VoucherCredits)}

CatalogStatement(p) ==
    \/ ReserveUnit(p) \/ CompleteUnit(p) \/ ReadCatalog(p) \/ CountRedemptions(p)
    \/ InsertRedemption(p) \/ CheckOffer(p) \/ FindItem(p) \/ UpdateItem(p)
    \/ DeleteItem(p) \/ SyncUnits(p)

============================================================================
