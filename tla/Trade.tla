------------------------------- MODULE Trade -------------------------------
(***************************************************************************)
(* Direct trading between two players (src/internal/realm/trade).          *)
(*                                                                         *)
(* Every player has one connection whose read loop runs its packet         *)
(* handlers one after the other, so a player is one sequential process     *)
(* here: pc[p] says where inside a handler p's goroutine is.  The handlers *)
(* of different players run concurrently, and so do the room.left and      *)
(* player.disconnected listeners.  What the code does under one mutex      *)
(* (runtime.Registry, then runtime.Session) or in one SQL statement is one *)
(* step; everything else can be interleaved.                               *)
(*                                                                         *)
(* A furniture row is its owner and where it is.  A settlement transaction *)
(* holds the locks of the rows it has updated until it commits or rolls    *)
(* back; other readers see the committed rows.  The credit ledger counts   *)
(* how often each player was granted the value of each credit furniture,   *)
(* and a row that a settlement deleted is told from one another use did.   *)
(***************************************************************************)
EXTENDS Naturals, FiniteSets

CONSTANTS
    Players,      \* online players
    Items,        \* furniture instances
    CreditItems,  \* those whose definition has RedeemableCredits > 0
    Sessions,     \* identities of the trade sessions that may be allocated
    MaxItems,     \* Options.MaximumItems
    Leavers,      \* bound: the players that may leave the room
    Usable,       \* bound: the items that may be used outside of trading
    None          \* nil

ASSUME NoneAssumption == None \notin Players /\ None \notin Sessions
ASSUME CreditAssumption == CreditItems \subseteq Items
ASSUME MaxItemsAssumption == MaxItems \in Nat
ASSUME BoundAssumption == Leavers \subseteq Players /\ Usable \subseteq Items

VARIABLES
    inRoom,     \* the players that have a unit in the trading room
    departed,   \* players whose room.left event has not been delivered yet
    byPlayer,   \* Registry.byPlayer
    staged,     \* Registry.staged
    first,      \* Session.First.PlayerID, None before the session exists
    second,     \* Session.Second.PlayerID
    offered,    \* Participant.Items of both sides
    accepted,   \* the participants with Accepted
    confirmed,  \* the participants with Confirmed
    settling,   \* the sessions with settling
    closed,     \* the sessions with closed
    item,       \* committed furniture_items rows
    wallet,     \* how often each player was granted an item's value
    pc,         \* where each player's handler is
    peer,       \* the target of a Start being executed
    sess,       \* the session a handler has looked up
    want,       \* the items a handler was asked to move
    bundle,     \* the offers settle read with Snapshot
    written,    \* rows updated by the settlement transaction
    terms       \* history: both offers as they were when a player confirmed

roomVars == <<inRoom, departed>>
registryVars == <<byPlayer, staged>>
sessionVars == <<first, second, offered, accepted, confirmed, settling, closed>>
rowVars == <<item, wallet>>
callVars == <<peer, sess, want>>
txVars == <<bundle, written>>
vars == <<roomVars, registryVars, sessionVars, rowVars, pc, callVars, txVars, terms>>

\* A deleted row is redeemed by a settlement or gone to another use.
Places == {"inventory", "room", "reserved", "redeemed", "gone"}
Rows == [owner: Players, place: Places]
Offers == [Players -> SUBSET Items]
NoOffers == [p \in Players |-> {}]
NoTerms == [p \in Players |-> NoOffers]

\* Handler positions inside settle and what follows it.
InTransaction == {"validating", "transferring"}
AfterSettle == {"completing", "failing"}
SettlerPcs == {"snapshotting"} \cup InTransaction \cup AfterSettle
Pcs == {"idle", "starting", "staging", "unstaging", "accepting", "unaccepting",
        "confirming", "failclosing", "placing", "listing",
         "toroom", "tomarket"} \cup SettlerPcs

Other(s, p) == IF p = first[s] THEN second[s] ELSE first[s]
Participants(s) == {first[s], second[s]}
Live(s) == first[s] # None /\ s \notin closed
Offer(s) == offered[s][first[s]] \cup offered[s][second[s]]
Available(i, p) == item[i] = [owner |-> p, place |-> "inventory"]
Locked == UNION {written[p] : p \in Players}

Return(p) == pc' = [pc EXCEPT ![p] = "idle"]
Goto(p, label) == pc' = [pc EXCEPT ![p] = label]

-----------------------------------------------------------------------------
Init ==
    /\ inRoom = Players
    /\ departed = {}
    /\ byPlayer = [p \in Players |-> None]
    /\ staged = [i \in Items |-> None]
    /\ first = [s \in Sessions |-> None]
    /\ second = [s \in Sessions |-> None]
    /\ offered = [s \in Sessions |-> NoOffers]
    /\ accepted = [s \in Sessions |-> {}]
    /\ confirmed = [s \in Sessions |-> {}]
    /\ settling = {}
    /\ closed = {}
    /\ item \in [Items -> [owner: Players, place: {"inventory"}]]
    /\ wallet = [p \in Players |-> [i \in Items |-> 0]]
    /\ pc = [p \in Players |-> "idle"]
    /\ peer = [p \in Players |-> None]
    /\ sess = [p \in Players |-> None]
    /\ want = [p \in Players |-> {}]
    /\ bundle = [p \in Players |-> NoOffers]
    /\ written = [p \in Players |-> {}]
    /\ terms = [s \in Sessions |-> NoTerms]

-----------------------------------------------------------------------------
(* Session and registry operations, each under its mutex.                  *)

\* Mutant: the agreement survives an offer change.
ResetNothing(s) == UNCHANGED <<accepted, confirmed, settling>>

\* Session.reset: no agreement survives a change of either offer.
Reset(s) ==
    /\ accepted' = [accepted EXCEPT ![s] = {}]
    /\ confirmed' = [confirmed EXCEPT ![s] = {}]
    /\ settling' = settling \ {s}

\* AddItems and RemoveItem refuse a closed or settling session.
Editable(s) == s \notin closed /\ s \notin settling

\* Mutant: only one offer of a session is forgotten.
ForgetFirstOffer(s) ==
    /\ byPlayer' = [p \in Players |-> IF p \in Participants(s) THEN None ELSE byPlayer[p]]
    /\ staged' = [i \in Items |-> IF i \in offered[s][first[s]] THEN None ELSE staged[i]]

\* Registry.remove.
Forget(s) ==
    /\ byPlayer' = [p \in Players |-> IF p \in Participants(s) THEN None ELSE byPlayer[p]]
    /\ staged' = [i \in Items |-> IF i \in Offer(s) THEN None ELSE staged[i]]

\* Mutant: a settling session can be cancelled.
CancellableAnytime(s) == s \notin closed

\* TryCancel: cancellation never takes a session away from its settlement.
Cancellable(s) == s \notin closed /\ s \notin settling

\* No operation reads what a closed session held: the model drops it.
Discard(s) ==
    /\ closed' = closed \cup {s}
    /\ offered' = [offered EXCEPT ![s] = NoOffers]
    /\ accepted' = [accepted EXCEPT ![s] = {}]
    /\ confirmed' = [confirmed EXCEPT ![s] = {}]
    /\ terms' = [terms EXCEPT ![s] = NoTerms]

\* Registry.Close, on whatever session the player is in now.
CloseSession(p) ==
    IF byPlayer[p] # None /\ Cancellable(byPlayer[p])
    THEN /\ Forget(byPlayer[p])
         /\ Discard(byPlayer[p])
         /\ UNCHANGED <<first, second, settling>>
    ELSE UNCHANGED <<registryVars, sessionVars, terms>>

\* A new Session object: an identity nobody used, or one that was closed
\* and that no handler refers to any more.
Fresh(s) == first[s] = None \/ (s \in closed /\ \A p \in Players : sess[p] # s)

-----------------------------------------------------------------------------
(* Service.Start: the checks read the room and the registry, then          *)
(* Registry.Start registers the session if both players are still idle.    *)

StartCheck(p, q) ==
    /\ pc[p] = "idle"
    /\ q # p
    /\ {p, q} \subseteq inRoom
    /\ byPlayer[p] = None /\ byPlayer[q] = None
    /\ Goto(p, "starting")
    /\ peer' = [peer EXCEPT ![p] = q]
    /\ UNCHANGED <<roomVars, registryVars, sessionVars, rowVars, sess, want, txVars, terms>>

StartRegister(p, s) ==
    /\ pc[p] = "starting"
    /\ Fresh(s)
    /\ byPlayer[p] = None /\ byPlayer[peer[p]] = None
    /\ byPlayer' = [byPlayer EXCEPT ![p] = s, ![peer[p]] = s]
    /\ first' = [first EXCEPT ![s] = p]
    /\ second' = [second EXCEPT ![s] = peer[p]]
    /\ closed' = closed \ {s}
    /\ Return(p)
    /\ peer' = [peer EXCEPT ![p] = None]
    /\ UNCHANGED <<roomVars, staged, offered, accepted, confirmed, settling, rowVars, sess, want,
                   txVars, terms>>

\* ErrUnavailable: one of the two is trading by now.
StartRefused(p) ==
    /\ pc[p] = "starting"
    /\ byPlayer[p] # None \/ byPlayer[peer[p]] # None
    /\ Return(p)
    /\ peer' = [peer EXCEPT ![p] = None]
    /\ UNCHANGED <<roomVars, registryVars, sessionVars, rowVars, sess, want, txVars, terms>>

-----------------------------------------------------------------------------
(* Service.Offer: a check against a snapshot and the committed rows, then  *)
(* Registry.StageMany on the session the player is in by that time.        *)

Fits(p, items) == Cardinality(offered[byPlayer[p]][p]) + Cardinality(items) <= MaxItems

OfferValidate(p, items) ==
    /\ pc[p] = "idle"
    /\ byPlayer[p] # None
    /\ items # {}
    /\ Fits(p, items)
    /\ \A i \in items : Available(i, p)
    /\ Goto(p, "staging")
    /\ want' = [want EXCEPT ![p] = items]
    /\ UNCHANGED <<roomVars, registryVars, sessionVars, rowVars, peer, sess, txVars, terms>>

OfferStage(p) ==
    LET s == byPlayer[p] IN
    /\ pc[p] = "staging"
    /\ IF s # None /\ (\A i \in want[p] : staged[i] = None) /\ Editable(s)
       THEN /\ offered' = [offered EXCEPT ![s][p] = @ \cup want[p]]
            /\ staged' = [i \in Items |-> IF i \in want[p] THEN p ELSE staged[i]]
            /\ Reset(s)
       ELSE UNCHANGED <<offered, staged, accepted, confirmed, settling>>
    /\ Return(p)
    /\ want' = [want EXCEPT ![p] = {}]
    /\ UNCHANGED <<roomVars, byPlayer, first, second, closed, rowVars, peer, sess, txVars, terms>>

(* Service.Remove: refused once the player has accepted, then Unstage.     *)
RemoveCheck(p, i) ==
    /\ pc[p] = "idle"
    /\ byPlayer[p] # None
    /\ p \notin accepted[byPlayer[p]]
    /\ Goto(p, "unstaging")
    /\ want' = [want EXCEPT ![p] = {i}]
    /\ UNCHANGED <<roomVars, registryVars, sessionVars, rowVars, peer, sess, txVars, terms>>

Unstage(p) ==
    LET s == byPlayer[p] IN
    /\ pc[p] = "unstaging"
    /\ IF s # None /\ (\A i \in want[p] : staged[i] = p) /\ Editable(s)
            /\ want[p] \subseteq offered[s][p]
       THEN /\ offered' = [offered EXCEPT ![s][p] = @ \ want[p]]
            /\ staged' = [i \in Items |-> IF i \in want[p] THEN None ELSE staged[i]]
            /\ Reset(s)
       ELSE UNCHANGED <<offered, staged, accepted, confirmed, settling>>
    /\ Return(p)
    /\ want' = [want EXCEPT ![p] = {}]
    /\ UNCHANGED <<roomVars, byPlayer, first, second, closed, rowVars, peer, sess, txVars, terms>>

-----------------------------------------------------------------------------
(* Accept and Confirm look the session up first and work on that object    *)
(* afterwards, which may have been closed meanwhile.                       *)

FindSession(p, label) ==
    /\ pc[p] = "idle"
    /\ byPlayer[p] # None
    /\ Goto(p, label)
    /\ sess' = [sess EXCEPT ![p] = byPlayer[p]]
    /\ UNCHANGED <<roomVars, registryVars, sessionVars, rowVars, peer, want, txVars, terms>>

Accept(s, p) ==
    /\ accepted' = [accepted EXCEPT ![s] = @ \cup {p}]
    /\ confirmed' = [confirmed EXCEPT ![s] = @ \ {p}]

Unaccept(s, p) ==
    /\ accepted' = [accepted EXCEPT ![s] = @ \ {p}]
    /\ confirmed' = [confirmed EXCEPT ![s] = @ \ Participants(s)]

SetAccepted(p) ==
    LET s == sess[p] IN
    /\ pc[p] \in {"accepting", "unaccepting"}
    /\ IF Editable(s)
       THEN IF pc[p] = "accepting" THEN Accept(s, p) ELSE Unaccept(s, p)
       ELSE UNCHANGED <<accepted, confirmed>>
    /\ Return(p)
    /\ sess' = [sess EXCEPT ![p] = None]
    /\ UNCHANGED <<roomVars, registryVars, first, second, offered, settling, closed,
                   rowVars, peer, want, txVars, terms>>

\* Mutant: a confirmation repeated during settlement claims it again.
ClaimsAgain(s, p) == Participants(s) \subseteq confirmed[s] \cup {p}

\* The second confirmation claims the settlement.
Claims(s, p) == Participants(s) \subseteq confirmed[s] \cup {p} /\ s \notin settling

\* Session.Confirm
Confirm(p) ==
    LET s == sess[p] IN
    /\ pc[p] = "confirming"
    /\ IF s \notin closed /\ Participants(s) \subseteq accepted[s]
       THEN /\ confirmed' = [confirmed EXCEPT ![s] = @ \cup {p}]
            /\ terms' = [terms EXCEPT ![s][p] = offered[s]]
            /\ IF Claims(s, p)
               THEN settling' = settling \cup {s} /\ Goto(p, "snapshotting") /\ UNCHANGED sess
               ELSE UNCHANGED settling /\ Return(p) /\ sess' = [sess EXCEPT ![p] = None]
       ELSE /\ UNCHANGED <<confirmed, terms, settling>>
            /\ Return(p)
            /\ sess' = [sess EXCEPT ![p] = None]
    /\ UNCHANGED <<roomVars, registryVars, first, second, offered, accepted, closed,
                   rowVars, peer, want, txVars>>

-----------------------------------------------------------------------------
(* Service.settle: one READ COMMITTED transaction.                         *)

SettleSnapshot(p) ==
    /\ pc[p] = "snapshotting"
    /\ bundle' = [bundle EXCEPT ![p] = offered[sess[p]]]
    /\ Goto(p, "validating")
    /\ UNCHANGED <<roomVars, registryVars, sessionVars, rowVars, callVars, written, terms>>

BundleItems(p) == UNION {bundle[p][q] : q \in Participants(sess[p])}
Giver(p, i) == IF i \in bundle[p][first[sess[p]]] THEN first[sess[p]] ELSE second[sess[p]]
Taker(p, i) == Other(sess[p], Giver(p, i))

\* The transaction fails: nothing it wrote survives.
Rollback(p) ==
    /\ Goto(p, "failing")
    /\ bundle' = [bundle EXCEPT ![p] = NoOffers]
    /\ written' = [written EXCEPT ![p] = {}]

\* validateOffer on both sides.
SettleValidate(p) ==
    /\ pc[p] = "validating"
    /\ IF \A i \in BundleItems(p) : Available(i, Giver(p, i))
       THEN Goto(p, "transferring") /\ UNCHANGED txVars
       ELSE Rollback(p)
    /\ UNCHANGED <<roomVars, registryVars, sessionVars, rowVars, callVars, terms>>

\* Mutant: the update trusts what the handler read before.
RowTrusted(i, p) == TRUE

\* The guard of transferInventoryItemSQL and deleteInventoryItemSQL.
RowGuard(i, p) == item[i].owner = p /\ item[i].place = "inventory"

\* transfer: one guarded update; the row stays locked until the end.
SettleTransfer(p, i) ==
    /\ pc[p] = "transferring"
    /\ i \in BundleItems(p) \ written[p]
    /\ i \notin Locked
    /\ IF RowGuard(i, Giver(p, i))
       THEN written' = [written EXCEPT ![p] = @ \cup {i}] /\ UNCHANGED <<pc, bundle>>
       ELSE Rollback(p)
    /\ UNCHANGED <<roomVars, registryVars, sessionVars, rowVars, callVars, terms>>

\* Credit furniture is consumed, the rest is transferred.
SettledRow(p, i) ==
    IF i \in CreditItems THEN [owner |-> item[i].owner, place |-> "redeemed"]
    ELSE [owner |-> Taker(p, i), place |-> item[i].place]

\* Mutant: the credits of both offers are granted to each side.
GrantedToBoth(p, q, i) ==
    IF q \in Participants(sess[p]) /\ i \in CreditItems \cap BundleItems(p) THEN 1 ELSE 0

\* Each side is granted what validateOffer summed over the other's offer.
Granted(p, q, i) ==
    IF /\ q \in Participants(sess[p])
       /\ i \in CreditItems \cap bundle[p][Other(sess[p], q)]
    THEN 1 ELSE 0

\* Every row is written: the credit grants, the audit row and the commit.
SettleCommit(p) ==
    /\ pc[p] = "transferring"
    /\ written[p] = BundleItems(p)
    /\ item' = [i \in Items |->
                  IF i \in written[p] THEN SettledRow(p, i) ELSE item[i]]
    /\ wallet' = [q \in Players |-> [i \in Items |-> wallet[q][i] + Granted(p, q, i)]]
    /\ Goto(p, "completing")
    /\ bundle' = [bundle EXCEPT ![p] = NoOffers]
    /\ written' = [written EXCEPT ![p] = {}]
    /\ UNCHANGED <<roomVars, registryVars, sessionVars, callVars, terms>>

\* A statement, a credit grant, the audit insert or the commit fails.
SettleError(p) ==
    /\ pc[p] \in InTransaction
    /\ Rollback(p)
    /\ UNCHANGED <<roomVars, registryVars, sessionVars, rowVars, callVars, terms>>

\* closeSession: Registry.Complete with CompleteSettlement, by first player.
Complete(p) ==
    LET s == byPlayer[first[sess[p]]] IN
    /\ pc[p] = "completing"
    /\ IF s # None
       THEN /\ settling' = settling \ {s}
            /\ Forget(s)
            /\ Discard(s)
       ELSE UNCHANGED <<registryVars, offered, accepted, confirmed, settling, closed, terms>>
    /\ Return(p)
    /\ sess' = [sess EXCEPT ![p] = None]
    /\ UNCHANGED <<roomVars, first, second, rowVars, peer, want, txVars>>

\* Mutant: a failed settlement leaves the trade open.
KeepOpen(p) == Return(p)

\* Service.Confirm goes on to closeWithReason.
ThenClose(p) == Goto(p, "failclosing")

FailSettlement(p) ==
    LET s == sess[p] IN
    /\ pc[p] = "failing"
    /\ confirmed' = [confirmed EXCEPT ![s] = @ \ Participants(s)]
    /\ settling' = settling \ {s}
    /\ ThenClose(p)
    /\ sess' = [sess EXCEPT ![p] = None]
    /\ UNCHANGED <<roomVars, registryVars, first, second, offered, accepted, closed,
                   rowVars, peer, want, txVars, terms>>

\* closeWithReason after a failure: by player, not by session.
CloseAfterFailure(p) ==
    /\ pc[p] = "failclosing"
    /\ CloseSession(p)
    /\ Return(p)
    /\ UNCHANGED <<roomVars, rowVars, callVars, txVars>>

\* Service.Close from the close and cancel packets.
Close(p) ==
    /\ pc[p] = "idle"
    /\ byPlayer[p] # None
    /\ CloseSession(p)
    /\ UNCHANGED <<roomVars, rowVars, pc, callVars, txVars>>

-----------------------------------------------------------------------------
(* Leaving the room, by the player, by a kick or by a disconnection: the   *)
(* room drops the unit, then publishes the event trade/module.go handles.  *)

Depart(p) ==
    /\ p \in inRoom
    /\ inRoom' = inRoom \ {p}
    /\ departed' = departed \cup {p}
    /\ UNCHANGED <<registryVars, sessionVars, rowVars, pc, callVars, txVars, terms>>

CancelForLifecycle(p) ==
    /\ p \in departed
    /\ departed' = departed \ {p}
    /\ CloseSession(p)
    /\ UNCHANGED <<inRoom, rowVars, pc, callVars, txVars>>

Enter(p) ==
    /\ p \notin inRoom
    /\ inRoom' = inRoom \cup {p}
    /\ UNCHANGED <<departed, registryVars, sessionVars, rowVars, pc, callVars, txVars, terms>>

-----------------------------------------------------------------------------
(* Other uses of the same rows.                                            *)

\* Service.Place and ReserveForMarketplace read the row ...
WithdrawRead(p, i, label) ==
    /\ pc[p] = "idle"
    /\ Available(i, p)
    /\ Goto(p, label)
    /\ want' = [want EXCEPT ![p] = {i}]
    /\ UNCHANGED <<roomVars, registryVars, sessionVars, rowVars, peer, sess, txVars, terms>>

\* ... then ask StagedChecker; a trade may have ended since the row was read ...
WithdrawCheck(p) ==
    /\ pc[p] \in {"placing", "listing"}
    /\ IF \A i \in want[p] : staged[i] = None
       THEN Goto(p, IF pc[p] = "placing" THEN "toroom" ELSE "tomarket") /\ UNCHANGED want
       ELSE Return(p) /\ want' = [want EXCEPT ![p] = {}]
    /\ UNCHANGED <<roomVars, registryVars, sessionVars, rowVars, peer, sess, txVars, terms>>

\* The guards of placeItemSQL, which does not look at marketplace_reserved,
\* and of reserveForMarketplaceSQL.
WithdrawGuard(i, p) ==
    /\ item[i].owner = p
    /\ item[i].place \in IF pc[p] = "toroom" THEN {"inventory", "reserved"} ELSE {"inventory"}

Destination(label) == IF label = "toroom" THEN "room" ELSE "reserved"

\* ... then run the guarded update, which waits for the row.
WithdrawWrite(p) ==
    /\ pc[p] \in {"toroom", "tomarket"}
    /\ want[p] \cap Locked = {}
    /\ IF \A i \in want[p] : WithdrawGuard(i, p)
       THEN item' = [i \in Items |->
                        IF i \in want[p] THEN [owner |-> p, place |-> Destination(pc[p])] ELSE item[i]]
       ELSE UNCHANGED item
    /\ Return(p)
    /\ want' = [want EXCEPT ![p] = {}]
    /\ UNCHANGED <<roomVars, registryVars, sessionVars, wallet, peer, sess, txVars, terms>>

\* Service.Pickup, and ReleaseFromMarketplace when a listing ends unsold.
PutBack(i) ==
    /\ item[i].place \in {"room", "reserved"}
    /\ item' = [item EXCEPT ![i] = [owner |-> item[i].owner, place |-> "inventory"]]
    /\ UNCHANGED <<roomVars, registryVars, sessionVars, wallet, pc, callVars, txVars, terms>>

\* TransferFromMarketplace: a listing is bought.
Sell(i, buyer) ==
    /\ item[i].place = "reserved"
    /\ item[i].owner # buyer
    /\ pc[buyer] = "idle"
    /\ item' = [item EXCEPT ![i] = [owner |-> buyer, place |-> "inventory"]]
    /\ UNCHANGED <<roomVars, registryVars, sessionVars, wallet, pc, callVars, txVars, terms>>

\* DeleteInventoryItem by the recycler, a recipe, a pet package: the staged
\* index is not consulted.
Consume(p, i) ==
    /\ pc[p] = "idle"
    /\ i \notin Locked
    /\ RowGuard(i, p)
    /\ item' = [item EXCEPT ![i] = [owner |-> p, place |-> "gone"]]
    /\ UNCHANGED <<roomVars, registryVars, sessionVars, wallet, pc, callVars, txVars, terms>>

-----------------------------------------------------------------------------
\* The rest of a handler that has begun.
Proceed(p) ==
    \/ StartRefused(p) \/ \E s \in Sessions : StartRegister(p, s)
    \/ OfferStage(p) \/ Unstage(p) \/ SetAccepted(p) \/ Confirm(p)
    \/ SettleSnapshot(p) \/ SettleValidate(p)
    \/ (\E i \in Items : SettleTransfer(p, i))
    \/ SettleCommit(p) \/ SettleError(p)
    \/ Complete(p) \/ FailSettlement(p) \/ CloseAfterFailure(p)
    \/ WithdrawCheck(p) \/ WithdrawWrite(p)

\* A packet arrives.
Begin(p) ==
    \/ \E q \in Players : StartCheck(p, q)
    \/ \E items \in SUBSET Items : OfferValidate(p, items)
    \/ \E i \in Items : RemoveCheck(p, i)
    \/ \E label \in {"accepting", "unaccepting", "confirming"} : FindSession(p, label)
    \/ \E i \in Usable, label \in {"placing", "listing"} : WithdrawRead(p, i, label)
    \/ \E i \in Usable : Consume(p, i)
    \/ Close(p)

Presence(p) == Depart(p) \/ CancelForLifecycle(p) \/ Enter(p)

Market(i) == PutBack(i) \/ \E buyer \in Players : Sell(i, buyer)

Next ==
    \/ \E p \in Players : Proceed(p) \/ Begin(p)
    \/ \E p \in Leavers : Presence(p)
    \/ \E i \in Usable : Market(i)

\* A goroutine that has begun a handler is scheduled until it returns, and
\* a published event is delivered.
Fairness == \A p \in Players : WF_vars(Proceed(p))
              /\ (p \in Leavers => WF_vars(CancelForLifecycle(p)))

Spec == Init /\ [][Next]_vars /\ Fairness

-----------------------------------------------------------------------------
(* Correctness.                                                            *)

\* The session whose exchange is committed is spent.
Spent(s) == \E r \in Players : sess[r] = s /\ pc[r] = "completing"

\* Every variable keeps the shape the Go types give it.
TypeOK ==
    /\ inRoom \subseteq Players /\ departed \subseteq Players
    /\ byPlayer \in [Players -> Sessions \cup {None}]
    /\ staged \in [Items -> Players \cup {None}]
    /\ first \in [Sessions -> Players \cup {None}]
    /\ second \in [Sessions -> Players \cup {None}]
    /\ offered \in [Sessions -> Offers]
    /\ accepted \in [Sessions -> SUBSET Players]
    /\ confirmed \in [Sessions -> SUBSET Players]
    /\ settling \subseteq Sessions /\ closed \subseteq Sessions
    /\ item \in [Items -> Rows]
    /\ wallet \in [Players -> [Items -> Nat]]
    /\ pc \in [Players -> Pcs]
    /\ peer \in [Players -> Players \cup {None}]
    /\ sess \in [Players -> Sessions \cup {None}]
    /\ want \in [Players -> SUBSET Items]
    /\ bundle \in [Players -> Offers]
    /\ written \in [Players -> SUBSET Items]
    /\ terms \in [Sessions -> [Players -> Offers]]

\* Registry.byPlayer holds exactly the participants of the sessions that are
\* open: no session is lost, reachable from one side only, or kept when closed.
IndexesSessions ==
    \A p \in Players, s \in Sessions :
        byPlayer[p] = s <=> Live(s) /\ p \in Participants(s)

\* Registry.staged holds exactly the items of the open offers, each under
\* the player who offers it, whatever batch, removal or close came before.
IndexesOffers ==
    \A i \in Items, p \in Players :
        staged[i] = p <=> \E s \in Sessions : byPlayer[p] = s /\ i \in offered[s][p]

\* Both indexes of the registry are exact.
RegistryExact == IndexesSessions /\ IndexesOffers

\* At most one handler runs the settlement of a session, however the two
\* confirmations and their repetitions interleave.
OneSettler ==
    \A p, q \in Players :
        pc[p] \in SettlerPcs /\ pc[q] \in SettlerPcs /\ sess[p] = sess[q] => p = q

\* While a settlement runs, no cancellation, kick or disconnection takes
\* the session away from it: it stays open and registered for both sides.
SettlementOwnsSession ==
    \A p \in Players : pc[p] \in SettlerPcs =>
        /\ sess[p] \in settling
        /\ sess[p] \notin closed
        /\ \A q \in Participants(sess[p]) : byPlayer[q] = sess[p]

\* What is being settled is what both sides confirmed: neither offer was
\* changed after either player last said yes to both of them.
AgreedTerms ==
    \A p \in Players : pc[p] \in SettlerPcs =>
        \A q \in Participants(sess[p]) :
            /\ q \in confirmed[sess[p]]
            /\ terms[sess[p]][q] = offered[sess[p]]

\* Final confirmation never outlives first-phase acceptance of either side.
ConfirmedImpliesAccepted ==
    \A s \in Sessions : confirmed[s] # {} => Participants(s) \subseteq accepted[s]

\* A credit furniture that a settlement deletes is paid out exactly once, to the
\* other side than the one that gave it, although the deletions follow the rows
\* and the grants the offers; nothing else is paid, and nothing paid is left.
ValueOnce ==
    \A i \in Items :
        IF item[i].place = "redeemed"
        THEN \E q \in Players \ {item[i].owner} :
                 /\ wallet[q][i] = 1
                 /\ \A r \in Players \ {q} : wallet[r][i] = 0
        ELSE \A q \in Players : wallet[q][i] = 0

\* An item enters a room or the marketplace only by the hand of its owner,
\* even when a trade takes it between the handler's reads and its update; and a
\* listed item is not put in a room, although the statement that places items
\* does not check for it.
OnlyOwnerWithdraws ==
    [][\A i \in Items :
         /\ item[i].place = "inventory" /\ item'[i].place \in {"room", "reserved"} =>
               pc[item[i].owner] \in {"toroom", "tomarket"} /\ pc'[item[i].owner] = "idle"
         /\ item[i].place = "reserved" => item'[i].place # "room"]_vars

\* A session whose settlement was claimed is eventually closed, by
\* completion or by the cancellation that follows a failed transaction.
SettlementEnds == \A s \in Sessions : s \in settling ~> s \in closed

-----------------------------------------------------------------------------
(* What trading promises: consent and one indivisible exchange.            *)

Agreement(p) ==
    LET s == byPlayer[p] IN
    IF s # None /\ p \in confirmed[s] /\ ~Spent(s)
    THEN [with |-> Other(s, p),
          give |-> terms[s][p][p], take |-> terms[s][p][Other(s, p)]]
    ELSE [with |-> p, give |-> {}, take |-> {}]

Swap == INSTANCE TradeSwap WITH agreed <- [p \in Players |-> Agreement(p)]

\* Every step of trading is an exchange both players agreed to, a use of a
\* furniture outside of trading, or invisible.
SwapSpec == Swap!Spec
=============================================================================
