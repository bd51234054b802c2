---------------------------- MODULE TradeProofs ----------------------------
(***************************************************************************)
(* Safety of direct trading, for any sets of players, items and sessions.  *)
(***************************************************************************)
EXTENDS Trade, TLAPS

\* Both sides of a session are set together and differ.
TwoSides ==
    \A s \in Sessions :
        /\ first[s] = None <=> second[s] = None
        /\ first[s] # None => first[s] # second[s]

\* Nothing is left in a session that is not open.
OnlyLiveHold ==
    \A s \in Sessions : ~Live(s) =>
        /\ offered[s] = NoOffers
        /\ confirmed[s] = {}
        /\ s \notin settling

\* Only participants confirm, after both accepted, and every confirmation
\* stands for the offers as they are now.
Confirmations ==
    \A s \in Sessions :
        /\ confirmed[s] \subseteq Participants(s)
        /\ confirmed[s] # {} => Participants(s) \subseteq accepted[s]
        /\ \A q \in confirmed[s] : terms[s][q] = offered[s]

\* What a handler remembers is usable: its session was registered with it,
\* and a Start has a target.
Handlers ==
    \A p \in Players :
        /\ sess[p] # None => first[sess[p]] # None /\ p \in Participants(sess[p])
        /\ pc[p] \in {"accepting", "unaccepting", "confirming"} \cup SettlerPcs => sess[p] # None
        /\ pc[p] = "starting" => peer[p] \in Players \ {p}

\* A settlement has both confirmations.
SettlesConfirmed ==
    \A p \in Players :
        pc[p] \in SettlerPcs => Participants(sess[p]) \subseteq confirmed[sess[p]]

\* The inductive invariant: typing, what the registry and the settlement
\* promise, and the facts about one session and one handler they rest on.
IInv ==
    /\ TypeOK
    /\ TwoSides
    /\ OnlyLiveHold
    /\ Confirmations
    /\ Handlers
    /\ SettlesConfirmed
    /\ IndexesSessions
    /\ OneSettler
    /\ SettlementOwnsSession

-----------------------------------------------------------------------------
USE NoneAssumption, CreditAssumption, BoundAssumption

\* The initial state satisfies the invariant.
LEMMA InitInv == Init => IInv
  BY DEF Init, IInv, TypeOK, TwoSides, OnlyLiveHold, Confirmations, Handlers,
         SettlesConfirmed, IndexesSessions, OneSettler, SettlementOwnsSession,
         Live, Participants, Rows, Places, Offers, NoOffers, NoTerms, Pcs,
         SettlerPcs, InTransaction, AfterSettle

\* The parts of the invariant other than typing speak of these variables only.
proofVars == <<byPlayer, sessionVars, terms>>

\* A session without offers is well formed.
LEMMA EmptyOffers == NoOffers \in Offers /\ NoTerms \in [Players -> Offers]
  BY DEF NoOffers, NoTerms, Offers

\* A failed transaction leaves a well-formed handler.
LEMMA RollbackTypes ==
    ASSUME TypeOK, NEW p \in Players, Rollback(p)
    PROVE  /\ pc' \in [Players -> Pcs]
           /\ bundle' \in [Players -> Offers]
           /\ written' \in [Players -> SUBSET Items]
  BY EmptyOffers DEF TypeOK, Rollback, Goto, Pcs, SettlerPcs, AfterSettle

\* A handler that begins, returns or moves on without touching any session.
LEMMA QuietStep ==
    ASSUME IInv, TypeOK', UNCHANGED proofVars, UNCHANGED sess,
           \A q \in Players :
             /\ pc'[q] \in {"accepting", "unaccepting", "confirming"} => pc'[q] = pc[q]
             /\ pc'[q] \in SettlerPcs => pc[q] \in SettlerPcs
             /\ pc'[q] = "starting" => peer'[q] \in Players \ {q}
    PROVE  IInv'
<1>1. (TwoSides /\ OnlyLiveHold /\ Confirmations /\ IndexesSessions)'
  BY DEF proofVars, sessionVars, IInv, TwoSides, OnlyLiveHold, Confirmations,
         IndexesSessions, Live, Participants
<1>2. Handlers'
  <2>1. \A q \in Players : pc'[q] \in SettlerPcs => pc[q] \in SettlerPcs
    OBVIOUS
  <2>2. \A q \in Players :
          /\ sess'[q] = sess[q]
          /\ sess[q] # None => first'[sess[q]] = first[sess[q]] /\ second'[sess[q]] = second[sess[q]]
    BY DEF proofVars, sessionVars
  <2>3. QED
    BY <2>1, <2>2 DEF IInv, Handlers, Participants
<1>3. (SettlesConfirmed /\ OneSettler /\ SettlementOwnsSession)'
  BY DEF proofVars, sessionVars, IInv, SettlesConfirmed, OneSettler, SettlementOwnsSession,
         Participants
<1>4. QED
  BY <1>1, <1>2, <1>3 DEF IInv

\* Service.Start, its checks.
LEMMA StartCheckStep ==
    ASSUME IInv, NEW p \in Players, NEW q \in Players, StartCheck(p, q)
    PROVE  IInv'
<1>1. TypeOK'
  BY DEF IInv, TypeOK, StartCheck, Goto, roomVars, registryVars, sessionVars,
         rowVars, callVars, txVars, Rows, Places, Pcs, SettlerPcs,
         InTransaction, AfterSettle
<1>2. UNCHANGED proofVars /\ UNCHANGED sess
  BY DEF StartCheck, Goto, registryVars, sessionVars, callVars, proofVars
<1>3. \A r \in Players :
        /\ pc'[r] \in {"accepting", "unaccepting", "confirming"} => pc'[r] = pc[r]
        /\ pc'[r] \in SettlerPcs => pc[r] \in SettlerPcs
        /\ pc'[r] = "starting" => peer'[r] \in Players \ {r}
  BY DEF IInv, TypeOK, Handlers, StartCheck, Goto, callVars, SettlerPcs, InTransaction,
         AfterSettle
<1>4. QED
  BY <1>1, <1>2, <1>3, QuietStep

\* Service.Start when one of the two is trading by now.
LEMMA StartRefusedStep ==
    ASSUME IInv, NEW p \in Players, StartRefused(p)
    PROVE  IInv'
<1>1. TypeOK'
  BY DEF IInv, TypeOK, StartRefused, Return, roomVars, registryVars, sessionVars,
         rowVars, callVars, txVars, Rows, Places, Pcs, SettlerPcs,
         InTransaction, AfterSettle
<1>2. UNCHANGED proofVars /\ UNCHANGED sess
  BY DEF StartRefused, Return, registryVars, sessionVars, callVars, proofVars
<1>3. \A q \in Players :
        /\ pc'[q] \in {"accepting", "unaccepting", "confirming"} => pc'[q] = pc[q]
        /\ pc'[q] \in SettlerPcs => pc[q] \in SettlerPcs
        /\ pc'[q] = "starting" => peer'[q] \in Players \ {q}
  BY DEF IInv, TypeOK, Handlers, StartRefused, Return, callVars, SettlerPcs, InTransaction,
         AfterSettle
<1>4. QED
  BY <1>1, <1>2, <1>3, QuietStep

\* Service.Offer, its checks.
LEMMA OfferValidateStep ==
    ASSUME IInv, NEW p \in Players, NEW items \in SUBSET Items, OfferValidate(p, items)
    PROVE  IInv'
<1>1. TypeOK'
  BY DEF IInv, TypeOK, OfferValidate, Goto, roomVars, registryVars, sessionVars,
         rowVars, callVars, txVars, Rows, Places, Pcs, SettlerPcs,
         InTransaction, AfterSettle
<1>2. UNCHANGED proofVars /\ UNCHANGED sess
  BY DEF OfferValidate, Goto, registryVars, sessionVars, callVars, proofVars
<1>3. \A q \in Players :
        /\ pc'[q] \in {"accepting", "unaccepting", "confirming"} => pc'[q] = pc[q]
        /\ pc'[q] \in SettlerPcs => pc[q] \in SettlerPcs
        /\ pc'[q] = "starting" => peer'[q] \in Players \ {q}
  BY DEF IInv, TypeOK, Handlers, OfferValidate, Goto, callVars, SettlerPcs, InTransaction,
         AfterSettle
<1>4. QED
  BY <1>1, <1>2, <1>3, QuietStep

\* Service.Remove, its checks.
LEMMA RemoveCheckStep ==
    ASSUME IInv, NEW p \in Players, NEW i \in Items, RemoveCheck(p, i)
    PROVE  IInv'
<1>1. TypeOK'
  BY DEF IInv, TypeOK, RemoveCheck, Goto, roomVars, registryVars, sessionVars,
         rowVars, callVars, txVars, Rows, Places, Pcs, SettlerPcs,
         InTransaction, AfterSettle
<1>2. UNCHANGED proofVars /\ UNCHANGED sess
  BY DEF RemoveCheck, Goto, registryVars, sessionVars, callVars, proofVars
<1>3. \A q \in Players :
        /\ pc'[q] \in {"accepting", "unaccepting", "confirming"} => pc'[q] = pc[q]
        /\ pc'[q] \in SettlerPcs => pc[q] \in SettlerPcs
        /\ pc'[q] = "starting" => peer'[q] \in Players \ {q}
  BY DEF IInv, TypeOK, Handlers, RemoveCheck, Goto, callVars, SettlerPcs, InTransaction,
         AfterSettle
<1>4. QED
  BY <1>1, <1>2, <1>3, QuietStep

\* settle reads the offers.
LEMMA SettleSnapshotStep ==
    ASSUME IInv, NEW p \in Players, SettleSnapshot(p)
    PROVE  IInv'
<1>1. TypeOK'
  BY DEF Handlers, IInv, TypeOK, SettleSnapshot, Goto, roomVars, registryVars, sessionVars,
         rowVars, callVars, txVars, Rows, Places, Pcs, SettlerPcs,
         InTransaction, AfterSettle
<1>2. UNCHANGED proofVars /\ UNCHANGED sess
  BY DEF SettleSnapshot, Goto, registryVars, sessionVars, callVars, proofVars
<1>3. \A q \in Players :
        /\ pc'[q] \in {"accepting", "unaccepting", "confirming"} => pc'[q] = pc[q]
        /\ pc'[q] \in SettlerPcs => pc[q] \in SettlerPcs
        /\ pc'[q] = "starting" => peer'[q] \in Players \ {q}
  BY DEF IInv, TypeOK, Handlers, SettleSnapshot, Goto, callVars, SettlerPcs, InTransaction,
         AfterSettle
<1>4. QED
  BY <1>1, <1>2, <1>3, QuietStep

\* settle checks the rows.
LEMMA SettleValidateStep ==
    ASSUME IInv, NEW p \in Players, SettleValidate(p)
    PROVE  IInv'
<1>1. TypeOK'
  <2>1. /\ pc' \in [Players -> Pcs]
        /\ bundle' \in [Players -> Offers]
        /\ written' \in [Players -> SUBSET Items]
    BY RollbackTypes DEF IInv, TypeOK, SettleValidate, Goto, txVars, Pcs, SettlerPcs, InTransaction
  <2>2. QED
    BY <2>1 DEF IInv, TypeOK, SettleValidate, roomVars, registryVars, sessionVars, rowVars, callVars
<1>2. UNCHANGED proofVars /\ UNCHANGED sess
  BY DEF SettleValidate, Rollback, Goto, registryVars, sessionVars, callVars, proofVars
<1>3. \A q \in Players :
        /\ pc'[q] \in {"accepting", "unaccepting", "confirming"} => pc'[q] = pc[q]
        /\ pc'[q] \in SettlerPcs => pc[q] \in SettlerPcs
        /\ pc'[q] = "starting" => peer'[q] \in Players \ {q}
  BY DEF IInv, TypeOK, Handlers, SettleValidate, Rollback, Goto, callVars, SettlerPcs, InTransaction,
         AfterSettle
<1>4. QED
  BY <1>1, <1>2, <1>3, QuietStep

\* settle updates one row.
LEMMA SettleTransferStep ==
    ASSUME IInv, NEW p \in Players, NEW i \in Items, SettleTransfer(p, i)
    PROVE  IInv'
<1>1. TypeOK'
  <2>1. /\ pc' \in [Players -> Pcs]
        /\ bundle' \in [Players -> Offers]
        /\ written' \in [Players -> SUBSET Items]
    <3>1. CASE RowGuard(i, Giver(p, i))
      <4>1. /\ UNCHANGED <<pc, bundle>>
            /\ written' = [written EXCEPT ![p] = @ \cup {i}]
        BY <3>1 DEF SettleTransfer
      <4>2. QED
        BY <4>1 DEF IInv, TypeOK
    <3>2. CASE ~RowGuard(i, Giver(p, i))
      <4>1. Rollback(p)
        BY <3>2 DEF SettleTransfer
      <4>2. QED
        BY <4>1, RollbackTypes DEF IInv
    <3>3. QED
      BY <3>1, <3>2
  <2>2. QED
    BY <2>1 DEF IInv, TypeOK, SettleTransfer, roomVars, registryVars, sessionVars, rowVars, callVars
<1>2. UNCHANGED proofVars /\ UNCHANGED sess
  BY DEF SettleTransfer, Rollback, Goto, registryVars, sessionVars, callVars, proofVars
<1>3. \A q \in Players :
        /\ pc'[q] \in {"accepting", "unaccepting", "confirming"} => pc'[q] = pc[q]
        /\ pc'[q] \in SettlerPcs => pc[q] \in SettlerPcs
        /\ pc'[q] = "starting" => peer'[q] \in Players \ {q}
  BY DEF IInv, TypeOK, Handlers, SettleTransfer, Rollback, Goto, callVars, SettlerPcs, InTransaction,
         AfterSettle
<1>4. QED
  BY <1>1, <1>2, <1>3, QuietStep

\* The settlement transaction fails.
LEMMA SettleErrorStep ==
    ASSUME IInv, NEW p \in Players, SettleError(p)
    PROVE  IInv'
<1>1. TypeOK'
  BY EmptyOffers DEF IInv, TypeOK, SettleError, Rollback, Goto, roomVars, registryVars, sessionVars,
         rowVars, callVars, txVars, Rows, Places, Pcs, SettlerPcs,
         InTransaction, AfterSettle
<1>2. UNCHANGED proofVars /\ UNCHANGED sess
  BY DEF SettleError, Rollback, Goto, registryVars, sessionVars, callVars, proofVars
<1>3. \A q \in Players :
        /\ pc'[q] \in {"accepting", "unaccepting", "confirming"} => pc'[q] = pc[q]
        /\ pc'[q] \in SettlerPcs => pc[q] \in SettlerPcs
        /\ pc'[q] = "starting" => peer'[q] \in Players \ {q}
  BY DEF IInv, TypeOK, Handlers, SettleError, Rollback, Goto, callVars, SettlerPcs, InTransaction,
         AfterSettle
<1>4. QED
  BY <1>1, <1>2, <1>3, QuietStep

\* Placing or listing an item, its checks.
LEMMA WithdrawReadStep ==
    ASSUME IInv, NEW p \in Players, NEW i \in Items, NEW label \in {"placing", "listing"},
           WithdrawRead(p, i, label)
    PROVE  IInv'
<1>1. TypeOK'
  BY DEF IInv, TypeOK, WithdrawRead, Goto, roomVars, registryVars, sessionVars,
         rowVars, callVars, txVars, Rows, Places, Pcs, SettlerPcs,
         InTransaction, AfterSettle
<1>2. UNCHANGED proofVars /\ UNCHANGED sess
  BY DEF WithdrawRead, Goto, registryVars, sessionVars, callVars, proofVars
<1>3. \A q \in Players :
        /\ pc'[q] \in {"accepting", "unaccepting", "confirming"} => pc'[q] = pc[q]
        /\ pc'[q] \in SettlerPcs => pc[q] \in SettlerPcs
        /\ pc'[q] = "starting" => peer'[q] \in Players \ {q}
  BY DEF IInv, TypeOK, Handlers, WithdrawRead, Goto, callVars, SettlerPcs, InTransaction,
         AfterSettle
<1>4. QED
  BY <1>1, <1>2, <1>3, QuietStep

\* Placing and listing ask whether the item is in a trade.
LEMMA WithdrawCheckStep ==
    ASSUME IInv, NEW p \in Players, WithdrawCheck(p)
    PROVE  IInv'
<1>1. TypeOK'
  BY DEF IInv, TypeOK, WithdrawCheck, Goto, Return, roomVars, registryVars, sessionVars,
         rowVars, callVars, txVars, Rows, Places, Pcs, SettlerPcs,
         InTransaction, AfterSettle
<1>2. UNCHANGED proofVars /\ UNCHANGED sess
  BY DEF WithdrawCheck, Goto, Return, registryVars, sessionVars, callVars, proofVars
<1>3. \A q \in Players :
        /\ pc'[q] \in {"accepting", "unaccepting", "confirming"} => pc'[q] = pc[q]
        /\ pc'[q] \in SettlerPcs => pc[q] \in SettlerPcs
        /\ pc'[q] = "starting" => peer'[q] \in Players \ {q}
  BY DEF IInv, TypeOK, Handlers, WithdrawCheck, Goto, Return, callVars, SettlerPcs, InTransaction,
         AfterSettle
<1>4. QED
  BY <1>1, <1>2, <1>3, QuietStep

\* Placing or listing an item, its update.
LEMMA WithdrawWriteStep ==
    ASSUME IInv, NEW p \in Players, WithdrawWrite(p)
    PROVE  IInv'
<1>1. TypeOK'
  BY DEF IInv, TypeOK, WithdrawWrite, Destination, Return, roomVars, registryVars, sessionVars,
         rowVars, callVars, txVars, Rows, Places, Pcs, SettlerPcs,
         InTransaction, AfterSettle
<1>2. UNCHANGED proofVars /\ UNCHANGED sess
  BY DEF WithdrawWrite, Destination, Return, registryVars, sessionVars, callVars, proofVars
<1>3. \A q \in Players :
        /\ pc'[q] \in {"accepting", "unaccepting", "confirming"} => pc'[q] = pc[q]
        /\ pc'[q] \in SettlerPcs => pc[q] \in SettlerPcs
        /\ pc'[q] = "starting" => peer'[q] \in Players \ {q}
  BY DEF IInv, TypeOK, Handlers, WithdrawWrite, Destination, Return, callVars, SettlerPcs,
     InTransaction,
         AfterSettle
<1>4. QED
  BY <1>1, <1>2, <1>3, QuietStep

\* An item is consumed.
LEMMA ConsumeStep ==
    ASSUME IInv, NEW p \in Players, NEW i \in Items, Consume(p, i)
    PROVE  IInv'
<1>1. TypeOK'
  BY DEF IInv, TypeOK, Consume, RowGuard, roomVars, registryVars, sessionVars,
         rowVars, callVars, txVars, Rows, Places, Pcs, SettlerPcs,
         InTransaction, AfterSettle
<1>2. UNCHANGED proofVars /\ UNCHANGED sess
  BY DEF Consume, RowGuard, registryVars, sessionVars, callVars, proofVars
<1>3. \A q \in Players :
        /\ pc'[q] \in {"accepting", "unaccepting", "confirming"} => pc'[q] = pc[q]
        /\ pc'[q] \in SettlerPcs => pc[q] \in SettlerPcs
        /\ pc'[q] = "starting" => peer'[q] \in Players \ {q}
  BY DEF IInv, TypeOK, Handlers, Consume, RowGuard, callVars, SettlerPcs, InTransaction,
         AfterSettle
<1>4. QED
  BY <1>1, <1>2, <1>3, QuietStep

\* A player leaves the room.
LEMMA DepartStep ==
    ASSUME IInv, NEW p \in Players, Depart(p)
    PROVE  IInv'
<1>1. TypeOK'
  BY DEF IInv, TypeOK, Depart, roomVars, registryVars, sessionVars,
         rowVars, callVars, txVars, Rows, Places, Pcs, SettlerPcs,
         InTransaction, AfterSettle
<1>2. UNCHANGED proofVars /\ UNCHANGED sess
  BY DEF Depart, registryVars, sessionVars, callVars, proofVars
<1>3. \A q \in Players :
        /\ pc'[q] \in {"accepting", "unaccepting", "confirming"} => pc'[q] = pc[q]
        /\ pc'[q] \in SettlerPcs => pc[q] \in SettlerPcs
        /\ pc'[q] = "starting" => peer'[q] \in Players \ {q}
  BY DEF IInv, TypeOK, Handlers, Depart, callVars, SettlerPcs, InTransaction,
         AfterSettle
<1>4. QED
  BY <1>1, <1>2, <1>3, QuietStep

\* A player enters the room.
LEMMA EnterStep ==
    ASSUME IInv, NEW p \in Players, Enter(p)
    PROVE  IInv'
<1>1. TypeOK'
  BY DEF IInv, TypeOK, Enter, roomVars, registryVars, sessionVars,
         rowVars, callVars, txVars, Rows, Places, Pcs, SettlerPcs,
         InTransaction, AfterSettle
<1>2. UNCHANGED proofVars /\ UNCHANGED sess
  BY DEF Enter, registryVars, sessionVars, callVars, proofVars
<1>3. \A q \in Players :
        /\ pc'[q] \in {"accepting", "unaccepting", "confirming"} => pc'[q] = pc[q]
        /\ pc'[q] \in SettlerPcs => pc[q] \in SettlerPcs
        /\ pc'[q] = "starting" => peer'[q] \in Players \ {q}
  BY DEF IInv, TypeOK, Handlers, Enter, callVars, SettlerPcs, InTransaction,
         AfterSettle
<1>4. QED
  BY <1>1, <1>2, <1>3, QuietStep

\* An item comes back to the inventory.
LEMMA PutBackStep ==
    ASSUME IInv, NEW i \in Items, PutBack(i)
    PROVE  IInv'
<1>1. TypeOK'
  BY DEF IInv, TypeOK, PutBack, roomVars, registryVars, sessionVars,
         rowVars, callVars, txVars, Rows, Places, Pcs, SettlerPcs,
         InTransaction, AfterSettle
<1>2. UNCHANGED proofVars /\ UNCHANGED sess
  BY DEF PutBack, registryVars, sessionVars, callVars, proofVars
<1>3. \A q \in Players :
        /\ pc'[q] \in {"accepting", "unaccepting", "confirming"} => pc'[q] = pc[q]
        /\ pc'[q] \in SettlerPcs => pc[q] \in SettlerPcs
        /\ pc'[q] = "starting" => peer'[q] \in Players \ {q}
  BY DEF IInv, TypeOK, Handlers, PutBack, callVars, SettlerPcs, InTransaction,
         AfterSettle
<1>4. QED
  BY <1>1, <1>2, <1>3, QuietStep

\* A listed item is bought.
LEMMA SellStep ==
    ASSUME IInv, NEW p \in Players, NEW i \in Items, Sell(i, p)
    PROVE  IInv'
<1>1. TypeOK'
  BY DEF IInv, TypeOK, Sell, roomVars, registryVars, sessionVars,
         rowVars, callVars, txVars, Rows, Places, Pcs, SettlerPcs,
         InTransaction, AfterSettle
<1>2. UNCHANGED proofVars /\ UNCHANGED sess
  BY DEF Sell, registryVars, sessionVars, callVars, proofVars
<1>3. \A q \in Players :
        /\ pc'[q] \in {"accepting", "unaccepting", "confirming"} => pc'[q] = pc[q]
        /\ pc'[q] \in SettlerPcs => pc[q] \in SettlerPcs
        /\ pc'[q] = "starting" => peer'[q] \in Players \ {q}
  BY DEF IInv, TypeOK, Handlers, Sell, callVars, SettlerPcs, InTransaction,
         AfterSettle
<1>4. QED
  BY <1>1, <1>2, <1>3, QuietStep

\* Accept and Confirm look the session up.
LEMMA FindSessionStep ==
    ASSUME IInv, NEW p \in Players, NEW label \in {"accepting", "unaccepting", "confirming"},
           FindSession(p, label)
    PROVE  IInv'
<1>1. TypeOK'
  BY DEF IInv, TypeOK, FindSession, Goto, roomVars, registryVars, sessionVars, rowVars,
         txVars, Pcs
<1>2. UNCHANGED proofVars /\ UNCHANGED peer
  BY DEF FindSession, registryVars, sessionVars, proofVars
<1>3. /\ sess' = [sess EXCEPT ![p] = byPlayer[p]]
      /\ pc' = [pc EXCEPT ![p] = label]
      /\ label \notin SettlerPcs /\ label # "starting"
  BY DEF FindSession, Goto, SettlerPcs, InTransaction, AfterSettle
<1>4. byPlayer[p] \in Sessions /\ first[byPlayer[p]] # None /\ p \in Participants(byPlayer[p])
  BY DEF IInv, TypeOK, IndexesSessions, Live, FindSession
<1>5. Handlers'
  BY <1>2, <1>3, <1>4 DEF IInv, TypeOK, Handlers, Participants, proofVars, sessionVars
<1>6. SettlesConfirmed' /\ OneSettler' /\ SettlementOwnsSession'
  BY <1>2, <1>3 DEF IInv, TypeOK, SettlesConfirmed, OneSettler, SettlementOwnsSession,
         Participants, proofVars, sessionVars
<1>7. TwoSides' /\ OnlyLiveHold' /\ Confirmations' /\ IndexesSessions'
  BY <1>2 DEF IInv, TwoSides, OnlyLiveHold, Confirmations, IndexesSessions, Live,
         Participants, proofVars, sessionVars
<1>8. QED
  BY <1>1, <1>5, <1>6, <1>7 DEF IInv

\* A new session is registered for two idle players.
LEMMA StartRegisterStep ==
    ASSUME IInv, NEW p \in Players, NEW s \in Sessions, StartRegister(p, s)
    PROVE  IInv'
<1>1. peer[p] \in Players /\ peer[p] # p
  BY DEF IInv, Handlers, StartRegister
<1>2. TypeOK'
  BY <1>1 DEF IInv, TypeOK, StartRegister, Return, roomVars, rowVars, txVars, Pcs
<1>3. ~Live(s) /\ \A q \in Players : sess[q] # s /\ byPlayer[q] # s
  BY DEF IInv, TypeOK, Handlers, IndexesSessions, Live, StartRegister, Fresh
<1>4. /\ byPlayer[p] = None /\ byPlayer[peer[p]] = None
      /\ byPlayer' = [byPlayer EXCEPT ![p] = s, ![peer[p]] = s]
      /\ first' = [first EXCEPT ![s] = p] /\ second' = [second EXCEPT ![s] = peer[p]]
      /\ closed' = closed \ {s}
      /\ pc' = [pc EXCEPT ![p] = "idle"] /\ peer' = [peer EXCEPT ![p] = None]
      /\ UNCHANGED <<offered, accepted, confirmed, settling, sess, terms>>
  BY DEF StartRegister, Return
<1>5. TwoSides' /\ OnlyLiveHold'
  BY <1>1, <1>4 DEF IInv, TypeOK, TwoSides, OnlyLiveHold, Live
<1>6. Confirmations'
  BY <1>3, <1>4 DEF IInv, TypeOK, OnlyLiveHold, Confirmations, Participants
<1>7. Handlers' /\ SettlesConfirmed' /\ OneSettler'
  BY <1>1, <1>3, <1>4 DEF IInv, TypeOK, Handlers, SettlesConfirmed, OneSettler, Participants,
         SettlerPcs, InTransaction, AfterSettle
<1>8. IndexesSessions'
  BY <1>1, <1>3, <1>4 DEF IInv, TypeOK, IndexesSessions, Live, Participants
<1>9. SettlementOwnsSession'
  <2>1. SUFFICES ASSUME NEW q \in Players, pc'[q] \in SettlerPcs
                 PROVE  /\ sess'[q] \in settling'
                        /\ sess'[q] \notin closed'
                        /\ \A r \in {first'[sess'[q]], second'[sess'[q]]} : byPlayer'[r] = sess'[q]
    BY DEF SettlementOwnsSession, Participants
  <2>2. pc[q] \in SettlerPcs /\ sess'[q] = sess[q] /\ sess[q] \in Sessions /\ sess[q] # s
    BY <1>3, <1>4, <2>1 DEF IInv, TypeOK, Handlers, SettlerPcs, InTransaction, AfterSettle
  <2>3. first'[sess[q]] = first[sess[q]] /\ second'[sess[q]] = second[sess[q]]
    BY <1>4, <2>2 DEF IInv, TypeOK
  <2>4. \A r \in {first[sess[q]], second[sess[q]]} : byPlayer[r] = sess[q] /\ r \notin {p, peer[p]}
    BY <1>4, <2>2 DEF IInv, SettlementOwnsSession, Participants
  <2>5. first[sess[q]] \in Players /\ second[sess[q]] \in Players
    BY <2>2 DEF IInv, TypeOK, TwoSides, Handlers
  <2>6. QED
    BY <1>1, <1>4, <2>2, <2>3, <2>4, <2>5 DEF IInv, TypeOK, SettlementOwnsSession
<1>10. QED
  BY <1>2, <1>5, <1>6, <1>7, <1>8, <1>9 DEF IInv

\* A change of an offer resets its session, which no settlement holds.
LEMMA EditStep ==
    ASSUME IInv, TypeOK', NEW p \in Players, NEW s \in Sessions,
           Live(s), s \notin settling, Reset(s),
           \A t \in Sessions \ {s} : offered'[t] = offered[t],
           UNCHANGED <<byPlayer, first, second, closed, sess, peer, terms>>,
           pc' = [pc EXCEPT ![p] = "idle"]
    PROVE  IInv'
<1>1. TwoSides' /\ OnlyLiveHold' /\ IndexesSessions'
  BY DEF IInv, TypeOK, TwoSides, OnlyLiveHold, IndexesSessions, Live, Participants, Reset
<1>2. Confirmations'
  BY DEF IInv, TypeOK, Confirmations, Participants, Reset
<1>3. Handlers' /\ OneSettler'
  BY DEF IInv, TypeOK, Handlers, OneSettler, Participants, SettlerPcs, InTransaction, AfterSettle
<1>4. SettlesConfirmed' /\ SettlementOwnsSession'
  BY DEF IInv, TypeOK, Handlers, SettlesConfirmed, SettlementOwnsSession, Participants, Reset,
         SettlerPcs, InTransaction, AfterSettle
<1>5. QED
  BY <1>1, <1>2, <1>3, <1>4 DEF IInv

\* Registry.StageMany.
LEMMA OfferStageStep ==
    ASSUME IInv, NEW p \in Players, OfferStage(p)
    PROVE  IInv'
<1> DEFINE s == byPlayer[p]
<1>1. CASE s # None /\ (\A i \in want[p] : staged[i] = None) /\ Editable(s)
  <2>1. s \in Sessions /\ Live(s) /\ s \notin settling
    BY <1>1 DEF IInv, TypeOK, IndexesSessions, Editable
  <2>2. /\ offered' = [offered EXCEPT ![s][p] = @ \cup want[p]]
        /\ staged' = [i \in Items |-> IF i \in want[p] THEN p ELSE staged[i]]
        /\ Reset(s)
    BY <1>1 DEF OfferStage
  <2>3. offered' \in [Sessions -> Offers]
    BY <2>1, <2>2 DEF IInv, TypeOK, Offers
  <2>4. TypeOK'
    BY <2>1, <2>2, <2>3 DEF IInv, TypeOK, OfferStage, Return, Reset, roomVars, rowVars, txVars,
           Pcs
  <2>5. \A t \in Sessions \ {s} : offered'[t] = offered[t]
    BY <2>1, <2>2 DEF IInv, TypeOK
  <2>6. QED
    BY <2>1, <2>2, <2>4, <2>5, EditStep DEF OfferStage, Return
<1>2. CASE ~(s # None /\ (\A i \in want[p] : staged[i] = None) /\ Editable(s))
  <2>1. UNCHANGED proofVars /\ UNCHANGED <<sess, peer>> /\ pc' = [pc EXCEPT ![p] = "idle"]
    BY <1>2 DEF OfferStage, Return, proofVars, sessionVars
  <2>2. TypeOK'
    BY <1>2 DEF IInv, TypeOK, OfferStage, Return, roomVars, rowVars, txVars, Pcs
  <2>3. QED
    BY <2>1, <2>2, QuietStep DEF IInv, TypeOK, Handlers, SettlerPcs, InTransaction, AfterSettle
<1>3. QED
  BY <1>1, <1>2

\* Registry.Unstage.
LEMMA UnstageStep ==
    ASSUME IInv, NEW p \in Players, Unstage(p)
    PROVE  IInv'
<1> DEFINE s == byPlayer[p]
           Held == /\ s # None /\ (\A i \in want[p] : staged[i] = p) /\ Editable(s)
                   /\ want[p] \subseteq offered[s][p]
<1>1. CASE Held
  <2>1. s \in Sessions /\ Live(s) /\ s \notin settling
    BY <1>1 DEF IInv, TypeOK, IndexesSessions, Editable
  <2>2. /\ offered' = [offered EXCEPT ![s][p] = @ \ want[p]]
        /\ staged' = [i \in Items |-> IF i \in want[p] THEN None ELSE staged[i]]
        /\ Reset(s)
    BY <1>1 DEF Unstage
  <2>3. offered' \in [Sessions -> Offers]
    BY <2>1, <2>2 DEF IInv, TypeOK, Offers
  <2>4. TypeOK'
    BY <2>1, <2>2, <2>3 DEF IInv, TypeOK, Unstage, Return, Reset, roomVars, rowVars, txVars, Pcs
  <2>5. \A t \in Sessions \ {s} : offered'[t] = offered[t]
    BY <2>1, <2>2 DEF IInv, TypeOK
  <2>6. QED
    BY <2>1, <2>2, <2>4, <2>5, EditStep DEF Unstage, Return
<1>2. CASE ~Held
  <2>1. UNCHANGED proofVars /\ UNCHANGED <<sess, peer>> /\ pc' = [pc EXCEPT ![p] = "idle"]
    BY <1>2 DEF Unstage, Return, proofVars, sessionVars
  <2>2. TypeOK'
    BY <1>2 DEF IInv, TypeOK, Unstage, Return, roomVars, rowVars, txVars, Pcs
  <2>3. QED
    BY <2>1, <2>2, QuietStep DEF IInv, TypeOK, Handlers, SettlerPcs, InTransaction, AfterSettle
<1>3. QED
  BY <1>1, <1>2

\* Session.SetAccepted.
LEMMA SetAcceptedStep ==
    ASSUME IInv, NEW p \in Players, SetAccepted(p)
    PROVE  IInv'
<1> DEFINE s == sess[p]
<1>1. s \in Sessions /\ p \in Participants(s)
  BY DEF IInv, TypeOK, Handlers, SetAccepted
<1>2. /\ UNCHANGED <<byPlayer, first, second, offered, settling, closed, peer, terms>>
      /\ sess' = [sess EXCEPT ![p] = None] /\ pc' = [pc EXCEPT ![p] = "idle"]
  BY DEF SetAccepted, Return, registryVars
<1>3. /\ accepted' \in [Sessions -> SUBSET Players]
      /\ confirmed' \in [Sessions -> SUBSET Players]
      /\ \A t \in Sessions : confirmed'[t] \subseteq confirmed[t]
      /\ \A t \in Sessions : confirmed'[t] # {} => Participants(t) \subseteq accepted'[t]
      /\ \A t \in settling : confirmed'[t] = confirmed[t]
  <2>1. CASE Editable(s) /\ pc[p] = "accepting"
    <3>1. /\ accepted' = [accepted EXCEPT ![s] = @ \cup {p}]
          /\ confirmed' = [confirmed EXCEPT ![s] = @ \ {p}]
      BY <2>1 DEF SetAccepted, Accept
    <3>2. /\ accepted' \in [Sessions -> SUBSET Players]
          /\ confirmed' \in [Sessions -> SUBSET Players]
      BY <3>1 DEF IInv, TypeOK
    <3>3. \A t \in Sessions :
            /\ accepted'[t] = IF t = s THEN accepted[s] \cup {p} ELSE accepted[t]
            /\ confirmed'[t] = IF t = s THEN confirmed[s] \ {p} ELSE confirmed[t]
      BY <3>1 DEF IInv, TypeOK
    <3>4. \A t \in Sessions : accepted[t] \subseteq accepted'[t] /\ confirmed'[t] \subseteq confirmed[t]
      BY <3>3
    <3>5. s \notin settling
      BY <2>1 DEF Editable
    <3>6. \A t \in settling : confirmed'[t] = confirmed[t]
      BY <3>3, <3>5 DEF IInv, TypeOK
    <3>7. \A t \in Sessions : confirmed'[t] # {} => Participants(t) \subseteq accepted'[t]
      BY <3>4 DEF IInv, Confirmations
    <3>8. QED
      BY <3>2, <3>4, <3>6, <3>7
  <2>2. CASE Editable(s) /\ pc[p] # "accepting"
    <3>1. /\ accepted' = [accepted EXCEPT ![s] = @ \ {p}]
          /\ confirmed' = [confirmed EXCEPT ![s] = @ \ Participants(s)]
      BY <2>2 DEF SetAccepted, Unaccept
    <3>2. confirmed'[s] = {}
      BY <1>1, <3>1 DEF IInv, TypeOK, Confirmations
    <3>3. QED
      BY <1>1, <2>2, <3>1, <3>2 DEF IInv, TypeOK, Confirmations, Editable
  <2>3. CASE ~Editable(s)
    <3>1. UNCHANGED <<accepted, confirmed>>
      BY <2>3 DEF SetAccepted
    <3>2. QED
      BY <3>1 DEF IInv, TypeOK, Confirmations
  <2>4. QED
    BY <2>1, <2>2, <2>3
<1>4. TypeOK'
  BY <1>2, <1>3 DEF IInv, TypeOK, SetAccepted, roomVars, registryVars, rowVars, txVars, Pcs
<1>5. TwoSides' /\ IndexesSessions'
  BY <1>2 DEF IInv, TwoSides, IndexesSessions, Live, Participants
<1>6. OnlyLiveHold'
  BY <1>2, <1>3 DEF IInv, OnlyLiveHold, Live
<1>7. Confirmations'
  BY <1>2, <1>3 DEF IInv, Confirmations, Participants
<1>8. Handlers' /\ OneSettler' /\ SettlementOwnsSession'
  BY <1>2 DEF IInv, TypeOK, Handlers, OneSettler, SettlementOwnsSession, Participants,
         SettlerPcs, InTransaction, AfterSettle
<1>9. SettlesConfirmed'
  <2>1. \A q \in Players : pc'[q] \in SettlerPcs => pc[q] \in SettlerPcs /\ sess'[q] = sess[q]
    BY <1>2 DEF IInv, TypeOK, SettlerPcs, InTransaction, AfterSettle
  <2>2. QED
    BY <1>2, <1>3, <2>1 DEF IInv, SettlesConfirmed, SettlementOwnsSession, Participants
<1>10. QED
  BY <1>4, <1>5, <1>6, <1>7, <1>8, <1>9 DEF IInv

\* Session.Confirm, which may claim the settlement.
LEMMA ConfirmStep ==
    ASSUME IInv, NEW p \in Players, Confirm(p)
    PROVE  IInv'
<1> DEFINE s == sess[p]
<1>1. s \in Sessions /\ p \in Participants(s) /\ pc[p] = "confirming"
  BY DEF IInv, TypeOK, Handlers, Confirm
<1>2. UNCHANGED <<byPlayer, first, second, offered, accepted, closed, peer>>
  BY DEF Confirm, registryVars
<1>3. CASE s \notin closed /\ Participants(s) \subseteq accepted[s]
  <2>1. /\ confirmed' = [confirmed EXCEPT ![s] = @ \cup {p}]
        /\ terms' = [terms EXCEPT ![s][p] = offered[s]]
        /\ \/ /\ Claims(s, p) /\ settling' = settling \cup {s} /\ UNCHANGED sess
              /\ pc' = [pc EXCEPT ![p] = "snapshotting"]
           \/ /\ ~Claims(s, p) /\ UNCHANGED settling /\ sess' = [sess EXCEPT ![p] = None]
              /\ pc' = [pc EXCEPT ![p] = "idle"]
    BY <1>3 DEF Confirm, Goto, Return
  <2>2. terms' \in [Sessions -> [Players -> Offers]]
    BY <1>1, <2>1 DEF IInv, TypeOK
  <2>3. TypeOK'
    <3>1. confirmed' \in [Sessions -> SUBSET Players]
      BY <1>1, <2>1 DEF IInv, TypeOK
    <3>2. settling' \subseteq Sessions /\ sess' \in [Players -> Sessions \cup {None}]
      BY <1>1, <2>1 DEF IInv, TypeOK
    <3>3. pc' \in [Players -> Pcs]
      BY <2>1 DEF IInv, TypeOK, Pcs, SettlerPcs
    <3>4. QED
      BY <1>2, <2>2, <3>1, <3>2, <3>3 DEF IInv, TypeOK, Confirm, roomVars, rowVars, txVars, registryVars
  <2>4. Live(s)
    BY <1>1, <1>3 DEF IInv, Handlers, Live
  <2>5. TwoSides' /\ OnlyLiveHold' /\ IndexesSessions'
    BY <1>1, <1>2, <2>1, <2>4 DEF IInv, TypeOK, TwoSides, OnlyLiveHold, IndexesSessions, Live,
           Participants
  <2>6. Confirmations'
    BY <1>1, <1>2, <1>3, <2>1 DEF IInv, TypeOK, Confirmations, Participants
  <2>7. Handlers'
    BY <1>1, <1>2, <2>1 DEF IInv, TypeOK, Handlers, Participants, SettlerPcs, InTransaction,
           AfterSettle
  <2>8. \A q \in Players : pc'[q] \in SettlerPcs =>
          \/ q = p /\ sess'[q] = s /\ Claims(s, p) /\ settling' = settling \cup {s}
          \/ q # p /\ pc[q] \in SettlerPcs /\ sess'[q] = sess[q]
    BY <2>1 DEF IInv, TypeOK, SettlerPcs, InTransaction, AfterSettle
  <2>9. SettlesConfirmed'
    BY <1>1, <1>2, <2>1, <2>8 DEF IInv, TypeOK, Handlers, SettlesConfirmed, Claims, Participants
  <2>10. OneSettler'
    BY <2>8 DEF IInv, OneSettler, SettlementOwnsSession, Claims
  <2>11. \A q \in Participants(s) : byPlayer[q] = s
    BY <1>1, <2>4 DEF IInv, TypeOK, IndexesSessions, TwoSides, Participants, Live
  <2>12. SettlementOwnsSession'
    BY <1>1, <1>2, <1>3, <2>1, <2>8, <2>11 DEF IInv, SettlementOwnsSession, Participants
  <2>13. QED
    BY <2>3, <2>5, <2>6, <2>7, <2>9, <2>10, <2>12 DEF IInv
<1>4. CASE ~(s \notin closed /\ Participants(s) \subseteq accepted[s])
  <2>1. /\ UNCHANGED <<confirmed, terms, settling>>
        /\ sess' = [sess EXCEPT ![p] = None] /\ pc' = [pc EXCEPT ![p] = "idle"]
    BY <1>4 DEF Confirm, Return
  <2>2. TypeOK'
    BY <2>1 DEF IInv, TypeOK, Confirm, roomVars, registryVars, rowVars, txVars, Pcs
  <2>3. TwoSides' /\ OnlyLiveHold' /\ IndexesSessions' /\ Confirmations'
    BY <1>2, <2>1 DEF IInv, TwoSides, OnlyLiveHold, IndexesSessions, Confirmations, Live,
           Participants
  <2>4. Handlers' /\ OneSettler' /\ SettlementOwnsSession' /\ SettlesConfirmed'
    BY <1>2, <2>1 DEF IInv, TypeOK, Handlers, OneSettler, SettlementOwnsSession,
           SettlesConfirmed, Participants, SettlerPcs, InTransaction, AfterSettle
  <2>5. QED
    BY <2>2, <2>3, <2>4 DEF IInv
<1>5. QED
  BY <1>3, <1>4

\* Forgetting and discarding a session no settlement holds.
LEMMA DiscardTypes ==
    ASSUME TypeOK, NEW s \in Sessions, Forget(s), Discard(s)
    PROVE  /\ byPlayer' \in [Players -> Sessions \cup {None}]
           /\ staged' \in [Items -> Players \cup {None}]
           /\ offered' \in [Sessions -> Offers]
           /\ accepted' \in [Sessions -> SUBSET Players]
           /\ confirmed' \in [Sessions -> SUBSET Players]
           /\ closed' \subseteq Sessions
           /\ terms' \in [Sessions -> [Players -> Offers]]
  BY EmptyOffers DEF TypeOK, Forget, Discard

\* A session that no settlement of another handler holds leaves the registry.
LEMMA DiscardStep ==
    ASSUME IInv, TypeOK', NEW s \in Sessions, Live(s),
           Forget(s), Discard(s),
           UNCHANGED <<first, second, peer>>,
           settling' = settling \ {s},
           \A q \in Players : pc'[q] \in SettlerPcs => pc[q] \in SettlerPcs /\ sess[q] # s,
           \A q \in Players :
             /\ sess'[q] # None => sess'[q] = sess[q]
             /\ pc'[q] # "idle" => pc'[q] = pc[q] /\ sess'[q] = sess[q]
    PROVE  IInv'
<1>1. TwoSides' /\ Handlers' /\ OneSettler'
  <2>1. TwoSides'
    BY DEF IInv, TwoSides
  <2>2. Handlers'
    BY DEF IInv, Handlers, Participants, SettlerPcs, InTransaction, AfterSettle
  <2>3. \A q \in Players : pc'[q] \in SettlerPcs => pc[q] \in SettlerPcs /\ sess'[q] = sess[q]
    BY DEF SettlerPcs, InTransaction, AfterSettle
  <2>4. OneSettler'
    BY <2>3 DEF IInv, OneSettler
  <2>5. QED
    BY <2>1, <2>2, <2>4
<1>2. OnlyLiveHold'
  BY DEF IInv, TypeOK, OnlyLiveHold, Live, Discard
<1>3. Confirmations'
  BY DEF IInv, TypeOK, Confirmations, Participants, Discard
<1>4. IndexesSessions'
  BY DEF IInv, TypeOK, IndexesSessions, Live, Participants, Forget, Discard
<1>5. \A q \in Players : pc'[q] \in SettlerPcs =>
        pc[q] \in SettlerPcs /\ sess'[q] = sess[q] /\ sess[q] \in Sessions \ {s}
  BY DEF IInv, TypeOK, Handlers, SettlerPcs, InTransaction, AfterSettle
<1>6. SettlesConfirmed'
  BY <1>5 DEF IInv, TypeOK, SettlesConfirmed, Participants, Discard
<1>7. SettlementOwnsSession'
  <2>1. SUFFICES ASSUME NEW q \in Players, pc'[q] \in SettlerPcs
                 PROVE  /\ sess[q] \in settling'
                        /\ sess[q] \notin closed'
                        /\ \A r \in {first[sess[q]], second[sess[q]]} : byPlayer'[r] = sess[q]
    BY <1>5 DEF SettlementOwnsSession, Participants
  <2>2. sess[q] \in settling /\ sess[q] \notin closed /\ sess[q] \in Sessions \ {s}
    BY <1>5, <2>1 DEF IInv, SettlementOwnsSession
  <2>3. \A r \in {first[sess[q]], second[sess[q]]} : r \in Players /\ byPlayer[r] = sess[q]
    BY <1>5, <2>1, <2>2 DEF IInv, TypeOK, TwoSides, Handlers, SettlementOwnsSession, Participants
  <2>4. \A r \in Participants(s) : byPlayer[r] = s
    BY DEF IInv, TypeOK, TwoSides, IndexesSessions, Live, Participants
  <2>5. QED
    BY <2>2, <2>3, <2>4 DEF IInv, TypeOK, Forget, Discard
<1>8. QED
  BY <1>1, <1>2, <1>3, <1>4, <1>6, <1>7 DEF IInv

\* Registry.Close, by a handler that ends with it or by an event listener.
LEMMA CloseSessionStep ==
    ASSUME IInv, NEW p \in Players, CloseSession(p),
           UNCHANGED <<inRoom, rowVars, callVars, txVars>>, departed' \subseteq Players,
           \/ UNCHANGED pc
           \/ pc[p] = "failclosing" /\ pc' = [pc EXCEPT ![p] = "idle"]
    PROVE  IInv'
<1> DEFINE s == byPlayer[p]
<1>1. pc' \in [Players -> Pcs]
  BY DEF IInv, TypeOK, Pcs
<1>2. \A q \in Players : pc'[q] # "idle" => pc'[q] = pc[q]
  BY DEF IInv, TypeOK
<1>3. CASE s # None /\ Cancellable(s)
  <2>1. s \in Sessions /\ Live(s) /\ s \notin settling
    BY <1>3 DEF IInv, TypeOK, IndexesSessions, Cancellable
  <2>2. Forget(s) /\ Discard(s) /\ UNCHANGED <<first, second, settling>>
    BY <1>3 DEF CloseSession
  <2>3. TypeOK'
    BY <1>1, <2>1, <2>2, DiscardTypes DEF IInv, TypeOK, rowVars, callVars, txVars
  <2>4. \A q \in Players : pc'[q] \in SettlerPcs => pc[q] \in SettlerPcs /\ sess[q] # s
    BY <1>2, <2>1 DEF IInv, SettlementOwnsSession, SettlerPcs, InTransaction, AfterSettle
  <2>5. UNCHANGED <<sess, peer>> /\ settling' = settling \ {s}
    BY <2>1, <2>2 DEF callVars
  <2>6. QED
    BY <1>2, <2>1, <2>2, <2>3, <2>4, <2>5, DiscardStep
<1>4. CASE ~(s # None /\ Cancellable(s))
  <2>1. UNCHANGED <<registryVars, sessionVars, terms>>
    BY <1>4 DEF CloseSession
  <2>2. TypeOK'
    BY <1>1, <2>1 DEF IInv, TypeOK, registryVars, sessionVars, rowVars, callVars, txVars
  <2>3. UNCHANGED proofVars /\ UNCHANGED <<sess, peer>>
    BY <2>1 DEF proofVars, registryVars, sessionVars, callVars
  <2>4. QED
    BY <1>2, <2>2, <2>3, QuietStep DEF IInv, Handlers, SettlerPcs, InTransaction, AfterSettle
<1>5. QED
  BY <1>3, <1>4

\* Service.Close.
LEMMA CloseStep == ASSUME IInv, NEW p \in Players, Close(p) PROVE IInv'
<1>1. CloseSession(p) /\ UNCHANGED <<inRoom, departed, rowVars, pc, callVars, txVars>>
  BY DEF Close, roomVars
<1>2. departed' \subseteq Players
  BY <1>1 DEF IInv, TypeOK
<1>3. QED
  BY <1>1, <1>2, CloseSessionStep

\* The close that follows a failed settlement.
LEMMA CloseAfterFailureStep == ASSUME IInv, NEW p \in Players, CloseAfterFailure(p) PROVE IInv'
<1>1. /\ CloseSession(p) /\ UNCHANGED <<inRoom, departed, rowVars, callVars, txVars>>
      /\ pc[p] = "failclosing" /\ pc' = [pc EXCEPT ![p] = "idle"]
  BY DEF CloseAfterFailure, Return, roomVars
<1>2. departed' \subseteq Players
  BY <1>1 DEF IInv, TypeOK
<1>3. QED
  BY <1>1, <1>2, CloseSessionStep

\* The close that follows a departure.
LEMMA CancelForLifecycleStep == ASSUME IInv, NEW p \in Players, CancelForLifecycle(p) PROVE IInv'
<1>1. CloseSession(p) /\ UNCHANGED <<inRoom, rowVars, pc, callVars, txVars>>
  BY DEF CancelForLifecycle
<1>2. departed' \subseteq Players
  BY DEF CancelForLifecycle, IInv, TypeOK
<1>3. QED
  BY <1>1, <1>2, CloseSessionStep

\* Registry.Complete, by the handler that settled.
LEMMA CompleteStep == ASSUME IInv, NEW p \in Players, Complete(p) PROVE IInv'
<1> DEFINE s == sess[p]
<1>1. /\ s \in Sessions /\ Live(s) /\ first[s] \in Players /\ byPlayer[first[s]] = s
      /\ pc[p] \in SettlerPcs
  BY DEF IInv, TypeOK, Handlers, SettlementOwnsSession, Live, Participants, Complete,
         SettlerPcs, AfterSettle
<1>2. /\ settling' = settling \ {s} /\ Forget(s) /\ Discard(s)
      /\ pc' = [pc EXCEPT ![p] = "idle"] /\ sess' = [sess EXCEPT ![p] = None]
      /\ UNCHANGED <<roomVars, first, second, rowVars, peer, want, txVars>>
  BY <1>1 DEF Complete, Return, IInv, TypeOK
<1>3. TypeOK'
  <2>1. /\ settling' \subseteq Sessions /\ pc' \in [Players -> Pcs]
        /\ sess' \in [Players -> Sessions \cup {None}]
    BY <1>2 DEF IInv, TypeOK, Pcs
  <2>2. QED
    BY <1>1, <1>2, <2>1, DiscardTypes DEF IInv, TypeOK, roomVars, rowVars, txVars
<1>4. \A q \in Players : pc'[q] \in SettlerPcs => pc[q] \in SettlerPcs /\ sess[q] # s
  BY <1>1, <1>2 DEF IInv, TypeOK, OneSettler, SettlerPcs, InTransaction, AfterSettle
<1>5. \A q \in Players :
        /\ sess'[q] # None => sess'[q] = sess[q]
        /\ pc'[q] # "idle" => pc'[q] = pc[q] /\ sess'[q] = sess[q]
  BY <1>2 DEF IInv, TypeOK
<1>6. QED
  BY <1>1, <1>2, <1>3, <1>4, <1>5, DiscardStep

\* Session.FailSettlement.
LEMMA FailSettlementStep == ASSUME IInv, NEW p \in Players, FailSettlement(p) PROVE IInv'
<1> DEFINE s == sess[p]
<1>1. s \in Sessions /\ Live(s) /\ pc[p] \in SettlerPcs
  BY DEF IInv, TypeOK, Handlers, SettlementOwnsSession, Live, FailSettlement, SettlerPcs,
         AfterSettle
<1>2. /\ settling' = settling \ {s}
      /\ confirmed' = [confirmed EXCEPT ![s] = @ \ Participants(s)]
      /\ pc' = [pc EXCEPT ![p] = "failclosing"] /\ sess' = [sess EXCEPT ![p] = None]
      /\ UNCHANGED <<byPlayer, first, second, offered, accepted, closed, peer, terms>>
  BY DEF FailSettlement, ThenClose, Goto, registryVars
<1>3. \A t \in Sessions : confirmed'[t] = IF t = s THEN {} ELSE confirmed[t]
  <2>1. confirmed[s] \subseteq Participants(s)
    BY <1>1 DEF IInv, Confirmations
  <2>2. \A t \in Sessions :
          confirmed'[t] = IF t = s THEN confirmed[s] \ Participants(s) ELSE confirmed[t]
    BY <1>2 DEF IInv, TypeOK
  <2>3. QED
    BY <2>1, <2>2
<1>4. TypeOK'
  <2>1. /\ settling' \subseteq Sessions /\ pc' \in [Players -> Pcs]
        /\ sess' \in [Players -> Sessions \cup {None}]
    BY <1>2 DEF IInv, TypeOK, Pcs
  <2>2. confirmed' \in [Sessions -> SUBSET Players]
    BY <1>2 DEF IInv, TypeOK
  <2>3. QED
    BY <1>2, <2>1, <2>2 DEF FailSettlement, IInv, TypeOK, roomVars, registryVars, rowVars, txVars
<1>5. TwoSides' /\ IndexesSessions'
  BY <1>2 DEF IInv, TwoSides, IndexesSessions, Live, Participants
<1>6. OnlyLiveHold'
  BY <1>2, <1>3 DEF IInv, OnlyLiveHold, Live
<1>7. Confirmations'
  BY <1>2, <1>3 DEF IInv, Confirmations, Participants
<1>8. \A q \in Players : pc'[q] \in SettlerPcs =>
        pc[q] \in SettlerPcs /\ sess'[q] = sess[q] /\ sess[q] # s
  BY <1>1, <1>2 DEF IInv, TypeOK, OneSettler, SettlerPcs, InTransaction, AfterSettle
<1>9. Handlers'
  BY <1>2 DEF IInv, TypeOK, Handlers, Participants, SettlerPcs, InTransaction, AfterSettle
<1>10. SettlesConfirmed' /\ OneSettler' /\ SettlementOwnsSession'
  <2>1. \A q \in Players : pc'[q] \in SettlerPcs => sess[q] \in Sessions
    BY <1>8 DEF IInv, TypeOK, Handlers
  <2>2. QED
    BY <1>2, <1>3, <1>8, <2>1 DEF IInv, SettlesConfirmed, OneSettler, SettlementOwnsSession,
           Participants
<1>11. QED
  BY <1>4, <1>5, <1>6, <1>7, <1>9, <1>10 DEF IInv

\* The settlement transaction commits.
LEMMA SettleCommitStep == ASSUME IInv, NEW p \in Players, SettleCommit(p) PROVE IInv'
<1>1. item' \in [Items -> Rows]
  <2>1. \A i \in Items : i \in written[p] => SettledRow(p, i) \in Rows
    <3>1. sess[p] \in Sessions /\ first[sess[p]] \in Players /\ second[sess[p]] \in Players
      BY DEF IInv, TypeOK, Handlers, TwoSides, SettleCommit, SettlerPcs, InTransaction
    <3>2. \A i \in Items : Taker(p, i) \in Players
      BY <3>1 DEF Taker, Other
    <3>3. QED
      BY <3>2 DEF IInv, TypeOK, SettledRow, Rows, Places
  <2>2. QED
    BY <2>1 DEF IInv, TypeOK, SettleCommit
<1>2. wallet' \in [Players -> [Items -> Nat]]
  <2>1. \A q \in Players, i \in Items : wallet[q][i] \in Nat /\ Granted(p, q, i) \in Nat
    BY DEF IInv, TypeOK, Granted
  <2>2. QED
    BY <2>1 DEF SettleCommit
<1>3. /\ pc' = [pc EXCEPT ![p] = "completing"] /\ pc[p] = "transferring"
      /\ UNCHANGED proofVars /\ UNCHANGED <<sess, peer>>
  BY DEF SettleCommit, Goto, registryVars, sessionVars, callVars, proofVars
<1>4. TypeOK'
  <2>1. /\ pc' \in [Players -> Pcs] /\ bundle' \in [Players -> Offers]
        /\ written' \in [Players -> SUBSET Items]
    BY <1>3, EmptyOffers DEF SettleCommit, IInv, TypeOK, Pcs, SettlerPcs, AfterSettle
  <2>2. QED
    BY <1>1, <1>2, <2>1 DEF SettleCommit, IInv, TypeOK, roomVars, registryVars, sessionVars, callVars
<1>5. QED
  BY <1>3, <1>4, QuietStep DEF IInv, TypeOK, Handlers, SettlerPcs, InTransaction, AfterSettle

-----------------------------------------------------------------------------
\* Every step preserves the invariant.
LEMMA NextInv == IInv /\ [Next]_vars => IInv'
<1> SUFFICES ASSUME IInv, [Next]_vars PROVE IInv'
  OBVIOUS
<1>1. ASSUME NEW p \in Players, Proceed(p) PROVE IInv'
  BY <1>1, StartRefusedStep, StartRegisterStep, OfferStageStep, UnstageStep, SetAcceptedStep,
     ConfirmStep, SettleSnapshotStep, SettleValidateStep, SettleTransferStep, SettleCommitStep,
     SettleErrorStep, CompleteStep, FailSettlementStep, CloseAfterFailureStep,
     WithdrawCheckStep, WithdrawWriteStep DEF Proceed
<1>2. ASSUME NEW p \in Players, Begin(p) PROVE IInv'
  BY <1>2, StartCheckStep, OfferValidateStep, RemoveCheckStep, FindSessionStep,
     WithdrawReadStep, ConsumeStep, CloseStep DEF Begin
<1>3. ASSUME NEW p \in Leavers, Presence(p) PROVE IInv'
  BY <1>3, DepartStep, CancelForLifecycleStep, EnterStep DEF Presence
<1>4. ASSUME NEW i \in Usable, Market(i) PROVE IInv'
  BY <1>4, PutBackStep, SellStep DEF Market
<1>5. CASE UNCHANGED vars
  <2>1. UNCHANGED proofVars /\ UNCHANGED <<pc, sess, peer>>
    BY <1>5 DEF vars, registryVars, sessionVars, callVars, proofVars
  <2>2. TypeOK'
    BY <1>5 DEF IInv, TypeOK, vars, roomVars, registryVars, sessionVars, rowVars, callVars, txVars
  <2>3. QED
    BY <2>1, <2>2, QuietStep DEF IInv, Handlers
<1>6. QED
  BY <1>1, <1>2, <1>3, <1>4, <1>5 DEF Next

\* The strengthened invariant holds in every reachable state.
THEOREM Inductive == Spec => []IInv
  BY InitInv, NextInv, PTL DEF Spec

\* Every variable of the trade runtime, of the rows and of the handlers keeps
\* its shape, whatever the players, the items and the sessions are.
THEOREM TypesHold == Spec => []TypeOK
<1>1. IInv => TypeOK
  BY DEF IInv
<1>2. QED
  BY <1>1, Inductive, PTL

\* Registry.byPlayer and the open sessions always agree, on both sides.
THEOREM RegistryIndexesSessions == Spec => []IndexesSessions
<1>1. IInv => IndexesSessions
  BY DEF IInv
<1>2. QED
  BY <1>1, Inductive, PTL

\* A session is settled by one handler at a time.
THEOREM SettledByOne == Spec => []OneSettler
<1>1. IInv => OneSettler
  BY DEF IInv
<1>2. QED
  BY <1>1, Inductive, PTL

\* No close, kick or disconnection takes a session away from its settlement.
THEOREM SettlementKeepsSession == Spec => []SettlementOwnsSession
<1>1. IInv => SettlementOwnsSession
  BY DEF IInv
<1>2. QED
  BY <1>1, Inductive, PTL

\* Only the exchange both players confirmed is ever settled.
THEOREM SettlesAgreedTerms == Spec => []AgreedTerms
<1>1. IInv => AgreedTerms
  BY DEF IInv, TypeOK, Handlers, Confirmations, SettlesConfirmed, AgreedTerms
<1>2. QED
  BY <1>1, Inductive, PTL

\* A confirmation stands only as long as both acceptances do.
THEOREM ConfirmationNeedsAcceptance == Spec => []ConfirmedImpliesAccepted
<1>1. IInv => ConfirmedImpliesAccepted
  BY DEF IInv, Confirmations, ConfirmedImpliesAccepted
<1>2. QED
  BY <1>1, Inductive, PTL

-----------------------------------------------------------------------------
(***************************************************************************)
(* What trading does to furniture rows: the index of the offers is exact,  *)
(* a credit value is paid out once, only its owner withdraws a furniture,  *)
(* and every step is a step of TradeSwap.                                  *)
(***************************************************************************)
PlacingPcs == {"placing", "toroom"}
WithdrawingPcs == PlacingPcs \cup {"listing", "tomarket"}

\* A settlement transaction works on the offers of its session as they are.
BundlesAgreed ==
    \A p \in Players : pc[p] \in InTransaction => bundle[p] = offered[sess[p]]

\* A row lock belongs to one running transaction, and the row under it still
\* satisfies the guard of the update that took the lock.
LocksHold ==
    \A p \in Players : \A i \in written[p] :
        /\ pc[p] = "transferring"
        /\ i \in BundleItems(p)
        /\ RowGuard(i, Giver(p, i))
        /\ \A q \in Players : i \in written[q] => q = p

\* A handler that places or lists an item works on one item, and the item a
\* player is placing is not listed by the same player.
Withdrawals ==
    \A p \in Players : pc[p] \in WithdrawingPcs =>
        \E i \in Items :
            /\ want[p] = {i}
            /\ pc[p] \in PlacingPcs /\ item[i].owner = p => item[i].place # "reserved"

\* The inductive invariant of the rows, on top of IInv.
RowsInv ==
    /\ IndexesOffers
    /\ BundlesAgreed
    /\ LocksHold
    /\ Withdrawals
    /\ ValueOnce
-----------------------------------------------------------------------------

\* The positions of a settler are told apart from the other positions.
LEMMA Positions ==
    /\ InTransaction \subseteq SettlerPcs
    /\ WithdrawingPcs \cap SettlerPcs = {}
    /\ "idle" \notin SettlerPcs \cup WithdrawingPcs
  BY DEF InTransaction, AfterSettle, SettlerPcs, WithdrawingPcs, PlacingPcs

\* The initial state satisfies the invariant.
LEMMA RowsInit == Init => RowsInv
  BY DEF Init, RowsInv, IndexesOffers, BundlesAgreed, LocksHold, Withdrawals, ValueOnce,
         WithdrawingPcs, PlacingPcs, InTransaction, NoOffers

-----------------------------------------------------------------------------
(* The index of the offers.                                                *)

\* A step that leaves the registry and the offers alone.
LEMMA OffersQuiet ==
    ASSUME IndexesOffers, UNCHANGED <<byPlayer, staged, offered>>
    PROVE  IndexesOffers'
  BY DEF IndexesOffers

\* Registry.remove and the end of a session.
LEMMA ForgetKeepsOffers ==
    ASSUME IInv, IndexesOffers, NEW s \in Sessions, Live(s), Forget(s), Discard(s)
    PROVE  IndexesOffers'
<1>1. \A q \in Players : byPlayer[q] = s <=> q \in Participants(s)
  BY DEF IInv, IndexesSessions
<1>2. \A q \in Players : byPlayer'[q] = IF q \in Participants(s) THEN None ELSE byPlayer[q]
  BY DEF Forget
<1>3. \A i \in Items : staged'[i] = IF i \in Offer(s) THEN None ELSE staged[i]
  BY DEF Forget
<1>4. \A t \in Sessions \ {s} : offered'[t] = offered[t]
  BY DEF Discard, IInv, TypeOK
<1>5. \A q \in Participants(s), i \in Items : i \in offered[s][q] => i \in Offer(s)
  BY DEF Participants, Offer
<1>6. ASSUME NEW i \in Items, i \in Offer(s) PROVE \E q \in Participants(s) : staged[i] = q
  <2>1. PICK q \in Participants(s) : i \in offered[s][q]
    BY <1>6 DEF Offer, Participants
  <2>2. q \in Players
    BY DEF IInv, TypeOK, TwoSides, Live, Participants
  <2>3. QED
    BY <1>1, <2>1, <2>2 DEF IndexesOffers
<1>7. ASSUME NEW i \in Items, NEW q \in Players
      PROVE  staged'[i] = q <=> \E t \in Sessions : byPlayer'[q] = t /\ i \in offered'[t][q]
  <2>1. CASE q \in Participants(s)
    <3>1. byPlayer[q] = s /\ byPlayer'[q] = None
      BY <1>1, <1>2, <2>1
    <3>2. staged[i] = q => i \in Offer(s)
      BY <1>5, <2>1, <3>1 DEF IndexesOffers
    <3>3. QED
      BY <1>3, <3>1, <3>2
  <2>2. CASE q \notin Participants(s)
    <3>1. byPlayer[q] # s /\ byPlayer'[q] = byPlayer[q]
      BY <1>1, <1>2, <2>2
    <3>2. staged[i] = q => i \notin Offer(s)
      BY <1>6, <2>2
    <3>3. staged'[i] = q <=> staged[i] = q
      BY <1>3, <3>2
    <3>4. QED
      BY <1>4, <3>1, <3>3 DEF IndexesOffers
  <2>3. QED
    BY <2>1, <2>2
<1>8. QED
  BY <1>7 DEF IndexesOffers

\* Registry.Close, whoever calls it.
LEMMA CloseKeepsOffers ==
    ASSUME IInv, IndexesOffers, NEW p \in Players, CloseSession(p)
    PROVE  IndexesOffers'
<1>1. CASE byPlayer[p] # None /\ Cancellable(byPlayer[p])
  <2>1. byPlayer[p] \in Sessions /\ Live(byPlayer[p])
    BY <1>1 DEF IInv, TypeOK, IndexesSessions
  <2>2. Forget(byPlayer[p]) /\ Discard(byPlayer[p])
    BY <1>1 DEF CloseSession
  <2>3. QED
    BY <2>1, <2>2, ForgetKeepsOffers
<1>2. CASE ~(byPlayer[p] # None /\ Cancellable(byPlayer[p]))
  BY <1>2, OffersQuiet DEF CloseSession, registryVars, sessionVars
<1>3. QED
  BY <1>1, <1>2

\* Registry.Complete.
LEMMA CompleteKeepsOffers ==
    ASSUME IInv, IndexesOffers, NEW p \in Players, Complete(p)
    PROVE  IndexesOffers'
<1>1. /\ sess[p] \in Sessions /\ Live(sess[p])
      /\ first[sess[p]] \in Players /\ byPlayer[first[sess[p]]] = sess[p]
  BY DEF IInv, TypeOK, Handlers, SettlementOwnsSession, Live, Participants, Complete,
         SettlerPcs, AfterSettle
<1>2. Forget(sess[p]) /\ Discard(sess[p])
  BY <1>1 DEF Complete
<1>3. QED
  BY <1>1, <1>2, ForgetKeepsOffers

\* Registry.Start: a fresh session offers nothing.
LEMMA StartKeepsOffers ==
    ASSUME IInv, IndexesOffers, NEW p \in Players, NEW s \in Sessions, StartRegister(p, s)
    PROVE  IndexesOffers'
<1>1. peer[p] \in Players /\ peer[p] # p
  BY DEF IInv, Handlers, StartRegister
<1>2. ~Live(s)
  BY DEF Live, StartRegister, Fresh
<1>3. offered[s] = NoOffers
  BY <1>2 DEF IInv, OnlyLiveHold
<1>4. /\ byPlayer[p] = None /\ byPlayer[peer[p]] = None
      /\ byPlayer' = [byPlayer EXCEPT ![p] = s, ![peer[p]] = s]
      /\ UNCHANGED <<staged, offered>>
  BY DEF StartRegister
<1>5. QED
  BY <1>1, <1>3, <1>4 DEF IInv, TypeOK, IndexesOffers, NoOffers

\* Registry.StageMany.
LEMMA StageKeepsOffers ==
    ASSUME IInv, IndexesOffers, NEW p \in Players, OfferStage(p)
    PROVE  IndexesOffers'
<1> DEFINE s == byPlayer[p]
<1>1. CASE s # None /\ (\A i \in want[p] : staged[i] = None) /\ Editable(s)
  <2>1. /\ offered' = [offered EXCEPT ![s][p] = @ \cup want[p]]
        /\ staged' = [i \in Items |-> IF i \in want[p] THEN p ELSE staged[i]]
        /\ UNCHANGED byPlayer
    BY <1>1 DEF OfferStage
  <2>2. s \in Sessions /\ want[p] \subseteq Items
    BY <1>1 DEF IInv, TypeOK
  <2>3. \A t \in Sessions, q \in Players :
          offered'[t][q] = IF t = s /\ q = p THEN offered[t][q] \cup want[p] ELSE offered[t][q]
    BY <2>1, <2>2 DEF IInv, TypeOK, Offers
  <2>4. \A i \in want[p], q \in Players, t \in Sessions : byPlayer[q] = t => i \notin offered[t][q]
    BY <1>1, <2>2 DEF IndexesOffers
  <2>5. QED
    BY <2>1, <2>2, <2>3, <2>4 DEF IndexesOffers
<1>2. CASE ~(s # None /\ (\A i \in want[p] : staged[i] = None) /\ Editable(s))
  BY <1>2, OffersQuiet DEF OfferStage
<1>3. QED
  BY <1>1, <1>2

\* Registry.Unstage.
LEMMA UnstageKeepsOffers ==
    ASSUME IInv, IndexesOffers, NEW p \in Players, Unstage(p)
    PROVE  IndexesOffers'
<1> DEFINE s == byPlayer[p]
           Held == /\ s # None /\ (\A i \in want[p] : staged[i] = p) /\ Editable(s)
                   /\ want[p] \subseteq offered[s][p]
<1>1. CASE Held
  <2>1. /\ offered' = [offered EXCEPT ![s][p] = @ \ want[p]]
        /\ staged' = [i \in Items |-> IF i \in want[p] THEN None ELSE staged[i]]
        /\ UNCHANGED byPlayer
    BY <1>1 DEF Unstage
  <2>2. s \in Sessions /\ want[p] \subseteq Items
    BY <1>1 DEF IInv, TypeOK
  <2>3. \A t \in Sessions, q \in Players :
          offered'[t][q] = IF t = s /\ q = p THEN offered[t][q] \ want[p] ELSE offered[t][q]
    BY <2>1, <2>2 DEF IInv, TypeOK, Offers
  <2>4. \A i \in want[p] : staged[i] = p
    BY <1>1
  <2>5. ASSUME NEW i \in Items, NEW q \in Players
        PROVE  staged'[i] = q <=> \E t \in Sessions : byPlayer'[q] = t /\ i \in offered'[t][q]
    <3>1. CASE i \in want[p]
      <4>1. staged'[i] = None
        BY <2>1, <3>1
      <4>2. ASSUME NEW t \in Sessions, byPlayer[q] = t PROVE i \notin offered'[t][q]
        <5>1. CASE q = p
          BY <2>3, <3>1, <4>2, <5>1
        <5>2. CASE q # p
          <6>1. offered'[t][q] = offered[t][q]
            BY <2>3, <5>2
          <6>2. staged[i] # q
            BY <2>4, <3>1, <5>2
          <6>3. i \notin offered[t][q]
            BY <4>2, <6>2 DEF IndexesOffers
          <6>4. QED
            BY <6>1, <6>3
        <5>3. QED
          BY <5>1, <5>2
      <4>3. QED
        BY <2>1, <4>1, <4>2
    <3>2. CASE i \notin want[p]
      BY <2>1, <2>3, <3>2 DEF IndexesOffers
    <3>3. QED
      BY <3>1, <3>2
  <2>6. QED
    BY <2>5 DEF IndexesOffers
<1>2. CASE ~Held
  BY <1>2, OffersQuiet DEF Unstage
<1>3. QED
  BY <1>1, <1>2

\* Every step keeps the index of the offers exact.
LEMMA OffersNext == ASSUME IInv, IndexesOffers, [Next]_vars PROVE IndexesOffers'
<1>1. ASSUME NEW p \in Players, Proceed(p) PROVE IndexesOffers'
  <2>1. CASE (\E s \in Sessions : StartRegister(p, s)) \/ OfferStage(p) \/ Unstage(p)
    BY <2>1, StartKeepsOffers, StageKeepsOffers, UnstageKeepsOffers
  <2>2. CASE Complete(p)
    BY <2>2, CompleteKeepsOffers
  <2>3. CASE CloseAfterFailure(p)
    BY <2>3, CloseKeepsOffers DEF CloseAfterFailure
  <2>4. CASE StartRefused(p) \/ SetAccepted(p) \/ Confirm(p) \/ FailSettlement(p)
             \/ WithdrawCheck(p) \/ WithdrawWrite(p)
    BY <2>4, OffersQuiet DEF StartRefused, SetAccepted, Confirm, FailSettlement, WithdrawCheck,
       WithdrawWrite, registryVars, sessionVars
  <2>5. CASE \/ SettleSnapshot(p) \/ SettleValidate(p) \/ SettleCommit(p) \/ SettleError(p)
             \/ \E i \in Items : SettleTransfer(p, i)
    BY <2>5, OffersQuiet DEF SettleSnapshot, SettleValidate, SettleTransfer, SettleCommit,
       SettleError, registryVars, sessionVars
  <2>6. QED
    BY <1>1, <2>1, <2>2, <2>3, <2>4, <2>5 DEF Proceed
<1>2. ASSUME NEW p \in Players, Begin(p) PROVE IndexesOffers'
  <2>1. CASE Close(p)
    BY <2>1, CloseKeepsOffers DEF Close
  <2>2. CASE ~Close(p)
    BY <1>2, <2>2, OffersQuiet DEF Begin, StartCheck, OfferValidate, RemoveCheck, FindSession,
       WithdrawRead, Consume, registryVars, sessionVars
  <2>3. QED
    BY <2>1, <2>2
<1>3. ASSUME NEW p \in Leavers, Presence(p) PROVE IndexesOffers'
  <2>1. CASE CancelForLifecycle(p)
    BY <2>1, CloseKeepsOffers DEF CancelForLifecycle
  <2>2. CASE Depart(p) \/ Enter(p)
    BY <2>2, OffersQuiet DEF Depart, Enter, registryVars, sessionVars
  <2>3. QED
    BY <1>3, <2>1, <2>2 DEF Presence
<1>4. ASSUME NEW i \in Usable, Market(i) PROVE IndexesOffers'
  BY <1>4, OffersQuiet DEF Market, PutBack, Sell, registryVars, sessionVars
<1>5. CASE UNCHANGED vars
  BY <1>5, OffersQuiet DEF vars, registryVars, sessionVars
<1>6. QED
  BY <1>1, <1>2, <1>3, <1>4, <1>5 DEF Next

-----------------------------------------------------------------------------
(* The rows.                                                               *)

\* The parts of the invariant that speak of rows.
RowParts == BundlesAgreed /\ LocksHold /\ Withdrawals /\ ValueOnce

\* Whoever runs a settlement has a session with two sides.
LEMMA SettlerSession ==
    ASSUME IInv, NEW p \in Players, pc[p] \in SettlerPcs
    PROVE  /\ sess[p] \in Sessions /\ Live(sess[p]) /\ sess[p] \in settling
           /\ first[sess[p]] \in Players /\ second[sess[p]] \in Players
           /\ first[sess[p]] # second[sess[p]]
  BY DEF IInv, TypeOK, TwoSides, Handlers, SettlementOwnsSession, Live

\* A step that touches no row, no lock and no offer under settlement.
LEMMA RowsQuiet ==
    ASSUME IInv, RowParts, UNCHANGED <<item, wallet, bundle, written>>,
           \A q \in Players :
             /\ pc[q] \in InTransaction \/ pc'[q] \in InTransaction =>
                  /\ pc'[q] = pc[q] /\ sess'[q] = sess[q]
                  /\ offered'[sess[q]] = offered[sess[q]]
                  /\ first'[sess[q]] = first[sess[q]]
                  /\ second'[sess[q]] = second[sess[q]]
             /\ pc'[q] \in WithdrawingPcs =>
                  /\ pc[q] \in WithdrawingPcs /\ want'[q] = want[q]
                  /\ pc'[q] \in PlacingPcs => pc[q] \in PlacingPcs
    PROVE  RowParts'
<1>1. BundlesAgreed'
  BY DEF RowParts, BundlesAgreed
<1>2. LocksHold'
  <2>1. SUFFICES ASSUME NEW q \in Players, NEW i \in written[q]
                 PROVE  /\ pc'[q] = "transferring"
                        /\ i \in BundleItems(q)'
                        /\ RowGuard(i, Giver(q, i))'
    BY DEF RowParts, LocksHold
  <2>2. /\ pc[q] = "transferring"
        /\ i \in BundleItems(q)
        /\ RowGuard(i, Giver(q, i))
    BY DEF RowParts, LocksHold
  <2>3. /\ pc'[q] = pc[q] /\ sess'[q] = sess[q]
        /\ first'[sess[q]] = first[sess[q]]
        /\ second'[sess[q]] = second[sess[q]]
    BY <2>2 DEF InTransaction
  <2>4. QED
    BY <2>2, <2>3 DEF BundleItems, Giver, RowGuard, Participants
<1>3. Withdrawals'
  BY DEF RowParts, Withdrawals
<1>4. ValueOnce'
  BY DEF RowParts, ValueOnce
<1>5. QED
  BY <1>1, <1>2, <1>3, <1>4 DEF RowParts

\* A handler that begins, moves on or returns without touching a session.
LEMMA HandlerKeepsRows ==
    ASSUME IInv, RowParts, UNCHANGED <<item, wallet, bundle, written, offered, first, second>>,
           \A q \in Players :
             /\ pc[q] \in InTransaction \/ pc'[q] \in InTransaction =>
                  pc'[q] = pc[q] /\ sess'[q] = sess[q]
             /\ pc'[q] \in WithdrawingPcs =>
                  /\ pc[q] \in WithdrawingPcs /\ want'[q] = want[q]
                  /\ pc'[q] \in PlacingPcs => pc[q] \in PlacingPcs
    PROVE  RowParts'
  BY RowsQuiet

\* Service.Start, Offer and Remove, their checks.
LEMMA ChecksKeepRows ==
    ASSUME IInv, RowParts, NEW p \in Players,
           \/ \E q \in Players : StartCheck(p, q)
           \/ \E items \in SUBSET Items : OfferValidate(p, items)
           \/ \E i \in Items : RemoveCheck(p, i)
           \/ StartRefused(p)
    PROVE  RowParts'
<1>1. UNCHANGED <<item, wallet, bundle, written, offered, first, second, sess>>
  BY DEF StartCheck, OfferValidate, RemoveCheck, StartRefused, sessionVars, rowVars, txVars,
         registryVars
<1>2. /\ pc[p] \notin InTransaction
      /\ \A q \in Players \ {p} : want'[q] = want[q] /\ pc'[q] = pc[q]
      /\ pc'[p] \notin InTransaction \cup WithdrawingPcs
  BY DEF StartCheck, OfferValidate, RemoveCheck, StartRefused, Goto, Return, IInv, TypeOK,
         InTransaction, WithdrawingPcs, PlacingPcs
<1>3. QED
  BY <1>1, <1>2, HandlerKeepsRows

\* Accept and Confirm, which change no offer.
LEMMA AgreeingKeepsRows ==
    ASSUME IInv, RowParts, NEW p \in Players,
           \/ \E label \in {"accepting", "unaccepting", "confirming"} : FindSession(p, label)
           \/ SetAccepted(p)
           \/ Confirm(p)
           \/ FailSettlement(p)
    PROVE  RowParts'
<1>1. UNCHANGED <<item, wallet, bundle, written, offered, first, second, want>>
  BY DEF FindSession, SetAccepted, Confirm, FailSettlement, sessionVars, rowVars, txVars,
         registryVars
<1>2. /\ pc[p] \notin InTransaction
      /\ \A q \in Players \ {p} : sess'[q] = sess[q] /\ pc'[q] = pc[q]
      /\ pc'[p] \notin InTransaction \cup WithdrawingPcs
  BY DEF FindSession, SetAccepted, Confirm, FailSettlement, ThenClose, Goto, Return, IInv,
         TypeOK, InTransaction, WithdrawingPcs, PlacingPcs
<1>3. QED
  BY <1>1, <1>2, HandlerKeepsRows

\* Joining and leaving the room.
LEMMA PresenceKeepsRows ==
    ASSUME IInv, RowParts, NEW p \in Players, Depart(p) \/ Enter(p)
    PROVE  RowParts'
  BY HandlerKeepsRows DEF Depart, Enter, sessionVars, rowVars, callVars, txVars

\* Registry.Start, on a session no settlement holds.
LEMMA RegisterKeepsRows ==
    ASSUME IInv, RowParts, NEW p \in Players, NEW s \in Sessions, StartRegister(p, s)
    PROVE  RowParts'
<1>1. UNCHANGED <<item, wallet, bundle, written, offered, sess, want>>
  BY DEF StartRegister, rowVars, txVars
<1>2. /\ pc' = [pc EXCEPT ![p] = "idle"] /\ pc[p] = "starting"
      /\ first' = [first EXCEPT ![s] = p] /\ second' = [second EXCEPT ![s] = peer[p]]
  BY DEF StartRegister, Return
<1>3. \A q \in Players : pc[q] \in InTransaction => sess[q] \in Sessions \ {s}
  <2>1. ~Live(s)
    BY DEF StartRegister, Fresh, Live
  <2>2. QED
    BY <2>1, SettlerSession, Positions
<1>4. \A q \in Players : pc'[q] # "idle" => pc'[q] = pc[q]
  BY <1>2 DEF IInv, TypeOK
<1>5. \A q \in Players : pc[q] \in InTransaction \/ pc'[q] \in InTransaction =>
        /\ pc'[q] = pc[q]
        /\ first'[sess[q]] = first[sess[q]] /\ second'[sess[q]] = second[sess[q]]
  BY <1>2, <1>3, <1>4 DEF IInv, TypeOK, InTransaction
<1>6. \A q \in Players : pc'[q] \in WithdrawingPcs => pc'[q] = pc[q]
  BY <1>4 DEF WithdrawingPcs, PlacingPcs
<1>7. QED
  BY <1>1, <1>5, <1>6, RowsQuiet

\* StageMany and Unstage edit a session no settlement holds.
LEMMA EditKeepsRows ==
    ASSUME IInv, RowParts, NEW p \in Players, OfferStage(p) \/ Unstage(p)
    PROVE  RowParts'
<1>1. UNCHANGED <<item, wallet, bundle, written, first, second, sess>>
  BY DEF OfferStage, Unstage, rowVars, txVars
<1>2. /\ pc' = [pc EXCEPT ![p] = "idle"] /\ pc[p] \in {"staging", "unstaging"}
      /\ want' = [want EXCEPT ![p] = {}]
  BY DEF OfferStage, Unstage, Return
<1>3. \A q \in Players : pc'[q] # "idle" => pc'[q] = pc[q] /\ want'[q] = want[q]
  BY <1>2 DEF IInv, TypeOK
<1>4. \A q \in Players : pc[q] \in InTransaction => pc'[q] = pc[q]
  BY <1>2 DEF IInv, TypeOK, InTransaction
<1>5. \A t \in settling : offered'[t] = offered[t]
  BY DEF OfferStage, Unstage, Editable, IInv, TypeOK
<1>6. \A q \in Players : pc[q] \in InTransaction => sess[q] \in settling
  BY SettlerSession, Positions
<1>7. \A q \in Players : pc'[q] \in InTransaction \cup WithdrawingPcs => pc'[q] # "idle"
  BY Positions DEF InTransaction
<1>8. QED
  BY <1>1, <1>3, <1>4, <1>5, <1>6, <1>7, RowsQuiet

\* Closing or completing a session takes it from no running transaction.
LEMMA EndKeepsRows ==
    ASSUME IInv, RowParts, UNCHANGED <<item, wallet, bundle, written, want, first, second>>,
           \A t \in Sessions : offered'[t] # offered[t] =>
             \A q \in Players : pc[q] \in InTransaction => sess[q] # t,
           \A q \in Players : pc'[q] # "idle" => pc'[q] = pc[q] /\ sess'[q] = sess[q],
           \A q \in Players : pc[q] \in InTransaction => pc'[q] = pc[q]
    PROVE  RowParts'
<1>1. \A q \in Players : pc[q] \in InTransaction => sess[q] \in Sessions
  BY SettlerSession, Positions
<1>2. \A q \in Players : pc'[q] \in InTransaction \cup WithdrawingPcs => pc'[q] # "idle"
  BY Positions DEF InTransaction
<1>3. QED
  BY <1>1, <1>2, RowsQuiet

\* Registry.Close never touches a session a settlement holds.
LEMMA CloseKeepsRows ==
    ASSUME IInv, RowParts, NEW p \in Players, CloseSession(p),
           UNCHANGED <<rowVars, callVars, txVars>>,
           \/ UNCHANGED pc
           \/ pc[p] = "failclosing" /\ pc' = [pc EXCEPT ![p] = "idle"]
    PROVE  RowParts'
<1>1. UNCHANGED <<first, second>> /\ \A t \in settling : offered'[t] = offered[t]
  BY DEF CloseSession, Cancellable, Discard, IInv, TypeOK, sessionVars
<1>2. UNCHANGED <<item, wallet, bundle, written, want, sess>>
  BY DEF rowVars, callVars, txVars
<1>3. \A q \in Players : pc'[q] # "idle" => pc'[q] = pc[q]
  BY DEF IInv, TypeOK
<1>4. \A q \in Players : pc[q] \in InTransaction => pc'[q] = pc[q] /\ sess[q] \in settling
  BY SettlerSession, Positions DEF IInv, TypeOK, InTransaction
<1>5. QED
  BY <1>1, <1>2, <1>3, <1>4, EndKeepsRows

\* Registry.Complete ends the session of its own, finished transaction.
LEMMA CompleteKeepsRows ==
    ASSUME IInv, RowParts, NEW p \in Players, Complete(p)
    PROVE  RowParts'
<1>1. /\ sess[p] \in Sessions /\ first[sess[p]] \in Players
      /\ byPlayer[first[sess[p]]] = sess[p] /\ pc[p] = "completing"
  BY DEF IInv, TypeOK, Handlers, SettlementOwnsSession, Participants, Complete,
         SettlerPcs, AfterSettle
<1>2. \A t \in Sessions : t # sess[p] => offered'[t] = offered[t]
  BY <1>1 DEF Complete, Discard, IInv, TypeOK
<1>3. \A q \in Players : pc[q] \in InTransaction => sess[q] # sess[p]
  BY <1>1 DEF IInv, OneSettler, InTransaction, AfterSettle, SettlerPcs
<1>4. /\ UNCHANGED <<item, wallet, bundle, written, want, first, second>>
      /\ pc' = [pc EXCEPT ![p] = "idle"] /\ sess' = [sess EXCEPT ![p] = None]
  BY DEF Complete, Return, rowVars, txVars
<1>5. \A q \in Players : pc'[q] # "idle" => pc'[q] = pc[q] /\ sess'[q] = sess[q]
  BY <1>4 DEF IInv, TypeOK
<1>6. \A q \in Players : pc[q] \in InTransaction => pc'[q] = pc[q]
  BY <1>1, <1>4 DEF IInv, TypeOK, InTransaction
<1>7. QED
  BY <1>2, <1>3, <1>4, <1>5, <1>6, EndKeepsRows

\* A step of a settlement transaction that leaves the committed rows alone.
LEMMA TransactionKeepsRows ==
    ASSUME IInv, RowParts, NEW p \in Players,
           UNCHANGED <<item, wallet, first, second, offered, sess, want>>,
           \A q \in Players \ {p} :
             pc'[q] = pc[q] /\ bundle'[q] = bundle[q] /\ written'[q] = written[q],
           pc'[p] \notin WithdrawingPcs,
           pc'[p] \in InTransaction => bundle'[p] = offered[sess[p]],
           \A i \in written'[p] :
             /\ pc'[p] = "transferring"
             /\ i \in BundleItems(p)'
             /\ RowGuard(i, Giver(p, i))'
             /\ \A q \in Players \ {p} : i \notin written[q]
    PROVE  RowParts'
<1>1. BundlesAgreed'
  BY DEF RowParts, BundlesAgreed
<1>2. LocksHold'
  <2>1. SUFFICES ASSUME NEW q \in Players, NEW i \in written'[q]
                 PROVE  /\ pc'[q] = "transferring"
                        /\ i \in BundleItems(q)'
                        /\ RowGuard(i, Giver(q, i))'
                        /\ \A r \in Players : i \in written'[r] => r = q
    BY DEF LocksHold
  <2>2. CASE q = p
    BY <2>2
  <2>3. CASE q # p
    <3>1. /\ pc[q] = "transferring" /\ i \in BundleItems(q) /\ RowGuard(i, Giver(q, i))
          /\ \A r \in Players : i \in written[r] => r = q
      BY <2>3 DEF RowParts, LocksHold
    <3>2. BundleItems(q)' = BundleItems(q) /\ Giver(q, i)' = Giver(q, i)
      BY <2>3 DEF BundleItems, Giver, Participants
    <3>3. \A r \in Players : i \in written'[r] => r = q
      BY <2>1, <2>3, <3>1
    <3>4. QED
      BY <2>3, <3>1, <3>2, <3>3 DEF RowGuard
  <2>4. QED
    BY <2>2, <2>3
<1>3. Withdrawals'
  BY DEF RowParts, Withdrawals
<1>4. ValueOnce'
  BY DEF RowParts, ValueOnce
<1>5. QED
  BY <1>1, <1>2, <1>3, <1>4 DEF RowParts

\* A rollback drops the offers and the locks of its transaction.
LEMMA RollbackKeepsRows ==
    ASSUME IInv, RowParts, NEW p \in Players, Rollback(p),
           UNCHANGED <<item, wallet, first, second, offered, sess, want>>
    PROVE  RowParts'
<1>1. /\ \A q \in Players \ {p} :
           pc'[q] = pc[q] /\ bundle'[q] = bundle[q] /\ written'[q] = written[q]
      /\ pc'[p] = "failing" /\ written'[p] = {}
  BY DEF Rollback, Goto, IInv, TypeOK
<1>2. "failing" \notin WithdrawingPcs \cup InTransaction
  BY DEF WithdrawingPcs, PlacingPcs, InTransaction
<1>3. QED
  BY <1>1, <1>2, TransactionKeepsRows

\* The settlement reads the offers it will exchange.
LEMMA SnapshotKeepsRows ==
    ASSUME IInv, RowParts, NEW p \in Players, SettleSnapshot(p)
    PROVE  RowParts'
<1>1. UNCHANGED <<item, wallet, first, second, offered, sess, want, written>>
  BY DEF SettleSnapshot, sessionVars, rowVars, callVars
<1>2. /\ \A q \in Players \ {p} : pc'[q] = pc[q] /\ bundle'[q] = bundle[q]
      /\ pc'[p] = "validating" /\ bundle'[p] = offered[sess[p]] /\ pc[p] = "snapshotting"
  BY DEF SettleSnapshot, Goto, IInv, TypeOK
<1>3. written[p] = {}
  BY <1>2 DEF RowParts, LocksHold
<1>4. "validating" \notin WithdrawingPcs
  BY DEF WithdrawingPcs, PlacingPcs
<1>5. QED
  BY <1>1, <1>2, <1>3, <1>4, TransactionKeepsRows

\* The settlement validates both offers.
LEMMA ValidateKeepsRows ==
    ASSUME IInv, RowParts, NEW p \in Players, SettleValidate(p)
    PROVE  RowParts'
<1>1. UNCHANGED <<item, wallet, first, second, offered, sess, want>>
  BY DEF SettleValidate, sessionVars, rowVars, callVars
<1>2. CASE Goto(p, "transferring") /\ UNCHANGED txVars
  <2>1. /\ \A q \in Players \ {p} : pc'[q] = pc[q]
        /\ pc'[p] = "transferring" /\ pc[p] = "validating" /\ UNCHANGED <<bundle, written>>
    BY <1>2 DEF SettleValidate, Goto, txVars, IInv, TypeOK
  <2>2. bundle[p] = offered[sess[p]] /\ written[p] = {}
    BY <2>1 DEF RowParts, BundlesAgreed, LocksHold, InTransaction
  <2>3. "transferring" \notin WithdrawingPcs
    BY DEF WithdrawingPcs, PlacingPcs
  <2>4. QED
    BY <1>1, <2>1, <2>2, <2>3, TransactionKeepsRows
<1>3. QED
  BY <1>1, <1>2, RollbackKeepsRows DEF SettleValidate

\* The settlement updates one row, which nobody else has locked.
LEMMA TransferKeepsRows ==
    ASSUME IInv, RowParts, NEW p \in Players, NEW i \in Items, SettleTransfer(p, i)
    PROVE  RowParts'
<1>1. UNCHANGED <<item, wallet, first, second, offered, sess, want>>
  BY DEF SettleTransfer, sessionVars, rowVars, callVars
<1>2. CASE RowGuard(i, Giver(p, i))
  <2>1. /\ written' = [written EXCEPT ![p] = @ \cup {i}] /\ UNCHANGED <<pc, bundle>>
        /\ pc[p] = "transferring" /\ i \in BundleItems(p) /\ i \notin Locked
    BY <1>2 DEF SettleTransfer
  <2>2. bundle[p] = offered[sess[p]]
    BY <2>1 DEF RowParts, BundlesAgreed, InTransaction
  <2>3. /\ \A q \in Players \ {p} : written'[q] = written[q] /\ i \notin written[q]
        /\ written'[p] = written[p] \cup {i}
    BY <2>1 DEF IInv, TypeOK, Locked
  <2>4. ASSUME NEW j \in written'[p]
        PROVE  /\ j \in BundleItems(p)'
               /\ RowGuard(j, Giver(p, j))'
               /\ \A q \in Players \ {p} : j \notin written[q]
    <3>1. /\ j \in BundleItems(p) /\ RowGuard(j, Giver(p, j))
          /\ \A q \in Players \ {p} : j \notin written[q]
      BY <1>2, <2>1, <2>3 DEF RowParts, LocksHold
    <3>2. BundleItems(p)' = BundleItems(p) /\ Giver(p, j)' = Giver(p, j)
      BY <1>1, <2>1 DEF BundleItems, Giver, Participants
    <3>3. QED
      BY <1>1, <3>1, <3>2 DEF RowGuard
  <2>5. "transferring" \notin WithdrawingPcs
    BY DEF WithdrawingPcs, PlacingPcs
  <2>6. QED
    BY <1>1, <2>1, <2>2, <2>3, <2>4, <2>5, TransactionKeepsRows
<1>3. CASE ~RowGuard(i, Giver(p, i))
  BY <1>1, <1>3, RollbackKeepsRows DEF SettleTransfer
<1>4. QED
  BY <1>2, <1>3

\* The transaction fails by itself.
LEMMA ErrorKeepsRows ==
    ASSUME IInv, RowParts, NEW p \in Players, SettleError(p)
    PROVE  RowParts'
  BY RollbackKeepsRows DEF SettleError, sessionVars, rowVars, callVars

\* A step outside of any transaction that changes rows nobody has locked, and
\* that neither redeems a furniture nor brings back a redeemed one.
LEMMA UseKeepsRows ==
    ASSUME IInv, RowParts,
           UNCHANGED <<wallet, bundle, written, first, second, offered, sess>>,
           \A i \in Items : item'[i] # item[i] =>
               item[i].place # "redeemed" /\ item'[i].place # "redeemed" /\ i \notin Locked,
           \A q \in Players : pc[q] \in InTransaction \/ pc'[q] \in InTransaction => pc'[q] = pc[q],
           Withdrawals'
    PROVE  RowParts'
<1>1. BundlesAgreed'
  BY DEF RowParts, BundlesAgreed
<1>2. LocksHold'
  <2>1. SUFFICES ASSUME NEW q \in Players, NEW i \in written[q]
                 PROVE  /\ pc'[q] = "transferring"
                        /\ i \in BundleItems(q)'
                        /\ RowGuard(i, Giver(q, i))'
    BY DEF RowParts, LocksHold
  <2>2. /\ pc[q] = "transferring"
        /\ i \in BundleItems(q)
        /\ RowGuard(i, Giver(q, i))
    BY DEF RowParts, LocksHold
  <2>3. BundleItems(q)' = BundleItems(q) /\ Giver(q, i)' = Giver(q, i)
    BY DEF BundleItems, Giver, Participants
  <2>4. item'[i] = item[i]
    BY DEF Locked, IInv, TypeOK
  <2>5. QED
    BY <2>2, <2>3, <2>4 DEF RowGuard, InTransaction
<1>3. ValueOnce'
  BY DEF IInv, TypeOK, RowParts, ValueOnce
<1>4. QED
  BY <1>1, <1>2, <1>3 DEF RowParts

\* A locked row is in the inventory of whoever gives it.
LEMMA LockedInInventory ==
    ASSUME IInv, RowParts, NEW i \in Items, i \in Locked
    PROVE  item[i].place = "inventory"
  BY DEF Locked, RowParts, LocksHold, RowGuard

\* Placing and listing read the row ...
LEMMA ReadKeepsRows ==
    ASSUME IInv, RowParts, NEW p \in Players, NEW i \in Items,
           NEW label \in {"placing", "listing"}, WithdrawRead(p, i, label)
    PROVE  RowParts'
<1>1. UNCHANGED <<item, wallet, bundle, written, first, second, offered, sess>>
  BY DEF WithdrawRead, sessionVars, rowVars, txVars
<1>2. /\ pc[p] = "idle" /\ pc' = [pc EXCEPT ![p] = label] /\ want' = [want EXCEPT ![p] = {i}]
      /\ item[i].place = "inventory"
  BY DEF WithdrawRead, Goto, Available
<1>3. Withdrawals'
  BY <1>1, <1>2 DEF IInv, TypeOK, RowParts, Withdrawals
<1>4. label \notin InTransaction /\ pc[p] \notin InTransaction
  BY <1>2 DEF InTransaction
<1>5. QED
  BY <1>1, <1>2, <1>3, <1>4, UseKeepsRows DEF IInv, TypeOK

\* ... ask whether it is in a trade ...
LEMMA CheckKeepsRows ==
    ASSUME IInv, RowParts, NEW p \in Players, WithdrawCheck(p)
    PROVE  RowParts'
<1>1. UNCHANGED <<item, wallet, bundle, written, first, second, offered, sess>>
  BY DEF WithdrawCheck, sessionVars, rowVars, txVars
<1>2. \A q \in Players \ {p} : pc'[q] = pc[q] /\ want'[q] = want[q]
  BY DEF WithdrawCheck, Goto, Return, IInv, TypeOK
<1>3. /\ pc[p] \in {"placing", "listing"}
      /\ \/ pc'[p] = "idle"
         \/ /\ pc'[p] = IF pc[p] = "placing" THEN "toroom" ELSE "tomarket"
            /\ want'[p] = want[p]
  BY DEF WithdrawCheck, Goto, Return, IInv, TypeOK
<1>4. Withdrawals'
  <2>1. \A q \in Players : pc'[q] \in WithdrawingPcs =>
          /\ pc[q] \in WithdrawingPcs /\ want'[q] = want[q]
          /\ pc'[q] \in PlacingPcs => pc[q] \in PlacingPcs
    BY <1>2, <1>3 DEF WithdrawingPcs, PlacingPcs
  <2>2. QED
    BY <1>1, <2>1 DEF RowParts, Withdrawals
<1>5. pc[p] \notin InTransaction /\ pc'[p] \notin InTransaction
  BY <1>3 DEF InTransaction
<1>6. QED
  BY <1>1, <1>2, <1>4, <1>5, UseKeepsRows

\* ... and write it.
LEMMA WriteKeepsRows ==
    ASSUME IInv, RowParts, NEW p \in Players, WithdrawWrite(p)
    PROVE  RowParts'
<1>1. UNCHANGED <<wallet, bundle, written, first, second, offered, sess>>
  BY DEF WithdrawWrite, sessionVars, txVars
<1>2. /\ pc[p] \in {"toroom", "tomarket"} /\ pc' = [pc EXCEPT ![p] = "idle"]
      /\ want' = [want EXCEPT ![p] = {}] /\ want[p] \cap Locked = {}
  BY DEF WithdrawWrite, Return
<1>3. \A i \in Items : item'[i] # item[i] =>
        /\ i \in want[p] /\ i \notin Locked /\ item[i].owner = p /\ item'[i].owner = p
        /\ item[i].place # "redeemed" /\ item'[i].place # "redeemed"
  <2>1. CASE \A i \in want[p] : WithdrawGuard(i, p)
    <3>1. item' = [i \in Items |-> IF i \in want[p]
                                   THEN [owner |-> p, place |-> Destination(pc[p])] ELSE item[i]]
      BY <2>1 DEF WithdrawWrite
    <3>2. \A i \in want[p] : item[i].owner = p /\ item[i].place # "redeemed"
      BY <2>1 DEF WithdrawGuard
    <3>4. Destination(pc[p]) # "redeemed"
      BY DEF Destination
    <3>3. QED
      BY <1>2, <3>1, <3>2, <3>4
  <2>2. CASE ~\A i \in want[p] : WithdrawGuard(i, p)
    BY <2>2 DEF WithdrawWrite
  <2>3. QED
    BY <2>1, <2>2
<1>4. \A q \in Players : pc'[q] \in WithdrawingPcs => q # p /\ pc'[q] = pc[q] /\ want'[q] = want[q]
  BY <1>2, Positions DEF IInv, TypeOK
<1>5. Withdrawals'
  BY <1>3, <1>4 DEF RowParts, Withdrawals
<1>6. \A q \in Players : pc[q] \in InTransaction \/ pc'[q] \in InTransaction => pc'[q] = pc[q]
  BY <1>2 DEF IInv, TypeOK, InTransaction
<1>7. QED
  BY <1>1, <1>3, <1>5, <1>6, UseKeepsRows

\* The other uses of a row.
LEMMA OtherUsesKeepRows ==
    ASSUME IInv, RowParts, NEW i \in Items,
           \/ PutBack(i)
           \/ \E p \in Players : Sell(i, p) \/ Consume(p, i)
    PROVE  RowParts'
<1>1. UNCHANGED <<wallet, bundle, written, first, second, offered, sess, pc, want>>
  BY DEF PutBack, Sell, Consume, sessionVars, callVars, txVars
<1>2. /\ i \notin Locked /\ item[i].place # "redeemed"
      /\ item'[i].place \notin {"reserved", "redeemed"}
  BY LockedInInventory DEF PutBack, Sell, Consume, RowGuard, IInv, TypeOK
<1>3. \A j \in Items \ {i} : item'[j] = item[j]
  BY DEF PutBack, Sell, Consume, IInv, TypeOK
<1>4. Withdrawals'
  BY <1>1, <1>2, <1>3 DEF RowParts, Withdrawals
<1>5. \A j \in Items : item'[j] # item[j] =>
        item[j].place # "redeemed" /\ item'[j].place # "redeemed" /\ j \notin Locked
  BY <1>2, <1>3
<1>6. QED
  BY <1>1, <1>4, <1>5, UseKeepsRows

\* A commit pays for nothing but the credit furniture it deletes.
LEMMA PaidIsWritten ==
    ASSUME IInv, NEW p \in Players, SettleCommit(p), NEW i \in Items,
           ~(i \in written[p] /\ i \in CreditItems)
    PROVE  \A q \in Players : Granted(p, q, i) = 0
<1>1. first[sess[p]] # second[sess[p]] /\ written[p] = BundleItems(p)
  BY SettlerSession DEF SettleCommit, SettlerPcs, InTransaction
<1>2. \A q \in Participants(sess[p]) : Other(sess[p], q) \in Participants(sess[p])
  BY DEF Other, Participants
<1>3. QED
  BY <1>1, <1>2 DEF Granted, BundleItems

\* Every credit furniture a commit deletes is paid once, to the other side
\* than its owner, for no furniture is in both offers.
LEMMA LockedGrant ==
    ASSUME IInv, RowParts, IndexesOffers, NEW p \in Players, SettleCommit(p),
           NEW i \in written[p], i \in CreditItems
    PROVE  \E q \in Players \ {item[i].owner} :
               \A r \in Players : Granted(p, r, i) = IF r = q THEN 1 ELSE 0
<1> DEFINE s == sess[p]
           a == first[s]
           b == second[s]
<1>1. /\ pc[p] = "transferring" /\ pc[p] \in SettlerPcs /\ pc[p] \in InTransaction
      /\ written[p] = BundleItems(p)
  BY DEF SettleCommit, SettlerPcs, InTransaction
<1>2. s \in Sessions /\ a \in Players /\ b \in Players /\ a # b
  BY <1>1, SettlerSession
<1>3. byPlayer[a] = s /\ byPlayer[b] = s /\ bundle[p] = offered[s]
  BY <1>1 DEF IInv, SettlementOwnsSession, Participants, RowParts, BundlesAgreed
<1>4. i \in Items /\ i \in bundle[p][a] \cup bundle[p][b]
  BY <1>1 DEF BundleItems, Participants, IInv, TypeOK
<1>5. ~(i \in bundle[p][a] /\ i \in bundle[p][b])
  BY <1>2, <1>3, <1>4 DEF IndexesOffers
<1>6. item[i].owner = Giver(p, i)
  BY DEF RowParts, LocksHold, RowGuard
<1>7. CASE i \in bundle[p][a]
  <2>1. item[i].owner = a
    BY <1>6, <1>7 DEF Giver
  <2>2. \A r \in Players : Granted(p, r, i) = IF r = b THEN 1 ELSE 0
    BY <1>2, <1>5, <1>7 DEF Granted, Participants, Other
  <2>3. QED
    BY <1>2, <2>1, <2>2
<1>8. CASE i \in bundle[p][b]
  <2>1. item[i].owner = b
    BY <1>5, <1>6, <1>8 DEF Giver
  <2>2. \A r \in Players : Granted(p, r, i) = IF r = a THEN 1 ELSE 0
    BY <1>2, <1>5, <1>8 DEF Granted, Participants, Other
  <2>3. QED
    BY <1>2, <2>1, <2>2
<1>9. QED
  BY <1>4, <1>7, <1>8

\* A commit exchanges the rows its transaction has locked, and pays each
\* credit furniture out as it consumes it.
LEMMA CommitKeepsRows ==
    ASSUME IInv, RowParts, IndexesOffers, NEW p \in Players, SettleCommit(p)
    PROVE  RowParts'
<1>1. /\ UNCHANGED <<first, second, offered, sess, want>>
      /\ pc' = [pc EXCEPT ![p] = "completing"] /\ written' = [written EXCEPT ![p] = {}]
      /\ bundle' = [bundle EXCEPT ![p] = NoOffers]
      /\ item' = [i \in Items |-> IF i \in written[p] THEN SettledRow(p, i) ELSE item[i]]
      /\ wallet' = [q \in Players |-> [i \in Items |-> wallet[q][i] + Granted(p, q, i)]]
  BY DEF SettleCommit, Goto, sessionVars, callVars
<1>2. \A q \in Players :
        q # p => pc'[q] = pc[q] /\ bundle'[q] = bundle[q] /\ written'[q] = written[q]
  BY <1>1 DEF IInv, TypeOK
<1>3. pc'[p] = "completing" /\ written'[p] = {}
  BY <1>1 DEF IInv, TypeOK
<1>4. \A i \in written[p] : i \in Items /\ item[i].place = "inventory"
  BY DEF IInv, TypeOK, RowParts, LocksHold, RowGuard
<1>5. \A i \in written[p] :
        item'[i].place = IF i \in CreditItems THEN "redeemed" ELSE "inventory"
  BY <1>1, <1>4 DEF SettledRow
<1>6. \A i \in Items \ written[p] : item'[i] = item[i]
  BY <1>1
<1>7. BundlesAgreed'
  BY <1>1, <1>2, <1>3 DEF RowParts, BundlesAgreed, InTransaction
<1>8. LocksHold'
  <2>1. SUFFICES ASSUME NEW q \in Players, NEW i \in written'[q]
                 PROVE  /\ pc'[q] = "transferring"
                        /\ i \in BundleItems(q)'
                        /\ RowGuard(i, Giver(q, i))'
                        /\ \A r \in Players : i \in written'[r] => r = q
    BY DEF LocksHold
  <2>2. q # p
    BY <1>3, <2>1
  <2>3. /\ pc[q] = "transferring" /\ i \in BundleItems(q) /\ RowGuard(i, Giver(q, i))
        /\ \A r \in Players : i \in written[r] => r = q
    BY <1>2, <2>2 DEF RowParts, LocksHold
  <2>4. BundleItems(q)' = BundleItems(q) /\ Giver(q, i)' = Giver(q, i)
    BY <1>1, <1>2, <2>2 DEF BundleItems, Giver, Participants
  <2>5. i \in Items /\ item'[i] = item[i]
    BY <1>2, <1>6, <2>2, <2>3 DEF IInv, TypeOK
  <2>6. QED
    BY <1>2, <1>3, <2>2, <2>3, <2>4, <2>5 DEF RowGuard
<1>9. Withdrawals'
  <2>1. \A i \in Items : item'[i].place = "reserved" => item'[i] = item[i]
    BY <1>5, <1>6
  <2>2. \A q \in Players : pc'[q] \in WithdrawingPcs => pc'[q] = pc[q] /\ want'[q] = want[q]
    BY <1>1, <1>2, <1>3 DEF WithdrawingPcs, PlacingPcs
  <2>3. QED
    BY <2>1, <2>2 DEF RowParts, Withdrawals
<1>10. ValueOnce'
  <2>1. SUFFICES ASSUME NEW i \in Items
                 PROVE  IF item'[i].place = "redeemed"
                        THEN \E q \in Players \ {item'[i].owner} :
                               /\ wallet'[q][i] = 1
                               /\ \A r \in Players \ {q} : wallet'[r][i] = 0
                        ELSE \A q \in Players : wallet'[q][i] = 0
    BY DEF ValueOnce
  <2>2. \A q \in Players : wallet'[q][i] = wallet[q][i] + Granted(p, q, i)
    BY <1>1
  <2>3. \A q \in Players : wallet[q][i] \in Nat
    BY DEF IInv, TypeOK
  <2>4. CASE i \in written[p] /\ i \in CreditItems
    <3>1. item'[i].place = "redeemed" /\ item'[i].owner = item[i].owner
      BY <1>1, <1>5, <2>4 DEF SettledRow
    <3>2. \A q \in Players : wallet[q][i] = 0
      BY <1>4, <2>4 DEF RowParts, ValueOnce
    <3>3. PICK q \in Players \ {item[i].owner} :
            \A r \in Players : Granted(p, r, i) = IF r = q THEN 1 ELSE 0
      BY <2>4, LockedGrant
    <3>4. \A r \in Players : wallet'[r][i] = IF r = q THEN 1 ELSE 0
      BY <2>2, <3>2, <3>3
    <3>5. QED
      BY <3>1, <3>4
  <2>5. CASE ~(i \in written[p] /\ i \in CreditItems)
    <3>1. \A q \in Players : Granted(p, q, i) = 0
      BY <2>5, PaidIsWritten
    <3>2. \A q \in Players : wallet'[q][i] = wallet[q][i]
      BY <2>2, <2>3, <3>1
    <3>3. item'[i] = item[i] \/ (item[i].place = "inventory" /\ item'[i].place = "inventory")
      BY <1>4, <1>5, <1>6, <2>5
    <3>4. CASE item'[i] = item[i]
      BY <3>2, <3>4 DEF RowParts, ValueOnce
    <3>5. CASE item[i].place = "inventory" /\ item'[i].place = "inventory"
      BY <3>2, <3>5 DEF RowParts, ValueOnce
    <3>6. QED
      BY <3>3, <3>4, <3>5
  <2>6. QED
    BY <2>4, <2>5
<1>11. QED
  BY <1>7, <1>8, <1>9, <1>10 DEF RowParts

\* Every step preserves what is known of the rows.
LEMMA RowsNext == ASSUME IInv, RowParts, IndexesOffers, [Next]_vars PROVE RowParts'
<1>1. ASSUME NEW p \in Players, Proceed(p) PROVE RowParts'
  <2>1. CASE CloseAfterFailure(p)
    BY <2>1, CloseKeepsRows DEF CloseAfterFailure, Return
  <2>2. CASE ~CloseAfterFailure(p)
    BY <1>1, <2>2, ChecksKeepRows, RegisterKeepsRows, EditKeepsRows, AgreeingKeepsRows,
       SnapshotKeepsRows, ValidateKeepsRows, TransferKeepsRows, CommitKeepsRows, ErrorKeepsRows,
       CompleteKeepsRows, CheckKeepsRows, WriteKeepsRows DEF Proceed
  <2>3. QED
    BY <2>1, <2>2
<1>2. ASSUME NEW p \in Players, Begin(p) PROVE RowParts'
  <2>1. CASE Close(p)
    BY <2>1, CloseKeepsRows DEF Close
  <2>2. CASE \E i \in Usable : Consume(p, i)
    BY <2>2, OtherUsesKeepRows
  <2>3. CASE \E i \in Usable, label \in {"placing", "listing"} : WithdrawRead(p, i, label)
    BY <2>3, ReadKeepsRows
  <2>4. QED
    BY <1>2, <2>1, <2>2, <2>3, ChecksKeepRows, AgreeingKeepsRows DEF Begin
<1>3. ASSUME NEW p \in Leavers, Presence(p) PROVE RowParts'
  <2>1. CASE CancelForLifecycle(p)
    BY <2>1, CloseKeepsRows DEF CancelForLifecycle
  <2>2. QED
    BY <1>3, <2>1, PresenceKeepsRows DEF Presence
<1>4. ASSUME NEW i \in Usable, Market(i) PROVE RowParts'
  BY <1>4, OtherUsesKeepRows DEF Market
<1>5. CASE UNCHANGED vars
  BY <1>5, HandlerKeepsRows DEF vars, sessionVars, rowVars, callVars, txVars
<1>6. QED
  BY <1>1, <1>2, <1>3, <1>4, <1>5 DEF Next

-----------------------------------------------------------------------------
\* The registry, the rows and the running transactions keep together.
THEOREM RowsInductive == Spec => []RowsInv
<1>1. IInv /\ RowsInv /\ [Next]_vars => RowsInv'
  BY OffersNext, RowsNext DEF RowsInv, RowParts
<1>2. QED
  BY <1>1, RowsInit, Inductive, PTL DEF Spec

\* Both indexes of the registry are exact, whatever batch of offers, removal,
\* cancellation or settlement came before.
THEOREM RegistryIsExact == Spec => []RegistryExact
<1>1. IInv /\ RowsInv => RegistryExact
  BY DEF IInv, RowsInv, RegistryExact
<1>2. QED
  BY <1>1, Inductive, RowsInductive, PTL

\* A credit furniture is paid out exactly once if a settlement deletes it, to
\* the side that did not give it, and not at all otherwise.
THEOREM ValuePaidOnce == Spec => []ValueOnce
<1>1. RowsInv => ValueOnce
  BY DEF RowsInv
<1>2. QED
  BY <1>1, RowsInductive, PTL

-----------------------------------------------------------------------------
(* Who moves a furniture.                                                  *)

\* A step that changes rows or grants credits is the update of a placement or
\* a listing, a settlement's commit, or a use outside of trading.
LEMMA RowSteps ==
    ASSUME [Next]_vars
    PROVE  \/ UNCHANGED <<item, wallet>>
           \/ \E p \in Players : WithdrawWrite(p)
           \/ \E p \in Players : SettleCommit(p)
           \/ \E i \in Items : PutBack(i)
           \/ \E i \in Items, p \in Players : Sell(i, p) \/ Consume(p, i)
<1>1. ASSUME NEW p \in Players, Proceed(p)
      PROVE  UNCHANGED <<item, wallet>> \/ WithdrawWrite(p) \/ SettleCommit(p)
  BY <1>1 DEF Proceed, StartRefused, StartRegister, OfferStage, Unstage, SetAccepted, Confirm,
     SettleSnapshot, SettleValidate, SettleTransfer, SettleError, Complete, FailSettlement,
     CloseAfterFailure, WithdrawCheck, rowVars
<1>2. ASSUME NEW p \in Players, Begin(p)
      PROVE  UNCHANGED <<item, wallet>> \/ \E i \in Items : Consume(p, i)
  BY <1>2 DEF Begin, StartCheck, OfferValidate, RemoveCheck, FindSession, WithdrawRead, Close,
     rowVars
<1>3. ASSUME NEW p \in Leavers, Presence(p) PROVE UNCHANGED <<item, wallet>>
  BY <1>3 DEF Presence, Depart, CancelForLifecycle, Enter, rowVars
<1>4. ASSUME NEW i \in Usable, Market(i)
      PROVE  \E j \in Items : PutBack(j) \/ \E p \in Players : Sell(j, p)
  BY <1>4 DEF Market
<1>5. CASE UNCHANGED vars
  BY <1>5 DEF vars, rowVars
<1>6. QED
  BY <1>1, <1>2, <1>3, <1>4, <1>5 DEF Next

\* What the update of a placement or a listing does: the owner's item leaves
\* the inventory, or nothing happens.
LEMMA WithdrawnRow ==
    ASSUME IInv, RowsInv, NEW p \in Players, WithdrawWrite(p)
    PROVE  /\ UNCHANGED <<byPlayer, first, second, confirmed, terms, sess, wallet>>
           /\ pc[p] \in {"toroom", "tomarket"} /\ pc' = [pc EXCEPT ![p] = "idle"]
           /\ \/ UNCHANGED item
              \/ \E i \in Items, place \in {"room", "reserved"} :
                   /\ item[i] = [owner |-> p, place |-> "inventory"]
                   /\ item' = [item EXCEPT ![i] = [owner |-> p, place |-> place]]
<1>1. /\ UNCHANGED <<byPlayer, first, second, confirmed, terms, sess, wallet>>
      /\ pc[p] \in {"toroom", "tomarket"} /\ pc' = [pc EXCEPT ![p] = "idle"]
  BY DEF WithdrawWrite, Return, registryVars, sessionVars
<1>2. PICK i \in Items :
        /\ want[p] = {i}
        /\ pc[p] \in PlacingPcs /\ item[i].owner = p => item[i].place # "reserved"
  BY <1>1 DEF RowsInv, Withdrawals, WithdrawingPcs, PlacingPcs
<1>3. CASE WithdrawGuard(i, p)
  <2>1. item[i].owner = p /\ item[i].place = "inventory"
    BY <1>1, <1>2, <1>3 DEF WithdrawGuard, PlacingPcs
  <2>2. item[i] = [owner |-> p, place |-> "inventory"]
    BY <2>1 DEF IInv, TypeOK, Rows
  <2>3. item' = [j \in Items |->
                   IF j \in {i} THEN [owner |-> p, place |-> Destination(pc[p])] ELSE item[j]]
    BY <1>2, <1>3 DEF WithdrawWrite
  <2>4. item' = [item EXCEPT ![i] = [owner |-> p, place |-> Destination(pc[p])]]
    BY <2>3 DEF IInv, TypeOK
  <2>5. Destination(pc[p]) \in {"room", "reserved"}
    BY DEF Destination
  <2>6. QED
    BY <1>1, <2>2, <2>4, <2>5
<1>4. CASE ~WithdrawGuard(i, p)
  BY <1>1, <1>2, <1>4 DEF WithdrawWrite
<1>5. QED
  BY <1>3, <1>4

\* A furniture enters a room or the marketplace only by a handler of the player
\* who owns it at that very moment, and what is listed is not put in a room.
THEOREM OwnersWithdraw == Spec => OnlyOwnerWithdraws
<1> DEFINE Withdrawn ==
      \A i \in Items :
        /\ item[i].place = "inventory" /\ item'[i].place \in {"room", "reserved"} =>
              pc[item[i].owner] \in {"toroom", "tomarket"} /\ pc'[item[i].owner] = "idle"
        /\ item[i].place = "reserved" => item'[i].place # "room"
<1>1. ASSUME IInv, RowsInv, [Next]_vars PROVE Withdrawn
  <2>1. CASE UNCHANGED <<item, wallet>>
    BY <2>1
  <2>2. ASSUME NEW p \in Players, WithdrawWrite(p) PROVE Withdrawn
    <3>1. pc[p] \in {"toroom", "tomarket"} /\ pc'[p] = "idle"
      <4>1. pc[p] \in {"toroom", "tomarket"} /\ pc' = [pc EXCEPT ![p] = "idle"]
        BY <1>1, <2>2, WithdrawnRow
      <4>2. QED
        BY <1>1, <4>1 DEF IInv, TypeOK
    <3>2. CASE UNCHANGED item
      BY <3>2
    <3>3. ASSUME NEW i \in Items, NEW place \in {"room", "reserved"},
                 item[i] = [owner |-> p, place |-> "inventory"],
                 item' = [item EXCEPT ![i] = [owner |-> p, place |-> place]]
          PROVE  Withdrawn
      <4>1. \A j \in Items \ {i} : item'[j] = item[j]
        BY <1>1, <3>3 DEF IInv, TypeOK
      <4>2. item[i].owner = p /\ item[i].place = "inventory"
        BY <3>3
      <4>3. QED
        BY <3>1, <4>1, <4>2
    <3>4. QED
      BY <1>1, <2>2, <3>2, <3>3, WithdrawnRow
  <2>3. ASSUME NEW p \in Players, SettleCommit(p) PROVE Withdrawn
    <3>1. \A i \in written[p] : item[i].place = "inventory"
      BY <1>1 DEF RowsInv, LocksHold, RowGuard
    <3>2. \A i \in Items : item'[i] = IF i \in written[p] THEN SettledRow(p, i) ELSE item[i]
      BY <2>3 DEF SettleCommit
    <3>3. \A i \in Items : item'[i] # item[i] => item'[i].place \in {"redeemed", item[i].place}
      <4>1. \A i \in Items :
              SettledRow(p, i).place = IF i \in CreditItems THEN "redeemed" ELSE item[i].place
        BY DEF SettledRow
      <4>2. QED
        BY <3>2, <4>1
    <3>4. QED
      BY <3>1, <3>2, <3>3
  <2>4. ASSUME NEW i \in Items, PutBack(i) \/ \E p \in Players : Sell(i, p) \/ Consume(p, i)
        PROVE  Withdrawn
    <3>1. /\ \A j \in Items \ {i} : item'[j] = item[j]
          /\ item'[i].place \in {"inventory", "gone"}
      BY <1>1, <2>4 DEF PutBack, Sell, Consume, IInv, TypeOK
    <3>2. QED
      BY <3>1
  <2>5. QED
    BY <1>1, <2>1, <2>2, <2>3, <2>4, RowSteps
<1>2. IInv /\ RowsInv /\ [Next]_vars => [Withdrawn]_vars
  BY <1>1
<1>3. Spec => [][Withdrawn]_vars
  BY <1>2, Inductive, RowsInductive, PTL DEF Spec
<1>4. QED
  BY <1>3 DEF OnlyOwnerWithdraws

-----------------------------------------------------------------------------
(* Trading implements TradeSwap.                                           *)

Agreements == [q \in Players |-> Agreement(q)]

\* The other side of a session stays the other side.
LEMMA OthersKept ==
    ASSUME UNCHANGED <<first, second>>
    PROVE  \A t, q : Other(t, q)' = Other(t, q)
  BY DEF Other

\* A step outside of sessions changes no agreement.
LEMMA AgreementsKept ==
    ASSUME UNCHANGED <<byPlayer, first, second, confirmed, terms, sess>>,
           \A q \in Players : pc'[q] = "completing" <=> pc[q] = "completing"
    PROVE  Agreements' = Agreements
<1>1. \A s : Spent(s)' <=> Spent(s)
  BY DEF Spent
<1>2. \A q \in Players : Agreement(q)' = Agreement(q)
  BY <1>1 DEF Agreement, Other
<1>3. QED
  BY <1>2 DEF Agreements

\* At first nobody agrees to anything.
LEMMA SwapInit == Init => Swap!Init
<1>1. ASSUME Init, NEW q \in Players
      PROVE  Agreement(q) = [with |-> q, give |-> {}, take |-> {}]
  BY <1>1 DEF Init, Agreement
<1>2. QED
  BY <1>1 DEF Init, Swap!Init, Swap!NoDeal

\* The update of a placement or a listing uses the owner's item.
LEMMA WithdrawIsUse ==
    ASSUME IInv, RowsInv, NEW p \in Players, WithdrawWrite(p)
    PROVE  Swap!Next
<1>1. /\ UNCHANGED <<byPlayer, first, second, confirmed, terms, sess, wallet>>
      /\ pc[p] \in {"toroom", "tomarket"} /\ pc' = [pc EXCEPT ![p] = "idle"]
  BY WithdrawnRow
<1>2. Agreements' = Agreements
  BY <1>1, AgreementsKept DEF IInv, TypeOK
<1>3. CASE UNCHANGED item
  BY <1>1, <1>3 DEF Swap!Next, Swap!Negotiate
<1>4. ASSUME NEW i \in Items, NEW place \in {"room", "reserved"},
             item[i] = [owner |-> p, place |-> "inventory"],
             item' = [item EXCEPT ![i] = [owner |-> p, place |-> place]]
      PROVE  Swap!Next
  <2>1. item[i].place = "inventory" /\ [item[i] EXCEPT !.place = place] = [owner |-> p, place |-> place]
    BY <1>4
  <2>2. item' = [item EXCEPT ![i].place = place]
    BY <1>4, <2>1
  <2>3. Swap!Use(i)
    BY <1>1, <1>2, <2>1, <2>2 DEF Swap!Use, Agreements
  <2>4. QED
    BY <2>3 DEF Swap!Next
<1>5. QED
  BY <1>3, <1>4, WithdrawnRow

\* Consuming an item uses it, and taking it back or buying it brings it back.
LEMMA OtherUsesAreUses ==
    ASSUME IInv, NEW i \in Items,
           PutBack(i) \/ \E p \in Players : Sell(i, p) \/ Consume(p, i)
    PROVE  Swap!Next
<1>1. UNCHANGED <<byPlayer, first, second, confirmed, terms, sess, pc, wallet>>
  BY DEF PutBack, Sell, Consume, registryVars, sessionVars, callVars
<1>2. Agreements' = Agreements
  BY <1>1, AgreementsKept
<1>3. item[i].owner \in Players /\ item[i] = [owner |-> item[i].owner, place |-> item[i].place]
  BY DEF IInv, TypeOK, Rows
<1>4. CASE PutBack(i)
  <2>1. Swap!Back(i)
    BY <1>1, <1>2, <1>3, <1>4 DEF PutBack, Swap!Back, Agreements
  <2>2. QED
    BY <2>1 DEF Swap!Next
<1>5. ASSUME NEW p \in Players, Sell(i, p) PROVE Swap!Next
  <2>1. Swap!Back(i)
    BY <1>1, <1>2, <1>3, <1>5 DEF Sell, Swap!Back, Agreements
  <2>2. QED
    BY <2>1 DEF Swap!Next
<1>6. ASSUME NEW p \in Players, Consume(p, i) PROVE Swap!Next
  <2>1. item[i].place = "inventory" /\ item[i].owner = p
        /\ item' = [item EXCEPT ![i] = [owner |-> p, place |-> "gone"]]
    BY <1>6 DEF Consume, RowGuard
  <2>2. [item[i] EXCEPT !.place = "gone"] = [owner |-> p, place |-> "gone"]
    BY <1>3, <2>1
  <2>3. item' = [item EXCEPT ![i].place = "gone"]
    BY <2>1, <2>2
  <2>4. Swap!Use(i)
    BY <1>1, <1>2, <2>1, <2>3 DEF Swap!Use, Agreements
  <2>5. QED
    BY <2>4 DEF Swap!Next
<1>7. QED
  BY <1>4, <1>5, <1>6

\* What both sides of a settlement agree to, before and after its commit: the
\* offers the transaction exchanges, then nothing.
LEMMA SettledAgreement ==
    ASSUME IInv, RowsInv, NEW p \in Players, SettleCommit(p)
    PROVE  LET a == first[sess[p]]
               b == second[sess[p]]
           IN /\ Agreement(a) = [with |-> b, give |-> bundle[p][a], take |-> bundle[p][b]]
              /\ Agreement(b) = [with |-> a, give |-> bundle[p][b], take |-> bundle[p][a]]
              /\ Agreement(a)' = [with |-> a, give |-> {}, take |-> {}]
              /\ Agreement(b)' = [with |-> b, give |-> {}, take |-> {}]
              /\ \A q \in Players \ {a, b} : Agreement(q)' = Agreement(q)
<1> DEFINE s == sess[p]
           a == first[s]
           b == second[s]
<1>1. /\ pc[p] = "transferring" /\ pc' = [pc EXCEPT ![p] = "completing"]
      /\ UNCHANGED <<byPlayer, first, second, confirmed, terms, sess>>
  BY DEF SettleCommit, Goto, registryVars, sessionVars, callVars
<1>2. pc[p] \in InTransaction /\ pc[p] \in SettlerPcs
  BY <1>1 DEF InTransaction, SettlerPcs
<1>3. s \in Sessions /\ a \in Players /\ b \in Players /\ a # b
  BY <1>2, SettlerSession
<1>4. byPlayer[a] = s /\ byPlayer[b] = s /\ s # None
  BY <1>2, <1>3 DEF IInv, SettlementOwnsSession, Participants
<1>5. a \in confirmed[s] /\ b \in confirmed[s]
  BY <1>2 DEF IInv, SettlesConfirmed, Participants
<1>6. terms[s][a] = bundle[p] /\ terms[s][b] = bundle[p]
  BY <1>2, <1>3, <1>5 DEF IInv, Confirmations, RowsInv, BundlesAgreed
<1>7. ~Spent(s)
  BY <1>1, <1>2 DEF IInv, OneSettler, Spent, SettlerPcs, AfterSettle
<1>8. Spent(s)'
  BY <1>1 DEF Spent, IInv, TypeOK
<1>9. \A t \in Sessions \ {s} : Spent(t)' <=> Spent(t)
  BY <1>1 DEF Spent, IInv, TypeOK
<1>10. Agreement(a) = [with |-> b, give |-> bundle[p][a], take |-> bundle[p][b]]
  BY <1>3, <1>4, <1>5, <1>6, <1>7 DEF Agreement, Other
<1>11. Agreement(b) = [with |-> a, give |-> bundle[p][b], take |-> bundle[p][a]]
  BY <1>3, <1>4, <1>5, <1>6, <1>7 DEF Agreement, Other
<1>12. /\ Agreement(a)' = [with |-> a, give |-> {}, take |-> {}]
       /\ Agreement(b)' = [with |-> b, give |-> {}, take |-> {}]
  <2>1. s' = s /\ a' = a /\ b' = b /\ byPlayer' = byPlayer
    BY <1>1
  <2>2. Agreement(a)' = [with |-> a, give |-> {}, take |-> {}]
    BY <1>4, <1>8, <2>1 DEF Agreement
  <2>3. Agreement(b)' = [with |-> b, give |-> {}, take |-> {}]
    BY <1>4, <1>8, <2>1 DEF Agreement
  <2>4. QED
    BY <2>2, <2>3
<1>13. ASSUME NEW q \in Players \ {a, b} PROVE Agreement(q)' = Agreement(q)
  <2>1. byPlayer[q] # s
    BY <1>3 DEF IInv, IndexesSessions, Participants
  <2>2. byPlayer[q] # None => (Spent(byPlayer[q])' <=> Spent(byPlayer[q]))
    BY <1>1, <1>9, <2>1 DEF IInv, TypeOK
  <2>3. /\ byPlayer' = byPlayer /\ first' = first /\ second' = second
        /\ confirmed' = confirmed /\ terms' = terms
    BY <1>1
  <2>4. \A t : Other(t, q)' = Other(t, q)
    BY <2>3, OthersKept
  <2>5. QED
    BY <2>2, <2>3, <2>4 DEF Agreement
<1>14. QED
  BY <1>10, <1>11, <1>12, <1>13

\* The commit of a settlement is the exchange both sides agreed to, at once.
LEMMA CommitIsExchange ==
    ASSUME IInv, RowsInv, NEW p \in Players, SettleCommit(p)
    PROVE  Swap!Exchange(first[sess[p]], second[sess[p]])
<1> DEFINE s == sess[p]
           a == first[s]
           b == second[s]
           give == bundle[p][a]
           take == bundle[p][b]
           To(i) == IF i \in give THEN b ELSE a
           Moved == give \cup take
           Paid(r) == IF r = a THEN take ELSE IF r = b THEN give ELSE {}
<1>1. /\ pc[p] = "transferring" /\ written[p] = BundleItems(p)
      /\ item' = [i \in Items |-> IF i \in written[p] THEN SettledRow(p, i) ELSE item[i]]
      /\ wallet' = [q \in Players |-> [i \in Items |-> wallet[q][i] + Granted(p, q, i)]]
  BY DEF SettleCommit
<1>2. a \in Players /\ b \in Players /\ a # b
  BY <1>1, SettlerSession DEF SettlerPcs, InTransaction
<1>3. written[p] = Moved
  BY <1>1 DEF BundleItems, Participants
<1>4. Moved \subseteq Items
  BY <1>2 DEF IInv, TypeOK, Offers
<1>5. \A i \in Moved : Giver(p, i) = (IF i \in give THEN a ELSE b) /\ Taker(p, i) = To(i)
  BY <1>2 DEF Giver, Taker, Other
<1>6. \A i \in Moved : item[i] = [owner |-> IF i \in give THEN a ELSE b, place |-> "inventory"]
  BY <1>3, <1>4, <1>5 DEF RowsInv, LocksHold, RowGuard, IInv, TypeOK, Rows
<1>7. \A i \in give : Swap!Available(i, a)
  BY <1>6 DEF Swap!Available
<1>8. \A i \in take : Swap!Available(i, b)
  <2>1. \A i \in take : i \notin give
    <3>1. SUFFICES ASSUME NEW i \in Items, i \in give, i \in take PROVE FALSE
      BY <1>4
    <3>2. byPlayer[a] = s /\ byPlayer[b] = s /\ s \in Sessions /\ bundle[p] = offered[s]
      BY <1>1, SettlerSession DEF IInv, SettlementOwnsSession, Participants, RowsInv, BundlesAgreed,
         SettlerPcs, InTransaction
    <3>3. staged[i] = a /\ staged[i] = b
      BY <1>2, <3>1, <3>2 DEF RowsInv, IndexesOffers
    <3>4. QED
      BY <1>2, <3>3
  <2>2. QED
    BY <1>6, <2>1 DEF Swap!Available
<1>9. item' = [i \in Items |->
                 IF i \notin Moved THEN item[i]
                 ELSE IF i \in CreditItems THEN [item[i] EXCEPT !.place = "redeemed"]
                 ELSE [item[i] EXCEPT !.owner = To(i)]]
  <2>1. \A i \in Moved : SettledRow(p, i) =
          IF i \in CreditItems THEN [item[i] EXCEPT !.place = "redeemed"]
          ELSE [item[i] EXCEPT !.owner = To(i)]
    <3>1. SUFFICES ASSUME NEW i \in Moved
                   PROVE  SettledRow(p, i) = IF i \in CreditItems
                                             THEN [item[i] EXCEPT !.place = "redeemed"]
                                             ELSE [item[i] EXCEPT !.owner = To(i)]
      OBVIOUS
    <3>2. Taker(p, i) = To(i)
      BY <1>5
    <3>3. \E q : item[i] = [owner |-> q, place |-> "inventory"]
      BY <1>6
    <3>4. PICK q : item[i] = [owner |-> q, place |-> "inventory"]
      BY <3>3
    <3>5. item[i].owner = q /\ item[i].place = "inventory"
      BY <3>4
    <3>6. [item[i] EXCEPT !.place = "redeemed"] = [owner |-> q, place |-> "redeemed"]
      BY <3>4
    <3>7. [item[i] EXCEPT !.owner = To(i)] = [owner |-> To(i), place |-> "inventory"]
      BY <3>4
    <3>8. QED
      BY <3>2, <3>5, <3>6, <3>7 DEF SettledRow
  <2>2. QED
    BY <1>1, <1>3, <2>1
<1>10. wallet' = [r \in Players |-> [i \in Items |->
                    wallet[r][i] + IF i \in Paid(r) \cap CreditItems THEN 1 ELSE 0]]
  <2>1. \A r \in Players, i \in Items :
          Granted(p, r, i) = IF i \in Paid(r) \cap CreditItems THEN 1 ELSE 0
    BY <1>2 DEF Granted, Participants, Other
  <2>2. QED
    BY <1>1, <2>1
<1>11. /\ Agreements[a] = [with |-> b, give |-> give, take |-> take]
       /\ Agreements[b] = [with |-> a, give |-> take, take |-> give]
       /\ Agreements' = [Agreements EXCEPT ![a] = Swap!NoDeal(a), ![b] = Swap!NoDeal(b)]
  <2>1. /\ Agreement(a) = [with |-> b, give |-> give, take |-> take]
        /\ Agreement(b) = [with |-> a, give |-> take, take |-> give]
        /\ Agreement(a)' = Swap!NoDeal(a)
        /\ Agreement(b)' = Swap!NoDeal(b)
        /\ \A q \in Players \ {a, b} : Agreement(q)' = Agreement(q)
    BY SettledAgreement DEF Swap!NoDeal
  <2>2. Agreements[a] = Agreement(a) /\ Agreements[b] = Agreement(b)
    BY <1>2 DEF Agreements
  <2>3. \A q \in Players : Agreement(q)' =
          IF q = b THEN Swap!NoDeal(b) ELSE IF q = a THEN Swap!NoDeal(a) ELSE Agreement(q)
    <3>1. a' = a /\ b' = b
      BY DEF SettleCommit, sessionVars, callVars
    <3>2. QED
      BY <2>1, <3>1
  <2>4. Agreements' = [Agreements EXCEPT ![a] = Swap!NoDeal(a), ![b] = Swap!NoDeal(b)]
    BY <1>2, <2>3 DEF Agreements
  <2>5. QED
    BY <2>1, <2>2, <2>4
<1>12. Agreements[a].give = give /\ Agreements[a].take = take /\ Agreements[a].with = b
  BY <1>11
<1> DEFINE mine == Agreements[a].give
           yours == Agreements[a].take
           Moves(g, t) == [i \in Items |->
               IF i \notin g \cup t THEN item[i]
               ELSE IF i \in CreditItems THEN [item[i] EXCEPT !.place = "redeemed"]
               ELSE [item[i] EXCEPT !.owner = IF i \in g THEN b ELSE a]]
           Credits(g, t) == [r \in Players |-> [i \in Items |->
               wallet[r][i] +
                 IF i \in (IF r = a THEN t ELSE IF r = b THEN g ELSE {}) \cap CreditItems
                 THEN 1 ELSE 0]]
<1>13. item' = Moves(give, take) /\ wallet' = Credits(give, take)
  BY <1>9, <1>10, Zenon
<1> HIDE DEF give, take, Moves, Credits
<1>14. item' = Moves(mine, yours) /\ wallet' = Credits(mine, yours)
  BY <1>12, <1>13
<1>15. Agreements[b] = [with |-> a, give |-> yours, take |-> mine]
  BY <1>11, <1>12
<1>16. /\ \A i \in mine : Swap!Available(i, a)
       /\ \A i \in yours : Swap!Available(i, b)
  BY <1>7, <1>8, <1>12
<1>17. /\ item' = [i \in Items |->
                     IF i \notin mine \cup yours THEN item[i]
                     ELSE IF i \in CreditItems THEN [item[i] EXCEPT !.place = "redeemed"]
                     ELSE [item[i] EXCEPT !.owner = IF i \in mine THEN b ELSE a]]
       /\ wallet' = [r \in Players |-> [i \in Items |->
               wallet[r][i] +
                 IF i \in (IF r = a THEN yours ELSE IF r = b THEN mine ELSE {}) \cap CreditItems
                 THEN 1 ELSE 0]]
  BY <1>14, Zenon DEF Moves, Credits
<1>18. QED
  BY <1>2, <1>11, <1>12, <1>15, <1>16, <1>17, Zenon DEF Swap!Exchange, Agreements

\* Direct trading implements the agreed exchange: whatever the interleaving of
\* packets, departures, failures and other uses of the rows, furniture and
\* credits move as if two players swapped what both had agreed to, at once.
THEOREM TradeImplementsSwap == Spec => SwapSpec
<1>1. ASSUME IInv, RowsInv, [Next]_vars PROVE Swap!Next
  <2>1. CASE UNCHANGED <<item, wallet>>
    BY <2>1 DEF Swap!Next, Swap!Negotiate
  <2>2. ASSUME NEW p \in Players, SettleCommit(p) PROVE Swap!Next
    <3>1. first[sess[p]] \in Players /\ second[sess[p]] \in Players
      BY <1>1, <2>2, SettlerSession DEF SettleCommit, SettlerPcs, InTransaction
    <3>2. QED
      BY <1>1, <2>2, <3>1, CommitIsExchange DEF Swap!Next
  <2>3. QED
    BY <1>1, <2>1, <2>2, RowSteps, WithdrawIsUse, OtherUsesAreUses
<1>2. IInv /\ RowsInv /\ [Next]_vars => [Swap!Next]_Swap!vars
  BY <1>1
<1>3. Spec => Swap!Spec
  BY <1>2, SwapInit, Inductive, RowsInductive, PTL DEF Spec, Swap!Spec
<1>4. QED
  BY <1>3 DEF SwapSpec
=============================================================================
