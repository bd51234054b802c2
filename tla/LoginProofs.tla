---------------------------- MODULE LoginProofs ----------------------------
(***************************************************************************)
(* Safety of logging in and out, for any sets of connections, players and  *)
(* tickets.                                                                *)
(***************************************************************************)
EXTENDS Login, TLAPS

\* What one goroutine knows at each of its places: the state its session
\* reached unless somebody disposed of it, whether a player is known, and
\* whether the connection is bound.
Ready(c) == player[c] # None
Bound(c) == byConnection[c] # None

Local(c) ==
    /\ At(c, "new") => state[c] = "handshaking" /\ ~Ready(c) /\ c \notin registered
    /\ At(c, "reading") => \/ state[c] = "handshaking" /\ ~Ready(c)
                           \/ state[c] = "connected" /\ Bound(c)
                           \/ Disposed(c)
    /\ At(c, "resolving") => state[c] \in {"authenticating", "closed"} /\ ~Ready(c)
    /\ pc[c] \in {"checking", "authenticating"} =>
           Ready(c) /\ state[c] \in {"authenticating", "closed"}
    /\ pc[c] \in {"adding", "binding"} => Ready(c) /\ state[c] \in {"authenticated", "closed"}
    /\ At(c, "bootstrapping") => Bound(c) /\ state[c] \in {"authenticated", "closed"}
    /\ pc[c] \in {"announcing", "entering", "joining"} =>
           Bound(c) /\ state[c] \in {"connected", "closed"}
    /\ pc[c] \in {"unregistering", "unbinding", "releasing", "publishing", "gone"} => Disposed(c)
    /\ pc[c] \in {"releasing", "publishing"} => Ready(c)
    /\ pc[c] \in {"unbinding", "releasing", "publishing", "gone"} => c \notin registered

Locals == \A c \in Conns : Local(c)

\* The places between AddBinding and Unbind.
BoundPlaces == {"bootstrapping", "announcing", "reading", "entering", "joining",
                "ending", "unregistering", "unbinding"}

\* A live player belongs to one goroutine, which is binding, bound or
\* releasing; the binding registry's maps agree with it and each other.
Registries ==
    /\ \A p \in Players, c \in Conns : live[p] = c =>
           player[c] = p /\ (pc[c] \in {"binding", "releasing"} \/ byPlayer[p] = c)
    /\ \A p \in Players, c \in Conns : byPlayer[p] = c =>
           live[p] = c /\ pc[c] \in BoundPlaces
    /\ \A p \in Players, c \in Conns : byPlayer[p] = c <=> byConnection[c] = p
    /\ \A c \in Conns : pc[c] \in {"binding", "releasing"} => live[player[c]] = c

\* A connection that knows its player has taken a ticket of that player out
\* of Redis, and no other connection has.
TicketsTaken ==
    /\ \A c \in Conns : At(c, "resolving") => ticket[c] # None
    /\ \A c \in Conns : Ready(c) =>
           /\ ticket[c] \in Tickets \ stored
           /\ player[c] = Owner[ticket[c]]
    /\ TicketOpensOnce

\* The inductive invariant.
IInv ==
    /\ TypeOK
    /\ Locals
    /\ Registries
    /\ TicketsTaken

-----------------------------------------------------------------------------
USE NoneAssumption, OwnerAssumption, BoundAssumption

\* The initial state satisfies the invariant.
LEMMA InitInv == Init => IInv
  BY DEF Init, IInv, TypeOK, Locals, Local, Ready, Bound, At, Disposed, Registries,
         TicketsTaken, TicketOpensOnce, Places, States, BoundPlaces

\* The socket is accepted.
LEMMA OpenStep ==
    ASSUME IInv, NEW c \in Conns, Open(c)
    PROVE  IInv'
<1>1. TypeOK'
  BY DEF IInv, TypeOK, Places, States, Open, At, Goto, bindingVars, banVars, roomVars, doorVars
<1>2. Locals'
  BY DEF IInv, TypeOK, Locals, Local, Ready, Bound, Disposed, At,
     Registries, Open, Goto, bindingVars, banVars
<1>3. Registries'
  BY DEF IInv, TypeOK, Registries, BoundPlaces, Locals, Local, Ready, Bound,
     Disposed, At, Open, Goto, bindingVars, banVars
<1>4. TicketsTaken'
  BY DEF IInv, TypeOK, TicketsTaken, TicketOpensOnce, Locals, Local, Ready,
     Disposed, At, Open, Goto, bindingVars, banVars
<1>5. QED
  BY <1>1, <1>2, <1>3, <1>4 DEF IInv

\* Reading ends.
LEMMA StopReadingStep ==
    ASSUME IInv, NEW c \in Conns, StopReading(c)
    PROVE  IInv'
<1>1. TypeOK'
  BY DEF IInv, TypeOK, Places, States, StopReading, At, Goto, bindingVars, banVars, roomVars, doorVars
<1>2. Locals'
  BY DEF IInv, TypeOK, Locals, Local, Ready, Bound, Disposed, At,
     Registries, StopReading, Goto, bindingVars, banVars
<1>3. Registries'
  BY DEF IInv, TypeOK, Registries, BoundPlaces, Locals, Local, Ready, Bound,
     Disposed, At, StopReading, Goto, bindingVars, banVars
<1>4. TicketsTaken'
  BY DEF IInv, TypeOK, TicketsTaken, TicketOpensOnce, Locals, Local, Ready,
     Disposed, At, StopReading, Goto, bindingVars, banVars
<1>5. QED
  BY <1>1, <1>2, <1>3, <1>4 DEF IInv

\* The heartbeat disposes of a session.
LEMMA PongTimeoutStep ==
    ASSUME IInv, NEW c \in Conns, PongTimeout(c)
    PROVE  IInv'
<1>1. TypeOK'
  BY DEF IInv, TypeOK, Places, States, PongTimeout, Dispose, bindingVars, banVars, roomVars, doorVars, Disposed
<1>2. Locals'
  BY DEF IInv, TypeOK, Locals, Local, Ready, Bound, Disposed, At,
     Registries, PongTimeout, Dispose, bindingVars, banVars
<1>3. Registries'
  BY DEF IInv, TypeOK, Registries, BoundPlaces, Locals, Local, Ready, Bound,
     Disposed, At, PongTimeout, Dispose, bindingVars, banVars
<1>4. TicketsTaken'
  BY DEF IInv, TypeOK, TicketsTaken, TicketOpensOnce, Locals, Local, Ready,
     Disposed, At, PongTimeout, Dispose, bindingVars, banVars
<1>5. QED
  BY <1>1, <1>2, <1>3, <1>4 DEF IInv

\* Staff dispose of a session.
LEMMA KickStep ==
    ASSUME IInv, NEW c \in Conns, Kick(c)
    PROVE  IInv'
<1>1. TypeOK'
  BY DEF IInv, TypeOK, Places, States, Kick, Dispose, bindingVars, banVars, roomVars, doorVars
<1>2. Locals'
  BY DEF IInv, TypeOK, Locals, Local, Ready, Bound, Disposed, At,
     Registries, Kick, Dispose, bindingVars, banVars
<1>3. Registries'
  BY DEF IInv, TypeOK, Registries, BoundPlaces, Locals, Local, Ready, Bound,
     Disposed, At, Kick, Dispose, bindingVars, banVars
<1>4. TicketsTaken'
  BY DEF IInv, TypeOK, TicketsTaken, TicketOpensOnce, Locals, Local, Ready,
     Disposed, At, Kick, Dispose, bindingVars, banVars
<1>5. QED
  BY <1>1, <1>2, <1>3, <1>4 DEF IInv

\* The ticket packet.
LEMMA ReceiveTicketStep ==
    ASSUME IInv, NEW c \in Conns, NEW t \in Tickets, ReceiveTicket(c, t)
    PROVE  IInv'
<1>1. TypeOK'
  BY DEF IInv, TypeOK, Places, States, ReceiveTicket, At, Goto, Transition,
     bindingVars, banVars, roomVars, doorVars
<1>2. Locals'
  BY DEF IInv, TypeOK, Locals, Local, Ready, Bound, Disposed, At,
     Registries, ReceiveTicket, Goto, Transition, bindingVars,
     banVars
<1>3. Registries'
  BY DEF IInv, TypeOK, Registries, BoundPlaces, Locals, Local, Ready, Bound,
     Disposed, At, ReceiveTicket, Goto, Transition, bindingVars,
     banVars
<1>4. TicketsTaken'
  BY DEF IInv, TypeOK, TicketsTaken, TicketOpensOnce, Locals, Local, Ready,
     Disposed, At, ReceiveTicket, Goto, Transition, bindingVars,
     banVars
<1>5. QED
  BY <1>1, <1>2, <1>3, <1>4 DEF IInv

\* The packet that enters a room.
LEMMA ReceiveEnterStep ==
    ASSUME IInv, NEW c \in Conns, ReceiveEnter(c)
    PROVE  IInv'
<1>1. TypeOK'
  BY DEF IInv, TypeOK, Places, States, ReceiveEnter, At, Goto, bindingVars, banVars, roomVars, doorVars
<1>2. Locals'
  BY DEF IInv, TypeOK, Locals, Local, Ready, Bound, Disposed, At,
     Registries, ReceiveEnter, Goto, bindingVars, banVars
<1>3. Registries'
  BY DEF IInv, TypeOK, Registries, BoundPlaces, Locals, Local, Ready, Bound,
     Disposed, At, ReceiveEnter, Goto, bindingVars, banVars
<1>4. TicketsTaken'
  BY DEF IInv, TypeOK, TicketsTaken, TicketOpensOnce, Locals, Local, Ready,
     Disposed, At, ReceiveEnter, Goto, bindingVars, banVars
<1>5. QED
  BY <1>1, <1>2, <1>3, <1>4 DEF IInv

\* The packet that leaves it.
LEMMA LeaveRoomStep ==
    ASSUME IInv, NEW c \in Conns, LeaveRoom(c)
    PROVE  IInv'
<1>1. TypeOK'
  BY DEF IInv, TypeOK, Places, States, LeaveRoom, At, sessionVars,
     bindingVars, banVars, roomVars, doorVars
<1>2. Locals'
  BY DEF IInv, TypeOK, Locals, Local, Ready, Bound, Disposed, At,
     Registries, LeaveRoom, sessionVars, bindingVars, banVars
<1>3. Registries'
  BY DEF IInv, TypeOK, Registries, BoundPlaces, Locals, Local, Ready, Bound,
     Disposed, At, LeaveRoom, sessionVars, bindingVars, banVars
<1>4. TicketsTaken'
  BY DEF IInv, TypeOK, TicketsTaken, TicketOpensOnce, Locals, Local, Ready,
     Disposed, At, LeaveRoom, sessionVars, bindingVars, banVars
<1>5. QED
  BY <1>1, <1>2, <1>3, <1>4 DEF IInv

\* Service.Consume succeeds.
LEMMA ConsumeStep ==
    ASSUME IInv, NEW c \in Conns, Consume(c)
    PROVE  IInv'
<1>1. TypeOK'
  BY DEF IInv, TypeOK, Places, States, Consume, At, Goto, Takes,
     bindingVars, banVars, roomVars, doorVars
<1>2. Locals'
  BY DEF IInv, TypeOK, Locals, Local, Ready, Bound, Disposed, At,
     Registries, Consume, Goto, Takes, bindingVars, banVars
<1>3. Registries'
  BY DEF IInv, TypeOK, Registries, BoundPlaces, Locals, Local, Ready, Bound,
     Disposed, At, Consume, Goto, Takes, bindingVars, banVars
<1>4. TicketsTaken'
  BY DEF IInv, TypeOK, TicketsTaken, TicketOpensOnce, Locals, Local, Ready,
     Disposed, At, Consume, Goto, Takes, bindingVars, banVars
<1>5. QED
  BY <1>1, <1>2, <1>3, <1>4 DEF IInv

\* Service.Consume fails.
LEMMA RefuseTicketStep ==
    ASSUME IInv, NEW c \in Conns, RefuseTicket(c)
    PROVE  IInv'
<1>1. TypeOK'
  BY DEF IInv, TypeOK, Places, States, RefuseTicket, At, Goto, Takes,
     Reject, Dispose, bindingVars, banVars, roomVars, doorVars
<1>2. Locals'
  BY DEF IInv, TypeOK, Locals, Local, Ready, Bound, Disposed, At,
     Registries, RefuseTicket, Goto, Takes, Reject, Dispose, bindingVars,
     banVars
<1>3. Registries'
  BY DEF IInv, TypeOK, Registries, BoundPlaces, Locals, Local, Ready, Bound,
     Disposed, At, RefuseTicket, Goto, Takes, Reject, Dispose, bindingVars,
     banVars
<1>4. TicketsTaken'
  BY DEF IInv, TypeOK, TicketsTaken, TicketOpensOnce, Locals, Local, Ready,
     Disposed, At, RefuseTicket, Goto, Takes, Reject, Dispose, bindingVars,
     banVars
<1>5. QED
  BY <1>1, <1>2, <1>3, <1>4 DEF IInv

\* There is no ban.
LEMMA PassBanCheckStep ==
    ASSUME IInv, NEW c \in Conns, PassBanCheck(c)
    PROVE  IInv'
<1>1. TypeOK'
  BY DEF IInv, TypeOK, Places, States, PassBanCheck, At, Goto, bindingVars, banVars, roomVars, doorVars
<1>2. Locals'
  BY DEF IInv, TypeOK, Locals, Local, Ready, Bound, Disposed, At,
     Registries, PassBanCheck, Goto, bindingVars, banVars
<1>3. Registries'
  BY DEF IInv, TypeOK, Registries, BoundPlaces, Locals, Local, Ready, Bound,
     Disposed, At, PassBanCheck, Goto, bindingVars, banVars
<1>4. TicketsTaken'
  BY DEF IInv, TypeOK, TicketsTaken, TicketOpensOnce, Locals, Local, Ready,
     Disposed, At, PassBanCheck, Goto, bindingVars, banVars
<1>5. QED
  BY <1>1, <1>2, <1>3, <1>4 DEF IInv

\* There is one.
LEMMA FailBanCheckStep ==
    ASSUME IInv, NEW c \in Conns, FailBanCheck(c)
    PROVE  IInv'
<1>1. TypeOK'
  BY DEF IInv, TypeOK, Places, States, FailBanCheck, At, Goto, Reject,
     Dispose, bindingVars, banVars, roomVars, doorVars
<1>2. Locals'
  BY DEF IInv, TypeOK, Locals, Local, Ready, Bound, Disposed, At,
     Registries, FailBanCheck, Goto, Reject, Dispose, bindingVars,
     banVars
<1>3. Registries'
  BY DEF IInv, TypeOK, Registries, BoundPlaces, Locals, Local, Ready, Bound,
     Disposed, At, FailBanCheck, Goto, Reject, Dispose, bindingVars, banVars
<1>4. TicketsTaken'
  BY DEF IInv, TypeOK, TicketsTaken, TicketOpensOnce, Locals, Local, Ready,
     Disposed, At, FailBanCheck, Goto, Reject, Dispose, bindingVars, banVars
<1>5. QED
  BY <1>1, <1>2, <1>3, <1>4 DEF IInv

\* Session.Authenticate.
LEMMA AuthenticateStep ==
    ASSUME IInv, NEW c \in Conns, Authenticate(c)
    PROVE  IInv'
<1>1. TypeOK'
  BY DEF IInv, TypeOK, Places, States, Authenticate, At, Goto, Transition,
     bindingVars, banVars, roomVars, doorVars, Disposed
<1>2. Locals'
  BY DEF IInv, TypeOK, Locals, Local, Ready, Bound, Disposed, At,
     Registries, Authenticate, Goto, Transition, bindingVars,
     banVars
<1>3. Registries'
  BY DEF IInv, TypeOK, Registries, BoundPlaces, Locals, Local, Ready, Bound,
     Disposed, At, Authenticate, Goto, Transition, bindingVars,
     banVars
<1>4. TicketsTaken'
  BY DEF IInv, TypeOK, TicketsTaken, TicketOpensOnce, Locals, Local, Ready,
     Disposed, At, Authenticate, Goto, Transition, bindingVars,
     banVars
<1>5. QED
  BY <1>1, <1>2, <1>3, <1>4 DEF IInv

\* The player becomes live.
LEMMA AddLiveStep ==
    ASSUME IInv, NEW c \in Conns, AddLive(c)
    PROVE  IInv'
<1>1. TypeOK'
  BY DEF IInv, TypeOK, Places, States, AddLive, At, Goto, Free, bindingVars, banVars, roomVars, doorVars
<1>2. Locals'
  BY DEF IInv, TypeOK, Locals, Local, Ready, Bound, Disposed, At,
     Registries, AddLive, Goto, Free, bindingVars, banVars
<1>3. Registries'
  BY DEF IInv, TypeOK, Registries, BoundPlaces, Locals, Local, Ready, Bound,
     Disposed, At, AddLive, Goto, Free, bindingVars, banVars
<1>4. TicketsTaken'
  BY DEF IInv, TypeOK, TicketsTaken, TicketOpensOnce, Locals, Local, Ready,
     Disposed, At, AddLive, Goto, Free, bindingVars, banVars
<1>5. QED
  BY <1>1, <1>2, <1>3, <1>4 DEF IInv

\* Or is live already.
LEMMA FailAddLiveStep ==
    ASSUME IInv, NEW c \in Conns, FailAddLive(c)
    PROVE  IInv'
<1>1. TypeOK'
  BY DEF IInv, TypeOK, Places, States, FailAddLive, At, Goto, Reject,
     Dispose, bindingVars, banVars, roomVars, doorVars
<1>2. Locals'
  BY DEF IInv, TypeOK, Locals, Local, Ready, Bound, Disposed, At,
     Registries, FailAddLive, Goto, Reject, Dispose, bindingVars,
     banVars
<1>3. Registries'
  BY DEF IInv, TypeOK, Registries, BoundPlaces, Locals, Local, Ready, Bound,
     Disposed, At, FailAddLive, Goto, Reject, Dispose, bindingVars,
     banVars
<1>4. TicketsTaken'
  BY DEF IInv, TypeOK, TicketsTaken, TicketOpensOnce, Locals, Local, Ready,
     Disposed, At, FailAddLive, Goto, Reject, Dispose, bindingVars,
     banVars
<1>5. QED
  BY <1>1, <1>2, <1>3, <1>4 DEF IInv

\* The binding is added: its keys are free, so the other branch is never taken.
LEMMA AddBindingStep ==
    ASSUME IInv, NEW c \in Conns, AddBinding(c)
    PROVE  IInv'
<1>1. TypeOK'
  BY DEF IInv, TypeOK, Places, States, AddBinding, At, Goto,
     Reject, Dispose, bindingVars, banVars, roomVars, doorVars
<1>2. Locals'
  BY DEF IInv, TypeOK, Locals, Local, Ready, Bound, Disposed, At,
     Registries, AddBinding, Goto, Reject, Dispose, bindingVars, banVars
<1>3. Registries'
  BY DEF IInv, TypeOK, Registries, BoundPlaces, Locals, Local, Ready, Bound,
     Disposed, At, AddBinding, Goto, Reject, Dispose, bindingVars, banVars
<1>4. TicketsTaken'
  BY DEF IInv, TypeOK, TicketsTaken, TicketOpensOnce, Locals, Local, Ready,
     Disposed, At, AddBinding, Goto, Reject, Dispose, bindingVars, banVars
<1>5. QED
  BY <1>1, <1>2, <1>3, <1>4 DEF IInv

\* The bootstrap is sent, or fails.
LEMMA BootstrapStep ==
    ASSUME IInv, NEW c \in Conns, Bootstrap(c)
    PROVE  IInv'
<1>1. TypeOK'
  BY DEF IInv, TypeOK, Places, States, Bootstrap, At, Goto, Transition,
     AfterError, Free, bindingVars, banVars, roomVars, doorVars
<1>2. Locals'
  BY DEF IInv, TypeOK, Locals, Local, Ready, Bound, Disposed, At,
     Registries, Bootstrap, Goto, Transition, AfterError, Free, bindingVars, banVars
<1>3. Registries'
  BY DEF IInv, TypeOK, Registries, BoundPlaces, Locals, Local, Ready, Bound,
     Disposed, At, Bootstrap, Goto, Transition, AfterError, Free, bindingVars, banVars
<1>4. TicketsTaken'
  BY DEF IInv, TypeOK, TicketsTaken, TicketOpensOnce, Locals, Local, Ready,
     Disposed, At, Bootstrap, Goto, Transition, AfterError, Free, bindingVars, banVars
<1>5. QED
  BY <1>1, <1>2, <1>3, <1>4 DEF IInv

\* player.connected.
LEMMA AnnounceStep ==
    ASSUME IInv, NEW c \in Conns, Announce(c)
    PROVE  IInv'
<1>1. TypeOK'
  BY DEF IInv, TypeOK, Places, States, Announce, At, Goto, bindingVars, banVars, roomVars, doorVars
<1>2. Locals'
  BY DEF IInv, TypeOK, Locals, Local, Ready, Bound, Disposed, At,
     Registries, Announce, Goto, bindingVars, banVars
<1>3. Registries'
  BY DEF IInv, TypeOK, Registries, BoundPlaces, Locals, Local, Ready, Bound,
     Disposed, At, Announce, Goto, bindingVars, banVars
<1>4. TicketsTaken'
  BY DEF IInv, TypeOK, TicketsTaken, TicketOpensOnce, Locals, Local, Ready,
     Disposed, At, Announce, Goto, bindingVars, banVars
<1>5. QED
  BY <1>1, <1>2, <1>3, <1>4 DEF IInv

\* The packet that accepts a doorbell request.
LEMMA AnswerDoorbellStep ==
    ASSUME IInv, NEW c \in Conns, NEW v \in Conns, AnswerDoorbell(c, v)
    PROVE  IInv'
<1>1. TypeOK'
  BY DEF IInv, TypeOK, Places, States, AnswerDoorbell, At, Goto,
     bindingVars, banVars, roomVars, doorVars
<1>2. Locals'
  BY DEF IInv, TypeOK, Locals, Local, Ready, Bound, Disposed, Registries, AnswerDoorbell,
     At, Goto, bindingVars, banVars
<1>3. Registries'
  BY DEF IInv, TypeOK, Registries, BoundPlaces, Locals, Local, Ready, Bound, Disposed,
     AnswerDoorbell, At, Goto, bindingVars, banVars
<1>4. TicketsTaken'
  BY DEF IInv, TypeOK, TicketsTaken, TicketOpensOnce, Locals, Local, Ready, Disposed,
     AnswerDoorbell, At, Goto, bindingVars, banVars
<1>5. QED
  BY <1>1, <1>2, <1>3, <1>4 DEF IInv

\* A request that ends otherwise.
LEMMA EndRingingStep ==
    ASSUME IInv, NEW c \in Conns, EndRinging(c)
    PROVE  IInv'
<1>1. TypeOK'
  BY DEF IInv, TypeOK, Places, States, EndRinging, At, sessionVars,
     bindingVars, banVars, roomVars, doorVars
<1>2. Locals'
  BY DEF IInv, TypeOK, Locals, Local, Ready, Bound, Disposed, Registries, EndRinging,
     At, sessionVars, bindingVars, banVars
<1>3. Registries'
  BY DEF IInv, TypeOK, Registries, BoundPlaces, Locals, Local, Ready, Bound, Disposed,
     EndRinging, At, sessionVars, bindingVars, banVars
<1>4. TicketsTaken'
  BY DEF IInv, TypeOK, TicketsTaken, TicketOpensOnce, Locals, Local, Ready, Disposed,
     EndRinging, At, sessionVars, bindingVars, banVars
<1>5. QED
  BY <1>1, <1>2, <1>3, <1>4 DEF IInv

\* The enter command resolves the visitor.
LEMMA ResolveVisitorStep ==
    ASSUME IInv, NEW c \in Conns, ResolveVisitor(c)
    PROVE  IInv'
<1>1. PICK where \in {"joining", "ending"} : Goto(c, where)
  BY DEF ResolveVisitor, AfterError
<1>2. /\ At(c, "entering")
      /\ UNCHANGED <<state, ticket, player, stored, live, bindingVars, registered>>
  BY DEF ResolveVisitor
<1>3. TypeOK'
  BY <1>1 DEF IInv, TypeOK, Places, States, ResolveVisitor, Goto, bindingVars, banVars
<1>4. Locals'
  BY <1>1, <1>2 DEF IInv, TypeOK, Locals, Local, Ready, Bound, Disposed, Registries, At,
     Goto, bindingVars
<1>5. Registries'
  BY <1>1, <1>2 DEF IInv, TypeOK, Registries, BoundPlaces, At, Goto, bindingVars
<1>6. TicketsTaken'
  BY <1>1, <1>2 DEF IInv, TypeOK, TicketsTaken, TicketOpensOnce, Ready, At, Goto
<1>7. QED
  BY <1>3, <1>4, <1>5, <1>6 DEF IInv

\* It joins the room.
LEMMA EnterRoomStep ==
    ASSUME IInv, NEW c \in Conns, EnterRoom(c)
    PROVE  IInv'
<1>1. TypeOK'
  BY DEF IInv, TypeOK, Places, States, EnterRoom, At, Goto, AfterError,
     bindingVars, banVars, roomVars, doorVars
<1>2. Locals'
  BY DEF IInv, TypeOK, Locals, Local, Ready, Bound, Disposed, Registries, EnterRoom,
     At, Goto, AfterError, bindingVars, banVars
<1>3. Registries'
  BY DEF IInv, TypeOK, Registries, BoundPlaces, Locals, Local, Ready, Bound, Disposed,
     EnterRoom, At, Goto, AfterError, bindingVars, banVars
<1>4. TicketsTaken'
  BY DEF IInv, TypeOK, TicketsTaken, TicketOpensOnce, Locals, Local, Ready, Disposed,
     EnterRoom, At, Goto, AfterError, bindingVars, banVars
<1>5. QED
  BY <1>1, <1>2, <1>3, <1>4 DEF IInv

\* run disconnects.
LEMMA EndSessionStep ==
    ASSUME IInv, NEW c \in Conns, EndSession(c)
    PROVE  IInv'
<1>1. TypeOK'
  BY DEF IInv, TypeOK, Places, States, EndSession, At, Goto, Dispose,
     bindingVars, banVars, roomVars, doorVars
<1>2. Locals'
  BY DEF IInv, TypeOK, Locals, Local, Ready, Bound, Disposed, At,
     Registries, EndSession, Goto, Dispose, bindingVars, banVars
<1>3. Registries'
  BY DEF IInv, TypeOK, Registries, BoundPlaces, Locals, Local, Ready, Bound,
     Disposed, At, EndSession, Goto, Dispose, bindingVars, banVars
<1>4. TicketsTaken'
  BY DEF IInv, TypeOK, TicketsTaken, TicketOpensOnce, Locals, Local, Ready,
     Disposed, At, EndSession, Goto, Dispose, bindingVars, banVars
<1>5. QED
  BY <1>1, <1>2, <1>3, <1>4 DEF IInv

\* The connection registry forgets the connection.
LEMMA UnregisterStep ==
    ASSUME IInv, NEW c \in Conns, Unregister(c)
    PROVE  IInv'
<1>1. TypeOK'
  BY DEF IInv, TypeOK, Places, States, Unregister, At, Goto, bindingVars, banVars, roomVars, doorVars
<1>2. Locals'
  BY DEF IInv, TypeOK, Locals, Local, Ready, Bound, Disposed, At,
     Registries, Unregister, Goto, bindingVars, banVars
<1>3. Registries'
  BY DEF IInv, TypeOK, Registries, BoundPlaces, Locals, Local, Ready, Bound,
     Disposed, At, Unregister, Goto, bindingVars, banVars
<1>4. TicketsTaken'
  BY DEF IInv, TypeOK, TicketsTaken, TicketOpensOnce, Locals, Local, Ready,
     Disposed, At, Unregister, Goto, bindingVars, banVars
<1>5. QED
  BY <1>1, <1>2, <1>3, <1>4 DEF IInv

\* The binding goes.
LEMMA UnbindStep ==
    ASSUME IInv, NEW c \in Conns, Unbind(c)
    PROVE  IInv'
<1>1. TypeOK'
  BY DEF IInv, TypeOK, Places, States, Unbind, At, Goto, WithoutPlayer,
     bindingVars, banVars, roomVars, doorVars
<1>2. Locals'
  BY DEF IInv, TypeOK, Locals, Local, Ready, Bound, Disposed, At,
     Registries, Unbind, Goto, WithoutPlayer, bindingVars, banVars
<1>3. Registries'
  BY DEF IInv, TypeOK, Registries, BoundPlaces, Locals, Local, Ready, Bound,
     Disposed, At, Unbind, Goto, WithoutPlayer, bindingVars,
     banVars
<1>4. player' = player
  BY DEF IInv, TypeOK, Registries, Unbind, At, Goto, WithoutPlayer,
     bindingVars, banVars
<1>5. TicketsTaken'
  BY <1>4 DEF IInv, TypeOK, TicketsTaken, TicketOpensOnce, Ready, At,
     Unbind, Goto, WithoutPlayer, bindingVars, banVars
<1>6. QED
  BY <1>1, <1>2, <1>3, <1>5 DEF IInv

\* The live player goes.
LEMMA ReleaseLiveStep ==
    ASSUME IInv, NEW c \in Conns, ReleaseLive(c)
    PROVE  IInv'
<1>1. TypeOK'
  BY DEF IInv, TypeOK, Places, States, ReleaseLive, At, Goto,
     bindingVars, banVars, roomVars, doorVars
<1>2. Locals'
  BY DEF IInv, TypeOK, Locals, Local, Ready, Bound, Disposed, At,
     Registries, ReleaseLive, Goto, bindingVars, banVars
<1>3. Registries'
  BY DEF IInv, TypeOK, Registries, BoundPlaces, Locals, Local, Ready, Bound,
     Disposed, At, ReleaseLive, Goto, bindingVars,
     banVars
<1>4. TicketsTaken'
  BY DEF IInv, TypeOK, TicketsTaken, TicketOpensOnce, Locals, Local, Ready,
     Disposed, At, ReleaseLive, Goto, bindingVars,
     banVars
<1>5. QED
  BY <1>1, <1>2, <1>3, <1>4 DEF IInv

\* player.disconnected.
LEMMA PublishDisconnectedStep ==
    ASSUME IInv, NEW c \in Conns, PublishDisconnected(c)
    PROVE  IInv'
<1>1. TypeOK'
  BY DEF IInv, TypeOK, Places, States, PublishDisconnected, At, Goto, bindingVars, banVars, roomVars, doorVars
<1>2. Locals'
  BY DEF IInv, TypeOK, Locals, Local, Ready, Bound, Disposed, At,
     Registries, PublishDisconnected, Goto, bindingVars,
     banVars
<1>3. Registries'
  BY DEF IInv, TypeOK, Registries, BoundPlaces, Locals, Local, Ready, Bound,
     Disposed, At, PublishDisconnected, Goto, bindingVars,
     banVars
<1>4. TicketsTaken'
  BY DEF IInv, TypeOK, TicketsTaken, TicketOpensOnce, Locals, Local, Ready,
     Disposed, At, PublishDisconnected, Goto, bindingVars,
     banVars
<1>5. QED
  BY <1>1, <1>2, <1>3, <1>4 DEF IInv

\* Redis evicts a ticket.
LEMMA EvictTicketStep ==
    ASSUME IInv, NEW t \in Tickets, EvictTicket(t)
    PROVE  IInv'
<1>1. TypeOK'
  BY DEF IInv, TypeOK, Places, States, EvictTicket, Takes, sessionVars,
     bindingVars, banVars, roomVars, doorVars
<1>2. Locals'
  BY DEF IInv, TypeOK, Locals, Local, Ready, Bound, Disposed, At,
     Registries, EvictTicket, Takes, sessionVars, bindingVars, banVars
<1>3. Registries'
  BY DEF IInv, TypeOK, Registries, BoundPlaces, Locals, Local, Ready, Bound,
     Disposed, At, EvictTicket, Takes, sessionVars, bindingVars, banVars
<1>4. TicketsTaken'
  BY DEF IInv, TypeOK, TicketsTaken, TicketOpensOnce, Locals, Local, Ready,
     Disposed, At, EvictTicket, Takes, sessionVars, bindingVars, banVars
<1>5. QED
  BY <1>1, <1>2, <1>3, <1>4 DEF IInv

\* A ban is inserted.
LEMMA InsertBanStep ==
    ASSUME IInv, NEW p \in Players, InsertBan(p)
    PROVE  IInv'
<1>1. TypeOK'
  BY DEF IInv, TypeOK, Places, States, InsertBan, sessionVars, bindingVars,
     roomVars, doorVars
<1>2. Locals'
  BY DEF IInv, TypeOK, Locals, Local, Ready, Bound, Disposed, At,
     Registries, InsertBan, sessionVars, bindingVars
<1>3. Registries'
  BY DEF IInv, TypeOK, Registries, BoundPlaces, Locals, Local, Ready, Bound,
     Disposed, At, InsertBan, sessionVars, bindingVars
<1>4. TicketsTaken'
  BY DEF IInv, TypeOK, TicketsTaken, TicketOpensOnce, Locals, Local, Ready,
     Disposed, At, InsertBan, sessionVars, bindingVars
<1>5. QED
  BY <1>1, <1>2, <1>3, <1>4 DEF IInv

\* Its player is looked for.
LEMMA FindBannedStep ==
    ASSUME IInv, NEW p \in Players, FindBanned(p)
    PROVE  IInv'
<1>1. TypeOK'
  BY DEF IInv, TypeOK, Places, States, FindBanned, Free, sessionVars,
     bindingVars, roomVars, doorVars
<1>2. Locals'
  BY DEF IInv, TypeOK, Locals, Local, Ready, Bound, Disposed, At,
     Registries, FindBanned, Free, sessionVars, bindingVars
<1>3. Registries'
  BY DEF IInv, TypeOK, Registries, BoundPlaces, Locals, Local, Ready, Bound,
     Disposed, At, FindBanned, Free, sessionVars, bindingVars
<1>4. TicketsTaken'
  BY DEF IInv, TypeOK, TicketsTaken, TicketOpensOnce, Locals, Local, Ready,
     Disposed, At, FindBanned, Free, sessionVars, bindingVars
<1>5. QED
  BY <1>1, <1>2, <1>3, <1>4 DEF IInv

\* And disconnected.
LEMMA DisconnectBannedStep ==
    ASSUME IInv, NEW p \in Players, DisconnectBanned(p)
    PROVE  IInv'
<1>1. TypeOK'
  BY DEF IInv, TypeOK, Places, States, DisconnectBanned, Disconnects,
     bindingVars, roomVars, doorVars
<1>2. Locals'
  BY DEF IInv, TypeOK, Locals, Local, Ready, Bound, Disposed, At,
     Registries, DisconnectBanned, Disconnects, bindingVars
<1>3. Registries'
  BY DEF IInv, TypeOK, Registries, BoundPlaces, Locals, Local, Ready, Bound,
     Disposed, At, DisconnectBanned, Disconnects, bindingVars
<1>4. TicketsTaken'
  BY DEF IInv, TypeOK, TicketsTaken, TicketOpensOnce, Locals, Local, Ready,
     Disposed, At, DisconnectBanned, Disconnects, bindingVars
<1>5. QED
  BY <1>1, <1>2, <1>3, <1>4 DEF IInv

\* Every step keeps the invariant.
LEMMA StepInv == IInv /\ [Next]_vars => IInv'
<1>1. SUFFICES ASSUME IInv, [Next]_vars PROVE IInv'
  OBVIOUS
<1>2. ASSUME NEW c \in Conns,
             Open(c) \/ StopReading(c) \/ PongTimeout(c) \/ Kick(c) \/ Packet(c)
      PROVE  IInv'
  BY <1>1, <1>2, OpenStep, StopReadingStep, PongTimeoutStep, KickStep,
     ReceiveTicketStep, ReceiveEnterStep, AnswerDoorbellStep, LeaveRoomStep DEF Packet
<1>3. ASSUME NEW c \in Conns, EndRinging(c) PROVE IInv'
  BY <1>1, <1>3, EndRingingStep
<1>4. ASSUME NEW c \in Conns, Handle(c) PROVE IInv'
  BY <1>1, <1>4, ConsumeStep, RefuseTicketStep, PassBanCheckStep, FailBanCheckStep,
     AuthenticateStep, AddLiveStep, FailAddLiveStep, AddBindingStep, BootstrapStep,
     AnnounceStep, ResolveVisitorStep, EnterRoomStep DEF Handle
<1>5. ASSUME NEW c \in Conns, TearDown(c) PROVE IInv'
  BY <1>1, <1>5, EndSessionStep, UnregisterStep, UnbindStep, ReleaseLiveStep,
     PublishDisconnectedStep DEF TearDown
<1>6. ASSUME NEW t \in Tickets, EvictTicket(t) PROVE IInv'
  BY <1>1, <1>6, EvictTicketStep
<1>7. ASSUME NEW p \in Players, InsertBan(p) \/ Sanction(p) PROVE IInv'
  BY <1>1, <1>7, InsertBanStep, FindBannedStep, DisconnectBannedStep DEF Sanction
<1>8. CASE UNCHANGED vars
  BY <1>1, <1>8 DEF vars, sessionVars, bindingVars, roomVars, doorVars, banVars, IInv, TypeOK,
     Locals, Local, Ready, Bound, Disposed, At, Registries, TicketsTaken,
     TicketOpensOnce
<1>9. QED
  BY <1>1, <1>2, <1>3, <1>4, <1>5, <1>6, <1>7, <1>8 DEF Next

\* The invariant holds in every reachable state.
THEOREM Inductive == Spec => []IInv
  BY InitInv, StepInv, PTL DEF Spec

\* Every variable keeps its type.
THEOREM TypesHold == Spec => []TypeOK
<1>1. IInv => TypeOK
  BY DEF IInv
<1>2. QED
  BY <1>1, Inductive, PTL

\* A packet resolved through the binding registry reaches the live player of
\* the connection it came from.
THEOREM BindingsAlwaysAgree == Spec => []BindingsAgree
<1>1. IInv => BindingsAgree
  BY DEF IInv, Registries, BindingsAgree
<1>2. QED
  BY <1>1, Inductive, PTL

\* No ticket logs two connections in.
THEOREM TicketsOpenOnce == Spec => []TicketOpensOnce
<1>1. IInv => TicketOpensOnce
  BY DEF IInv, TicketsTaken
<1>2. QED
  BY <1>1, Inductive, PTL

\* A connection that reads packets is unknown or fully logged in.
THEOREM NoSessionHalfLoggedIn == Spec => []NoHalfLogin
<1>1. ASSUME IInv PROVE NoHalfLogin
  <2>1. SUFFICES ASSUME NEW c \in Conns, At(c, "reading"), ~Disposed(c)
                 PROVE  \/ /\ state[c] = "handshaking"
                           /\ byConnection[c] = None
                           /\ \A p \in Players : live[p] # c
                        \/ /\ state[c] = "connected"
                           /\ byConnection[c] # None
                           /\ byConnection[c] = player[c]
    BY DEF NoHalfLogin
  <2>2. CASE state[c] = "handshaking" /\ ~Ready(c)
    BY <1>1, <2>1, <2>2 DEF IInv, TypeOK, Registries, Ready
  <2>3. CASE state[c] = "connected" /\ Bound(c)
    BY <1>1, <2>1, <2>3 DEF IInv, TypeOK, Registries, Bound
  <2>4. QED
    BY <1>1, <2>1, <2>2, <2>3 DEF IInv, Locals, Local
<1>2. QED
  BY <1>1, Inductive, PTL

\* A connection whose goroutine has ended has left every registry.
THEOREM GoneLeavesNothing == Spec => []NothingLeft
<1>1. ASSUME IInv PROVE NothingLeft
  <2>1. SUFFICES ASSUME NEW c \in Conns, At(c, "gone")
                 PROVE  /\ c \notin registered
                        /\ byConnection[c] = None
                        /\ \A p \in Players : live[p] # c /\ byPlayer[p] # c
    BY DEF NothingLeft
  <2>2. c \notin registered
    BY <1>1, <2>1 DEF IInv, Locals, Local, At
  <2>3. \A p \in Players : live[p] # c /\ byPlayer[p] # c
    BY <1>1, <2>1 DEF IInv, Registries, BoundPlaces, At
  <2>4. byConnection[c] = None
    BY <1>1, <2>3 DEF IInv, TypeOK, Registries
  <2>5. QED
    BY <2>2, <2>3, <2>4
<1>2. QED
  BY <1>1, Inductive, PTL

\* A goroutine that has added its player to the live registry finds neither the player
\* nor its connection in the binding registry, whatever other sessions, sanctions and
\* evictions of tickets do meanwhile: Registry.Add of the bindings never answers
\* ErrBindingExists to Bind, which never has to take the player out again.
THEOREM LiveBindsFreely ==
    Spec => [](\A c \in Conns :
                 At(c, "binding") => byPlayer[player[c]] = None /\ byConnection[c] = None)
<1>1. ASSUME IInv, NEW c \in Conns, At(c, "binding")
      PROVE  byPlayer[player[c]] = None /\ byConnection[c] = None
  <2>1. player[c] \in Players /\ live[player[c]] = c
    BY <1>1 DEF IInv, Registries, Locals, Local, Ready, At, TypeOK
  <2>2. pc[c] \notin BoundPlaces
    BY <1>1 DEF At, BoundPlaces
  <2>3. \A p \in Players : byPlayer[p] # c
    BY <1>1, <2>2 DEF IInv, Registries
  <2>4. byConnection[c] = None
    BY <1>1, <2>3 DEF IInv, Registries, TypeOK
  <2>5. byPlayer[player[c]] = None
    BY <1>1, <2>1, <2>3 DEF IInv, Registries, TypeOK
  <2>6. QED
    BY <2>4, <2>5
<1>2. IInv => \A c \in Conns :
                At(c, "binding") => byPlayer[player[c]] = None /\ byConnection[c] = None
  BY <1>1
<1>3. QED
  BY <1>2, Inductive, PTL

\* The registries agree with each other and keep nothing of a connection that
\* is gone (Handlers.Disconnected), whoever accepts whose doorbell meanwhile and
\* whether or not the listeners of player.disconnected fail.
THEOREM RegistriesAlwaysAgree == Spec => []RegistriesAgree
<1>1. BindingsAgree /\ NothingLeft => RegistriesAgree
  BY DEF RegistriesAgree
<1>2. QED
  BY <1>1, BindingsAlwaysAgree, GoneLeavesNothing, PTL

\* The three steps that end a live player are taken by the session that made
\* the player live; every other step keeps live or adds to it.
THEOREM LiveOnlyEndedByItsSession == Spec => LiveEndedByItsSession
<1>1. ASSUME IInv, [Next]_vars, NEW p \in Players, live[p] # None, live'[p] # live[p]
      PROVE  live'[p] = None /\ pc[live[p]] \in {"binding", "releasing"} /\ pc'[live[p]] # pc[live[p]]
  <2>1. PICK c \in Conns : AddLive(c) \/ AddBinding(c) \/ ReleaseLive(c)
    BY <1>1 DEF Next, vars, sessionVars, Open, StopReading, PongTimeout, Kick, Packet,
       ReceiveTicket, ReceiveEnter, LeaveRoom, Handle, Consume, RefuseTicket, PassBanCheck,
       FailBanCheck, Authenticate, FailAddLive, Bootstrap, Announce, AnswerDoorbell, EndRinging,
       ResolveVisitor, EnterRoom, TearDown, EndSession, Unregister, Unbind, PublishDisconnected, EvictTicket, InsertBan,
       Sanction, FindBanned, DisconnectBanned
  <2>2. CASE AddLive(c)
    BY <1>1, <2>2 DEF IInv, TypeOK, AddLive, Free
  <2>3. CASE AddBinding(c)
    BY <1>1, <2>3 DEF IInv, TypeOK, Registries, AddBinding, At, Goto, Reject, Dispose
  <2>4. CASE ReleaseLive(c)
    BY <1>1, <2>4 DEF IInv, TypeOK, Registries, ReleaseLive, At, Goto
  <2>5. QED
    BY <2>1, <2>2, <2>3, <2>4
<1>2. IInv /\ [Next]_vars =>
        [\A p \in Players : live[p] # None /\ live'[p] # live[p] =>
            /\ live'[p] = None
            /\ pc[live[p]] \in {"binding", "releasing"}
            /\ pc'[live[p]] # pc[live[p]]]_vars
  BY <1>1
<1>3. QED
  BY <1>2, Inductive, PTL DEF Spec, LiveEndedByItsSession

-----------------------------------------------------------------------------
(* Login implements SignIn.                                                *)

\* The connections whose login is over, one way or the other.
Over(c) == Ready(c) /\ pc[c] \notin InLogin

\* Which tickets are fresh.
LEMMA FreshTickets ==
    ASSUME TypeOK, NEW t
    PROVE  t \in fresh <=> t \in Tickets /\ \A c \in Conns : Over(c) => ticket[c] # t
  BY DEF fresh, Over, Ready

\* The same in the next state.
LEMMA FreshTicketsNext ==
    ASSUME TypeOK', NEW t
    PROVE  t \in fresh' <=> t \in Tickets /\ \A c \in Conns : Over(c)' => ticket'[c] # t
  BY DEF fresh, Over, Ready

\* A step that binds nobody and ends no login is invisible.
LEMMA Invisible ==
    ASSUME TypeOK, TypeOK', byPlayer' = byPlayer,
           \A c \in Conns : Over(c)' <=> Over(c),
           \A c \in Conns : Over(c) \/ (\E p \in Players : byPlayer[p] = c)
                                => ticket'[c] = ticket[c]
    PROVE  UNCHANGED <<online, fresh>>
<1>1. online' = online
  BY DEF online, TypeOK
<1>2. \A t : t \in fresh' <=> t \in fresh
  BY FreshTickets, FreshTicketsNext
<1>3. QED
  BY <1>1, <1>2

\* A step that ends one login uses up its ticket and no other.
LEMMA TicketUsed ==
    ASSUME TypeOK, TypeOK', TicketsTaken, NEW c \in Conns, Ready(c), ~Over(c), Over(c)',
           ticket' = ticket, \A d \in Conns \ {c} : Over(d)' <=> Over(d)
    PROVE  /\ ticket[c] \in fresh
           /\ fresh' = fresh \ {ticket[c]}
<1>1. ticket[c] \in Tickets
  BY DEF TypeOK, TicketsTaken
<1>2. \A d \in Conns : Over(d) => ticket[d] # ticket[c]
  BY DEF TicketsTaken, TicketOpensOnce, Over, Ready
<1>3. \A t : t \in fresh' <=> t \in fresh /\ t # ticket[c]
  BY <1>2, FreshTickets, FreshTicketsNext
<1>4. QED
  BY <1>1, <1>2, <1>3, FreshTickets

\* A login that fails after its ticket was taken wastes that ticket.
LEMMA WastedTicket ==
    ASSUME TypeOK, TypeOK', TicketsTaken, NEW c \in Conns, Ready(c), pc[c] \in InLogin,
           Goto(c, "ending"), UNCHANGED <<player, ticket, byPlayer>>
    PROVE  Abstract!Waste(ticket[c])
<1>1. Over(c)' /\ ~Over(c) /\ \A d \in Conns \ {c} : Over(d)' <=> Over(d)
  BY DEF TypeOK, Over, Ready, Goto, InLogin
<1>2. online' = online
  BY DEF online
<1>3. QED
  BY <1>1, <1>2, TicketUsed DEF Abstract!Waste

\* AddBinding signs in the owner of the ticket.
LEMMA BindingEnters ==
    ASSUME IInv, IInv', NEW c \in Conns, AddBinding(c)
    PROVE  \E t \in Tickets : Abstract!Enter(t) \/ Abstract!Waste(t)
<1> DEFINE p == player[c]
<1> USE DEF At
<1>1. Ready(c) /\ p \in Players /\ ticket[c] \in Tickets /\ pc[c] \in InLogin
  BY DEF IInv, TypeOK, AddBinding, Locals, Local, Ready, TicketsTaken, InLogin
<1>2. CASE byPlayer[p] = None /\ byConnection[c] = None
  <2>1. byPlayer' = [byPlayer EXCEPT ![p] = c] /\ Goto(c, "bootstrapping")
    BY <1>2 DEF AddBinding
  <2>2. UNCHANGED <<player, ticket>>
    BY DEF AddBinding
  <2>3. Over(c)' /\ ~Over(c) /\ \A d \in Conns \ {c} : Over(d)' <=> Over(d)
    BY <1>1, <2>1, <2>2 DEF IInv, TypeOK, Over, Ready, Goto, InLogin
  <2>4. ticket[c] \in fresh /\ fresh' = fresh \ {ticket[c]}
    BY <1>1, <2>2, <2>3, TicketUsed DEF IInv
  <2>5. online[p] = None /\ online' = [online EXCEPT ![p] = ticket[c]]
    BY <1>1, <1>2, <2>1, <2>2 DEF online, IInv, TypeOK
  <2>6. Owner[ticket[c]] = p
    BY <1>1 DEF IInv, TicketsTaken
  <2>7. QED
    BY <1>1, <2>4, <2>5, <2>6 DEF Abstract!Enter
<1>3. CASE ~(byPlayer[p] = None /\ byConnection[c] = None)
  <2>1. Goto(c, "ending") /\ UNCHANGED <<player, ticket, byPlayer>>
    BY <1>3 DEF AddBinding, Reject, bindingVars
  <2>2. QED
    BY <1>1, <2>1, WastedTicket DEF IInv
<1>4. QED
  BY <1>2, <1>3

\* Unbind signs the player out.
LEMMA UnbindLeaves ==
    ASSUME IInv, IInv', NEW c \in Conns, Unbind(c)
    PROVE  UNCHANGED <<online, fresh>> \/ \E p \in Players : Abstract!Leave(p)
<1>1. UNCHANGED <<ticket, player>>
  BY DEF Unbind, IInv, TypeOK, Registries
<1>2. \A d \in Conns : Over(d)' <=> Over(d)
  BY <1>1 DEF Unbind, IInv, TypeOK, Over, Ready, At, Goto, InLogin
<1>3. fresh' = fresh
  <2>1. \A t : t \in fresh' <=> t \in fresh
    BY <1>1, <1>2, FreshTickets, FreshTicketsNext DEF IInv
  <2>2. QED
    BY <2>1
<1>4. CASE byConnection[c] = None
  <2>1. online' = online
    BY <1>1, <1>4 DEF Unbind, bindingVars, online
  <2>2. QED
    BY <1>3, <2>1
<1>5. CASE byConnection[c] # None
  <2> DEFINE p == byConnection[c]
  <2>1. p \in Players /\ byPlayer[p] = c /\ byPlayer' = [byPlayer EXCEPT ![p] = None]
    BY <1>5 DEF Unbind, WithoutPlayer, IInv, TypeOK, Registries
  <2>2. ticket[c] # None
    BY <2>1 DEF IInv, TypeOK, Registries, TicketsTaken, Ready
  <2>3. online[p] # None /\ online' = [online EXCEPT ![p] = None]
    BY <1>1, <2>1, <2>2 DEF online, IInv, TypeOK
  <2>4. QED
    BY <1>3, <2>1, <2>3 DEF Abstract!Leave
<1>6. QED
  BY <1>4, <1>5

\* A step of a connection that neither binds, unbinds nor ends a login.
LEMMA QuietStep ==
    ASSUME IInv, IInv', NEW c \in Conns, UNCHANGED byPlayer,
           \A d \in Conns \ {c} : UNCHANGED <<pc[d], player[d], ticket[d]>>,
           Over(c)' <=> Over(c),
           ticket'[c] = ticket[c] \/ (At(c, "reading") /\ state[c] = "handshaking")
    PROVE  UNCHANGED <<online, fresh>>
<1>1. \A d \in Conns : Over(d)' <=> Over(d)
  BY DEF Over, Ready
<1>2. ASSUME NEW d \in Conns, Over(d) \/ (\E p \in Players : byPlayer[p] = d)
      PROVE  ticket'[d] = ticket[d]
  BY <1>2 DEF IInv, TypeOK, Locals, Local, Registries, Over, Ready, Bound, Disposed, At
<1>3. QED
  BY <1>1, <1>2, Invisible DEF IInv

\* Every step of Login is a step of SignIn or invisible to it.
LEMMA StepImplements ==
    IInv /\ IInv' /\ [Next]_vars => [Abstract!Next]_<<online, fresh>>
<1>1. SUFFICES ASSUME IInv, IInv', [Next]_vars
               PROVE  [Abstract!Next]_<<online, fresh>>
  OBVIOUS
<1> USE <1>1 DEF At
<1>2. ASSUME NEW c \in Conns,
             \/ Open(c) \/ StopReading(c) \/ PongTimeout(c) \/ Kick(c)
             \/ Packet(c) \/ EndRinging(c)
      PROVE  UNCHANGED <<online, fresh>>
  <2>1. /\ UNCHANGED byPlayer
        /\ \A d \in Conns \ {c} : UNCHANGED <<pc[d], player[d], ticket[d]>>
        /\ Over(c)' <=> Over(c)
        /\ ticket'[c] = ticket[c] \/ (At(c, "reading") /\ state[c] = "handshaking")
    BY <1>2 DEF IInv, TypeOK, Locals, Local, Over, Ready, Bound, Disposed, Goto, InLogin,
       Open, StopReading, PongTimeout, Kick, Packet, ReceiveTicket, Transition,
       ReceiveEnter, AnswerDoorbell, EndRinging, LeaveRoom, sessionVars, bindingVars
  <2>2. QED
    BY <2>1, QuietStep
<1>3. ASSUME NEW c \in Conns, Handle(c)
      PROVE  UNCHANGED <<online, fresh>> \/ \E t \in Tickets : Abstract!Enter(t) \/ Abstract!Waste(t)
  <2>1. CASE \/ Consume(c) \/ RefuseTicket(c) \/ PassBanCheck(c) \/ AddLive(c)
             \/ Bootstrap(c) \/ Announce(c) \/ ResolveVisitor(c) \/ EnterRoom(c)
    <3>1. /\ UNCHANGED <<byPlayer, ticket>>
          /\ \A d \in Conns \ {c} : UNCHANGED <<pc[d], player[d]>>
          /\ Over(c)' <=> Over(c)
      BY <2>1 DEF IInv, TypeOK, Locals, Local, Over, Ready, Goto, InLogin, Consume,
         RefuseTicket, Reject, PassBanCheck, AddLive, Bootstrap, AfterError, Announce,
         ResolveVisitor, EnterRoom, bindingVars
    <3>2. QED
      BY <3>1, QuietStep
  <2>2. CASE Authenticate(c) /\ Goto(c, "adding")
    <3>1. /\ UNCHANGED <<byPlayer, ticket>>
          /\ \A d \in Conns \ {c} : UNCHANGED <<pc[d], player[d]>>
          /\ Over(c)' <=> Over(c)
      BY <2>2 DEF IInv, TypeOK, Over, Ready, Goto, InLogin, Authenticate, bindingVars
    <3>2. QED
      BY <3>1, QuietStep
  <2>3. CASE FailBanCheck(c) \/ FailAddLive(c) \/ (Authenticate(c) /\ Goto(c, "ending"))
    <3>1. /\ Ready(c) /\ pc[c] \in InLogin /\ Goto(c, "ending")
          /\ UNCHANGED <<player, ticket, byPlayer>>
      BY <2>3 DEF IInv, Locals, Local, InLogin, FailBanCheck, FailAddLive, Authenticate,
         Reject, bindingVars
    <3>2. ticket[c] \in Tickets /\ Abstract!Waste(ticket[c])
      BY <3>1, WastedTicket DEF IInv, TicketsTaken
    <3>3. QED
      BY <3>2
  <2>4. CASE AddBinding(c)
    BY <2>4, BindingEnters
  <2>5. QED
    BY <1>3, <2>1, <2>2, <2>3, <2>4 DEF Handle, Authenticate
<1>4. ASSUME NEW c \in Conns, TearDown(c)
      PROVE  UNCHANGED <<online, fresh>> \/ \E p \in Players : Abstract!Leave(p)
  <2>1. CASE EndSession(c) \/ Unregister(c) \/ ReleaseLive(c) \/ PublishDisconnected(c)
    <3>1. /\ UNCHANGED <<byPlayer, ticket>>
          /\ \A d \in Conns \ {c} : UNCHANGED <<pc[d], player[d]>>
          /\ Over(c)' <=> Over(c)
      BY <2>1 DEF IInv, TypeOK, Over, Ready, Goto, InLogin, EndSession, Unregister,
         ReleaseLive, PublishDisconnected, bindingVars
    <3>2. QED
      BY <3>1, QuietStep
  <2>2. CASE Unbind(c)
    BY <2>2, UnbindLeaves
  <2>3. QED
    BY <1>4, <2>1, <2>2 DEF TearDown
<1>5. CASE \/ \E t \in Tickets : EvictTicket(t)
           \/ \E p \in Players : InsertBan(p) \/ Sanction(p)
           \/ UNCHANGED vars
  <2>1. UNCHANGED <<byPlayer, ticket, player, pc>>
    BY <1>5 DEF EvictTicket, InsertBan, Sanction, FindBanned, DisconnectBanned,
       vars, sessionVars, bindingVars
  <2>2. UNCHANGED <<online, fresh>>
    BY <2>1 DEF online, fresh
  <2>3. QED
    BY <2>2
<1>6. QED
  BY <1>2, <1>3, <1>4, <1>5 DEF Next, Abstract!Next

\* Logging in and out implements SignIn: a ticket signs its own player in at
\* most once, and never while the player has a session.
THEOREM LoginImplementsSignIn == Spec => SignInSpec
<1>1. Init => Abstract!Init
  BY DEF Init, Abstract!Init, online, fresh
<1>2. IInv /\ IInv' /\ [Next]_vars => [Abstract!Next]_<<online, fresh>>
  BY StepImplements
<1>3. QED
  BY <1>1, <1>2, Inductive, PTL DEF Spec, SignInSpec, Abstract!Spec

=============================================================================
