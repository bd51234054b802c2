------------------------------- MODULE Login -------------------------------
(***************************************************************************)
(* From a one-time ticket to a bound session and back                      *)
(* (src/networking/connection, src/pkg/http/websocket,                     *)
(* src/internal/realm/connection, src/internal/auth/sso).                  *)
(*                                                                         *)
(* One goroutine serves a connection: Adapter.Handle reads packets, runs   *)
(* each handler to its end, and when reading fails disconnects the         *)
(* session, takes it out of the connection registry and calls              *)
(* Handlers.Disconnected.  pc[c] says where that goroutine is.  What it    *)
(* does between two steps on shared state (a registry under its mutex, a   *)
(* Redis or SQL statement, the session's mutex) is one step.  The          *)
(* heartbeat, staff and sanctions dispose of a session from other          *)
(* goroutines at any moment.                                               *)
(*                                                                         *)
(* The handshake without Diffie is folded into the state "handshaking",    *)
(* and the session's closing and closed states into "closed": nothing in   *)
(* the code tells the two apart.  A room is the single place where a       *)
(* player can have a unit.                                                 *)
(***************************************************************************)
EXTENDS Naturals, FiniteSets

CONSTANTS
    Conns,    \* connection ids: a uuid each, never used twice
    Players,  \* player records
    Tickets,  \* SSO tickets that have been created
    Owner,    \* the player of each ticket
    Sanctioned, \* bound: the players that may be banned
    Ringers,    \* bound: the players that find a doorbell to ring
    None      \* nil

ASSUME NoneAssumption == None \notin Conns /\ None \notin Players /\ None \notin Tickets
ASSUME OwnerAssumption == Owner \in [Tickets -> Players]
ASSUME BoundAssumption == Sanctioned \subseteq Players /\ Ringers \subseteq Players

VARIABLES
    pc,           \* where each connection's goroutine is
    state,        \* Session.state; "closed" exactly when Session.disconnected
    ticket,       \* the ticket a connection presented
    player,       \* the PlayerID its goroutine works with, None before one is known
    stored,       \* the tickets whose record is in Redis
    live,         \* live.Registry: the connection of each online player's peer
    byPlayer,     \* binding.Registry.byPlayer
    byConnection, \* binding.Registry.byConnection
    registered,   \* netconn.Registry
    unit,         \* the connection a player's unit in the room was made for
    ringing,      \* the connections whose doorbell request waits at a room
    visitor,      \* the connection whose player a goroutine takes into a room
    banned,       \* the players with an active ban record
    ban           \* where the goroutine that bans a player is

sessionVars == <<pc, state, ticket, player>>
bindingVars == <<byPlayer, byConnection>>
doorVars == <<ringing, visitor>>
roomVars == <<unit, doorVars>>
banVars == <<banned, ban>>
vars == <<sessionVars, stored, live, bindingVars, registered, roomVars, banVars>>

Init ==
    /\ pc = [c \in Conns |-> "new"]
    /\ state = [c \in Conns |-> "handshaking"]
    /\ ticket = [c \in Conns |-> None]
    /\ player = [c \in Conns |-> None]
    /\ stored = Tickets
    /\ live = [p \in Players |-> None]
    /\ byPlayer = [p \in Players |-> None]
    /\ byConnection = [c \in Conns |-> None]
    /\ registered = {}
    /\ unit = [p \in Players |-> None]
    /\ ringing = {}
    /\ visitor = [c \in Conns |-> None]
    /\ banned = {}
    /\ ban = [p \in Players |-> None]

----------------------------------------------------------------------------
(* The session's own lifecycle.                                            *)

At(c, where) == pc[c] = where
Goto(c, where) == pc' = [pc EXCEPT ![c] = where]
Disposed(c) == state[c] = "closed"

\* Session.Disconnect: disposes once, a second call changes nothing.
Dispose(c) == state' = [state EXCEPT ![c] = "closed"]

\* Session.Transition refuses every event of a disposed session.
Transition(c, from, to) ==
    /\ state[c] = from
    /\ state' = [state EXCEPT ![c] = to]

\* The socket is accepted and its session registered.
Open(c) ==
    /\ At(c, "new")
    /\ registered' = registered \union {c}
    /\ Goto(c, "reading")
    /\ UNCHANGED <<state, ticket, player, stored, live, bindingVars, roomVars, banVars>>

\* Reading ends: the socket fails or is closed, a frame or a packet is
\* refused, or the session has been disposed of.
StopReading(c) ==
    /\ At(c, "reading")
    /\ Goto(c, "ending")
    /\ UNCHANGED <<state, ticket, player, stored, live, bindingVars, registered, roomVars, banVars>>

\* The heartbeat finds no recent pong.
PongTimeout(c) ==
    /\ pc[c] \notin {"new", "gone"}
    /\ ~Disposed(c)
    /\ Dispose(c)
    /\ UNCHANGED <<pc, ticket, player, stored, live, bindingVars, registered, roomVars, banVars>>

\* Registry.Disconnect, from an admin route or a plugin.
Kick(c) ==
    /\ c \in registered
    /\ registered' = registered \ {c}
    /\ Dispose(c)
    /\ UNCHANGED <<pc, ticket, player, stored, live, bindingVars, roomVars, banVars>>

----------------------------------------------------------------------------
(* The ticket handler.                                                     *)

\* Receive dispatches the ticket packet, whose policy is the state
\* handshaking, and authenticate starts the authentication.
ReceiveTicket(c, t) ==
    /\ At(c, "reading")
    /\ Transition(c, "handshaking", "authenticating")
    /\ ticket' = [ticket EXCEPT ![c] = t]
    /\ Goto(c, "resolving")
    /\ UNCHANGED <<player, stored, live, bindingVars, registered, roomVars, banVars>>

\* authenticate answers an error of Resolve or Bind: it disconnects, and the
\* read loop finds the socket closed.
Reject(c) ==
    /\ Dispose(c)
    /\ Goto(c, "ending")

\* Redis.Take reads a record and deletes it.
Keeps(t) == stored
Takes(t) == stored \ {t}

\* Service.Consume takes a ticket that Redis still has.
Consume(c) ==
    /\ At(c, "resolving")
    /\ ticket[c] \in stored
    /\ stored' = Takes(ticket[c])
    /\ player' = [player EXCEPT ![c] = Owner[ticket[c]]]
    /\ Goto(c, "checking")
    /\ UNCHANGED <<state, ticket, live, bindingVars, registered, roomVars, banVars>>

\* The ticket is unknown, or Redis fails, or the ticket is taken and then
\* found to be bound to another address.
RefuseTicket(c) ==
    /\ At(c, "resolving")
    /\ stored' \in {stored, Takes(ticket[c])}
    /\ Reject(c)
    /\ UNCHANGED <<ticket, player, live, bindingVars, registered, roomVars, banVars>>

\* Resolve loads the record and CheckBan finds no ban.
PassBanCheck(c) ==
    /\ At(c, "checking")
    /\ player[c] \notin banned
    /\ Goto(c, "authenticating")
    /\ UNCHANGED <<state, ticket, player, stored, live, bindingVars, registered, roomVars, banVars>>

\* The player is banned, or a query failed.
FailBanCheck(c) ==
    /\ At(c, "checking")
    /\ Reject(c)
    /\ UNCHANGED <<ticket, player, stored, live, bindingVars, registered, roomVars, banVars>>

\* Session.Authenticate.
Authenticate(c) ==
    /\ At(c, "authenticating")
    /\ \/ /\ Transition(c, "authenticating", "authenticated")
          /\ Goto(c, "adding")
       \/ /\ Disposed(c)
          /\ Goto(c, "ending")
          /\ UNCHANGED state
    /\ UNCHANGED <<ticket, player, stored, live, bindingVars, registered, roomVars, banVars>>

\* Add refuses a player who is live, through an ended session too.
FreeOrEnded(p) == live[p] \notin {c \in Conns : ~Disposed(c)}
Free(p) == live[p] = None

\* Bind adds the player to the live registry.
AddLive(c) ==
    /\ At(c, "adding")
    /\ Free(player[c])
    /\ live' = [live EXCEPT ![player[c]] = c]
    /\ Goto(c, "binding")
    /\ UNCHANGED <<state, ticket, player, stored, bindingVars, registered, roomVars, banVars>>

\* The player is live through another session, or their settings or respect
\* counters could not be loaded.
FailAddLive(c) ==
    /\ At(c, "adding")
    /\ Reject(c)
    /\ UNCHANGED <<ticket, player, stored, live, bindingVars, registered, roomVars, banVars>>

\* Bind adds the binding, or takes the live player back when one of its two
\* keys is in use.
AddBinding(c) ==
    /\ At(c, "binding")
    /\ LET p == player[c] IN
       IF byPlayer[p] = None /\ byConnection[c] = None
       THEN /\ byPlayer' = [byPlayer EXCEPT ![p] = c]
            /\ byConnection' = [byConnection EXCEPT ![c] = p]
            /\ Goto(c, "bootstrapping")
            /\ UNCHANGED <<state, live>>
       ELSE /\ live' = [live EXCEPT ![p] = None]
            /\ Reject(c)
            /\ UNCHANGED bindingVars
    /\ UNCHANGED <<ticket, player, stored, registered, roomVars, banVars>>

\* dispatch ends the read loop when a handler returns an error.
ReadOn(c) == "reading"
AfterError(c) == "ending"

\* sendBootstrap: every packet is queued and the session becomes ready, or
\* one of those fails and the read loop ends with the handler's error.
Bootstrap(c) ==
    /\ At(c, "bootstrapping")
    /\ \/ /\ ~Free(player[c])
          /\ Transition(c, "authenticated", "connected")
          /\ Goto(c, "announcing")
       \/ /\ Goto(c, AfterError(c))
          /\ UNCHANGED state
    /\ UNCHANGED <<ticket, player, stored, live, bindingVars, registered, roomVars, banVars>>

\* Connected publishes player.connected and the handler returns.
Announce(c) ==
    /\ At(c, "announcing")
    /\ Goto(c, "reading")
    /\ UNCHANGED <<state, ticket, player, stored, live, bindingVars, registered, roomVars, banVars>>

----------------------------------------------------------------------------
(* The room, as far as the session reaches it.                             *)

\* A packet that enters a room is dispatched to a connected session.
ReceiveEnter(c) ==
    /\ At(c, "reading")
    /\ state[c] = "connected"
    /\ visitor' = [visitor EXCEPT ![c] = c]
    /\ Goto(c, "entering")
    /\ UNCHANGED <<state, ticket, player, stored, live, bindingVars, registered, unit, ringing, banVars>>

\* So is one that accepts a doorbell request: its handler takes the request out
\* and enters with the connection that rang, whatever has become of that.
AnswerDoorbell(c, v) ==
    /\ At(c, "reading")
    /\ state[c] = "connected"
    /\ v \in ringing
    /\ ringing' = ringing \ {v}
    /\ visitor' = [visitor EXCEPT ![c] = v]
    /\ Goto(c, "entering")
    /\ UNCHANGED <<state, ticket, player, stored, live, bindingVars, registered, unit, banVars>>

\* It is refused, swept away or dropped with the room.
EndRinging(v) ==
    /\ v \in ringing
    /\ ringing' = ringing \ {v}
    /\ UNCHANGED <<sessionVars, stored, live, bindingVars, registered, unit, visitor, banVars>>

\* The enter command resolves the visitor's player through the binding, and
\* then asks the database about the room for some time.
ResolveVisitor(c) ==
    /\ At(c, "entering")
    /\ LET p == byConnection[visitor[c]] IN
       IF p # None /\ ~Free(p)
       THEN Goto(c, "joining") /\ UNCHANGED visitor
       ELSE Goto(c, AfterError(c)) /\ visitor' = [visitor EXCEPT ![c] = None]
    /\ UNCHANGED <<state, ticket, player, stored, live, bindingVars, registered, unit, ringing, banVars>>

\* It joins the room with the player and the connection it resolved, is
\* refused, or rings at the door on its own behalf; what it sends after that
\* may fail.
EnterRoom(c) ==
    /\ At(c, "joining")
    /\ LET v == visitor[c] IN
       \/ UNCHANGED <<unit, ringing>>
       \/ unit' = [unit EXCEPT ![player[v]] = v] /\ UNCHANGED ringing
       \/ v = c /\ player[c] \in Ringers /\ ringing' = ringing \union {c} /\ UNCHANGED unit
    /\ visitor' = [visitor EXCEPT ![c] = None]
    /\ \E where \in {"reading", AfterError(c)} : Goto(c, where)
    /\ UNCHANGED <<state, ticket, player, stored, live, bindingVars, registered, banVars>>

\* leave.Handler for a packet of the player.
LeaveRoom(c) ==
    /\ At(c, "reading")
    /\ state[c] = "connected"
    /\ LET p == byConnection[c] IN
       /\ p # None /\ unit[p] # None
       /\ unit' = [unit EXCEPT ![p] = None]
    /\ UNCHANGED <<sessionVars, stored, live, bindingVars, registered, doorVars, banVars>>

----------------------------------------------------------------------------
(* The end of Adapter.Handle.                                              *)

\* run disconnects the session, unless somebody else already did.
EndSession(c) ==
    /\ At(c, "ending")
    /\ Dispose(c)
    /\ Goto(c, "unregistering")
    /\ UNCHANGED <<ticket, player, stored, live, bindingVars, registered, roomVars, banVars>>

Unregister(c) ==
    /\ At(c, "unregistering")
    /\ registered' = registered \ {c}
    /\ Goto(c, "unbinding")
    /\ UNCHANGED <<state, ticket, player, stored, live, bindingVars, roomVars, banVars>>

KeepsPlayer(p) == byPlayer
WithoutPlayer(p) == [byPlayer EXCEPT ![p] = None]

\* Disconnected takes the binding by its connection; without one it is done.
Unbind(c) ==
    /\ At(c, "unbinding")
    /\ LET p == byConnection[c] IN
       IF p = None
       THEN /\ Goto(c, "gone")
            /\ UNCHANGED <<player, bindingVars>>
       ELSE /\ byConnection' = [byConnection EXCEPT ![c] = None]
            /\ byPlayer' = WithoutPlayer(p)
            /\ player' = [player EXCEPT ![c] = p]
            /\ Goto(c, "releasing")
    /\ UNCHANGED <<state, ticket, stored, live, registered, roomVars, banVars>>

\* players.Remove of the binding's player, whoever is live under that id.
ReleaseLive(c) ==
    /\ At(c, "releasing")
    /\ live' = [live EXCEPT ![player[c]] = None]
    /\ Goto(c, "publishing")
    /\ UNCHANGED <<state, ticket, player, stored, bindingVars, registered, roomVars, banVars>>

\* player.disconnected names the player; RegisterRuntimeCleanup removes the
\* unit that player has, unless a listener before it fails: Publish stops at
\* the first error, and Disconnected drops that.
PublishDisconnected(c) ==
    /\ At(c, "publishing")
    /\ unit' \in {unit, [unit EXCEPT ![player[c]] = None]}
    /\ Goto(c, "gone")
    /\ UNCHANGED <<state, ticket, player, stored, live, bindingVars, registered, doorVars, banVars>>

----------------------------------------------------------------------------
(* Tickets age and players are banned.                                     *)

\* The TTL passes on Redis's clock.
EvictTicket(t) ==
    /\ t \in stored
    /\ stored' = Takes(t)
    /\ UNCHANGED <<sessionVars, live, bindingVars, registered, roomVars, banVars>>

\* Service.Apply inserts the ban.
InsertBan(p) ==
    /\ p \in Sanctioned
    /\ ban[p] = None
    /\ banned' = banned \union {p}
    /\ ban' = [ban EXCEPT ![p] = "inserted"]
    /\ UNCHANGED <<sessionVars, stored, live, bindingVars, registered, roomVars>>

\* SessionDisconnect.Apply looks for the player among the live ones.
FindBanned(p) ==
    /\ ban[p] = "inserted"
    /\ ban' = [ban EXCEPT ![p] = IF Free(p) THEN "done" ELSE live[p]]
    /\ UNCHANGED <<sessionVars, stored, live, bindingVars, registered, roomVars, banned>>

\* Registry.Disconnect takes a session out and disposes of it.
TakesOut(c) == state
Disconnects(c) == IF c \in registered THEN [state EXCEPT ![c] = "closed"] ELSE state

\* It disconnects the peer it found, if that is still registered.
DisconnectBanned(p) ==
    /\ ban[p] \in Conns
    /\ LET c == ban[p] IN
       /\ state' = Disconnects(c)
       /\ registered' = registered \ {c}
    /\ ban' = [ban EXCEPT ![p] = "done"]
    /\ UNCHANGED <<pc, ticket, player, stored, live, bindingVars, roomVars, banned>>

----------------------------------------------------------------------------
(* What a connection's goroutine does once it is asked to; the packets and *)
(* failures that come from outside.                                        *)

Handle(c) ==
    \/ Consume(c) \/ RefuseTicket(c) \/ PassBanCheck(c) \/ FailBanCheck(c)
    \/ Authenticate(c) \/ AddLive(c) \/ FailAddLive(c) \/ AddBinding(c)
    \/ Bootstrap(c) \/ Announce(c) \/ ResolveVisitor(c) \/ EnterRoom(c)

\* run to its end, and all that Adapter.Handle does after it.
CloseSocket(c) == EndSession(c) \/ Unregister(c)
TearDown(c) ==
    EndSession(c) \/ Unregister(c) \/ Unbind(c) \/ ReleaseLive(c) \/ PublishDisconnected(c)

Packet(c) ==
    \/ \E t \in Tickets : ReceiveTicket(c, t)
    \/ ReceiveEnter(c) \/ LeaveRoom(c)
    \/ \E v \in Conns \ {c} : AnswerDoorbell(c, v)

Sanction(p) == FindBanned(p) \/ DisconnectBanned(p)

Next ==
    \/ \E c \in Conns :
         \/ Open(c) \/ StopReading(c) \/ PongTimeout(c) \/ Kick(c)
         \/ Packet(c) \/ Handle(c) \/ TearDown(c) \/ EndRinging(c)
    \/ \E t \in Tickets : EvictTicket(t)
    \/ \E p \in Players : InsertBan(p) \/ Sanction(p)

Spec == Init /\ [][Next]_vars

\* A goroutine that can run does; the read of a disposed session fails, for
\* its socket has been closed.  Clients, staff and clocks owe nothing.
Fairness ==
    /\ \A c \in Conns :
         /\ WF_vars(Handle(c))
         /\ WF_vars(TearDown(c))
         /\ WF_vars(Disposed(c) /\ StopReading(c))
    /\ \A p \in Players : WF_vars(Sanction(p))

FairSpec == Spec /\ Fairness

----------------------------------------------------------------------------
(* Properties.                                                             *)

Places == {"new", "reading", "resolving", "checking", "authenticating", "adding",
           "binding", "bootstrapping", "announcing", "entering", "joining", "ending",
           "unregistering", "unbinding", "releasing", "publishing", "gone"}

States == {"handshaking", "authenticating", "authenticated", "connected", "closed"}

\* Every variable has the type its field has in the code.
TypeOK ==
    /\ pc \in [Conns -> Places]
    /\ state \in [Conns -> States]
    /\ ticket \in [Conns -> Tickets \union {None}]
    /\ player \in [Conns -> Players \union {None}]
    /\ stored \subseteq Tickets
    /\ live \in [Players -> Conns \union {None}]
    /\ byPlayer \in [Players -> Conns \union {None}]
    /\ byConnection \in [Conns -> Players \union {None}]
    /\ registered \subseteq Conns
    /\ unit \in [Players -> Conns \union {None}]
    /\ ringing \subseteq Conns
    /\ visitor \in [Conns -> Conns \union {None}]
    /\ banned \subseteq Players
    /\ ban \in [Players -> Conns \union {None, "inserted", "done"}]

\* The two maps of binding.Registry are each other's inverse, and a bound
\* player is live through the connection it is bound to: a packet resolved
\* through the binding reaches the player of the connection that sent it.
BindingsAgree ==
    \A p \in Players, c \in Conns :
        /\ byPlayer[p] = c <=> byConnection[c] = p
        /\ byPlayer[p] = c => live[p] = c

\* Two connections that present the same ticket do not both get past
\* Consume: Redis hands its record out once.
TicketOpensOnce ==
    \A c, d \in Conns :
        c # d /\ player[c] # None /\ player[d] # None => ticket[c] # ticket[d]

\* A connection that waits for its next packet is either unknown or fully
\* logged in: what a handler that failed half way did is never left to serve
\* packets.  An open session in the handshake owns nothing, a connected one
\* is bound and live.
NoHalfLogin ==
    \A c \in Conns : At(c, "reading") =>
        \/ /\ state[c] = "handshaking"
           /\ byConnection[c] = None
           /\ \A p \in Players : live[p] # c
        \/ /\ state[c] = "connected"
           /\ byConnection[c] # None
           /\ byConnection[c] = player[c]
        \/ Disposed(c)

\* When Adapter.Handle has returned nothing refers to its connection any
\* more: it is in no registry, and no player is live or bound through it.
NothingLeft ==
    \A c \in Conns : At(c, "gone") =>
        /\ c \notin registered
        /\ byConnection[c] = None
        /\ \A p \in Players : live[p] # c /\ byPlayer[p] # c

\* However logins, teardowns, disposals and accepted doorbells overlap, the
\* registries agree and a connection that is gone has left nothing in them.
\* The room is not among them: a unit may stay behind, see README.md.
RegistriesAgree == BindingsAgree /\ NothingLeft

\* Nobody but the session that made a player live ends that: not a second
\* login of the player, whose Bind fails, nor the teardown of an earlier
\* session, although Disconnected removes by player id.
LiveEndedByItsSession ==
    [][\A p \in Players : live[p] # None /\ live'[p] # live[p] =>
          /\ live'[p] = None
          /\ pc[live[p]] \in {"binding", "releasing"}
          /\ pc'[live[p]] # pc[live[p]]]_vars

\* A session that has been disposed of, by whomever, is torn down to the
\* end: a handler it was in returns, and Handlers.Disconnected runs.
SessionsEnd == \A c \in Conns : Disposed(c) ~> At(c, "gone")

\* A player who is live when a ban is inserted goes offline.
BanEndsSession ==
    \A p \in Players, c \in Conns :
        (ban[p] = "inserted" /\ live[p] = c) ~> live[p] # c

\* The sessions as SignIn sees them: a player is online by the ticket of the
\* connection bound to them, and a ticket is fresh until its login has
\* either bound the player or failed.
online == [p \in Players |-> IF byPlayer[p] = None THEN None ELSE ticket[byPlayer[p]]]

InLogin == {"checking", "authenticating", "adding", "binding"}

fresh == Tickets \ {ticket[c] : c \in {d \in Conns : player[d] # None /\ pc[d] \notin InLogin}}

\* Tickets and sessions together: each ticket signs its player in at most
\* once, and a player has at most one session.
Abstract == INSTANCE SignIn
SignInSpec == Abstract!Spec

----------------------------------------------------------------------------
(* What the documents say and the code does not do.                        *)

\* room/runtime.go:143: the player.disconnected listener "removes room
\* occupancy on player disconnect".  A unit that a later session of the
\* player put in the room is not that occupancy.
DisconnectRemovesOwnUnit ==
    [][\A c \in Conns, p \in Players :
          At(c, "publishing") /\ pc'[c] = "gone" /\ unit[p] # None /\ unit'[p] = None
              => unit[p] = c]_vars

============================================================================
