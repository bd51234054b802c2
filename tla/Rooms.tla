------------------------------- MODULE Rooms -------------------------------
(***************************************************************************)
(* The registry of active rooms, entry, departure, closing and doorbells   *)
(* (src/internal/realm/room/runtime/live and room/access).                 *)
(*                                                                         *)
(* A process is a goroutine that moves a player: the player's own, which   *)
(* runs enter and leave packets in order, or another one.  Staff are those *)
(* that remove players: a moderator's own, a room's loop at the door, the  *)
(* teardown of an earlier session.  The goroutine of a player who accepts  *)
(* a doorbell request moves the visitor.                                   *)
(* The registry and each room have a mutex of their own: a step is what    *)
(* happens under one of them, or one access to the player's presence.      *)
(*                                                                         *)
(* A room that is closed and entered again is a new Room object with the   *)
(* same id.  Rights, mutes and furniture of a room are left out; its world *)
(* is the set of players that have a unit in it.                           *)
(***************************************************************************)
EXTENDS Naturals, FiniteSets

CONSTANTS
    Players,
    Staff,            \* bound: the goroutines that remove other players
    RoomIds,
    Closable,         \* bound: the rooms that may be closed
    Objects,          \* identities of the Room objects that may be allocated
    MaxUsers,         \* Snapshot.MaxUsers
    Bypassers,        \* players with the EnterFull permission
    SpectatorEnabled, \* Config.SpectatorEnabled
    Doorbells,        \* rooms whose door mode is doorbell
    Owner,            \* the owner of each room
    Answerers,        \* players that may answer a room's doorbell
    None              \* nil

Procs == Players \union Staff

ASSUME NoneAssumption == None \notin Players /\ None \notin Objects /\ None \notin RoomIds
ASSUME MaxUsersAssumption == MaxUsers \in Nat \ {0}
ASSUME RoomsAssumption ==
    /\ Bypassers \subseteq Players
    /\ Doorbells \subseteq RoomIds /\ Closable \subseteq RoomIds
    /\ SpectatorEnabled \in BOOLEAN
    /\ Owner \in [RoomIds -> Players]
    /\ Answerers \in [RoomIds -> SUBSET Players]
    /\ \A i \in RoomIds : Owner[i] \in Answerers[i]

VARIABLES
    rooms,      \* Registry.rooms
    byPlayer,   \* Registry.byPlayer
    presence,   \* RoomPresence.currentID of each live player
    id,         \* Room.snapshot.ID, None before the object exists
    closing,    \* objects Close has unregistered and not closed yet
    closed,     \* Room.closed
    loaded,     \* objects whose Room.world is not nil
    occupants,  \* Room.occupants
    spectators, \* those of them with Occupant.Spectator
    units,      \* players with a unit in Room.world
    waiting,    \* Room.doorbell
    pc,         \* where each process is
    who,        \* the player it moves
    goal,       \* the room id it enters
    to,         \* the object it works with to do so
    from,       \* the object it removes the player from
    then,       \* where it goes on after that
    mode,       \* how it joins: with the capacity checked, bypassed, or as a spectator
    watched,    \* history: the occupants let in to watch at some time of their stay
    overlapped  \* history: the players two goroutines have moved at the same time

registryVars == <<rooms, byPlayer>>
lifeVars == <<id, closing, closed>>
insideVars == <<occupants, spectators, units>>
roomVars == <<lifeVars, loaded, insideVars, waiting>>
localVars == <<who, goal, to, from, then, mode>>
procVars == <<pc, localVars>>
codeVars == <<registryVars, presence, roomVars, procVars>>
vars == <<codeVars, watched, overlapped>>

Init ==
    /\ rooms = [i \in RoomIds |-> None]
    /\ byPlayer = [p \in Players |-> None]
    /\ presence = [p \in Players |-> None]
    /\ id = [o \in Objects |-> None]
    /\ closing = {} /\ closed = {} /\ loaded = {}
    /\ occupants = [o \in Objects |-> {}]
    /\ spectators = [o \in Objects |-> {}]
    /\ units = [o \in Objects |-> {}]
    /\ waiting = [o \in Objects |-> {}]
    /\ pc = [w \in Procs |-> "idle"]
    /\ who = [w \in Procs |-> None]
    /\ goal = [w \in Procs |-> None]
    /\ to = [w \in Procs |-> None]
    /\ from = [w \in Procs |-> None]
    /\ then = [w \in Procs |-> "idle"]
    /\ mode = [w \in Procs |-> "checked"]
    /\ watched = [o \in Objects |-> {}]
    /\ overlapped = {}

At(w, where) == pc[w] = where
Goto(w, where) == pc' = [pc EXCEPT ![w] = where]

\* The handler returns; what it held is forgotten.
Return(w) ==
    /\ Goto(w, "idle")
    /\ who' = [who EXCEPT ![w] = None]
    /\ goal' = [goal EXCEPT ![w] = None]
    /\ to' = [to EXCEPT ![w] = None]
    /\ from' = [from EXCEPT ![w] = None]
    /\ then' = [then EXCEPT ![w] = "idle"]
    /\ mode' = [mode EXCEPT ![w] = "checked"]

Registered(o) == id[o] # None /\ rooms[id[o]] = o
CanAnswer(o) == occupants[o] \intersect Answerers[id[o]] # {}

\* A new Room: an identity nobody used, or that of a closed room no process
\* holds any more.
Fresh(o) == id[o] = None \/ (o \in closed /\ \A w \in Procs : o \notin {to[w], from[w]})

----------------------------------------------------------------------------
(* Entering: the command handler.                                          *)

\* A packet, a navigator link or a home room: the door is open, or the
\* player may answer its bell.
BeginEnter(p, i) ==
    /\ At(p, "idle")
    /\ i \in Doorbells => p \in Answerers[i]
    /\ Goto(p, "entering")
    /\ who' = [who EXCEPT ![p] = p]
    /\ goal' = [goal EXCEPT ![p] = i]
    /\ UNCHANGED <<registryVars, presence, roomVars, to, from, then, mode>>

\* join leaves the room the player is known to be in first.
CheckPresence(w) ==
    /\ At(w, "entering")
    /\ IF presence[who[w]] \in {None, goal[w]}
       THEN Goto(w, "activating") /\ UNCHANGED then
       ELSE Goto(w, "leaving") /\ then' = [then EXCEPT ![w] = "activating"]
    /\ UNCHANGED <<registryVars, presence, roomVars, who, goal, to, from, mode>>

\* Mutant: Activate does not look for the active room.
FoundNever(i) == FALSE
Found(i) == rooms[i] # None

\* Registry.Activate finds the active room or starts one.
Activate(w) ==
    LET i == goal[w] IN
    /\ At(w, "activating")
    /\ IF Found(i)
       THEN to' = [to EXCEPT ![w] = rooms[i]] /\ UNCHANGED <<rooms, id, closed, loaded>>
       ELSE \E o \in Objects :
              /\ Fresh(o)
              /\ rooms' = [rooms EXCEPT ![i] = o]
              /\ id' = [id EXCEPT ![o] = i]
              /\ closed' = closed \ {o}
              /\ loaded' = loaded \ {o}
              /\ to' = [to EXCEPT ![w] = o]
    /\ Goto(w, "activated")
    /\ UNCHANGED <<byPlayer, presence, closing, insideVars, waiting, who, goal, from, then, mode>>

\* WorldLoaded, asked without holding anything.
CheckWorld(w) ==
    /\ At(w, "activated")
    /\ Goto(w, IF to[w] \in loaded THEN "finding" ELSE "loading")
    /\ UNCHANGED <<registryVars, presence, roomVars, localVars>>

\* Mutant: a world starts with nobody in it.
Nobody(o) == {}
\* Every occupant gets a unit.
Everybody(o) == occupants[o]

\* Room.LoadWorld loads the world or replaces it.
LoadWorld(w) ==
    /\ At(w, "loading")
    /\ loaded' = loaded \union {to[w]}
    /\ units' = [units EXCEPT ![to[w]] = Everybody(to[w])]
    /\ Goto(w, "finding")
    /\ UNCHANGED <<registryVars, presence, lifeVars, occupants, spectators, waiting, localVars>>

\* Rights, mutes or furniture cannot be read.
FailLoad(w) ==
    /\ At(w, "loading")
    /\ Return(w)
    /\ UNCHANGED <<registryVars, presence, roomVars>>

----------------------------------------------------------------------------
(* Registry.JoinWithCapacity and JoinSpectator.                            *)

FindRoom(w) ==
    /\ At(w, "finding")
    /\ IF rooms[goal[w]] = None
       THEN Return(w)
       ELSE /\ to' = [to EXCEPT ![w] = rooms[goal[w]]]
            /\ Goto(w, "found")
            /\ UNCHANGED <<who, goal, from, then, mode>>
    /\ UNCHANGED <<registryVars, presence, roomVars>>

\* A player indexed elsewhere is removed from there.
CheckIndex(w) ==
    /\ At(w, "found")
    /\ IF byPlayer[who[w]] \in {None, goal[w]}
       THEN Goto(w, "joining") /\ UNCHANGED then
       ELSE Goto(w, "leaving") /\ then' = [then EXCEPT ![w] = "joining"]
    /\ UNCHANGED <<registryVars, presence, roomVars, who, goal, to, from, mode>>

Regulars(o) == occupants[o] \ spectators[o]

\* Mutant: one occupant too many.
FullBeyond(o) == Cardinality(Regulars(o)) > MaxUsers
Full(o) == Cardinality(Regulars(o)) >= MaxUsers

\* Mutant: a closed room still admits.
AdmitsClosed(o) == TRUE
Admits(o) == o \notin closed

Refused(w) == who[w] \notin occupants[to[w]] /\ Full(to[w]) /\ mode[w] = "checked"

\* Room.JoinWithCapacity.
JoinRoom(w) ==
    LET o == to[w]
        p == who[w]
        asSpectator == mode[w] = "spectator"
    IN
    /\ At(w, "joining")
    /\ Admits(o)
    /\ ~Refused(w)
    /\ occupants' = [occupants EXCEPT ![o] = @ \union {p}]
    /\ spectators' = [spectators EXCEPT ![o] = IF asSpectator THEN @ \union {p} ELSE @ \ {p}]
    /\ units' = [units EXCEPT ![o] = IF o \in loaded /\ ~asSpectator THEN @ \union {p} ELSE @]
    /\ Goto(w, "indexing")
    /\ UNCHANGED <<registryVars, presence, lifeVars, loaded, waiting, localVars>>

\* ErrRoomClosed, or ErrRoomFull for good.
FailJoin(w) ==
    /\ At(w, "joining")
    /\ \/ ~Admits(to[w])
       \/ Refused(w) /\ who[w] \notin Bypassers /\ ~SpectatorEnabled
    /\ Return(w)
    /\ UNCHANGED <<registryVars, presence, roomVars>>

\* ErrRoomFull: the handler joins again past the limit or as a spectator.
RetryJoin(w) ==
    /\ At(w, "joining")
    /\ Admits(to[w]) /\ Refused(w)
    /\ who[w] \in Bypassers \/ SpectatorEnabled
    /\ mode' = [mode EXCEPT ![w] = IF who[w] \in Bypassers THEN "bypass" ELSE "spectator"]
    /\ Goto(w, "finding")
    /\ UNCHANGED <<registryVars, presence, roomVars, who, goal, to, from, then>>

IndexPlayer(w) ==
    /\ At(w, "indexing")
    /\ byPlayer' = [byPlayer EXCEPT ![who[w]] = goal[w]]
    /\ Goto(w, "presenting")
    /\ UNCHANGED <<rooms, presence, roomVars, localVars>>

\* Player.EnterRoom.
SetPresence(w) ==
    /\ At(w, "presenting")
    /\ presence' = [presence EXCEPT ![who[w]] = goal[w]]
    /\ Return(w)
    /\ UNCHANGED <<registryVars, roomVars>>

----------------------------------------------------------------------------
(* Leaving: Registry.Leave, by itself, before entering another room, or    *)
(* inside of a join; the leave command then clears the presence.           *)

\* The player's own packet or disconnection.
BeginLeave(p) ==
    /\ At(p, "idle")
    /\ Goto(p, "leaving")
    /\ who' = [who EXCEPT ![p] = p]
    /\ UNCHANGED <<registryVars, presence, roomVars, goal, to, from, then, mode>>

\* Somebody removes the player from the room FindByPlayer returned.
BeginRemoval(s, p) ==
    /\ At(s, "idle")
    /\ byPlayer[p] # None
    /\ Goto(s, "leaving")
    /\ who' = [who EXCEPT ![s] = p]
    /\ UNCHANGED <<registryVars, presence, roomVars, goal, to, from, then, mode>>

\* Nothing was removed.
Continue(w) ==
    IF then[w] = "idle" THEN Return(w)
    ELSE /\ Goto(w, then[w])
         /\ then' = [then EXCEPT ![w] = "idle"]
         /\ from' = [from EXCEPT ![w] = None]
         /\ UNCHANGED <<who, goal, to, mode>>

FindOccupied(w) ==
    LET i == byPlayer[who[w]] IN
    /\ At(w, "leaving")
    /\ IF i # None /\ rooms[i] # None
       THEN /\ from' = [from EXCEPT ![w] = rooms[i]]
            /\ Goto(w, "removing")
            /\ UNCHANGED <<who, goal, to, then, mode>>
       ELSE Continue(w)
    /\ UNCHANGED <<registryVars, presence, roomVars>>

\* Room.Leave.
RemoveOccupant(w) ==
    LET o == from[w]
        p == who[w]
    IN
    /\ At(w, "removing")
    /\ IF p \in occupants[o]
       THEN /\ occupants' = [occupants EXCEPT ![o] = @ \ {p}]
            /\ spectators' = [spectators EXCEPT ![o] = @ \ {p}]
            /\ units' = [units EXCEPT ![o] = IF p \in spectators[o] THEN @ ELSE @ \ {p}]
            /\ Goto(w, "unindexing")
            /\ UNCHANGED localVars
       ELSE Continue(w) /\ UNCHANGED insideVars
    /\ UNCHANGED <<registryVars, presence, lifeVars, loaded, waiting>>

\* Leave forgets whatever room the player is indexed under by now.
DeleteIndex(w) ==
    /\ At(w, "unindexing")
    /\ byPlayer' = [byPlayer EXCEPT ![who[w]] = None]
    /\ Goto(w, "approving")
    /\ UNCHANGED <<rooms, presence, roomVars, localVars>>

\* OwnerPresent, read first; it decides if nobody waits.
CheckOwner(w) ==
    /\ At(w, "approving")
    /\ Goto(w, IF Owner[id[from[w]]] \in occupants[from[w]] THEN "attended" ELSE "unattended")
    /\ UNCHANGED <<registryVars, presence, roomVars, localVars>>

CheckQueue(w) ==
    /\ pc[w] \in {"attended", "unattended"}
    /\ Goto(w, IF waiting[from[w]] # {} THEN "resolving"
               ELSE IF At(w, "attended") THEN "departed" ELSE "draining")
    /\ UNCHANGED <<registryVars, presence, roomVars, localVars>>

CheckApprover(w) ==
    /\ At(w, "resolving")
    /\ Goto(w, IF CanAnswer(from[w]) THEN "departed" ELSE "draining")
    /\ UNCHANGED <<registryVars, presence, roomVars, localVars>>

DrainDoorbell(w) ==
    /\ At(w, "draining")
    /\ waiting' = [waiting EXCEPT ![from[w]] = {}]
    /\ Goto(w, "departed")
    /\ UNCHANGED <<registryVars, presence, lifeVars, loaded, insideVars, localVars>>

\* The leave command clears the presence; a join goes on without it.
FinishLeave(w) ==
    /\ At(w, "departed")
    /\ presence' = IF then[w] = "joining" THEN presence
                   ELSE [presence EXCEPT ![who[w]] = None]
    /\ Continue(w)
    /\ UNCHANGED <<registryVars, roomVars>>

----------------------------------------------------------------------------
(* Closing, by an administrator or by deletion of the room.                *)

\* Mutant: the index forgets everybody.
ForgetAll(i) == [p \in Players |-> None]
Forget(i) == [p \in Players |-> IF byPlayer[p] = i THEN None ELSE byPlayer[p]]

\* Registry.Close takes the room out of both indexes ...
Unregister(i) ==
    /\ rooms[i] # None
    /\ closing' = closing \union {rooms[i]}
    /\ rooms' = [rooms EXCEPT ![i] = None]
    /\ byPlayer' = Forget(i)
    /\ UNCHANGED <<presence, id, closed, loaded, insideVars, waiting, procVars>>

\* Mutant: the requests are left in the queue of the closed room.
KeepWaiting(o) == waiting
DropWaiting(o) == [waiting EXCEPT ![o] = {}]

\* ... and then CloseWithDoorbell stops its loop and empties it.
CloseRoom(o) ==
    /\ o \in closing
    /\ closing' = closing \ {o}
    /\ closed' = closed \union {o}
    /\ occupants' = [occupants EXCEPT ![o] = {}]
    /\ spectators' = [spectators EXCEPT ![o] = {}]
    /\ units' = [units EXCEPT ![o] = {}]
    /\ waiting' = DropWaiting(o)
    /\ UNCHANGED <<registryVars, presence, id, loaded, procVars>>

----------------------------------------------------------------------------
(* The doorbell.                                                           *)

\* requestDoorbell reads who is inside; without an approver it denies.
BeginRing(p, i) ==
    /\ At(p, "idle")
    /\ i \in Doorbells /\ p \notin Answerers[i]
    /\ rooms[i] # None /\ CanAnswer(rooms[i])
    /\ to' = [to EXCEPT ![p] = rooms[i]]
    /\ who' = [who EXCEPT ![p] = p]
    /\ Goto(p, "ringing")
    /\ UNCHANGED <<registryVars, presence, roomVars, goal, from, then, mode>>

\* Room.RequestDoorbell, with what was read before.
Ring(p) ==
    /\ At(p, "ringing")
    /\ IF to[p] \in closed
       THEN Return(p) /\ UNCHANGED waiting
       ELSE /\ waiting' = [waiting EXCEPT ![to[p]] = @ \union {p}]
            /\ Goto(p, "notifying")
            /\ UNCHANGED localVars
    /\ UNCHANGED <<registryVars, presence, lifeVars, loaded, insideVars>>

\* An approver is told, or the request is withdrawn since none could be.
NotifyApprovers(p) ==
    /\ At(p, "notifying")
    /\ \/ UNCHANGED waiting
       \/ waiting' = [waiting EXCEPT ![to[p]] = @ \ {p}]
    /\ Return(p)
    /\ UNCHANGED <<registryVars, presence, lifeVars, loaded, insideVars>>

\* respond resolves the request in the responder's current room; to accept
\* is to run the enter command for the visitor.
Respond(a, v) ==
    LET i == presence[a] IN
    /\ At(a, "idle")
    /\ i # None /\ a \in Answerers[i] /\ rooms[i] # None
    /\ v \in waiting[rooms[i]]
    /\ waiting' = [waiting EXCEPT ![rooms[i]] = @ \ {v}]
    /\ \/ UNCHANGED <<pc, who, goal>>
       \/ /\ Goto(a, "entering")
          /\ who' = [who EXCEPT ![a] = v]
          /\ goal' = [goal EXCEPT ![a] = i]
    /\ UNCHANGED <<registryVars, presence, lifeVars, loaded, insideVars, to, from, then, mode>>

\* SweepDoorbell, by the loop of a room that is not closed.
SweepDoorbell(o, v) ==
    /\ o \notin closed
    /\ v \in waiting[o]
    /\ waiting' = [waiting EXCEPT ![o] = @ \ {v}]
    /\ UNCHANGED <<registryVars, presence, lifeVars, loaded, insideVars, procVars>>

----------------------------------------------------------------------------
Enter(w) ==
    \/ CheckPresence(w) \/ Activate(w) \/ CheckWorld(w) \/ LoadWorld(w) \/ FailLoad(w)
    \/ FindRoom(w) \/ CheckIndex(w) \/ JoinRoom(w) \/ FailJoin(w) \/ RetryJoin(w)
    \/ IndexPlayer(w) \/ SetPresence(w)

Leave(w) ==
    \/ FindOccupied(w) \/ RemoveOccupant(w) \/ DeleteIndex(w)
    \/ CheckOwner(w) \/ CheckQueue(w) \/ CheckApprover(w) \/ DrainDoorbell(w) \/ FinishLeave(w)

\* The rest of a handler that has begun.
Proceed(w) == Enter(w) \/ Leave(w) \/ Ring(w) \/ NotifyApprovers(w)

Packet(p) ==
    \/ \E i \in RoomIds : BeginEnter(p, i) \/ BeginRing(p, i)
    \/ BeginLeave(p)
    \/ \E v \in Players : Respond(p, v)

Step ==
    \/ \E w \in Procs : Proceed(w)
    \/ \E p \in Players : Packet(p)
    \/ \E s \in Staff, p \in Players : BeginRemoval(s, p)
    \/ \E i \in Closable : Unregister(i)
    \/ \E o \in Objects : CloseRoom(o) \/ \E v \in Players : SweepDoorbell(o, v)

\* The process is entering the player into a room or taking them out of one.
Moves(w, p) == who[w] = p /\ pc[w] \notin {"ringing", "notifying"}

\* What the histories keep of a step.
Record ==
    /\ watched' = [o \in Objects |-> occupants'[o] \intersect (watched[o] \union spectators'[o])]
    /\ overlapped' = overlapped \union
           {p \in Players : \E v, w \in Procs : v # w /\ Moves(v, p)' /\ Moves(w, p)'}

Next == Step /\ Record

Spec == Init /\ [][Next]_vars

\* Goroutines that can run do, and the loop of an open room keeps ticking.
Fairness ==
    /\ \A w \in Procs : WF_codeVars(Proceed(w))
    /\ \A o \in Objects :
         /\ WF_codeVars(CloseRoom(o))
         /\ \A v \in Players : WF_codeVars(SweepDoorbell(o, v))

FairSpec == Spec /\ Fairness

----------------------------------------------------------------------------
(* Properties.                                                             *)

\* Nobody is inside a closed room, has a unit in it or waits at its door,
\* though handlers that found the room before go on to join it, load its
\* world, leave it or ring at it.
ClosedRoomsAreEmpty ==
    \A o \in closed : occupants[o] = {} /\ units[o] = {} /\ waiting[o] = {}

\* Every room object whose loop runs is the registered one of its id, or a
\* Close is about to stop it: no goroutine and no occupant is left behind in
\* an object nothing refers to.
LoopsAreReachable ==
    \A o \in Objects : id[o] # None /\ o \notin closed => Registered(o) \/ o \in closing

\* Whoever is inside a loaded room other than as a spectator has a unit in
\* it, in whatever order the room is joined and its world loaded, twice even.
RegularsHaveUnits ==
    \A o \in loaded : Regulars(o) \subseteq units[o]

\* Snapshot.MaxUsers bounds those who came in without the permission to enter a
\* full room and have not been let in to watch since, however many join at once
\* and whoever watches meanwhile: the code asks nothing of a watcher who joins
\* again, so only those can take places past the limit.
CapacityRespected ==
    \A o \in Objects : Cardinality(occupants[o] \ (Bypassers \union watched[o])) <= MaxUsers

\* A player whom no two goroutines ever moved at the same time occupies one active
\* room at most, and FindByPlayer returns it, whichever goroutines moved them one
\* after the other: an occupant of an active room is indexed under its id, except
\* while the join that brought them in has the index still to write.
OccupantsAreFound ==
    \A o \in Objects : Registered(o) =>
        \A p \in occupants[o] \ overlapped :
            /\ byPlayer[p] = id[o] \/ \E w \in Procs : who[w] = p /\ At(w, "indexing")
            /\ \A q \in Objects \ {o} : Registered(q) => p \notin occupants[q]

\* A doorbell request is answered, expires or is drained: nobody waits
\* forever, not even at a room that closes or empties.
RequestsEnd ==
    \A o \in Objects, v \in Players : v \in waiting[o] ~> v \notin waiting[o]

============================================================================
