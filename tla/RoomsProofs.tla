---------------------------- MODULE RoomsProofs ----------------------------
(***************************************************************************)
(* Safety of the room registry, of entry, departure and closing, for any   *)
(* sets of players, of goroutines that remove players, of rooms and of     *)
(* room objects.                                                           *)
(***************************************************************************)
EXTENDS Rooms, FiniteSetTheorems, TLAPS

InsidePcs == {"activated", "loading", "finding", "found", "joining", "indexing"}
EnterPcs == {"entering", "activating", "presenting"} \union InsidePcs
RingPcs == {"ringing", "notifying"}
RemovePcs == {"removing", "unindexing", "approving", "attended", "unattended", "resolving",
              "draining", "departed"}
LeavePcs == {"leaving"} \union RemovePcs
Places == {"idle"} \union EnterPcs \union RingPcs \union LeavePcs

\* The shape of the registry and of the room objects.
RoomTypes ==
    /\ rooms \in [RoomIds -> Objects \union {None}]
    /\ byPlayer \in [Players -> RoomIds \union {None}]
    /\ id \in [Objects -> RoomIds \union {None}]
    /\ closing \subseteq Objects /\ closed \subseteq Objects /\ loaded \subseteq Objects
    /\ occupants \in [Objects -> SUBSET Players]
    /\ spectators \in [Objects -> SUBSET Players]
    /\ units \in [Objects -> SUBSET Players]
    /\ waiting \in [Objects -> SUBSET Players]
    /\ presence \in [Players -> RoomIds \union {None}]

\* The shape of what the handlers hold.
HandlerTypes ==
    /\ pc \in [Procs -> Places]
    /\ who \in [Procs -> Players \union {None}]
    /\ goal \in [Procs -> RoomIds \union {None}]
    /\ to \in [Procs -> Objects \union {None}]
    /\ from \in [Procs -> Objects \union {None}]
    /\ then \in [Procs -> {"idle", "activating", "joining"}]
    /\ mode \in [Procs -> {"checked", "bypass", "spectator"}]

\* A handler has what the rest of it works with.
Handlers ==
    \A w \in Procs :
        /\ IF pc[w] = "idle" THEN who[w] = None ELSE who[w] \in Players
        /\ pc[w] \in EnterPcs \/ then[w] # "idle" => goal[w] \in RoomIds
        /\ pc[w] \in InsidePcs \union RingPcs \/ then[w] = "joining" => to[w] \in Objects
        /\ pc[w] \in RingPcs => w \in Players
        /\ pc[w] \in RemovePcs => from[w] \in Objects
        /\ then[w] # "idle" => pc[w] \in LeavePcs

\* Handlers hold, and players occupy, objects that exist.
InUse ==
    /\ \A w \in Procs :
         /\ to[w] # None => id[to[w]] # None
         /\ from[w] # None => id[from[w]] # None
    /\ \A o \in Objects : occupants[o] # {} => id[o] # None

\* A registered room is open under its own id and no Close has taken it, and
\* a room is stopped once.
RegisteredOpen ==
    /\ \A i \in RoomIds : rooms[i] # None =>
         id[rooms[i]] = i /\ rooms[i] \notin closed \union closing
    /\ \A o \in closing : id[o] # None /\ o \notin closed

\* Who watches is inside.
WatchersInside == \A o \in Objects : spectators[o] \subseteq occupants[o]

\* The inductive invariant.
RoomsInv ==
    /\ RoomTypes
    /\ HandlerTypes
    /\ Handlers
    /\ InUse
    /\ RegisteredOpen
    /\ WatchersInside
    /\ ClosedRoomsAreEmpty
    /\ LoopsAreReachable
    /\ RegularsHaveUnits

-----------------------------------------------------------------------------
USE NoneAssumption, RoomsAssumption

\* The initial state satisfies the invariant.
LEMMA RoomsInit == Init => RoomsInv
  BY DEF Init, RoomsInv, RoomTypes, HandlerTypes, Handlers, InUse, RegisteredOpen, Places,
         EnterPcs, InsidePcs, RingPcs, LeavePcs, RemovePcs, ClosedRoomsAreEmpty,
         WatchersInside, LoopsAreReachable, RegularsHaveUnits, Registered

\* What the parts about the objects speak of.
objectVars == <<rooms, id, closing, closed, loaded, insideVars, waiting>>

\* A handler that returns.
LEMMA ReturnOK ==
    ASSUME HandlerTypes, Handlers, NEW w \in Procs, Return(w)
    PROVE  (HandlerTypes /\ Handlers)'
  BY DEF HandlerTypes, Handlers, Return, Goto, Places, EnterPcs, InsidePcs, RingPcs, LeavePcs,
         RemovePcs

\* A handler that goes on after a removal that was not needed or is over.
LEMMA ContinueOK ==
    ASSUME HandlerTypes, Handlers, NEW w \in Procs, Continue(w)
    PROVE  (HandlerTypes /\ Handlers)'
<1>1. CASE then[w] = "idle"
  BY <1>1, ReturnOK DEF Continue
<1>2. CASE then[w] # "idle"
  <2>1. /\ pc' = [pc EXCEPT ![w] = then[w]]
        /\ then' = [then EXCEPT ![w] = "idle"]
        /\ from' = [from EXCEPT ![w] = None]
        /\ UNCHANGED <<who, goal, to, mode>>
    BY <1>2 DEF Continue, Goto
  <2>2. then[w] \in {"activating", "joining"} /\ pc[w] # "idle"
    BY <1>2 DEF HandlerTypes, Handlers, LeavePcs, RemovePcs
  <2>3. QED
    BY <2>1, <2>2 DEF HandlerTypes, Handlers, Places, EnterPcs, InsidePcs, RingPcs, LeavePcs,
       RemovePcs
<1>3. QED
  BY <1>1, <1>2

\* Every step of entering keeps what handlers hold.
LEMMA EnterHandlers ==
    ASSUME RoomTypes, HandlerTypes, Handlers, NEW w \in Procs, Enter(w)
    PROVE  (HandlerTypes /\ Handlers)'
<1> USE DEF Places, EnterPcs, InsidePcs, RingPcs, LeavePcs, RemovePcs
<1>1. CASE CheckPresence(w)
  BY <1>1 DEF CheckPresence, At, Goto, HandlerTypes, Handlers
<1>2. CASE Activate(w)
  <2>1. PICK o \in Objects : to' = [to EXCEPT ![w] = o]
    <3>1. CASE Found(goal[w])
      BY <1>2, <3>1 DEF Activate, At, Found, Handlers, RoomTypes
    <3>2. CASE ~Found(goal[w])
      BY <1>2, <3>2 DEF Activate
    <3>3. QED
      BY <3>1, <3>2
  <2>2. /\ pc[w] = "activating" /\ pc' = [pc EXCEPT ![w] = "activated"]
        /\ UNCHANGED <<who, goal, from, then, mode>>
    BY <1>2 DEF Activate, At, Goto
  <2>3. QED
    BY <2>1, <2>2 DEF HandlerTypes, Handlers
<1>3. CASE CheckWorld(w) \/ LoadWorld(w)
  BY <1>3 DEF CheckWorld, LoadWorld, At, Goto, localVars, HandlerTypes, Handlers
<1>4. CASE FailLoad(w) \/ FailJoin(w) \/ SetPresence(w)
  BY <1>4, ReturnOK DEF FailLoad, FailJoin, SetPresence
<1>5. CASE FindRoom(w)
  <2>1. CASE rooms[goal[w]] = None
    BY <1>5, <2>1, ReturnOK DEF FindRoom
  <2>2. CASE rooms[goal[w]] # None
    <3>1. /\ pc[w] = "finding" /\ pc' = [pc EXCEPT ![w] = "found"]
          /\ to' = [to EXCEPT ![w] = rooms[goal[w]]]
          /\ UNCHANGED <<who, goal, from, then, mode>>
      BY <1>5, <2>2 DEF FindRoom, At, Goto
    <3>2. rooms[goal[w]] \in Objects
      BY <2>2, <3>1 DEF RoomTypes, Handlers
    <3>3. QED
      BY <3>1, <3>2 DEF HandlerTypes, Handlers
  <2>3. QED
    BY <2>1, <2>2
<1>6. CASE CheckIndex(w)
  BY <1>6 DEF CheckIndex, At, Goto, HandlerTypes, Handlers
<1>7. CASE JoinRoom(w) \/ IndexPlayer(w)
  BY <1>7 DEF JoinRoom, IndexPlayer, At, Goto, localVars, HandlerTypes, Handlers
<1>8. CASE RetryJoin(w)
  BY <1>8 DEF RetryJoin, At, Goto, HandlerTypes, Handlers
<1>9. QED
  BY <1>1, <1>2, <1>3, <1>4, <1>5, <1>6, <1>7, <1>8 DEF Enter

\* Every step of leaving keeps what handlers hold.
LEMMA LeaveHandlers ==
    ASSUME RoomTypes, HandlerTypes, Handlers, NEW w \in Procs, Leave(w)
    PROVE  (HandlerTypes /\ Handlers)'
<1> USE DEF Places, EnterPcs, InsidePcs, RingPcs, LeavePcs, RemovePcs
<1>1. CASE FindOccupied(w)
  <2>1. CASE byPlayer[who[w]] # None /\ rooms[byPlayer[who[w]]] # None
    <3>1. rooms[byPlayer[who[w]]] \in Objects
      BY <1>1, <2>1 DEF FindOccupied, At, RoomTypes, Handlers
    <3>2. QED
      BY <1>1, <2>1, <3>1 DEF FindOccupied, At, Goto, HandlerTypes, Handlers
  <2>2. QED
    BY <1>1, <2>1, ContinueOK DEF FindOccupied
<1>2. CASE RemoveOccupant(w)
  <2>1. CASE who[w] \in occupants[from[w]]
    BY <1>2, <2>1 DEF RemoveOccupant, At, Goto, localVars, HandlerTypes, Handlers
  <2>2. QED
    BY <1>2, <2>1, ContinueOK DEF RemoveOccupant
<1>3. CASE DeleteIndex(w) \/ CheckOwner(w) \/ CheckQueue(w) \/ CheckApprover(w) \/ DrainDoorbell(w)
  BY <1>3 DEF DeleteIndex, CheckOwner, CheckQueue, CheckApprover, DrainDoorbell, At, Goto,
     localVars, HandlerTypes, Handlers
<1>4. CASE FinishLeave(w)
  BY <1>4, ContinueOK DEF FinishLeave
<1>5. QED
  BY <1>1, <1>2, <1>3, <1>4 DEF Leave

\* So does every handler that begins, and every step at the door.
LEMMA BeginHandlers ==
    ASSUME RoomTypes, HandlerTypes, Handlers, NEW w \in Procs,
           \/ \E i \in RoomIds : BeginEnter(w, i) /\ w \in Players
           \/ \E i \in RoomIds : BeginRing(w, i) /\ w \in Players
           \/ BeginLeave(w) /\ w \in Players
           \/ \E v \in Players : Respond(w, v) /\ w \in Players
           \/ \E p \in Players : BeginRemoval(w, p)
           \/ Ring(w) \/ NotifyApprovers(w)
    PROVE  (HandlerTypes /\ Handlers)'
<1> USE DEF Places, EnterPcs, InsidePcs, RingPcs, LeavePcs, RemovePcs
<1>1. ASSUME NEW i \in RoomIds, BeginEnter(w, i), w \in Players PROVE (HandlerTypes /\ Handlers)'
  BY <1>1 DEF BeginEnter, At, Goto, HandlerTypes, Handlers
<1>2. ASSUME NEW i \in RoomIds, BeginRing(w, i), w \in Players PROVE (HandlerTypes /\ Handlers)'
  BY <1>2 DEF BeginRing, At, Goto, RoomTypes, HandlerTypes, Handlers
<1>3. CASE BeginLeave(w) /\ w \in Players
  BY <1>3 DEF BeginLeave, At, Goto, HandlerTypes, Handlers
<1>4. ASSUME NEW v \in Players, Respond(w, v), w \in Players PROVE (HandlerTypes /\ Handlers)'
  <2>1. /\ pc[w] = "idle" /\ presence[w] \in RoomIds /\ UNCHANGED <<to, from, then, mode>>
        /\ \/ UNCHANGED <<pc, who, goal>>
           \/ /\ pc' = [pc EXCEPT ![w] = "entering"] /\ who' = [who EXCEPT ![w] = v]
              /\ goal' = [goal EXCEPT ![w] = presence[w]]
    BY <1>4 DEF Respond, At, Goto, RoomTypes
  <2>2. CASE UNCHANGED <<pc, who, goal>>
    BY <2>1, <2>2 DEF HandlerTypes, Handlers
  <2>3. CASE ~UNCHANGED <<pc, who, goal>>
    BY <2>1, <2>3 DEF HandlerTypes, Handlers
  <2>4. QED
    BY <2>2, <2>3
<1>5. ASSUME NEW p \in Players, BeginRemoval(w, p) PROVE (HandlerTypes /\ Handlers)'
  BY <1>5 DEF BeginRemoval, At, Goto, HandlerTypes, Handlers
<1>6. CASE Ring(w)
  <2>1. CASE to[w] \in closed
    BY <1>6, <2>1, ReturnOK DEF Ring
  <2>2. QED
    BY <1>6, <2>1 DEF Ring, At, Goto, localVars, HandlerTypes, Handlers
<1>7. CASE NotifyApprovers(w)
  BY <1>7, ReturnOK DEF NotifyApprovers
<1>8. QED
  BY <1>1, <1>2, <1>3, <1>4, <1>5, <1>6, <1>7

-----------------------------------------------------------------------------
(* The objects.                                                            *)

\* The parts of the invariant that speak of objects.
ObjectParts ==
    /\ RoomTypes /\ InUse /\ RegisteredOpen /\ WatchersInside
    /\ ClosedRoomsAreEmpty /\ LoopsAreReachable /\ RegularsHaveUnits

Existing == {o \in Objects : id[o] # None}

\* What handlers pick up exists already.
PicksUp ==
    \A w \in Procs :
        /\ to'[w] \in {None, to[w]} \union Existing
        /\ from'[w] \in {None, from[w]} \union Existing

\* A step that changes no object.
LEMMA ObjectsQuiet ==
    ASSUME ObjectParts, UNCHANGED objectVars, PicksUp,
           byPlayer' \in [Players -> RoomIds \union {None}],
           presence' \in [Players -> RoomIds \union {None}]
    PROVE  ObjectParts'
<1>1. RoomTypes'
  BY DEF ObjectParts, RoomTypes, objectVars, insideVars
<1>2. InUse'
  BY DEF ObjectParts, InUse, PicksUp, Existing, objectVars, insideVars
<1>3. (RegisteredOpen /\ ClosedRoomsAreEmpty /\ LoopsAreReachable /\ RegularsHaveUnits)'
  BY DEF ObjectParts, RegisteredOpen, ClosedRoomsAreEmpty, LoopsAreReachable, RegularsHaveUnits,
     Registered, Regulars, objectVars, insideVars
<1>4. WatchersInside'
  BY DEF ObjectParts, WatchersInside, objectVars, insideVars
<1>5. QED
  BY <1>1, <1>2, <1>3, <1>4 DEF ObjectParts

\* A step that only changes who waits at the doors, and only of open rooms or
\* to let people go.
LEMMA WaitingQuiet ==
    ASSUME ObjectParts, waiting' \in [Objects -> SUBSET Players],
           \A o \in closed : waiting'[o] \subseteq waiting[o],
           UNCHANGED <<rooms, byPlayer, presence, lifeVars, loaded, insideVars>>, PicksUp
    PROVE  ObjectParts'
<1>1. RoomTypes' /\ InUse'
  BY DEF ObjectParts, RoomTypes, InUse, PicksUp, Existing, lifeVars, insideVars
<1>2. ClosedRoomsAreEmpty'
  BY DEF ObjectParts, ClosedRoomsAreEmpty, lifeVars, insideVars
<1>3. (RegisteredOpen /\ LoopsAreReachable /\ RegularsHaveUnits)'
  BY DEF ObjectParts, RegisteredOpen, LoopsAreReachable, RegularsHaveUnits,
     Registered, Regulars, lifeVars, insideVars
<1>4. WatchersInside'
  BY DEF ObjectParts, WatchersInside, insideVars
<1>5. QED
  BY <1>1, <1>2, <1>3, <1>4 DEF ObjectParts

\* What a handler forgets and keeps.
LEMMA ReturnPicks == ASSUME HandlerTypes, NEW w \in Procs, Return(w) PROVE PicksUp
  BY DEF HandlerTypes, Return, PicksUp

\* ... and when it goes on after a removal.
LEMMA ContinuePicks == ASSUME HandlerTypes, NEW w \in Procs, Continue(w) PROVE PicksUp
  BY ReturnPicks DEF HandlerTypes, Continue, PicksUp

\* What the registry returns exists.
LEMMA FoundExists ==
    ASSUME ObjectParts, NEW i \in RoomIds, rooms[i] # None
    PROVE  rooms[i] \in Existing
  BY DEF Existing, ObjectParts, RoomTypes, RegisteredOpen

\* Registry.Activate.
LEMMA ActivateObjects ==
    ASSUME ObjectParts, HandlerTypes, Handlers, NEW w \in Procs, Activate(w)
    PROVE  ObjectParts'
<1> DEFINE i == goal[w]
<1>1. i \in RoomIds /\ UNCHANGED <<byPlayer, presence, closing, insideVars, waiting, from>>
  BY DEF Activate, At, Handlers, EnterPcs
<1>2. CASE Found(i)
  <2>1. to' = [to EXCEPT ![w] = rooms[i]] /\ UNCHANGED <<rooms, id, closed, loaded>>
    BY <1>2 DEF Activate
  <2>2. PicksUp
    BY <1>1, <1>2, <2>1, FoundExists DEF PicksUp, HandlerTypes, Found
  <2>3. QED
    BY <1>1, <2>1, <2>2, ObjectsQuiet DEF objectVars, ObjectParts, RoomTypes
<1>3. CASE ~Found(i)
  <2>1. PICK o \in Objects :
          /\ Fresh(o)
          /\ rooms' = [rooms EXCEPT ![i] = o]
          /\ id' = [id EXCEPT ![o] = i]
          /\ closed' = closed \ {o}
          /\ loaded' = loaded \ {o}
          /\ to' = [to EXCEPT ![w] = o]
    BY <1>3 DEF Activate
  <2>2. rooms[i] = None /\ i # None /\ o # None
    BY <1>1, <1>3 DEF Found
  <2>3. o \notin closing /\ \A j \in RoomIds : rooms[j] # o
    BY <2>1, <2>2 DEF Fresh, ObjectParts, RegisteredOpen
  <2>4. RoomTypes'
    BY <1>1, <2>1 DEF ObjectParts, RoomTypes, insideVars
  <2>5. InUse'
    BY <1>1, <2>1, <2>2 DEF ObjectParts, RoomTypes, InUse, HandlerTypes, insideVars
  <2>6. RegisteredOpen'
    BY <1>1, <2>1, <2>2, <2>3 DEF ObjectParts, RoomTypes, RegisteredOpen
  <2>7. ClosedRoomsAreEmpty' /\ RegularsHaveUnits'
    BY <1>1, <2>1 DEF ObjectParts, ClosedRoomsAreEmpty, RegularsHaveUnits, Regulars, insideVars
  <2>8. LoopsAreReachable'
    BY <1>1, <2>1, <2>2 DEF ObjectParts, RoomTypes, LoopsAreReachable, Registered
  <2>9. WatchersInside'
    BY <1>1 DEF ObjectParts, WatchersInside, insideVars
  <2>10. QED
    BY <2>4, <2>5, <2>6, <2>7, <2>8, <2>9 DEF ObjectParts
<1>4. QED
  BY <1>2, <1>3

\* A step that changes who is inside one object.
LEMMA InsideChange ==
    ASSUME ObjectParts, NEW o \in Objects,
           occupants' \in [Objects -> SUBSET Players],
           spectators' \in [Objects -> SUBSET Players],
           units' \in [Objects -> SUBSET Players],
           loaded' \subseteq Objects,
           UNCHANGED <<rooms, byPlayer, presence, lifeVars, waiting, to, from>>,
           id[o] # None,
           \A q \in Objects \ {o} :
             /\ occupants'[q] = occupants[q] /\ spectators'[q] = spectators[q]
             /\ units'[q] = units[q] /\ (q \in loaded' => q \in loaded),
           o \in closed => occupants'[o] = {} /\ units'[o] = {},
           spectators'[o] \subseteq occupants'[o],
           o \in loaded' => occupants'[o] \ spectators'[o] \subseteq units'[o]
    PROVE  ObjectParts'
<1>1. RoomTypes'
  BY DEF ObjectParts, RoomTypes, lifeVars
<1>2. InUse' /\ RegisteredOpen' /\ LoopsAreReachable'
  BY DEF ObjectParts, InUse, RegisteredOpen, LoopsAreReachable, Registered, lifeVars
<1>3. ClosedRoomsAreEmpty'
  BY DEF ObjectParts, ClosedRoomsAreEmpty, RoomTypes, lifeVars
<1>4. RegularsHaveUnits'
  BY DEF ObjectParts, RegularsHaveUnits, Regulars, RoomTypes
<1>5. WatchersInside'
  BY DEF ObjectParts, WatchersInside
<1>6. QED
  BY <1>1, <1>2, <1>3, <1>4, <1>5 DEF ObjectParts

\* Room.LoadWorld, for the first time or again.
LEMMA LoadObjects ==
    ASSUME ObjectParts, HandlerTypes, Handlers, NEW w \in Procs, LoadWorld(w)
    PROVE  ObjectParts'
<1>1. to[w] \in Objects /\ id[to[w]] # None
  BY DEF LoadWorld, At, Handlers, InsidePcs, ObjectParts, InUse
<1>2. /\ loaded' = loaded \union {to[w]}
      /\ units' = [units EXCEPT ![to[w]] = occupants[to[w]]]
      /\ UNCHANGED <<rooms, byPlayer, presence, lifeVars, occupants, spectators, waiting, to, from>>
  BY DEF LoadWorld, Everybody, registryVars, localVars
<1>3. /\ to[w] \in closed => occupants[to[w]] = {}
      /\ spectators[to[w]] \subseteq occupants[to[w]]
  BY <1>1 DEF ObjectParts, ClosedRoomsAreEmpty, WatchersInside
<1>4. QED
  BY <1>1, <1>2, <1>3, InsideChange DEF ObjectParts, RoomTypes

\* Room.JoinWithCapacity, which a closed room refuses.
LEMMA JoinObjects ==
    ASSUME ObjectParts, HandlerTypes, Handlers, NEW w \in Procs, JoinRoom(w)
    PROVE  ObjectParts'
<1> DEFINE o == to[w]
           p == who[w]
           spectating == mode[w] = "spectator"
<1>1. o \in Objects /\ id[o] # None /\ o \notin closed /\ p \in Players
  BY DEF JoinRoom, At, Admits, Handlers, InsidePcs, ObjectParts, InUse
<1>2. /\ occupants' = [occupants EXCEPT ![o] = @ \union {p}]
      /\ spectators' = [spectators EXCEPT ![o] = IF spectating THEN @ \union {p} ELSE @ \ {p}]
      /\ units' = [units EXCEPT ![o] = IF o \in loaded /\ ~spectating THEN @ \union {p} ELSE @]
      /\ UNCHANGED <<rooms, byPlayer, presence, lifeVars, loaded, waiting, to, from>>
  BY DEF JoinRoom, registryVars, localVars
<1>3. o \in loaded => occupants[o] \ spectators[o] \subseteq units[o]
  BY DEF ObjectParts, RegularsHaveUnits, Regulars
<1>4. o \in loaded => occupants'[o] \ spectators'[o] \subseteq units'[o]
  BY <1>1, <1>2, <1>3 DEF ObjectParts, RoomTypes
<1>5. /\ occupants' \in [Objects -> SUBSET Players]
      /\ spectators' \in [Objects -> SUBSET Players]
      /\ units' \in [Objects -> SUBSET Players]
  BY <1>1, <1>2 DEF ObjectParts, RoomTypes
<1>6. \A q \in Objects \ {o} :
        occupants'[q] = occupants[q] /\ spectators'[q] = spectators[q] /\ units'[q] = units[q]
  BY <1>2 DEF ObjectParts, RoomTypes
<1>7. spectators'[o] \subseteq occupants'[o]
  <2>1. spectators[o] \subseteq occupants[o]
    BY <1>1 DEF ObjectParts, WatchersInside
  <2>2. QED
    BY <1>1, <1>2, <2>1 DEF ObjectParts, RoomTypes
<1>8. QED
  BY <1>1, <1>2, <1>4, <1>5, <1>6, <1>7, InsideChange DEF ObjectParts, RoomTypes

\* Room.Leave.
LEMMA RemoveObjects ==
    ASSUME ObjectParts, HandlerTypes, Handlers, NEW w \in Procs, RemoveOccupant(w)
    PROVE  ObjectParts'
<1> DEFINE o == from[w]
           p == who[w]
<1>1. o \in Objects /\ id[o] # None
  BY DEF RemoveOccupant, At, Handlers, RemovePcs, ObjectParts, InUse
<1>2. UNCHANGED <<rooms, byPlayer, presence, lifeVars, loaded, waiting>>
  BY DEF RemoveOccupant, registryVars
<1>3. CASE p \in occupants[o]
  <2>1. /\ occupants' = [occupants EXCEPT ![o] = @ \ {p}]
        /\ spectators' = [spectators EXCEPT ![o] = @ \ {p}]
        /\ units' = [units EXCEPT ![o] = IF p \in spectators[o] THEN @ ELSE @ \ {p}]
        /\ UNCHANGED <<to, from>>
    BY <1>3 DEF RemoveOccupant, localVars
  <2>2. o \notin closed
    BY <1>3 DEF ObjectParts, ClosedRoomsAreEmpty
  <2>3. o \in loaded => occupants[o] \ spectators[o] \subseteq units[o]
    BY DEF ObjectParts, RegularsHaveUnits, Regulars
  <2>4. o \in loaded => occupants'[o] \ spectators'[o] \subseteq units'[o]
    BY <1>1, <2>1, <2>3 DEF ObjectParts, RoomTypes
  <2>5. /\ occupants' \in [Objects -> SUBSET Players]
        /\ spectators' \in [Objects -> SUBSET Players]
        /\ units' \in [Objects -> SUBSET Players]
    BY <1>1, <2>1 DEF ObjectParts, RoomTypes
  <2>6. \A q \in Objects \ {o} :
          occupants'[q] = occupants[q] /\ spectators'[q] = spectators[q] /\ units'[q] = units[q]
    BY <2>1 DEF ObjectParts, RoomTypes
  <2>7. spectators'[o] \subseteq occupants'[o]
    <3>1. spectators[o] \subseteq occupants[o]
      BY <1>1 DEF ObjectParts, WatchersInside
    <3>2. QED
      BY <1>1, <2>1, <3>1 DEF ObjectParts, RoomTypes
  <2>8. QED
    BY <1>1, <1>2, <2>1, <2>2, <2>4, <2>5, <2>6, <2>7, InsideChange DEF ObjectParts, RoomTypes
<1>4. CASE p \notin occupants[o]
  <2>1. Continue(w) /\ UNCHANGED insideVars
    BY <1>4 DEF RemoveOccupant
  <2>2. QED
    BY <1>2, <2>1, ContinuePicks, ObjectsQuiet DEF objectVars, lifeVars, ObjectParts, RoomTypes
<1>5. QED
  BY <1>3, <1>4

\* Registry.Close, its first half.
LEMMA UnregisterObjects ==
    ASSUME ObjectParts, NEW i \in RoomIds, Unregister(i)
    PROVE  ObjectParts'
<1>1. /\ rooms[i] \in Objects /\ closing' = closing \union {rooms[i]}
      /\ rooms' = [rooms EXCEPT ![i] = None]
      /\ byPlayer' \in [Players -> RoomIds \union {None}]
      /\ UNCHANGED <<presence, id, closed, loaded, insideVars, waiting, to, from>>
  BY DEF Unregister, Forget, procVars, localVars, ObjectParts, RoomTypes
<1>2. RoomTypes' /\ InUse'
  BY <1>1 DEF ObjectParts, RoomTypes, InUse, insideVars
<1>3. RegisteredOpen'
  BY <1>1 DEF ObjectParts, RoomTypes, RegisteredOpen
<1>4. LoopsAreReachable'
  BY <1>1 DEF ObjectParts, RoomTypes, LoopsAreReachable, Registered
<1>5. ClosedRoomsAreEmpty' /\ RegularsHaveUnits'
  BY <1>1 DEF ObjectParts, ClosedRoomsAreEmpty, RegularsHaveUnits, Regulars, insideVars
<1>6. WatchersInside'
  BY <1>1 DEF ObjectParts, WatchersInside, insideVars
<1>7. QED
  BY <1>2, <1>3, <1>4, <1>5, <1>6 DEF ObjectParts

\* ... and its second half, CloseWithDoorbell.
LEMMA CloseObjects ==
    ASSUME ObjectParts, NEW o \in Objects, CloseRoom(o)
    PROVE  ObjectParts'
<1>1. /\ o \in closing /\ closing' = closing \ {o} /\ closed' = closed \union {o}
      /\ occupants' = [occupants EXCEPT ![o] = {}]
      /\ spectators' = [spectators EXCEPT ![o] = {}]
      /\ units' = [units EXCEPT ![o] = {}]
      /\ waiting' = [waiting EXCEPT ![o] = {}]
      /\ UNCHANGED <<rooms, byPlayer, presence, id, loaded, to, from>>
  BY DEF CloseRoom, DropWaiting, registryVars, procVars, localVars
<1>2. RoomTypes'
  BY <1>1 DEF ObjectParts, RoomTypes
<1>3. InUse' /\ ClosedRoomsAreEmpty' /\ RegularsHaveUnits'
  BY <1>1 DEF ObjectParts, RoomTypes, InUse, ClosedRoomsAreEmpty, RegularsHaveUnits, Regulars
<1>4. RegisteredOpen' /\ LoopsAreReachable'
  BY <1>1 DEF ObjectParts, RoomTypes, RegisteredOpen, LoopsAreReachable, Registered
<1>5. WatchersInside'
  BY <1>1 DEF ObjectParts, RoomTypes, WatchersInside
<1>6. QED
  BY <1>2, <1>3, <1>4, <1>5 DEF ObjectParts

\* Every step of entering keeps the objects in order.
LEMMA EnterObjects ==
    ASSUME ObjectParts, HandlerTypes, Handlers, NEW w \in Procs, Enter(w)
    PROVE  ObjectParts'
<1>1. CASE Activate(w) \/ LoadWorld(w) \/ JoinRoom(w)
  BY <1>1, ActivateObjects, LoadObjects, JoinObjects
<1>2. CASE CheckPresence(w) \/ CheckWorld(w) \/ CheckIndex(w) \/ RetryJoin(w) \/ IndexPlayer(w)
  <2>1. UNCHANGED <<objectVars, presence, to, from>>
    BY <1>2 DEF CheckPresence, CheckWorld, CheckIndex, RetryJoin, IndexPlayer, objectVars,
       registryVars, roomVars, lifeVars, insideVars, localVars
  <2>2. byPlayer' \in [Players -> RoomIds \union {None}]
    BY <1>2 DEF CheckPresence, CheckWorld, CheckIndex, RetryJoin, IndexPlayer, At, registryVars,
       ObjectParts, RoomTypes, Handlers, EnterPcs, InsidePcs
  <2>3. QED
    BY <2>1, <2>2, ObjectsQuiet DEF PicksUp, ObjectParts, RoomTypes
<1>3. CASE FailLoad(w) \/ FailJoin(w) \/ SetPresence(w)
  <2>1. Return(w) /\ UNCHANGED <<objectVars, byPlayer>>
    BY <1>3 DEF FailLoad, FailJoin, SetPresence, objectVars, registryVars, roomVars, lifeVars
  <2>2. presence' \in [Players -> RoomIds \union {None}]
    BY <1>3 DEF FailLoad, FailJoin, SetPresence, At, ObjectParts, RoomTypes, Handlers, EnterPcs
  <2>3. QED
    BY <2>1, <2>2, ReturnPicks, ObjectsQuiet DEF ObjectParts, RoomTypes
<1>4. CASE FindRoom(w)
  <2>1. UNCHANGED <<objectVars, byPlayer, presence>>
    BY <1>4 DEF FindRoom, objectVars, registryVars, roomVars, lifeVars
  <2>2. PicksUp
    <3>1. CASE rooms[goal[w]] = None
      BY <1>4, <3>1, ReturnPicks DEF FindRoom
    <3>2. CASE rooms[goal[w]] # None
      <4>1. to' = [to EXCEPT ![w] = rooms[goal[w]]] /\ UNCHANGED from
        BY <1>4, <3>2 DEF FindRoom
      <4>2. goal[w] \in RoomIds
        BY <1>4 DEF FindRoom, At, Handlers, EnterPcs, InsidePcs
      <4>3. QED
        BY <3>2, <4>1, <4>2, FoundExists DEF PicksUp, HandlerTypes
    <3>3. QED
      BY <3>1, <3>2
  <2>3. QED
    BY <2>1, <2>2, ObjectsQuiet DEF ObjectParts, RoomTypes
<1>5. QED
  BY <1>1, <1>2, <1>3, <1>4 DEF Enter

\* Every step of leaving does.
LEMMA LeaveObjects ==
    ASSUME ObjectParts, HandlerTypes, Handlers, NEW w \in Procs, Leave(w)
    PROVE  ObjectParts'
<1>1. CASE RemoveOccupant(w)
  BY <1>1, RemoveObjects
<1>2. CASE FindOccupied(w)
  <2>1. UNCHANGED <<objectVars, byPlayer, presence>>
    BY <1>2 DEF FindOccupied, objectVars, registryVars, roomVars, lifeVars
  <2>2. PicksUp
    <3>1. CASE byPlayer[who[w]] # None /\ rooms[byPlayer[who[w]]] # None
      <4>1. from' = [from EXCEPT ![w] = rooms[byPlayer[who[w]]]] /\ UNCHANGED to
        BY <1>2, <3>1 DEF FindOccupied
      <4>2. byPlayer[who[w]] \in RoomIds
        BY <1>2, <3>1 DEF FindOccupied, At, Handlers, ObjectParts, RoomTypes
      <4>3. QED
        BY <3>1, <4>1, <4>2, FoundExists DEF PicksUp, HandlerTypes
    <3>2. QED
      BY <1>2, <3>1, ContinuePicks DEF FindOccupied
  <2>3. QED
    BY <2>1, <2>2, ObjectsQuiet DEF ObjectParts, RoomTypes
<1>3. CASE DeleteIndex(w) \/ CheckOwner(w) \/ CheckQueue(w) \/ CheckApprover(w)
  <2>1. UNCHANGED <<objectVars, presence, to, from>>
    BY <1>3 DEF DeleteIndex, CheckOwner, CheckQueue, CheckApprover, objectVars,
       registryVars, roomVars, lifeVars, localVars
  <2>2. byPlayer' \in [Players -> RoomIds \union {None}]
    BY <1>3 DEF DeleteIndex, CheckOwner, CheckQueue, CheckApprover, registryVars,
       ObjectParts, RoomTypes
  <2>3. QED
    BY <2>1, <2>2, ObjectsQuiet DEF PicksUp, ObjectParts, RoomTypes
<1>4. CASE DrainDoorbell(w)
  <2>1. /\ waiting' = [waiting EXCEPT ![from[w]] = {}]
        /\ UNCHANGED <<rooms, byPlayer, presence, lifeVars, loaded, insideVars, to, from>>
    BY <1>4 DEF DrainDoorbell, registryVars, localVars
  <2>2. QED
    BY <2>1, WaitingQuiet DEF PicksUp, ObjectParts, RoomTypes
<1>5. CASE FinishLeave(w)
  <2>1. Continue(w) /\ UNCHANGED <<objectVars, byPlayer>>
    BY <1>5 DEF FinishLeave, objectVars, registryVars, roomVars, lifeVars
  <2>2. presence' \in [Players -> RoomIds \union {None}]
    BY <1>5 DEF FinishLeave, ObjectParts, RoomTypes
  <2>3. QED
    BY <2>1, <2>2, ContinuePicks, ObjectsQuiet DEF ObjectParts, RoomTypes
<1>6. QED
  BY <1>1, <1>2, <1>3, <1>4, <1>5 DEF Leave

\* Every packet and every removal begins without touching an object, but for
\* the queues at the doors.
LEMMA BeginObjects ==
    ASSUME ObjectParts, HandlerTypes, Handlers, NEW w \in Procs,
           \/ w \in Players /\ Packet(w)
           \/ \E p \in Players : BeginRemoval(w, p)
           \/ Ring(w) \/ NotifyApprovers(w)
    PROVE  ObjectParts'
<1>1. ASSUME NEW i \in RoomIds, BeginEnter(w, i) \/ BeginRing(w, i) PROVE ObjectParts'
  <2>1. UNCHANGED <<objectVars, byPlayer, presence, from>>
    BY <1>1 DEF BeginEnter, BeginRing, objectVars, registryVars, roomVars, lifeVars
  <2>2. UNCHANGED to \/ (rooms[i] # None /\ to' = [to EXCEPT ![w] = rooms[i]])
    BY <1>1 DEF BeginEnter, BeginRing
  <2>3. PicksUp
    BY <2>1, <2>2, FoundExists DEF PicksUp, HandlerTypes
  <2>4. QED
    BY <2>1, <2>3, ObjectsQuiet DEF ObjectParts, RoomTypes
<1>2. ASSUME NEW p \in Players, BeginLeave(w) \/ BeginRemoval(w, p) PROVE ObjectParts'
  <2>1. UNCHANGED <<objectVars, byPlayer, presence, to, from>>
    BY <1>2 DEF BeginLeave, BeginRemoval, objectVars, registryVars, roomVars, lifeVars
  <2>2. QED
    BY <2>1, ObjectsQuiet DEF PicksUp, ObjectParts, RoomTypes
<1>3. CASE Ring(w)
  <2>1. UNCHANGED <<rooms, byPlayer, presence, lifeVars, loaded, insideVars>>
    BY <1>3 DEF Ring, registryVars
  <2>2. CASE to[w] \in closed
    <3>1. Return(w) /\ UNCHANGED waiting
      BY <1>3, <2>2 DEF Ring
    <3>2. QED
      BY <2>1, <3>1, ReturnPicks, WaitingQuiet DEF ObjectParts, RoomTypes
  <2>3. CASE to[w] \notin closed
    <3>1. waiting' = [waiting EXCEPT ![to[w]] = @ \union {w}] /\ UNCHANGED <<to, from>>
      BY <1>3, <2>3 DEF Ring, localVars
    <3>2. w \in Players
      BY <1>3 DEF Ring, At, Handlers, RingPcs
    <3>3. waiting' \in [Objects -> SUBSET Players] /\ \A o \in closed : waiting'[o] = waiting[o]
      BY <2>3, <3>1, <3>2 DEF ObjectParts, RoomTypes
    <3>4. PicksUp
      BY <3>1 DEF PicksUp
    <3>5. QED
      BY <2>1, <3>3, <3>4, WaitingQuiet
  <2>4. QED
    BY <2>2, <2>3
<1>4. CASE NotifyApprovers(w)
  <2>1. /\ UNCHANGED <<rooms, byPlayer, presence, lifeVars, loaded, insideVars>> /\ Return(w)
        /\ UNCHANGED waiting \/ waiting' = [waiting EXCEPT ![to[w]] = @ \ {w}]
    BY <1>4 DEF NotifyApprovers, registryVars
  <2>2. QED
    BY <2>1, ReturnPicks, WaitingQuiet DEF ObjectParts, RoomTypes
<1>5. ASSUME NEW v \in Players, Respond(w, v) PROVE ObjectParts'
  <2>1. /\ waiting' = [waiting EXCEPT ![rooms[presence[w]]] = @ \ {v}]
        /\ UNCHANGED <<rooms, byPlayer, presence, lifeVars, loaded, insideVars, to, from>>
    BY <1>5 DEF Respond, registryVars
  <2>2. QED
    BY <2>1, WaitingQuiet DEF PicksUp, ObjectParts, RoomTypes
<1>6. QED
  BY <1>1, <1>2, <1>3, <1>4, <1>5 DEF Packet

-----------------------------------------------------------------------------
\* A step of no handler.
LEMMA HandlersQuiet ==
    ASSUME HandlerTypes, Handlers, UNCHANGED procVars
    PROVE  (HandlerTypes /\ Handlers)'
  BY DEF HandlerTypes, Handlers, procVars, localVars

\* Every step preserves the invariant.
LEMMA RoomsNext == ASSUME RoomsInv, [Next]_vars PROVE RoomsInv'
<1>1. ObjectParts /\ HandlerTypes /\ Handlers
  BY DEF RoomsInv, ObjectParts
<1>2. SUFFICES ObjectParts' /\ HandlerTypes' /\ Handlers'
  BY DEF RoomsInv, ObjectParts
<1>3. ASSUME NEW w \in Procs, Proceed(w) PROVE ObjectParts' /\ HandlerTypes' /\ Handlers'
  <2>1. CASE Enter(w)
    BY <1>1, <2>1, EnterObjects, EnterHandlers DEF ObjectParts
  <2>2. CASE Leave(w)
    BY <1>1, <2>2, LeaveObjects, LeaveHandlers DEF ObjectParts
  <2>3. CASE Ring(w) \/ NotifyApprovers(w)
    BY <1>1, <2>3, BeginObjects, BeginHandlers DEF ObjectParts
  <2>4. QED
    BY <1>3, <2>1, <2>2, <2>3 DEF Proceed
<1>4. ASSUME NEW p \in Players, Packet(p) PROVE ObjectParts' /\ HandlerTypes' /\ Handlers'
  <2>1. p \in Procs
    BY DEF Procs
  <2>2. ObjectParts'
    BY <1>1, <1>4, <2>1, BeginObjects
  <2>3. (HandlerTypes /\ Handlers)'
    BY <1>1, <1>4, <2>1, BeginHandlers DEF Packet, ObjectParts
  <2>4. QED
    BY <2>2, <2>3
<1>5. ASSUME NEW s \in Staff, NEW p \in Players, BeginRemoval(s, p)
      PROVE  ObjectParts' /\ HandlerTypes' /\ Handlers'
  BY <1>1, <1>5, BeginObjects, BeginHandlers DEF Procs, ObjectParts
<1>6. ASSUME NEW i \in Closable, Unregister(i) PROVE ObjectParts' /\ HandlerTypes' /\ Handlers'
  BY <1>1, <1>6, UnregisterObjects, HandlersQuiet DEF Unregister
<1>7. ASSUME NEW o \in Objects, CloseRoom(o) PROVE ObjectParts' /\ HandlerTypes' /\ Handlers'
  BY <1>1, <1>7, CloseObjects, HandlersQuiet DEF CloseRoom
<1>8. ASSUME NEW o \in Objects, NEW v \in Players, SweepDoorbell(o, v)
      PROVE  ObjectParts' /\ HandlerTypes' /\ Handlers'
  <2>1. /\ waiting' = [waiting EXCEPT ![o] = @ \ {v}]
        /\ UNCHANGED <<rooms, byPlayer, presence, lifeVars, loaded, insideVars, to, from, procVars>>
    BY <1>8 DEF SweepDoorbell, registryVars, procVars, localVars
  <2>2. QED
    BY <1>1, <2>1, WaitingQuiet, HandlersQuiet DEF PicksUp, ObjectParts, RoomTypes
<1>9. CASE UNCHANGED vars
  <2>1. UNCHANGED <<objectVars, byPlayer, presence, to, from, procVars>>
    BY <1>9 DEF vars, codeVars, registryVars, roomVars, lifeVars, procVars, localVars, objectVars
  <2>2. QED
    BY <1>1, <2>1, ObjectsQuiet, HandlersQuiet DEF PicksUp, ObjectParts, RoomTypes
<1>10. QED
  BY <1>3, <1>4, <1>5, <1>6, <1>7, <1>8, <1>9 DEF Next, Step

\* The registry, the objects and what handlers hold of them keep together.
THEOREM RoomsInductive == Spec => []RoomsInv
  BY RoomsInit, RoomsNext, PTL DEF Spec

\* A handler that found a room before it was closed adds nobody to it, gives
\* nobody a unit in it and leaves nobody waiting at its door.
THEOREM ClosedRoomsStayEmpty == Spec => []ClosedRoomsAreEmpty
<1>1. RoomsInv => ClosedRoomsAreEmpty
  BY DEF RoomsInv
<1>2. QED
  BY <1>1, RoomsInductive, PTL

\* No room's loop is left running in an object that neither the registry nor a
\* running Close refers to.
THEOREM NoLoopIsLost == Spec => []LoopsAreReachable
<1>1. RoomsInv => LoopsAreReachable
  BY DEF RoomsInv
<1>2. QED
  BY <1>1, RoomsInductive, PTL

\* Joining a room and loading its world, in any order and repeatedly, give a
\* unit to every occupant who does not just watch.
THEOREM LoadedRoomsSeatRegulars == Spec => []RegularsHaveUnits
<1>1. RoomsInv => RegularsHaveUnits
  BY DEF RoomsInv
<1>2. QED
  BY <1>1, RoomsInductive, PTL

\* What the registry returns is an open room with the id asked for, which no
\* Close has begun to stop.
THEOREM RegistryReturnsOpenRooms == Spec => []RegisteredOpen
<1>1. RoomsInv => RegisteredOpen
  BY DEF RoomsInv
<1>2. QED
  BY <1>1, RoomsInductive, PTL

-----------------------------------------------------------------------------
(* Capacity.                                                               *)

\* Watchers are on record, whoever joins past the limit may, and rooms are finite.
CapacityInv ==
    /\ \A o \in Objects : spectators[o] \subseteq watched[o] /\ IsFiniteSet(occupants[o])
    /\ \A w \in Procs : mode[w] = "bypass" => pc[w] # "idle" /\ who[w] \in Bypassers
    /\ CapacityRespected

\* Those whom the capacity counts.
Counted(o) == occupants[o] \ (Bypassers \union watched[o])

\* One more member of a finite set.
LEMMA OneMore ==
    ASSUME NEW S, IsFiniteSet(S), NEW x
    PROVE  /\ IsFiniteSet(S \union {x})
           /\ Cardinality(S \union {x}) <= Cardinality(S) + 1
           /\ Cardinality(S) \in Nat /\ Cardinality(S \union {x}) \in Nat
<1>1. /\ IsFiniteSet(S \union {x})
      /\ Cardinality(S \union {x}) = IF x \in S THEN Cardinality(S) ELSE Cardinality(S) + 1
  BY FS_AddElement
<1>2. Cardinality(S) \in Nat
  BY FS_CardinalityType
<1>3. QED
  BY <1>1, <1>2

\* Part of a set that is within the capacity is.
LEMMA FewerRegulars ==
    ASSUME NEW S, NEW T, IsFiniteSet(T), S \subseteq T, Cardinality(T) <= MaxUsers
    PROVE  IsFiniteSet(S) /\ Cardinality(S) <= MaxUsers
  BY FS_Subset, FS_CardinalityType, MaxUsersAssumption

\* At first every room is empty.
LEMMA CapacityInit == Init => CapacityInv
  BY FS_EmptySet, MaxUsersAssumption DEF Init, CapacityInv, CapacityRespected

\* What the history of a room keeps of a step.
LEMMA WatchedKept ==
    ASSUME CapacityInv, RoomsInv, Record, NEW o \in Objects, spectators'[o] \subseteq occupants'[o]
    PROVE  /\ spectators'[o] \subseteq watched'[o]
           /\ \A p \in occupants'[o] : p \in watched'[o] <=> p \in watched[o] \/ p \in spectators'[o]
  BY DEF Record

\* A step that lets nobody in and changes no way of joining.
LEMMA CapacityQuiet ==
    ASSUME CapacityInv, RoomsInv, RoomsInv', Record,
           \A o \in Objects : occupants'[o] \subseteq occupants[o],
           \A w \in Procs : mode'[w] = "bypass" =>
             mode'[w] = mode[w] /\ pc'[w] # "idle" /\ who'[w] = who[w]
    PROVE  CapacityInv'
<1>1. ASSUME NEW o \in Objects
      PROVE  /\ IsFiniteSet(occupants'[o]) /\ spectators'[o] \subseteq watched'[o]
             /\ Cardinality(Counted(o)') <= MaxUsers
  <2>1. spectators'[o] \subseteq occupants'[o]
    BY DEF RoomsInv, WatchersInside
  <2>2. Counted(o)' \subseteq Counted(o) /\ spectators'[o] \subseteq watched'[o]
    BY <2>1, WatchedKept DEF Counted
  <2>3. IsFiniteSet(occupants[o]) /\ Counted(o) \subseteq occupants[o]
    BY DEF CapacityInv, Counted
  <2>4. IsFiniteSet(Counted(o)) /\ Cardinality(Counted(o)) <= MaxUsers
    BY <2>3, FS_Subset DEF CapacityInv, CapacityRespected, Counted
  <2>5. Cardinality(Counted(o)') <= MaxUsers
    BY <2>2, <2>4, FewerRegulars
  <2>6. QED
    BY <2>2, <2>3, <2>5, FS_Subset
<1>2. \A w \in Procs : mode'[w] = "bypass" => pc'[w] # "idle" /\ who'[w] \in Bypassers
  BY DEF CapacityInv
<1>3. QED
  BY <1>1, <1>2 DEF CapacityInv, CapacityRespected, Counted

\* Room.JoinWithCapacity lets in who is inside already, who may pass the limit,
\* who just watches, or one more regular while there is a place.
LEMMA JoinCapacity ==
    ASSUME CapacityInv, RoomsInv, RoomsInv', Record, NEW w \in Procs, JoinRoom(w)
    PROVE  CapacityInv'
<1> DEFINE o == to[w]
           p == who[w]
<1>1. /\ o \in Objects /\ ~Refused(w) /\ mode[w] \in {"checked", "bypass", "spectator"}
      /\ mode[w] = "bypass" => p \in Bypassers
  BY DEF JoinRoom, At, CapacityInv, RoomsInv, HandlerTypes, Handlers, InsidePcs
<1>2. /\ occupants' = [occupants EXCEPT ![o] = @ \union {p}]
      /\ mode[w] = "spectator" => spectators' = [spectators EXCEPT ![o] = @ \union {p}]
      /\ UNCHANGED <<mode, who>> /\ pc' = [pc EXCEPT ![w] = "indexing"]
  BY <1>1 DEF JoinRoom, Goto, localVars
<1>3. /\ occupants'[o] = occupants[o] \union {p}
      /\ mode[w] = "spectator" => p \in spectators'[o]
      /\ \A q \in Objects \ {o} : occupants'[q] = occupants[q]
  BY <1>1, <1>2 DEF RoomsInv, RoomTypes
<1>4. ASSUME NEW q \in Objects
      PROVE  /\ IsFiniteSet(occupants[q]) /\ Cardinality(Counted(q)) <= MaxUsers
             /\ IsFiniteSet(Counted(q))
             /\ spectators'[q] \subseteq watched'[q] /\ Counted(q)' \subseteq Counted(q) \union {p}
             /\ p \in spectators'[q] \/ p \in Bypassers \/ p \in occupants[q] =>
                  Counted(q)' \subseteq Counted(q)
  <2>1. spectators'[q] \subseteq occupants'[q]
    BY DEF RoomsInv, WatchersInside
  <2>2. /\ spectators'[q] \subseteq watched'[q]
        /\ \A r \in occupants'[q] : r \in watched'[q] <=> r \in watched[q] \/ r \in spectators'[q]
    BY <2>1, WatchedKept
  <2>3. occupants'[q] \subseteq occupants[q] \union {p}
    BY <1>3
  <2>4. IsFiniteSet(occupants[q]) /\ Cardinality(Counted(q)) <= MaxUsers
    BY DEF CapacityInv, CapacityRespected, Counted
  <2>5. Counted(q) \subseteq occupants[q]
    BY DEF Counted
  <2>6. IsFiniteSet(Counted(q))
    BY <2>4, <2>5, FS_Subset
  <2>7. QED
    BY <2>2, <2>3, <2>4, <2>6 DEF Counted
<1>5. \A q \in Objects : IsFiniteSet(occupants'[q])
  <2>1. \A q \in Objects : IsFiniteSet(occupants[q] \union {p})
    BY <1>4, OneMore
  <2>2. QED
    BY <1>3, <1>4, <2>1
<1>6. ASSUME NEW q \in Objects, q = o PROVE Cardinality(Counted(q)') <= MaxUsers
  <2>1. CASE p \in spectators'[q] \/ p \in Bypassers \/ p \in occupants[q]
    BY <1>1, <1>4, <2>1, FewerRegulars
  <2>2. CASE ~(p \in spectators'[q] \/ p \in Bypassers \/ p \in occupants[q])
    <3>1. ~(Cardinality(Regulars(q)) >= MaxUsers)
      BY <1>1, <1>3, <1>6, <2>2 DEF Refused, Full
    <3>2. IsFiniteSet(Regulars(q)) /\ Counted(q) \subseteq Regulars(q)
      <4>1. Regulars(q) \subseteq occupants[q] /\ spectators[q] \subseteq watched[q]
        BY <1>1 DEF Regulars, CapacityInv
      <4>2. IsFiniteSet(Regulars(q))
        BY <1>1, <1>4, <4>1, FS_Subset
      <4>3. QED
        BY <4>1, <4>2 DEF Counted, Regulars
    <3>3. /\ IsFiniteSet(Regulars(q) \union {p})
          /\ Cardinality(Regulars(q) \union {p}) <= Cardinality(Regulars(q)) + 1
          /\ Cardinality(Regulars(q)) \in Nat /\ Cardinality(Regulars(q) \union {p}) \in Nat
      BY <3>2, OneMore
    <3>4. Cardinality(Regulars(q) \union {p}) <= MaxUsers
      BY <3>1, <3>3, MaxUsersAssumption
    <3>5. Counted(q)' \subseteq Regulars(q) \union {p}
      BY <1>1, <1>4, <3>2
    <3>6. QED
      BY <3>3, <3>4, <3>5, FewerRegulars
  <2>3. QED
    BY <2>1, <2>2
<1>7. ASSUME NEW q \in Objects, q # o PROVE Cardinality(Counted(q)') <= MaxUsers
  <2>1. Counted(q)' \subseteq Counted(q)
    <3>1. spectators'[q] \subseteq occupants'[q]
      BY DEF RoomsInv, WatchersInside
    <3>2. QED
      BY <1>3, <1>7, <3>1, WatchedKept DEF Counted
  <2>2. QED
    BY <1>4, <2>1, FewerRegulars
<1>8. \A v \in Procs : mode'[v] = "bypass" => pc'[v] # "idle" /\ who'[v] \in Bypassers
  BY <1>2 DEF CapacityInv, RoomsInv, HandlerTypes
<1>9. QED
  BY <1>4, <1>5, <1>6, <1>7, <1>8 DEF CapacityInv, CapacityRespected, Counted

\* Every other step of a handler lets nobody in.
LEMMA OtherStepsCapacity ==
    ASSUME CapacityInv, RoomsInv, RoomsInv', Record, NEW w \in Procs,
           ~JoinRoom(w),
           \/ Proceed(w)
           \/ w \in Players /\ Packet(w)
           \/ \E p \in Players : BeginRemoval(w, p)
    PROVE  CapacityInv'
<1> DEFINE Still == /\ \A o \in Objects : occupants'[o] \subseteq occupants[o]
                    /\ \A v \in Procs : mode'[v] = "bypass" =>
                         mode'[v] = mode[v] /\ pc'[v] # "idle" /\ who'[v] = who[v]
<1>1. \A v \in Procs : mode[v] = "bypass" => pc[v] # "idle"
  BY DEF CapacityInv, RoomsInv, HandlerTypes
<1>2. Return(w) /\ UNCHANGED occupants => Still
  BY <1>1 DEF Return, Goto, RoomsInv, HandlerTypes
<1>3. Continue(w) /\ UNCHANGED occupants => Still
  <2>1. ASSUME Continue(w), then[w] # "idle", UNCHANGED occupants PROVE Still
    BY <1>1, <2>1 DEF Continue, Goto, RoomsInv, HandlerTypes
  <2>2. QED
    BY <1>2, <2>1 DEF Continue
<1>4. ASSUME NEW l \in Places \ {"idle"}, Goto(w, l), UNCHANGED <<who, mode, occupants>>
      PROVE  Still
  BY <1>1, <1>4 DEF Goto, RoomsInv, HandlerTypes
<1>5. ASSUME \/ CheckPresence(w) \/ Activate(w) \/ CheckWorld(w) \/ LoadWorld(w)
             \/ CheckIndex(w) \/ IndexPlayer(w)
      PROVE  Still
  BY <1>4, <1>5 DEF CheckPresence, Activate, CheckWorld, LoadWorld, CheckIndex, IndexPlayer,
     localVars, roomVars, insideVars, Places, EnterPcs, InsidePcs, LeavePcs
<1>6. ASSUME FailLoad(w) \/ FailJoin(w) \/ SetPresence(w) \/ NotifyApprovers(w)
      PROVE  Still
  BY <1>2, <1>6 DEF FailLoad, FailJoin, SetPresence, NotifyApprovers, roomVars, insideVars
<1>7. ASSUME FindRoom(w) \/ Ring(w)
      PROVE  Still
  BY <1>2, <1>4, <1>7 DEF FindRoom, Ring, localVars, roomVars, insideVars, Places, EnterPcs,
     InsidePcs, RingPcs
<1>8. ASSUME FindOccupied(w) \/ FinishLeave(w)
      PROVE  Still
  BY <1>3, <1>4, <1>8 DEF FindOccupied, FinishLeave, roomVars, insideVars, Places, LeavePcs,
     RemovePcs
<1>9. ASSUME \/ DeleteIndex(w) \/ CheckOwner(w) \/ CheckQueue(w) \/ CheckApprover(w)
             \/ DrainDoorbell(w)
      PROVE  Still
  BY <1>4, <1>9 DEF DeleteIndex, CheckOwner, CheckQueue, CheckApprover, DrainDoorbell, localVars,
     roomVars, insideVars, Places, LeavePcs, RemovePcs
<1>10. ASSUME RemoveOccupant(w)
      PROVE  Still
  <2>1. CASE who[w] \in occupants[from[w]]
    <3>1. /\ occupants' = [occupants EXCEPT ![from[w]] = @ \ {who[w]}]
          /\ Goto(w, "unindexing") /\ UNCHANGED <<who, mode>>
      BY <1>10, <2>1 DEF RemoveOccupant, localVars
    <3>2. \A o \in Objects : occupants'[o] \subseteq occupants[o]
      BY <1>1, <3>1 DEF RoomsInv, RoomTypes
    <3>3. \A v \in Procs : mode'[v] = "bypass" =>
            mode'[v] = mode[v] /\ pc'[v] # "idle" /\ who'[v] = who[v]
      BY <1>1, <3>1 DEF Goto, RoomsInv, HandlerTypes
    <3>4. QED
      BY <3>2, <3>3
  <2>2. QED
    BY <1>3, <1>10, <2>1 DEF RemoveOccupant, insideVars
<1>11. CASE RetryJoin(w)
  <2>1. \/ mode' = [mode EXCEPT ![w] = "bypass"] /\ who[w] \in Bypassers
        \/ mode' = [mode EXCEPT ![w] = "spectator"]
    BY <1>11 DEF RetryJoin
  <2>2. pc' = [pc EXCEPT ![w] = "finding"] /\ UNCHANGED <<who, occupants, spectators>>
    BY <1>11 DEF RetryJoin, Goto, roomVars, insideVars
  <2>3. \A v \in Procs : mode'[v] = "bypass" => pc'[v] # "idle" /\ who'[v] \in Bypassers
    BY <2>1, <2>2 DEF CapacityInv, RoomsInv, HandlerTypes
  <2>4. ASSUME NEW o \in Objects
        PROVE  /\ spectators'[o] \subseteq watched'[o] /\ IsFiniteSet(occupants'[o])
               /\ Counted(o)' = Counted(o)
    <3>1. spectators[o] \subseteq occupants[o]
      BY DEF RoomsInv, WatchersInside
    <3>2. spectators[o] \subseteq watched[o] /\ IsFiniteSet(occupants[o])
      BY DEF CapacityInv
    <3>3. QED
      BY <2>2, <3>1, <3>2, WatchedKept DEF Counted
  <2>5. QED
    BY <2>3, <2>4 DEF CapacityInv, CapacityRespected, Counted
<1>12. CASE (w \in Players /\ Packet(w)) \/ \E p \in Players : BeginRemoval(w, p)
  <2>1. /\ UNCHANGED <<mode, occupants>> /\ pc[w] = "idle"
        /\ \A v \in Procs \ {w} : pc'[v] = pc[v] /\ who'[v] = who[v]
    BY <1>12 DEF Packet, BeginEnter, BeginRing, BeginLeave, Respond, BeginRemoval, At, Goto,
       roomVars, insideVars, RoomsInv, HandlerTypes
  <2>2. QED
    BY <1>1, <2>1, CapacityQuiet
<1>13. QED
  BY <1>5, <1>6, <1>7, <1>8, <1>9, <1>10, <1>11, <1>12, CapacityQuiet DEF Proceed, Enter, Leave

\* However many join at once, those without the permission to enter a full
\* room who have not been let in to watch stay within its limit.
THEOREM CapacityHolds == Spec => []CapacityRespected
<1>1. ASSUME RoomsInv, RoomsInv', CapacityInv, Next PROVE CapacityInv'
  <2>1. ASSUME NEW w \in Procs, Proceed(w) PROVE CapacityInv'
    BY <1>1, <2>1, JoinCapacity, OtherStepsCapacity DEF Next
  <2>2. ASSUME NEW p \in Players, Packet(p) PROVE CapacityInv'
    <3>1. p \in Procs /\ pc[p] = "idle"
      BY <2>2 DEF Procs, Packet, BeginEnter, BeginRing, BeginLeave, Respond, At
    <3>2. ~JoinRoom(p)
      BY <3>1 DEF JoinRoom, At
    <3>3. QED
      BY <1>1, <2>2, <3>1, <3>2, OtherStepsCapacity DEF Next
  <2>3. ASSUME NEW s \in Staff, NEW p \in Players, BeginRemoval(s, p) PROVE CapacityInv'
    BY <1>1, <2>3, OtherStepsCapacity DEF Procs, BeginRemoval, JoinRoom, At, Next
  <2>4. CASE \/ \E i \in Closable : Unregister(i)
             \/ \E o \in Objects : CloseRoom(o) \/ \E v \in Players : SweepDoorbell(o, v)
    <3>1. UNCHANGED <<pc, who, mode>>
      BY <2>4 DEF Unregister, CloseRoom, SweepDoorbell, procVars, localVars
    <3>2. \A o \in Objects : occupants'[o] \subseteq occupants[o]
      BY <1>1, <2>4 DEF Unregister, CloseRoom, SweepDoorbell, insideVars, RoomsInv, RoomTypes
    <3>3. \A v \in Procs : mode'[v] = "bypass" =>
            mode'[v] = mode[v] /\ pc'[v] # "idle" /\ who'[v] = who[v]
      BY <1>1, <3>1 DEF CapacityInv, RoomsInv, HandlerTypes
    <3>4. QED
      BY <1>1, <3>2, <3>3, CapacityQuiet DEF Next
  <2>5. QED
    BY <1>1, <2>1, <2>2, <2>3, <2>4 DEF Next, Step
<1>2. ASSUME CapacityInv, UNCHANGED vars PROVE CapacityInv'
  BY <1>2 DEF CapacityInv, CapacityRespected, vars, codeVars, roomVars, insideVars, procVars,
     localVars
<1>3. RoomsInv /\ RoomsInv' /\ CapacityInv /\ [Next]_vars => CapacityInv'
  BY <1>1, <1>2
<1>4. CapacityInv => CapacityRespected
  BY DEF CapacityInv
<1>5. QED
  BY <1>3, <1>4, CapacityInit, RoomsInductive, PTL DEF Spec

-----------------------------------------------------------------------------
(* The index: whoever is moved by one goroutine at a time, their own, that *)
(* of a moderator or that of the player who lets them in.                  *)

\* The player is inside a room the registry returns.
In(p, o) == Registered(o) /\ p \in occupants[o]

\* Wherever the player is, the index says so.
Indexed(p) == \A o \in Objects : In(p, o) => byPlayer[p] = id[o]

\* Where the goroutine that moves the player takes them to be.
FoundBy(w, p) ==
    /\ pc[w] \in {"found", "joining", "indexing"} \/ then[w] = "joining" => id[to[w]] = goal[w]
    /\ \A o \in Objects : In(p, o) =>
         /\ byPlayer[p] = id[o] \/ pc[w] = "indexing"
         /\ pc[w] = "removing" => o = from[w]
         /\ pc[w] \notin RemovePcs \ {"removing"}
         /\ (pc[w] = "found" \/ then[w] = "joining") /\ id[o] = goal[w] => o = to[w]
         /\ pc[w] \in {"joining", "indexing"} => o = to[w]

FoundAt(p) ==
    /\ \A w \in Procs : Moves(w, p) => FoundBy(w, p)
    /\ (\A w \in Procs : ~Moves(w, p)) => Indexed(p)

FoundInv ==
    \A p \in Players \ overlapped :
        /\ FoundAt(p)
        /\ \A v, w \in Procs : Moves(v, p) /\ Moves(w, p) => v = w

\* At first nobody is anywhere, and nobody is moved.
LEMMA FoundInit == ASSUME Init PROVE FoundInv
<1>1. \A p \in Players : Indexed(p)
  BY DEF Init, Indexed, In, Registered
<1>2. \A p \in Players, w \in Procs : ~Moves(w, p)
  BY DEF Init, Moves
<1>3. QED
  BY <1>1, <1>2 DEF FoundInv, FoundAt

\* A step that moves the player nowhere but out of a room.
LEMMA FoundKept ==
    ASSUME RoomsInv, NEW p \in Players, FoundAt(p),
           \A w \in Procs :
             /\ Moves(w, p)' <=> Moves(w, p)
             /\ Moves(w, p) => /\ pc'[w] = pc[w] /\ goal'[w] = goal[w] /\ to'[w] = to[w]
                               /\ from'[w] = from[w] /\ then'[w] = then[w]
             /\ \A o \in Objects : o = to[w] => id'[o] = id[o],
           \A o \in Objects : In(p, o)' =>
             /\ In(p, o) /\ id'[o] = id[o]
             /\ byPlayer'[p] = byPlayer[p] \/ byPlayer[p] # id[o]
    PROVE  FoundAt(p)'
<1>1. ASSUME NEW w \in Procs, Moves(w, p)' PROVE FoundBy(w, p)'
  <2>1. Moves(w, p) /\ FoundBy(w, p)
    BY <1>1 DEF FoundAt
  <2>2. /\ pc'[w] = pc[w] /\ goal'[w] = goal[w] /\ to'[w] = to[w]
        /\ from'[w] = from[w] /\ then'[w] = then[w]
    BY <2>1
  <2>3. pc[w] \in {"found", "joining", "indexing"} \/ then[w] = "joining" => to[w] \in Objects
    BY DEF RoomsInv, Handlers, InsidePcs
  <2>4. pc'[w] \in {"found", "joining", "indexing"} \/ then'[w] = "joining" => id'[to'[w]] = goal'[w]
    BY <2>1, <2>2, <2>3 DEF FoundBy
  <2>5. QED
    BY <2>1, <2>2, <2>4 DEF FoundBy
<1>2. (\A w \in Procs : ~Moves(w, p)') => Indexed(p)'
  <2>1. SUFFICES ASSUME \A w \in Procs : ~Moves(w, p)' PROVE Indexed(p)'
    OBVIOUS
  <2>2. Indexed(p)
    BY <2>1 DEF FoundAt
  <2>3. QED
    BY <2>2 DEF Indexed
<1>3. QED
  BY <1>1, <1>2 DEF FoundAt

\* Where the goroutine that moves a player knows nothing of a room they may be in.
FreePcs == {"idle", "entering", "activating", "activated", "loading", "finding", "presenting",
            "leaving"}

\* A goroutine on its way to the registry or back.
LEMMA FreeMove ==
    ASSUME NEW w, NEW p, pc'[w] \in FreePcs, then'[w] # "joining",
           \A o \in Objects : In(p, o)' => byPlayer'[p] = id'[o]
    PROVE  FoundBy(w, p)'
  BY DEF FoundBy, FreePcs, RemovePcs

\* Whoever is in an active room is indexed under it, but for the end of a join.
LEMMA FreeFound ==
    ASSUME NEW w, NEW p, FoundBy(w, p), pc[w] # "indexing", NEW o \in Objects, In(p, o)
    PROVE  byPlayer[p] = id[o]
  BY DEF FoundBy

\* A new room is empty, and no handler holds the object it is made of.
LEMMA ActivateIn ==
    ASSUME RoomsInv, NEW w \in Procs, Activate(w), NEW p \in Players, NEW o \in Objects
    PROVE  /\ In(p, o)' => In(p, o) /\ id'[o] = id[o]
           /\ \A v \in Procs : o = to[v] => id'[o] = id[o]
<1>1. goal[w] \in RoomIds /\ UNCHANGED occupants
  BY DEF Activate, At, RoomsInv, Handlers, EnterPcs, insideVars
<1>2. CASE Found(goal[w])
  BY <1>1, <1>2 DEF Activate, In, Registered
<1>3. CASE ~Found(goal[w])
  <2>1. PICK f \in Objects :
          /\ Fresh(f)
          /\ rooms' = [rooms EXCEPT ![goal[w]] = f]
          /\ id' = [id EXCEPT ![f] = goal[w]]
    BY <1>3 DEF Activate
  <2>2. rooms[goal[w]] = None /\ goal[w] # None /\ f # None
    BY <1>1, <1>3 DEF Found
  <2>3. occupants[f] = {}
    BY <2>1 DEF Fresh, RoomsInv, InUse, ClosedRoomsAreEmpty
  <2>4. \A v \in Procs : f = to[v] => id[f] = None
    BY <2>1 DEF Fresh
  <2>5. \A v \in Procs : f # to[v]
    BY <2>2, <2>4 DEF RoomsInv, InUse
  <2>6. CASE o = f
    BY <1>1, <2>3, <2>5, <2>6 DEF In
  <2>7. CASE o # f
    <3>1. id'[o] = id[o]
      BY <2>1, <2>7 DEF RoomsInv, RoomTypes
    <3>2. ASSUME In(p, o)' PROVE In(p, o)
      <4>1. id[o] # None /\ rooms'[id[o]] = o /\ p \in occupants[o]
        BY <1>1, <3>1, <3>2 DEF In, Registered
      <4>2. rooms[id[o]] = o
        BY <2>1, <2>7, <4>1 DEF RoomsInv, RoomTypes
      <4>3. QED
        BY <4>1, <4>2 DEF In, Registered
    <3>3. QED
      BY <3>1, <3>2
  <2>8. QED
    BY <2>6, <2>7
<1>4. QED
  BY <1>2, <1>3

\* What the rest of the proof knows of the goroutine that moves the player.
OwnHandler(w, p) ==
    /\ w \in Procs /\ p \in Players /\ RoomsInv
    /\ FoundBy(w, p) /\ who[w] = p

\* Entering, on the way to the room: the player is indexed under the room
\* they may be in, and what the registry returns last is the active one.
LEMMA OwnEnter ==
    ASSUME NEW w, NEW p, OwnHandler(w, p),
           \/ CheckPresence(w) \/ Activate(w) \/ CheckWorld(w) \/ LoadWorld(w) \/ FailLoad(w)
           \/ FindRoom(w) \/ FailJoin(w) \/ RetryJoin(w) \/ SetPresence(w)
    PROVE  FoundBy(w, p)'
<1>1. /\ p \in Players /\ w \in Procs /\ HandlerTypes /\ RoomTypes
      /\ then[w] # "idle" => pc[w] \in LeavePcs
  BY DEF OwnHandler, RoomsInv, Handlers
<1>2. CASE CheckPresence(w) \/ CheckWorld(w) \/ LoadWorld(w) \/ RetryJoin(w)
  <2>1. UNCHANGED <<rooms, byPlayer, id, occupants, who>> /\ pc'[w] \in FreePcs
    BY <1>1, <1>2 DEF CheckPresence, CheckWorld, LoadWorld, RetryJoin, Goto, FreePcs, HandlerTypes,
       registryVars, roomVars, lifeVars, insideVars, localVars
  <2>2. pc[w] \in {"entering", "activated", "loading", "joining"}
    BY <1>2 DEF CheckPresence, CheckWorld, LoadWorld, RetryJoin, At
  <2>3. then'[w] # "joining"
    BY <1>1, <1>2, <2>2 DEF CheckPresence, CheckWorld, LoadWorld, RetryJoin, HandlerTypes,
       localVars, LeavePcs, RemovePcs
  <2>4. \A o \in Objects : In(p, o)' => byPlayer'[p] = id'[o]
    BY <1>1, <2>1, <2>2, FreeFound DEF OwnHandler, In, Registered
  <2>5. QED
    BY <1>1, <2>1, <2>2, <2>3, <2>4, FreeMove DEF OwnHandler
<1>3. CASE FailLoad(w) \/ FailJoin(w) \/ SetPresence(w)
  <2>1. UNCHANGED <<rooms, byPlayer, id, occupants>> /\ Return(w) /\ pc[w] # "indexing"
    BY <1>3 DEF FailLoad, FailJoin, SetPresence, At, registryVars, roomVars, lifeVars, insideVars
  <2>2. pc'[w] = "idle" /\ then'[w] = "idle"
    BY <1>1, <2>1 DEF Return, Goto, HandlerTypes
  <2>3. \A o \in Objects : In(p, o)' => byPlayer'[p] = id'[o]
    BY <1>1, <2>1, FreeFound DEF OwnHandler, In, Registered
  <2>4. QED
    BY <1>1, <2>2, <2>3, FreeMove DEF FreePcs
<1>4. CASE Activate(w)
  <2>1. /\ pc[w] = "activating" /\ pc'[w] = "activated" /\ UNCHANGED <<byPlayer, who, then>>
    BY <1>1, <1>4 DEF Activate, At, Goto, HandlerTypes
  <2>2. \A o \in Objects : In(p, o)' => In(p, o) /\ id'[o] = id[o]
    BY <1>1, <1>4, ActivateIn DEF OwnHandler
  <2>3. \A o \in Objects : In(p, o)' => byPlayer'[p] = id'[o]
    BY <1>1, <2>1, <2>2, FreeFound DEF OwnHandler
  <2>4. then'[w] # "joining"
    BY <1>1, <2>1 DEF LeavePcs, RemovePcs
  <2>5. QED
    BY <1>1, <2>1, <2>3, <2>4, FreeMove DEF FreePcs, OwnHandler
<1>5. CASE FindRoom(w)
  <2>1. UNCHANGED <<rooms, byPlayer, id, occupants>> /\ pc[w] = "finding"
    BY <1>5 DEF FindRoom, At, registryVars, roomVars, lifeVars, insideVars
  <2>2. \A o \in Objects : In(p, o)' => In(p, o) /\ byPlayer'[p] = id'[o]
    BY <1>1, <2>1, FreeFound DEF OwnHandler, In, Registered
  <2>3. CASE rooms[goal[w]] = None
    <3>1. pc'[w] = "idle" /\ then'[w] = "idle"
      BY <1>1, <1>5, <2>3 DEF FindRoom, Return, Goto, HandlerTypes
    <3>2. QED
      BY <1>1, <2>2, <3>1, FreeMove DEF FreePcs
  <2>4. CASE rooms[goal[w]] # None
    <3>1. /\ pc'[w] = "found" /\ to'[w] = rooms[goal[w]]
          /\ UNCHANGED <<who, goal, then>>
      BY <1>1, <1>5, <2>4 DEF FindRoom, Goto, HandlerTypes
    <3>2. goal[w] \in RoomIds /\ then[w] = "idle"
      BY <1>1, <2>1 DEF OwnHandler, RoomsInv, Handlers, EnterPcs, InsidePcs, LeavePcs, RemovePcs,
         HandlerTypes
    <3>3. id[rooms[goal[w]]] = goal[w]
      BY <2>4, <3>2 DEF OwnHandler, RoomsInv, RegisteredOpen
    <3>4. \A o \in Objects : In(p, o) /\ id[o] = goal[w] => o = rooms[goal[w]]
      BY DEF In, Registered
    <3>5. QED
      BY <2>1, <2>2, <3>1, <3>2, <3>3, <3>4 DEF FoundBy, OwnHandler, RemovePcs
  <2>5. QED
    BY <2>3, <2>4
<1>6. QED
  BY <1>2, <1>3, <1>4, <1>5

\* The join itself: before it the player is in no active room but the one
\* they join, and after it the index says so.
LEMMA OwnJoin ==
    ASSUME NEW w, NEW p, OwnHandler(w, p), CheckIndex(w) \/ JoinRoom(w) \/ IndexPlayer(w)
    PROVE  FoundBy(w, p)'
<1>1. /\ p \in Players /\ w \in Procs /\ HandlerTypes /\ RoomTypes
      /\ then[w] # "idle" => pc[w] \in LeavePcs
      /\ pc[w] \in InsidePcs => to[w] \in Objects
  BY DEF OwnHandler, RoomsInv, Handlers
<1>2. CASE CheckIndex(w)
  <2>1. /\ pc[w] = "found" /\ UNCHANGED <<rooms, byPlayer, id, occupants, who, goal, to>>
    BY <1>2 DEF CheckIndex, At, registryVars, roomVars, lifeVars, insideVars
  <2>2. who[w] = p /\ id[to[w]] = goal[w] /\ then[w] = "idle"
    BY <1>1, <2>1 DEF OwnHandler, FoundBy, LeavePcs, RemovePcs, HandlerTypes
  <2>3. \A o \in Objects : In(p, o)' =>
          /\ byPlayer'[p] = id'[o]
          /\ id[o] = goal[w] => o = to[w]
    BY <2>1 DEF OwnHandler, FoundBy, In, Registered
  <2>4. CASE byPlayer[p] \in {None, goal[w]}
    <3>1. pc'[w] = "joining" /\ then'[w] = "idle"
      BY <1>1, <1>2, <2>2, <2>4 DEF CheckIndex, Goto, HandlerTypes
    <3>2. \A o \in Objects : In(p, o)' => o = to[w]
      BY <2>1, <2>3, <2>4 DEF In, Registered
    <3>3. QED
      BY <2>1, <2>2, <2>3, <3>1, <3>2 DEF FoundBy, RemovePcs
  <2>5. CASE byPlayer[p] \notin {None, goal[w]}
    <3>1. pc'[w] = "leaving" /\ then'[w] = "joining"
      BY <1>1, <1>2, <2>2, <2>5 DEF CheckIndex, Goto, HandlerTypes
    <3>2. QED
      BY <2>1, <2>2, <2>3, <3>1 DEF FoundBy, RemovePcs
  <2>6. QED
    BY <2>4, <2>5
<1>3. CASE JoinRoom(w)
  <2>1. /\ pc[w] = "joining" /\ pc'[w] = "indexing"
        /\ UNCHANGED <<rooms, byPlayer, id, who, goal, to, then>>
    BY <1>1, <1>3 DEF JoinRoom, At, Goto, registryVars, lifeVars, localVars, HandlerTypes
  <2>2. who[w] = p /\ id[to[w]] = goal[w] /\ then[w] = "idle" /\ to[w] \in Objects
    BY <1>1, <2>1 DEF OwnHandler, FoundBy, LeavePcs, RemovePcs, InsidePcs, HandlerTypes
  <2>3. \A o \in Objects : o # to[w] => occupants'[o] = occupants[o]
    BY <1>1, <1>3, <2>2 DEF JoinRoom, RoomTypes
  <2>4. \A o \in Objects : In(p, o)' => o = to[w]
    BY <2>1, <2>3 DEF OwnHandler, FoundBy, In, Registered
  <2>5. QED
    BY <2>1, <2>2, <2>4 DEF FoundBy, RemovePcs
<1>4. CASE IndexPlayer(w)
  <2>1. /\ pc[w] = "indexing" /\ pc'[w] = "presenting"
        /\ UNCHANGED <<rooms, id, occupants, who, goal, to, then>>
    BY <1>1, <1>4 DEF IndexPlayer, At, Goto, roomVars, lifeVars, insideVars, localVars,
       HandlerTypes
  <2>2. who[w] = p /\ id[to[w]] = goal[w] /\ then[w] = "idle"
    BY <1>1, <2>1 DEF OwnHandler, FoundBy, LeavePcs, RemovePcs, HandlerTypes
  <2>3. byPlayer'[p] = goal[w]
    BY <1>1, <1>4, <2>2 DEF IndexPlayer, RoomTypes
  <2>4. \A o \in Objects : In(p, o)' => o = to[w]
    BY <2>1 DEF OwnHandler, FoundBy, In, Registered
  <2>5. QED
    BY <1>1, <2>1, <2>2, <2>3, <2>4, FreeMove DEF FreePcs
<1>5. QED
  BY <1>2, <1>3, <1>4

\* A removal that was not needed or is over: the player is in no active room.
LEMMA NowhereContinue ==
    ASSUME NEW w, NEW p, OwnHandler(w, p), Continue(w), pc[w] \in LeavePcs,
           UNCHANGED <<rooms, byPlayer, id, occupants>>,
           \A o \in Objects : ~In(p, o)
    PROVE  FoundBy(w, p)'
<1>1. /\ p \in Players /\ w \in Procs /\ HandlerTypes /\ who[w] = p
      /\ then[w] = "joining" => id[to[w]] = goal[w]
  BY DEF OwnHandler, RoomsInv, FoundBy, LeavePcs, RemovePcs
<1>2. \A o \in Objects : ~In(p, o)'
  BY DEF In, Registered
<1>3. CASE then[w] = "idle"
  <2>1. pc'[w] = "idle" /\ then'[w] = "idle"
    BY <1>1, <1>3 DEF Continue, Return, Goto, HandlerTypes
  <2>2. QED
    BY <1>1, <1>2, <2>1, FreeMove DEF FreePcs
<1>4. CASE then[w] # "idle"
  <2>1. /\ pc'[w] = then[w] /\ then'[w] = "idle" /\ UNCHANGED <<who, goal, to, id>>
        /\ then[w] \in {"activating", "joining"}
    BY <1>1, <1>4 DEF Continue, Goto, HandlerTypes
  <2>2. QED
    BY <1>1, <1>2, <2>1 DEF FoundBy
<1>5. QED
  BY <1>3, <1>4

\* Leaving: FindByPlayer returns the room the player is in, so that after
\* Room.Leave they are in none when the index forgets them.
LEMMA OwnLeave ==
    ASSUME NEW w, NEW p, OwnHandler(w, p), Leave(w)
    PROVE  FoundBy(w, p)'
<1>1. /\ p \in Players /\ w \in Procs /\ HandlerTypes /\ RoomTypes
      /\ pc[w] \in RemovePcs => from[w] \in Objects
      /\ then[w] = "joining" => id[to[w]] = goal[w]
  BY DEF OwnHandler, RoomsInv, Handlers, FoundBy
<1>2. CASE FindOccupied(w)
  <2>1. /\ pc[w] = "leaving" /\ who[w] = p
        /\ UNCHANGED <<rooms, byPlayer, id, occupants>>
    BY <1>2 DEF FindOccupied, At, registryVars, roomVars, lifeVars, insideVars, OwnHandler
  <2>2. \A o \in Objects : In(p, o) =>
          /\ byPlayer[p] = id[o] /\ byPlayer[p] # None /\ rooms[byPlayer[p]] = o
          /\ then[w] = "joining" /\ id[o] = goal[w] => o = to[w]
    BY <2>1 DEF OwnHandler, FoundBy, In, Registered
  <2>3. CASE byPlayer[p] # None /\ rooms[byPlayer[p]] # None
    <3>1. /\ pc'[w] = "removing" /\ from'[w] = rooms[byPlayer[p]]
          /\ UNCHANGED <<who, goal, to, then>>
      BY <1>1, <1>2, <2>1, <2>3 DEF FindOccupied, Goto, HandlerTypes
    <3>2. \A o \in Objects : In(p, o)' => In(p, o)
      BY <2>1 DEF In, Registered
    <3>3. QED
      BY <1>1, <2>1, <2>2, <3>1, <3>2 DEF FoundBy, RemovePcs
  <2>4. CASE ~(byPlayer[p] # None /\ rooms[byPlayer[p]] # None)
    <3>1. Continue(w)
      BY <1>2, <2>1, <2>4 DEF FindOccupied
    <3>2. \A o \in Objects : ~In(p, o)
      BY <2>2, <2>4
    <3>3. QED
      BY <2>1, <3>1, <3>2, NowhereContinue DEF LeavePcs
  <2>5. QED
    BY <2>3, <2>4
<1>3. CASE RemoveOccupant(w)
  <2>1. /\ pc[w] = "removing" /\ who[w] = p /\ from[w] \in Objects
        /\ UNCHANGED <<rooms, byPlayer, id>>
    BY <1>1, <1>3 DEF RemoveOccupant, At, registryVars, lifeVars, OwnHandler, RemovePcs
  <2>2. \A o \in Objects : In(p, o) => o = from[w]
    BY <2>1 DEF OwnHandler, FoundBy
  <2>3. CASE p \in occupants[from[w]]
    <3>1. /\ pc'[w] = "unindexing" /\ UNCHANGED <<who, goal, to, from, then>>
          /\ occupants' = [occupants EXCEPT ![from[w]] = @ \ {p}]
      BY <1>1, <1>3, <2>1, <2>3 DEF RemoveOccupant, Goto, localVars, HandlerTypes
    <3>2. \A o \in Objects : o # from[w] => occupants'[o] = occupants[o]
      BY <1>1, <3>1 DEF RoomTypes
    <3>3. p \notin occupants'[from[w]]
      BY <1>1, <2>1, <3>1 DEF RoomTypes
    <3>4. \A o \in Objects : ~In(p, o)'
      BY <2>1, <2>2, <3>2, <3>3 DEF In, Registered
    <3>5. QED
      BY <1>1, <2>1, <3>1, <3>4 DEF FoundBy
  <2>4. CASE p \notin occupants[from[w]]
    <3>1. Continue(w) /\ UNCHANGED occupants
      BY <1>3, <2>1, <2>4 DEF RemoveOccupant, insideVars
    <3>2. \A o \in Objects : ~In(p, o)
      BY <2>2, <2>4 DEF In
    <3>3. QED
      BY <2>1, <3>1, <3>2, NowhereContinue DEF LeavePcs, RemovePcs
  <2>5. QED
    BY <2>3, <2>4
<1>4. ASSUME DeleteIndex(w) \/ CheckOwner(w) \/ CheckQueue(w) \/ CheckApprover(w) \/ DrainDoorbell(w)
      PROVE  FoundBy(w, p)'
  <2>1. /\ pc[w] \in RemovePcs \ {"removing"} /\ pc'[w] \in RemovePcs \ {"removing"}
        /\ UNCHANGED <<rooms, id, occupants, who, goal, to, from, then>>
    BY <1>1, <1>4 DEF DeleteIndex, CheckOwner, CheckQueue, CheckApprover, DrainDoorbell, At, Goto,
       HandlerTypes, registryVars, roomVars, lifeVars, insideVars, localVars, RemovePcs
  <2>2. \A o \in Objects : ~In(p, o)'
    BY <2>1 DEF OwnHandler, FoundBy, In, Registered
  <2>3. who[w] = p
    BY <2>1 DEF OwnHandler, RemovePcs
  <2>4. QED
    BY <1>1, <2>1, <2>2, <2>3 DEF FoundBy, RemovePcs
<1>5. CASE FinishLeave(w)
  <2>1. /\ pc[w] = "departed" /\ Continue(w) /\ UNCHANGED <<rooms, byPlayer, id, occupants>>
    BY <1>5 DEF FinishLeave, At, registryVars, roomVars, lifeVars, insideVars
  <2>2. \A o \in Objects : ~In(p, o)
    BY <2>1 DEF OwnHandler, FoundBy, RemovePcs
  <2>3. QED
    BY <2>1, <2>2, NowhereContinue DEF LeavePcs, RemovePcs
<1>6. QED
  BY <1>2, <1>3, <1>4, <1>5 DEF Leave

\* A handler that has begun changes nothing that another one holds, and keeps
\* the player it moves until it returns.
LEMMA HandlerStep ==
    ASSUME HandlerTypes, NEW w \in Procs, Enter(w) \/ Leave(w)
    PROVE  /\ pc[w] \notin {"idle"} \union RingPcs
           /\ \/ pc'[w] = "idle" /\ who'[w] = None
              \/ pc'[w] \notin {"idle"} \union RingPcs /\ who'[w] = who[w]
           /\ \A v \in Procs \ {w} :
                /\ pc'[v] = pc[v] /\ who'[v] = who[v] /\ goal'[v] = goal[v]
                /\ to'[v] = to[v] /\ from'[v] = from[v] /\ then'[v] = then[v]
<1> DEFINE Rest == \A v \in Procs \ {w} : /\ goal'[v] = goal[v] /\ to'[v] = to[v]
                                          /\ from'[v] = from[v] /\ then'[v] = then[v]
           Ends == pc'[w] = "idle" /\ who'[w] = None
           GoesOn == pc'[w] \notin {"idle"} \union RingPcs /\ who'[w] = who[w]
           Apart == \A v \in Procs \ {w} : pc'[v] = pc[v] /\ who'[v] = who[v]
<1>1. pc[w] \notin {"idle"} \union RingPcs
  BY DEF Enter, Leave, CheckPresence, Activate, CheckWorld, LoadWorld,
     FailLoad, FindRoom, CheckIndex, JoinRoom, FailJoin, RetryJoin, IndexPlayer, SetPresence,
     FindOccupied, RemoveOccupant, DeleteIndex, CheckOwner, CheckQueue, CheckApprover,
     DrainDoorbell, FinishLeave, At, RingPcs
<1>2. ASSUME Return(w) PROVE Ends /\ Apart /\ Rest
  BY <1>2 DEF Return, Goto, HandlerTypes
<1>3. ASSUME NEW l \in EnterPcs \union LeavePcs, Goto(w, l), UNCHANGED who PROVE GoesOn /\ Apart
  BY <1>3 DEF Goto, HandlerTypes, EnterPcs, InsidePcs, LeavePcs, RemovePcs, RingPcs
<1>4. ASSUME Continue(w) PROVE (Ends \/ GoesOn) /\ Apart /\ Rest
  <2>1. CASE then[w] = "idle"
    BY <1>2, <1>4, <2>1 DEF Continue
  <2>2. CASE then[w] # "idle"
    <3>1. /\ then[w] \in EnterPcs \union LeavePcs /\ Goto(w, then[w]) /\ UNCHANGED who
          /\ then' = [then EXCEPT ![w] = "idle"] /\ from' = [from EXCEPT ![w] = None]
          /\ UNCHANGED <<goal, to>>
      BY <1>4, <2>2 DEF Continue, HandlerTypes, EnterPcs, InsidePcs
    <3>2. Rest
      BY <3>1 DEF HandlerTypes
    <3>3. QED
      BY <1>3, <3>1, <3>2
  <2>3. QED
    BY <2>1, <2>2
<1>5. CASE \/ CheckPresence(w) \/ Activate(w) \/ CheckWorld(w) \/ LoadWorld(w) \/ CheckIndex(w)
           \/ JoinRoom(w) \/ RetryJoin(w) \/ IndexPlayer(w)
  <2>1. \E l \in EnterPcs \union LeavePcs : Goto(w, l) /\ UNCHANGED who
    BY <1>5 DEF CheckPresence, Activate, CheckWorld, LoadWorld, CheckIndex, JoinRoom, RetryJoin,
       IndexPlayer, localVars, EnterPcs, InsidePcs, LeavePcs
  <2>2. Rest
    BY <1>5 DEF CheckPresence, Activate, CheckWorld, LoadWorld, CheckIndex, JoinRoom, RetryJoin,
       IndexPlayer, localVars, HandlerTypes
  <2>3. QED
    BY <1>1, <1>3, <2>1, <2>2
<1>6. CASE FailLoad(w) \/ FailJoin(w) \/ SetPresence(w)
  BY <1>1, <1>2, <1>6 DEF FailLoad, FailJoin, SetPresence
<1>7. CASE FindRoom(w)
  <2>1. CASE rooms[goal[w]] = None
    BY <1>1, <1>2, <1>7, <2>1 DEF FindRoom
  <2>2. CASE rooms[goal[w]] # None
    <3>1. /\ Goto(w, "found") /\ UNCHANGED <<who, goal, from, then>>
          /\ to' = [to EXCEPT ![w] = rooms[goal[w]]]
      BY <1>7, <2>2 DEF FindRoom
    <3>2. Rest
      BY <3>1 DEF HandlerTypes
    <3>3. QED
      BY <1>1, <1>3, <3>1, <3>2 DEF EnterPcs, InsidePcs
  <2>3. QED
    BY <2>1, <2>2
<1>8. CASE FindOccupied(w)
  <2>1. CASE byPlayer[who[w]] # None /\ rooms[byPlayer[who[w]]] # None
    <3>1. /\ Goto(w, "removing") /\ UNCHANGED <<who, goal, to, then>>
          /\ from' = [from EXCEPT ![w] = rooms[byPlayer[who[w]]]]
      BY <1>8, <2>1 DEF FindOccupied
    <3>2. Rest
      BY <3>1 DEF HandlerTypes
    <3>3. QED
      BY <1>1, <1>3, <3>1, <3>2 DEF LeavePcs, RemovePcs
  <2>2. QED
    BY <1>1, <1>4, <1>8, <2>1 DEF FindOccupied
<1>9. CASE RemoveOccupant(w)
  <2>1. CASE who[w] \in occupants[from[w]]
    BY <1>1, <1>3, <1>9, <2>1 DEF RemoveOccupant, localVars, LeavePcs, RemovePcs
  <2>2. QED
    BY <1>1, <1>4, <1>9, <2>1 DEF RemoveOccupant
<1>10. CASE DeleteIndex(w) \/ CheckOwner(w) \/ CheckQueue(w) \/ CheckApprover(w) \/ DrainDoorbell(w)
  <2>1. (\E l \in EnterPcs \union LeavePcs : Goto(w, l)) /\ UNCHANGED localVars
    BY <1>10 DEF DeleteIndex, CheckOwner, CheckQueue, CheckApprover, DrainDoorbell, LeavePcs, RemovePcs
  <2>2. QED
    BY <1>1, <1>3, <2>1 DEF localVars
<1>11. CASE FinishLeave(w)
  BY <1>1, <1>4, <1>11 DEF FinishLeave
<1>12. QED
  BY <1>5, <1>6, <1>7, <1>8, <1>9, <1>10, <1>11 DEF Enter, Leave

\* A handler moves the player it has and nobody else.
LEMMA OthersStay ==
    ASSUME RoomsInv, NEW w \in Procs, Enter(w) \/ Leave(w), NEW p \in Players, who[w] # p
    PROVE  /\ byPlayer'[p] = byPlayer[p]
           /\ \A o \in Objects :
                /\ In(p, o)' => In(p, o) /\ id'[o] = id[o]
                /\ \A v \in Procs : o = to[v] => id'[o] = id[o]
<1>1. HandlerTypes /\ RoomTypes
  BY DEF RoomsInv
<1>2. byPlayer'[p] = byPlayer[p]
  <2>1. CASE IndexPlayer(w)
    BY <1>1, <2>1 DEF IndexPlayer, RoomTypes
  <2>2. CASE DeleteIndex(w)
    BY <1>1, <2>2 DEF DeleteIndex, RoomTypes
  <2>3. CASE ~IndexPlayer(w) /\ ~DeleteIndex(w)
    BY <2>3 DEF Enter, Leave, CheckPresence, Activate, CheckWorld, LoadWorld,
       FailLoad, FindRoom, CheckIndex, JoinRoom, FailJoin, RetryJoin, SetPresence,
       FindOccupied, RemoveOccupant, CheckOwner, CheckQueue, CheckApprover,
       DrainDoorbell, FinishLeave, registryVars
  <2>4. QED
    BY <2>1, <2>2, <2>3
<1>3. CASE Activate(w)
  BY <1>2, <1>3, ActivateIn
<1>4. CASE ~Activate(w)
  <2>1. UNCHANGED <<rooms, id>>
    BY <1>4 DEF Enter, Leave, CheckPresence, CheckWorld, LoadWorld,
       FailLoad, FindRoom, CheckIndex, JoinRoom, FailJoin, RetryJoin, IndexPlayer, SetPresence,
       FindOccupied, RemoveOccupant, DeleteIndex, CheckOwner, CheckQueue, CheckApprover,
       DrainDoorbell, FinishLeave, registryVars, roomVars, lifeVars
  <2>2. \A o \in Objects : p \in occupants'[o] => p \in occupants[o]
    <3>1. CASE JoinRoom(w)
      BY <1>1, <3>1 DEF JoinRoom, RoomTypes
    <3>2. CASE RemoveOccupant(w)
      BY <1>1, <3>2 DEF RemoveOccupant, insideVars, RoomTypes
    <3>3. CASE ~JoinRoom(w) /\ ~RemoveOccupant(w)
      BY <1>4, <3>3 DEF Enter, Leave, CheckPresence, CheckWorld, LoadWorld,
         FailLoad, FindRoom, CheckIndex, FailJoin, RetryJoin, IndexPlayer, SetPresence,
         FindOccupied, DeleteIndex, CheckOwner, CheckQueue, CheckApprover,
         DrainDoorbell, FinishLeave, roomVars, insideVars
    <3>4. QED
      BY <3>1, <3>2, <3>3
  <2>3. QED
    BY <1>2, <2>1, <2>2 DEF In, Registered
<1>5. QED
  BY <1>3, <1>4

\* A step of a handler that has begun, for whoever nobody else moves.
LEMMA ProceedFound ==
    ASSUME RoomsInv, NEW p \in Players, FoundAt(p),
           \A u, v \in Procs : Moves(u, p) /\ Moves(v, p) => u = v,
           NEW w \in Procs, Proceed(w)
    PROVE  FoundAt(p)'
<1>1. HandlerTypes /\ p # None
  BY DEF RoomsInv
<1>2. CASE Ring(w) \/ NotifyApprovers(w)
  <2>1. /\ pc[w] \in RingPcs
        /\ UNCHANGED <<rooms, byPlayer, id, occupants>>
    BY <1>2 DEF Ring, NotifyApprovers, At, RingPcs, registryVars, lifeVars, insideVars
  <2>2. Return(w) \/ (Goto(w, "notifying") /\ UNCHANGED localVars)
    BY <1>2 DEF Ring, NotifyApprovers
  <2>3. /\ pc'[w] = "notifying" \/ who'[w] = None
        /\ \A v \in Procs \ {w} :
             /\ pc'[v] = pc[v] /\ who'[v] = who[v] /\ goal'[v] = goal[v]
             /\ to'[v] = to[v] /\ from'[v] = from[v] /\ then'[v] = then[v]
    BY <1>1, <2>2 DEF Return, Goto, localVars, HandlerTypes
  <2>4. ~Moves(w, p) /\ ~Moves(w, p)'
    BY <1>1, <2>1, <2>3 DEF Moves, RingPcs
  <2>5. \A v \in Procs \ {w} : Moves(v, p)' <=> Moves(v, p)
    BY <2>3 DEF Moves
  <2>6. \A o \in Objects : In(p, o)' => In(p, o)
    BY <2>1 DEF In, Registered
  <2>7. QED
    BY <2>1, <2>3, <2>4, <2>5, <2>6, FoundKept
<1>3. CASE Enter(w) \/ Leave(w)
  <2>1. /\ pc[w] \notin {"idle"} \union RingPcs
        /\ \/ pc'[w] = "idle" /\ who'[w] = None
           \/ pc'[w] \notin {"idle"} \union RingPcs /\ who'[w] = who[w]
        /\ \A v \in Procs \ {w} :
             /\ pc'[v] = pc[v] /\ who'[v] = who[v] /\ goal'[v] = goal[v]
             /\ to'[v] = to[v] /\ from'[v] = from[v] /\ then'[v] = then[v]
    BY <1>1, <1>3, HandlerStep
  <2>2. \A v \in Procs \ {w} : Moves(v, p)' <=> Moves(v, p)
    BY <2>1 DEF Moves
  <2>3. CASE who[w] = p
    <3>1. Moves(w, p)
      BY <2>1, <2>3 DEF Moves, RingPcs
    <3>2. OwnHandler(w, p)
      BY <2>3, <3>1 DEF OwnHandler, FoundAt
    <3>3. FoundBy(w, p)'
      BY <1>3, <3>2, OwnEnter, OwnJoin, OwnLeave DEF Enter
    <3>4. \A v \in Procs \ {w} : ~Moves(v, p)'
      BY <2>2, <3>1
    <3>5. ~Moves(w, p)' => pc'[w] = "idle"
      BY <2>1, <2>3 DEF Moves, RingPcs
    <3>6. ~Moves(w, p)' => Indexed(p)'
      BY <3>3, <3>5 DEF FoundBy, Indexed
    <3>7. QED
      BY <3>3, <3>4, <3>6 DEF FoundAt
  <2>4. CASE who[w] # p
    <3>1. ~Moves(w, p) /\ ~Moves(w, p)'
      BY <1>1, <2>1, <2>4 DEF Moves
    <3>2. /\ byPlayer'[p] = byPlayer[p]
          /\ \A o \in Objects :
               /\ In(p, o)' => In(p, o) /\ id'[o] = id[o]
               /\ \A v \in Procs : o = to[v] => id'[o] = id[o]
      BY <1>3, <2>4, OthersStay
    <3>3. QED
      BY <2>1, <2>2, <3>1, <3>2, FoundKept
  <2>5. QED
    BY <2>3, <2>4
<1>4. QED
  BY <1>2, <1>3 DEF Proceed

\* A handler that begins, for whoever it does not begin to move while another does.
LEMMA BeginFound ==
    ASSUME RoomsInv, NEW p \in Players, FoundAt(p),
           \A u, v \in Procs : Moves(u, p)' /\ Moves(v, p)' => u = v,
           NEW w \in Procs, (w \in Players /\ Packet(w)) \/ \E q \in Players : BeginRemoval(w, q)
    PROVE  FoundAt(p)'
<1>1. HandlerTypes /\ p # None
  BY DEF RoomsInv
<1>2. pc[w] = "idle" /\ UNCHANGED <<rooms, byPlayer, id, occupants, from, then>>
  BY DEF Packet, BeginEnter, BeginLeave, BeginRing, Respond, BeginRemoval, At, registryVars,
     roomVars, lifeVars, insideVars
<1>3. who[w] = None /\ then[w] = "idle"
  BY <1>2 DEF RoomsInv, Handlers, HandlerTypes, LeavePcs, RemovePcs
<1>4. \A v \in Procs \ {w} :
        pc'[v] = pc[v] /\ who'[v] = who[v] /\ goal'[v] = goal[v] /\ to'[v] = to[v]
  BY <1>1 DEF Packet, BeginEnter, BeginLeave, BeginRing, Respond, BeginRemoval, Goto, HandlerTypes
<1>5. pc'[w] \in {"entering", "leaving", "ringing"} \/ who'[w] = who[w]
  BY <1>1 DEF Packet, BeginEnter, BeginLeave, BeginRing, Respond, BeginRemoval, Goto, HandlerTypes
<1>6. \A o \in Objects : In(p, o)' => In(p, o)
  BY <1>2 DEF In, Registered
<1>7. ~Moves(w, p) /\ \A v \in Procs \ {w} : Moves(v, p)' <=> Moves(v, p)
  BY <1>1, <1>3, <1>4 DEF Moves
<1>8. CASE Moves(w, p)'
  <2>1. \A v \in Procs \ {w} : ~Moves(v, p)'
    BY <1>8
  <2>2. Indexed(p)
    BY <1>7, <2>1 DEF FoundAt
  <2>3. pc'[w] \in {"entering", "leaving"}
    BY <1>1, <1>3, <1>5, <1>8 DEF Moves
  <2>4. FoundBy(w, p)'
    BY <1>2, <1>3, <1>6, <2>2, <2>3, FreeMove DEF Indexed, FreePcs
  <2>5. QED
    BY <1>8, <2>1, <2>4 DEF FoundAt
<1>9. CASE ~Moves(w, p)'
  BY <1>2, <1>4, <1>6, <1>7, <1>9, FoundKept
<1>10. QED
  BY <1>8, <1>9

\* A step of no handler: Close takes a room out of the registry and empties it.
LEMMA RoomStepFound ==
    ASSUME RoomsInv, NEW p \in Players, FoundAt(p),
           \/ \E i \in Closable : Unregister(i)
           \/ \E o \in Objects : CloseRoom(o) \/ \E v \in Players : SweepDoorbell(o, v)
    PROVE  FoundAt(p)'
<1>1. RoomTypes /\ UNCHANGED <<id, pc, who, goal, to, from, then>>
  BY DEF RoomsInv, Unregister, CloseRoom, SweepDoorbell, procVars, localVars, lifeVars
<1>2. \A w \in Procs : Moves(w, p)' <=> Moves(w, p)
  BY <1>1 DEF Moves
<1>3. ASSUME NEW o \in Objects, In(p, o)'
      PROVE  In(p, o) /\ (byPlayer'[p] = byPlayer[p] \/ byPlayer[p] # id[o])
  <2>1. ASSUME NEW i \in Closable, Unregister(i)
        PROVE  In(p, o) /\ (byPlayer'[p] = byPlayer[p] \/ byPlayer[p] # id[o])
    <3>1. /\ rooms' = [rooms EXCEPT ![i] = None] /\ byPlayer' = Forget(i)
          /\ UNCHANGED occupants
      BY <2>1 DEF Unregister, insideVars
    <3>2. id[o] # i /\ In(p, o)
      BY <1>1, <1>3, <3>1 DEF In, Registered, RoomTypes
    <3>3. byPlayer[p] # i => byPlayer'[p] = byPlayer[p]
      BY <3>1 DEF Forget
    <3>4. QED
      BY <3>2, <3>3
  <2>2. ASSUME NEW q \in Objects, CloseRoom(q) PROVE In(p, o) /\ byPlayer'[p] = byPlayer[p]
    <3>1. occupants' = [occupants EXCEPT ![q] = {}] /\ UNCHANGED <<rooms, byPlayer>>
      BY <2>2 DEF CloseRoom, registryVars
    <3>2. occupants'[o] \subseteq occupants[o]
      BY <1>1, <3>1 DEF RoomTypes
    <3>3. QED
      BY <1>1, <1>3, <3>1, <3>2 DEF In, Registered
  <2>3. ASSUME NEW q \in Objects, NEW v \in Players, SweepDoorbell(q, v)
        PROVE  In(p, o) /\ byPlayer'[p] = byPlayer[p]
    BY <1>1, <1>3, <2>3 DEF SweepDoorbell, registryVars, insideVars, In, Registered
  <2>4. QED
    BY <2>1, <2>2, <2>3
<1>4. QED
  BY <1>1, <1>2, <1>3, FoundKept

\* Every step keeps the index and the rooms together for whoever no two
\* goroutines have moved at once.
LEMMA FoundNext == ASSUME RoomsInv, FoundInv, Next PROVE FoundInv'
<1>1. SUFFICES ASSUME NEW p \in Players \ overlapped'
               PROVE  /\ FoundAt(p)'
                      /\ \A v, w \in Procs : Moves(v, p)' /\ Moves(w, p)' => v = w
  BY DEF FoundInv
<1>2. p \notin overlapped /\ \A v, w \in Procs : Moves(v, p)' /\ Moves(w, p)' => v = w
  BY <1>1 DEF Next, Record
<1>3. FoundAt(p) /\ \A v, w \in Procs : Moves(v, p) /\ Moves(w, p) => v = w
  BY <1>1, <1>2 DEF FoundInv
<1>4. CASE \E w \in Procs : Proceed(w)
  <2>1. PICK w \in Procs : Proceed(w)
    BY <1>4
  <2>2. QED
    BY <1>1, <1>2, <1>3, <2>1, ProceedFound
<1>5. CASE (\E w \in Players : Packet(w)) \/ \E s \in Staff, q \in Players : BeginRemoval(s, q)
  <2>1. PICK w \in Procs :
          (w \in Players /\ Packet(w)) \/ \E q \in Players : BeginRemoval(w, q)
    BY <1>5 DEF Procs
  <2>2. QED
    BY <1>1, <1>2, <1>3, <2>1, BeginFound
<1>6. CASE \/ \E i \in Closable : Unregister(i)
           \/ \E o \in Objects : CloseRoom(o) \/ \E v \in Players : SweepDoorbell(o, v)
  BY <1>1, <1>2, <1>3, <1>6, RoomStepFound
<1>7. QED
  BY <1>4, <1>5, <1>6 DEF Next, Step

\* The index agrees with the rooms: in rooms that open, close and open again, a
\* player whom no two goroutines have moved at the same time, but any number in
\* turn, is in one active room at most and FindByPlayer returns it.
THEOREM PlayersAreFound == Spec => []OccupantsAreFound
<1>1. FoundInv /\ RoomsInv => OccupantsAreFound
  <2>1. SUFFICES ASSUME FoundInv, RoomsInv, NEW o \in Objects, Registered(o),
                        NEW p \in occupants[o] \ overlapped
                 PROVE  /\ byPlayer[p] = id[o] \/ \E w \in Procs : who[w] = p /\ At(w, "indexing")
                        /\ \A q \in Objects \ {o} : Registered(q) => p \notin occupants[q]
    BY DEF OccupantsAreFound
  <2>2. p \in Players /\ FoundAt(p) /\ In(p, o)
    BY <2>1 DEF RoomsInv, RoomTypes, FoundInv, In
  <2>3. CASE \E w \in Procs : Moves(w, p)
    <3>1. PICK w \in Procs : Moves(w, p)
      BY <2>3
    <3>2. FoundBy(w, p) /\ who[w] = p
      BY <2>2, <3>1 DEF FoundAt, Moves
    <3>3. CASE pc[w] = "indexing"
      BY <2>2, <3>2, <3>3 DEF FoundBy, In, At
    <3>4. CASE pc[w] # "indexing"
      BY <2>2, <3>2, <3>4 DEF FoundBy, In, Registered
    <3>5. QED
      BY <3>3, <3>4
  <2>4. CASE \A w \in Procs : ~Moves(w, p)
    BY <2>2, <2>4 DEF FoundAt, Indexed, In, Registered
  <2>5. QED
    BY <2>3, <2>4
<1>2. ASSUME FoundInv, UNCHANGED vars PROVE FoundInv'
  <2>1. /\ overlapped' = overlapped
        /\ UNCHANGED <<rooms, byPlayer, id, occupants, pc, who, goal, to, from, then>>
    BY <1>2 DEF vars, codeVars, registryVars, roomVars, lifeVars, insideVars, procVars, localVars
  <2>2. \A p \in Players : FoundAt(p)' <=> FoundAt(p)
    BY <2>1 DEF FoundAt, Moves, FoundBy, Indexed, In, Registered
  <2>3. \A p \in Players, w \in Procs : Moves(w, p)' <=> Moves(w, p)
    BY <2>1 DEF Moves
  <2>4. QED
    BY <1>2, <2>1, <2>2, <2>3 DEF FoundInv
<1>3. RoomsInv /\ FoundInv /\ [Next]_vars => FoundInv'
  BY <1>2, FoundNext
<1>4. QED
  BY <1>1, <1>3, FoundInit, RoomsInductive, PTL DEF Spec
=============================================================================
