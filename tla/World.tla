------------------------------- MODULE World --------------------------------
(***************************************************************************)
(* The world of one active room: units that walk planned paths one tile a  *)
(* tick (src/internal/realm/room/world/runtime, .../unit, .../path), seats *)
(* and mounts, and the goroutines that command them through                *)
(* src/internal/realm/room/runtime/live/movement.go: the players' own, a   *)
(* moderator's, and the room loop, which ticks and completes exits.        *)
(*                                                                         *)
(* A tile has one section instead of a column of them, without its height. *)
(* A search is any shortest path; it observes at least the columns it      *)
(* expands on the way.  It reads the columns outside of the room's lock;   *)
(* a torn read is a version that Validate refuses.                         *)
(***************************************************************************)
EXTENDS Integers, Sequences, SequencesExt, Functions, FiniteSets

CONSTANTS
    Tiles,      \* the valid points of the grid
    Adjacent,   \* pairs of neighbouring tiles
    Door,       \* World.door
    Players,
    Pets,
    Order,      \* World.sortedPlayerIDs: the players and pets as a sequence
    Commands,   \* bound: commands given to units
    Changes,    \* bound: changes of furniture
    Kinds       \* the kinds of commands that are given

Units == Players \union Pets

ASSUME WorldAssumption ==
    /\ IsFiniteSet(Tiles) /\ Door \in Tiles /\ Adjacent \subseteq Tiles \X Tiles
    /\ Players \intersect Pets = {}
    /\ Order \in Seq(Units) /\ \A u \in Units : \E i \in DOMAIN Order : Order[i] = u
    /\ \A i, j \in DOMAIN Order : Order[i] = Order[j] => i = j
    /\ Commands \in Nat /\ Changes \in Nat

VARIABLES
    world,    \* the units, the seats and the mounts, as a record
    tile,     \* the state of each tile's top section
    version,  \* Resolver.versions
    job,      \* what each player's goroutine has still to do with its walk
    kick,     \* the exits that are planned and not applied
    leaving,  \* the exits the loop has still to complete
    used     \* how much of Commands and Changes is used

surface == <<tile, version>>
room == <<world, surface, job, kick, leaving, used>>

Standing(t) == [at |-> t, steps |-> <<>>, settling |-> FALSE, control |-> "none", seen |-> <<>>]
Idle == [step |-> "idle"]

\* The room is loaded, its players and pets have entered.
WorldInit ==
    /\ \E t \in Tiles :
          world = [unit |-> [u \in Units |-> Standing(IF u \in Pets THEN t ELSE Door)],
                   seat |-> <<>>, sitter |-> <<>>, rides |-> {}]
    /\ tile = [t \in Tiles |-> "open"]
    /\ version = [t \in Tiles |-> 0]
    /\ job = [u \in Players |-> Idle]
    /\ kick = <<>> /\ leaving = <<>>
    /\ used = [commands |-> 0, changes |-> 0]

Present(w) == DOMAIN w.unit
With(f, x, v) == [y \in DOMAIN f \union {x} |-> IF y = x THEN v ELSE f[y]]
Without(f, x) == Restrict(f, DOMAIN f \ {x})

(***************************************************************************)
(* Operations of the world, each under the room's lock.                    *)
(***************************************************************************)
\* mount.State.Linked: a unit and the one it moves with.
Linked(w, u) == {u} \union {v \in Present(w) : {<<u, v>>, <<v, u>>} \intersect w.rides # {}}

InMotion(x) == x.steps # <<>> \/ x.settling
Cleared(x) == [x EXCEPT !.steps = <<>>, !.settling = FALSE, !.seen = <<>>]
Stopped(x) ==
    IF InMotion(x) THEN [x EXCEPT !.steps = <<>>, !.settling = TRUE, !.seen = <<>>] ELSE x
Controlled(x, c) == [Cleared(x) EXCEPT !.control = c]
Repositioned(x, t, c) == [Controlled(x, c) EXCEPT !.at = t]

Update(w, S, F) == [w EXCEPT !.unit = [u \in Present(w) |-> IF u \in S THEN F[u] ELSE w.unit[u]]]
Stop(w, u) == Update(w, Linked(w, u), [v \in Linked(w, u) |-> Stopped(w.unit[v])])

ReleaseNobody(w, S) == w
\* releaseSlot deletes whoever the slot belongs to by now.
ReleaseAll(w, S) ==
    LET slots == {w.seat[u] : u \in S \intersect DOMAIN w.seat}
    IN  [w EXCEPT !.seat = Restrict(w.seat, DOMAIN w.seat \ S),
                  !.sitter = Restrict(w.sitter, DOMAIN w.sitter \ slots)]
Release(w, u) == ReleaseAll(w, {u})
Occupy(w, u, t) ==
    LET r == Release(w, u)
    IN  [r EXCEPT !.seat = With(r.seat, u, t), !.sitter = With(r.sitter, t, u)]

Unlink(w, u) ==
    LET pair == Linked(w, u) IN
    IF pair = {u} THEN w
    ELSE [Update(w, pair, [v \in pair |-> [Stopped(w.unit[v]) EXCEPT !.control = "none"]])
             EXCEPT !.rides = {r \in w.rides : u \notin {r[1], r[2]}}]

RemoveUnit(w, u) ==
    LET r == Release(Unlink(w, u), u) IN [r EXCEPT !.unit = Without(r.unit, u)]

\* assignLinkedPath.
OwnOnly(w, u) == {u}
Moves(w, u) == Linked(w, u)
AssignPath(w, u, steps, seen, c) ==
    LET r == ReleaseAll(w, Moves(w, u))
    IN  Update(r, Moves(w, u),
               [v \in Moves(w, u) |->
                   [r.unit[v] EXCEPT !.steps = steps, !.settling = FALSE, !.seen = seen,
                                     !.control = IF c = "none" THEN @ ELSE c]])

\* repositionUnit.
Reposition(w, u, t, c) ==
    LET r == ReleaseAll(w, Linked(w, u))
    IN  Update(r, Linked(w, u), [v \in Linked(w, u) |-> Repositioned(r.unit[v], t, c)])

(***************************************************************************)
(* Planning.                                                               *)
(***************************************************************************)
Valid(seen) == \A t \in DOMAIN seen : version[t] = seen[t]

\* occupancyExcept: where the others are and where they go.
Occupied(u) ==
    UNION {{world.unit[v].at} \union
           (IF world.unit[v].steps = <<>> THEN {} ELSE {Last(world.unit[v].steps)}) :
           v \in Present(world) \ Linked(world, u)}

Enterable(t, goal, taken) ==
    t \notin taken /\ (tile[t] = "open" \/ (tile[t] = "seat" /\ t = goal))
Routes(from, goal, taken) ==
    LET paths == {p \in UNION {[1 .. n -> Tiles] : n \in 0 .. Cardinality(Tiles) - 1} :
                    /\ (IF p = <<>> THEN from ELSE Last(p)) = goal
                    /\ \A i \in DOMAIN p :
                         /\ Enterable(p[i], goal, taken)
                         /\ <<IF i = 1 THEN from ELSE p[i - 1], p[i]>> \in Adjacent}
    IN  {p \in paths : \A q \in paths : Len(p) <= Len(q)}

\* The columns a search reads: its start, its goal and the neighbours of what it expands.
Observed(from, path) ==
    LET expanded == {from} \union {path[i] : i \in 1 .. Len(path) - 1}
        read == expanded \union {t \in Tiles : \E e \in expanded : <<e, t>> \in Adjacent}
    IN  [t \in read |-> version[t]]

\* PlanMovement and FindPath.
Plans(u, goal, c) ==
    LET from == world.unit[u].at
    IN  {[step |-> "apply", path |-> p, seen |-> Observed(from, p), control |-> c] :
            p \in Routes(from, goal, Occupied(u))}

Command(kind) ==
    /\ kind \in Kinds /\ used.commands < Commands
    /\ used' = [used EXCEPT !.commands = @ + 1]

\* The walk handler.  A path without steps changes nothing.
Walk(u) ==
    /\ job[u] = Idle /\ u \in Present(world) /\ Command("walk")
    /\ \E goal \in Tiles :
          LET plans == Plans(u, goal, "none") IN
          IF plans = {} THEN job' = [job EXCEPT ![u] = [step |-> "miss"]]
          ELSE \E p \in plans :
                  job' = [job EXCEPT ![u] = IF p.path = <<>> THEN Idle ELSE p]
    /\ UNCHANGED <<world, surface, kick, leaving>>

\* ApplyControlledMovement: the unit may have moved since, which is not looked at.
Applies(u, p) ==
    /\ u \in Present(world) /\ Valid(p.seen)
    /\ p.control # "none" \/ world.unit[u].control = "none"

ApplyWalk(u) ==
    LET p == job[u] IN
    /\ p.step = "apply"
    /\ IF Applies(u, p)
       THEN /\ world' = AssignPath(world, u, p.path, p.seen, p.control)
            /\ job' = [job EXCEPT ![u] = Idle]
       ELSE /\ UNCHANGED world
            /\ job' = [job EXCEPT ![u] =
                  IF u \in Present(world) /\ world.unit[u].control = "none"
                  THEN [step |-> "miss"] ELSE Idle]
    /\ UNCHANGED <<surface, kick, leaving, used>>

\* handleMoveError: a unit in motion is stopped, whoever controls it.
Miss(u) ==
    /\ job[u].step = "miss"
    /\ IF u \in Present(world) /\ \E v \in Linked(world, u) : InMotion(world.unit[v])
       THEN world' = Stop(world, u) /\ job' = [job EXCEPT ![u] = Idle]
       ELSE UNCHANGED world /\ job' = [job EXCEPT ![u] = [step |-> "face"]]
    /\ UNCHANGED <<surface, kick, leaving, used>>

\* FaceTo leaves exiting and sitting units alone.
Face(u) ==
    /\ job[u].step = "face"
    /\ job' = [job EXCEPT ![u] = Idle]
    /\ IF u \in Present(world) /\ world.unit[u].control # "exiting" /\ u \notin DOMAIN world.seat
       THEN world' = Update(world, Linked(world, u),
                            [v \in Linked(world, u) |-> Cleared(world.unit[v])])
       ELSE UNCHANGED world
    /\ UNCHANGED <<surface, kick, leaving, used>>

(***************************************************************************)
(* Being kicked: Broadcaster.Kick, which removes who cannot walk.          *)
(***************************************************************************)
Kick(u) ==
    /\ u \in Present(world) /\ u \notin DOMAIN kick /\ Command("kick")
    /\ LET plans == {p \in Plans(u, Door, "exiting") : p.path # <<>>} IN
       IF plans = {} THEN world' = RemoveUnit(world, u) /\ UNCHANGED kick
       ELSE UNCHANGED world /\ \E p \in plans : kick' = With(kick, u, p)
    /\ UNCHANGED <<surface, job, leaving>>

ApplyKick(u) ==
    /\ u \in DOMAIN kick
    /\ world' = IF Applies(u, kick[u])
                THEN AssignPath(world, u, kick[u].path, kick[u].seen, "exiting")
                ELSE IF u \in Present(world) THEN RemoveUnit(world, u) ELSE world
    /\ kick' = Without(kick, u)
    /\ UNCHANGED <<surface, job, leaving, used>>

(***************************************************************************)
(* Other commands.                                                         *)
(***************************************************************************)
Enter(u) ==
    /\ u \notin Present(world) /\ u \in Players /\ Command("enter")
    /\ world' = [world EXCEPT !.unit = With(@, u, Standing(Door))]
    /\ UNCHANGED <<surface, job, kick, leaving>>

AddEntity(u) ==
    /\ u \notin Present(world) /\ u \in Pets /\ Command("enter")
    /\ \E t \in Tiles :
          /\ tile[t] # "blocked" /\ \A v \in Present(world) : world.unit[v].at # t
          /\ world' = [world EXCEPT !.unit = With(@, u, Standing(t))]
    /\ UNCHANGED <<surface, job, kick, leaving>>

Leave(u) ==
    /\ u \in Present(world) /\ Command("leave")
    /\ world' = RemoveUnit(world, u)
    /\ UNCHANGED <<surface, job, kick, leaving>>

\* stopDecoratorMovement.
Decorate(u) ==
    /\ u \in Present(world) /\ Command("decorate")
    /\ world' = Stop(world, u)
    /\ UNCHANGED <<surface, job, kick, leaving>>

\* TeleportUnit: the door of a teleport holds the unit, another effect releases it.
Teleport(u) ==
    /\ u \in Present(world) /\ Command("teleport")
    /\ \E t \in Tiles, c \in {"none", "teleporting"} : world' = Reposition(world, u, t, c)
    /\ UNCHANGED <<surface, job, kick, leaving>>

\* SetUnitControl and ReleaseControl of games, cannons and switches.
Control(u) ==
    /\ u \in Present(world) /\ Command("control")
    /\ \E c \in {"none", "frozen"} :
          world' = Update(world, Linked(world, u),
                          [v \in Linked(world, u) |-> Controlled(world.unit[v], c)])
    /\ UNCHANGED <<surface, job, kick, leaving>>

\* State.Set.
Mount(u, pet) ==
    /\ {u, pet} \subseteq Present(world) /\ Command("mount")
    /\ Linked(world, u) \union Linked(world, pet) \subseteq {u, pet}
    /\ LET t == world.unit[pet].at
           moved == Update(world, {u, pet},
                           [v \in {u, pet} |-> Repositioned(world.unit[v], t, "none")])
       IN  world' = ReleaseAll([moved EXCEPT !.rides = @ \union {<<u, pet>>}], {u, pet})
    /\ UNCHANGED <<surface, job, kick, leaving>>

Dismount(u, pet) ==
    /\ <<u, pet>> \in world.rides /\ Command("mount")
    /\ world' = ReleaseAll(Unlink(world, u), {u, pet})
    /\ UNCHANGED <<surface, job, kick, leaving>>

\* ReloadFurniture: the sitter of a seat that is gone stands up.
Reload(t) ==
    /\ used.changes < Changes
    /\ used' = [used EXCEPT !.changes = @ + 1]
    /\ \E s \in {"open", "seat", "blocked"} :
          /\ s = "open" => tile[t] # "open"
          /\ tile' = [tile EXCEPT ![t] = s]
          /\ world' = IF tile[t] = "seat" /\ s # "seat" /\ t \in DOMAIN world.sitter
                      THEN Release(world, world.sitter[t]) ELSE world
    /\ version' = [version EXCEPT ![t] = @ + 1]
    /\ UNCHANGED <<job, kick, leaving>>

(***************************************************************************)
(* The room loop: World.Tick, then the exits among its movements.          *)
(***************************************************************************)
Advanced(x) ==
    [x EXCEPT !.at = Head(x.steps), !.steps = Tail(x.steps), !.settling = Len(x.steps) = 1]

Settled(w, u) ==
    LET x == w.unit[u]
        still == [w EXCEPT !.unit[u] = [x EXCEPT !.settling = FALSE]]
    IN  IF tile[x.at] = "seat" THEN Occupy(still, u, x.at) ELSE still

\* One unit's part of a tick; r is the world so far and the exits so far.
OutdatedNever(x) == FALSE
Outdated(x) == ~Valid(x.seen)
Step(r, u) ==
    IF u \notin Present(r.world) THEN r
    ELSE LET x == r.world.unit[u]
             exits(leave) == IF leave /\ u \in Players THEN Append(r.exits, u) ELSE r.exits
         IN  CASE x.steps # <<>> /\ Outdated(x) ->
                     [world |-> [r.world EXCEPT !.unit[u] = Cleared(x)],
                      exits |-> exits(x.control = "exiting")]
               [] x.steps # <<>> /\ ~Outdated(x) ->
                     [r EXCEPT !.world.unit[u] = Advanced(x)]
               [] x.steps = <<>> /\ x.settling ->
                     [world |-> Settled(r.world, u), exits |-> exits(x.at = Door)]
               [] OTHER -> r

\* The world and the exits after the first units.
Ticked[k \in 0 .. Len(Order)] ==
    IF k = 0 THEN [world |-> world, exits |-> <<>>] ELSE Step(Ticked[k - 1], Order[k])

Tick ==
    LET r == Ticked[Len(Order)] IN
    /\ leaving = <<>> /\ \E u \in Present(world) : InMotion(world.unit[u])
    /\ world' = r.world /\ leaving' = r.exits
    /\ UNCHANGED <<surface, job, kick, used>>

\* leavecmd.Handler.ToDesktop of the first of them.
Exit ==
    /\ leaving # <<>>
    /\ world' = IF Head(leaving) \in Present(world) THEN RemoveUnit(world, Head(leaving)) ELSE world
    /\ leaving' = Tail(leaving)
    /\ UNCHANGED <<surface, job, kick, used>>

Finish(u) == ApplyWalk(u) \/ Miss(u) \/ Face(u) \/ ApplyKick(u)
Orders(u) ==
    \/ Walk(u) \/ Kick(u) \/ Enter(u) \/ Leave(u) \/ Decorate(u) \/ Teleport(u) \/ Control(u)
    \/ \E pet \in Pets : Mount(u, pet) \/ Dismount(u, pet)

WorldNext ==
    \/ \E u \in Players : Orders(u) \/ Finish(u)
    \/ \E pet \in Pets : AddEntity(pet) \/ Leave(pet) \/ Teleport(pet) \/ Control(pet)
    \/ \E t \in Tiles : Reload(t)
    \/ Tick \/ Exit

(***************************************************************************)
(* Properties.                                                             *)
(***************************************************************************)
\* Whoever commands either of them, and whatever was planned before they were
\* linked, a rider and its mount share tile, path and control.
MountedTogether ==
    \A r \in world.rides :
        /\ {r[1], r[2]} \subseteq Present(world)
        /\ world.unit[r[1]] = world.unit[r[2]]

\* A tick moves a unit only onto a tile that is walkable now, however long ago its
\* path was found, and onto a seat only to stay there.
StepsAreWalkable ==
    [][\A u \in Present(world) \intersect Present(world') :
          LET x == world.unit[u]
              y == world'.unit[u]
          IN  x.steps # <<>> /\ y = Advanced(x) =>
                  \/ tile[y.at] = "open"
                  \/ tile[y.at] = "seat" /\ y.steps = <<>>]_room

\* The occupant World.slotOccupants records of a seat is there, rests, and knows it;
\* the seat still exists.
SittersSit ==
    \A t \in DOMAIN world.sitter :
        LET u == world.sitter[t] IN
        /\ tile[t] = "seat" /\ u \in Present(world)
        /\ world.unit[u].at = t /\ ~InMotion(world.unit[u])
        /\ u \in DOMAIN world.seat /\ world.seat[u] = t

============================================================================
