------------------------------ MODULE Breeding ------------------------------
(***************************************************************************)
(* Breeding of pets (src/internal/realm/pet/breeding) in one room: the     *)
(* session a nest has in pet_breeding_sessions, the pets' rows, and the    *)
(* copies of them the room shows, from which parents are validated.  The   *)
(* database serialises what it is asked to: SaveBreedingSession by         *)
(* advisory locks, everything else by comparing versions.                  *)
(*                                                                         *)
(* A breeder is the goroutine of a connection, in the room.  Every pet is  *)
(* grown, breedable by others and compatible with every other one, and     *)
(* keeps its owner.                                                        *)
(***************************************************************************)
EXTENDS Integers, FiniteSets, FiniteSetsExt

CONSTANTS
    Breeders,      \* players who own pets
    Parents,       \* their pets
    OwnerOf,       \* whose each one is
    Nests,         \* pet breeding nests, by item id
    Seasons,       \* what happens apart from breeding, one of these records
    Refreshes,     \* bound: the version up to which a session is started again
    Changes        \* bound: the version up to which a pet is moved or treated

ASSUME BreedingAssumption ==
    /\ OwnerOf \in [Parents -> Breeders]
    /\ Nests \subseteq Nat \ {0}
    /\ \A s \in Seasons :
          /\ s.placed \union s.taken \union s.brought \subseteq Nests
          /\ s.pairs \subseteq {pair \in SUBSET Parents : Cardinality(pair) = 2}
          /\ s.pets \union s.treated \subseteq Parents /\ s.cancels \in BOOLEAN
          /\ s.closes \in BOOLEAN

VARIABLES
    season,
    nests,         \* the nests in the room
    open,          \* the room: "open", "closing" or "closed"
    pets,          \* rows of pets
    shown,         \* the room's copies of them, Absent if there is none
    sessions,      \* rows of pet_breeding_sessions
    granted,       \* the breeding keys of pet_operations
    doing          \* what each breeder's handler has still to do

breeding == <<season, nests, open, pets, shown, sessions, granted, doing>>

Absent == [able |-> FALSE, version |-> 0]
NoSession == [pair |-> {}, agreed |-> {}, state |-> "none", expired |-> FALSE, version |-> 0]
Nothing == [at |-> "rest"]
Pairs == season.pairs

BreedingInit ==
    /\ season \in Seasons
    /\ nests = season.placed /\ open = "open"
    /\ pets = [p \in Parents |-> [place |-> "room", able |-> TRUE, version |-> 1]]
    /\ shown = [p \in Parents |-> [able |-> TRUE, version |-> 1]]
    /\ sessions = [n \in Nests |-> NoSession]
    /\ granted = {}
    /\ doing = [b \in Breeders |-> Nothing]

Resting(b) == doing[b] = Nothing
At(b, step) == doing[b].at = step
Goes(b, job) == doing' = [doing EXCEPT ![b] = job]
Copy(row) == [able |-> row.able, version |-> row.version]
Own(b) == {p \in Parents : OwnerOf[p] = b}
Active(n) == sessions[n].state \in {"requested", "confirmed"}

\* Locks of transactions that are not committed: advisory ones, and on rows.
NestOnly(n, pair) == {n}
Serialised(n, pair) == NestOnly(n, pair) \union pair
Advised(b) ==
    IF doing[b].at \in {"save", "save commit"} THEN Serialised(doing[b].nest, doing[b].pair) ELSE {}
Written(b) ==
    CASE doing[b].at = "save commit" -> {doing[b].nest}
      [] doing[b].at = "take" -> doing[b].cancelled
      [] OTHER -> {}
Free(b, locks) == \A c \in Breeders \ {b} : Advised(c) \intersect locks = {}
RowFree(n) == \A c \in Breeders : n \notin Written(c)

\* parents: the room shows both, one is the actor's, and both may breed.
Willing(b, pair) ==
    /\ \A p \in pair : shown[p] # Absent /\ shown[p].able
    /\ pair \intersect Own(b) # {}

(***************************************************************************)
(* Start: the first owner asks, the other one agrees, or the only one asks *)
(* twice.                                                                  *)
(***************************************************************************)
Start(b) ==
    /\ Resting(b) /\ open = "open" /\ nests # {}
    /\ Active(Min(nests)) => sessions[Min(nests)].version < Refreshes
    /\ \E pair \in Pairs :
          /\ Willing(b, pair)
          \* now() is the time the transaction began.
          /\ Goes(b, [at |-> "lock", nest |-> Min(nests), pair |-> pair,
                      late |-> {n \in Nests : sessions[n].expired}])
    /\ UNCHANGED <<season, nests, open, pets, shown, sessions, granted>>

Lock(b) ==
    /\ At(b, "lock") /\ Free(b, Serialised(doing[b].nest, doing[b].pair))
    /\ Goes(b, [doing[b] EXCEPT !.at = "save"])
    /\ UNCHANGED <<season, nests, open, pets, shown, sessions, granted>>

\* The row the upsert writes, NoSession if it writes none.
Lapsed(job, n) == sessions[n].expired /\ n \in job.late
Engaged(job) ==
    \E m \in Nests \ {job.nest} :
        Active(m) /\ ~Lapsed(job, m) /\ sessions[m].pair \intersect job.pair # {}
Upsert(b, job) ==
    LET old == sessions[job.nest]
        mine == job.pair \intersect Own(b)
        agreed == old.agreed \union mine
    IN  IF Engaged(job) THEN NoSession
        ELSE IF ~Active(job.nest) \/ Lapsed(job, job.nest)
        THEN [pair |-> job.pair, agreed |-> mine, state |-> "requested",
              expired |-> FALSE, version |-> 1]
        ELSE IF old.pair = job.pair
        THEN [old EXCEPT !.agreed = agreed, !.expired = FALSE, !.version = @ + 1,
                   !.state = IF agreed = job.pair THEN "confirmed" ELSE "requested"]
        ELSE NoSession

\* Nothing stored rolls the deletion of an ended session back.
Save(b) ==
    /\ At(b, "save") /\ RowFree(doing[b].nest)
    /\ LET job == doing[b]
           saved == Upsert(b, job)
       IN  Goes(b, IF saved = NoSession THEN Nothing
                   ELSE [at |-> "save commit", nest |-> job.nest, pair |-> job.pair,
                         saved |-> saved])
    /\ UNCHANGED <<season, nests, open, pets, shown, sessions, granted>>

SaveCommit(b) ==
    /\ At(b, "save commit")
    /\ sessions' = [sessions EXCEPT ![doing[b].nest] = doing[b].saved]
    /\ Goes(b, Nothing)
    /\ UNCHANGED <<season, nests, open, pets, shown, granted>>

(***************************************************************************)
(* Confirm: either of them names the offspring.                            *)
(***************************************************************************)
Confirm(b) ==
    /\ Resting(b) /\ open = "open"
    /\ \E n \in Nests :
          /\ sessions[n].state = "confirmed" /\ ~sessions[n].expired
          /\ Goes(b, [at |-> "parents", nest |-> n, pair |-> sessions[n].pair,
                      version |-> sessions[n].version])
    /\ UNCHANGED <<season, nests, open, pets, shown, sessions, granted>>

CheckParents(b) ==
    /\ At(b, "parents")
    /\ LET job == doing[b] IN
       Goes(b, IF Willing(b, job.pair)
               THEN [at |-> "breed", nest |-> job.nest, pair |-> job.pair, version |-> job.version,
                     seen |-> [p \in job.pair |-> shown[p].version]]
               ELSE Nothing)
    /\ UNCHANGED <<season, nests, open, pets, shown, sessions, granted>>

\* SetBreedingSessionState and SetBreedingEligibility compare versions.
Current(n, state, version) == sessions[n].state = state /\ sessions[n].version = version
Placed(p, version) == pets[p].place = "room"
Eligible(p, version) == Placed(p, version) /\ pets[p].version = version
SetState(n, state) ==
    sessions' = [sessions EXCEPT ![n].state = state, ![n].version = @ + 1]
Spent(pair) ==
    [p \in Parents |->
        IF p \in pair THEN [pets[p] EXCEPT !.able = FALSE, !.version = @ + 1] ELSE pets[p]]

\* The transaction.  Grant finds a key that was used before and returns its pet, which
\* is as good.
Breed(b) ==
    /\ At(b, "breed") /\ RowFree(doing[b].nest)
    /\ LET job == doing[b] IN
       IF /\ Current(job.nest, "confirmed", job.version)
          /\ \A p \in job.pair : Eligible(p, job.seen[p])
       THEN /\ SetState(job.nest, "completed")
            /\ pets' = Spent(job.pair)
            /\ granted' = granted \union {<<job.nest, job.version>>}
            /\ Goes(b, [at |-> "show", rows |-> [p \in job.pair |-> Copy(pets'[p])]])
       ELSE /\ Goes(b, Nothing)
            /\ UNCHANGED <<pets, sessions, granted>>
    /\ UNCHANGED <<season, nests, open, shown>>

\* ReplacePlaced, of pets the room still shows.
Show(b) ==
    /\ At(b, "show")
    /\ shown' = [p \in Parents |->
           IF p \in DOMAIN doing[b].rows /\ shown[p] # Absent THEN doing[b].rows[p] ELSE shown[p]]
    /\ Goes(b, Nothing)
    /\ UNCHANGED <<season, nests, open, pets, sessions, granted>>

(***************************************************************************)
(* Cancel, by anybody in the room, or because the nest is picked up.       *)
(***************************************************************************)
ToCancel(n) ==
    IF Active(n)
    THEN [at |-> "cancel", nest |-> n, state |-> sessions[n].state, version |-> sessions[n].version]
    ELSE Nothing

Cancel(b) ==
    /\ Resting(b) /\ open = "open" /\ season.cancels
    /\ \E n \in Nests : Active(n) /\ Goes(b, ToCancel(n))
    /\ UNCHANGED <<season, nests, open, pets, shown, sessions, granted>>

Cancelled(b) ==
    /\ At(b, "cancel") /\ RowFree(doing[b].nest)
    /\ LET job == doing[b] IN
       IF Current(job.nest, job.state, job.version) THEN SetState(job.nest, "cancelled")
       ELSE UNCHANGED sessions
    /\ Goes(b, Nothing)
    /\ UNCHANGED <<season, nests, open, pets, shown, granted>>

PickUpNest(b) ==
    /\ Resting(b) /\ open = "open"
    /\ \E n \in nests \intersect season.taken :
          /\ nests' = nests \ {n}
          \* A packet that cannot be sent ends the handler before its event.
          /\ Goes(b, [at |-> "picked up", nest |-> n]) \/ UNCHANGED doing
    /\ UNCHANGED <<season, open, pets, shown, sessions, granted>>

PickedUp(b) ==
    /\ At(b, "picked up") /\ Goes(b, ToCancel(doing[b].nest))
    /\ UNCHANGED <<season, nests, open, pets, shown, sessions, granted>>

PlaceNest(b) ==
    /\ Resting(b) /\ open = "open"
    /\ \E n \in season.brought \ nests : nests' = nests \union {n}
    /\ UNCHANGED <<season, open, pets, shown, sessions, granted, doing>>

(***************************************************************************)
(* Pets that are picked up and placed again, and plants that are treated.  *)
(***************************************************************************)
PickUp(b) ==
    /\ Resting(b) /\ open = "open"
    /\ \E p \in Own(b) \intersect season.pets :
          /\ pets[p].place = "room" /\ pets[p].version < Changes
          /\ Goes(b, [at |-> "release", pet |-> p, version |-> pets[p].version])
    /\ UNCHANGED <<season, nests, open, pets, shown, sessions, granted>>

\* CancelBreedingPet, the first statement of the transaction.
Of(p) == {n \in Nests : Active(n) /\ p \in sessions[n].pair}
Disengage(b) ==
    /\ At(b, "release") /\ \A n \in Of(doing[b].pet) : RowFree(n)
    /\ Goes(b, [at |-> "take", pet |-> doing[b].pet, version |-> doing[b].version,
                cancelled |-> Of(doing[b].pet)])
    /\ UNCHANGED <<season, nests, open, pets, shown, sessions, granted>>

Cancels(ns) ==
    sessions' = [n \in Nests |->
        IF n \in ns THEN [sessions[n] EXCEPT !.state = "cancelled", !.version = @ + 1]
        ELSE sessions[n]]

\* Pickup, the second one: a pet whose version has changed stays, and the transaction
\* commits all the same.
Take(b) ==
    /\ At(b, "take")
    /\ LET job == doing[b] IN
       /\ Cancels(job.cancelled)
       /\ IF Eligible(job.pet, job.version)
          THEN /\ pets' = [pets EXCEPT ![job.pet].place = "inventory", ![job.pet].version = @ + 1]
               /\ Goes(b, [at |-> "remove", pet |-> job.pet])
          ELSE UNCHANGED pets /\ Goes(b, Nothing)
    /\ UNCHANGED <<season, nests, open, shown, granted>>

Remove(b) ==
    /\ At(b, "remove")
    /\ shown' = [shown EXCEPT ![doing[b].pet] = Absent]
    /\ Goes(b, Nothing)
    /\ UNCHANGED <<season, nests, open, pets, sessions, granted>>

\* Place, up to its commit: only its owner moves a pet, so nothing comes in between.
PutDown(b) ==
    /\ Resting(b) /\ open = "open"
    /\ \E p \in Own(b) :
          /\ pets[p].place = "inventory"
          /\ pets' = [pets EXCEPT ![p].place = "room", ![p].version = @ + 1]
          /\ Goes(b, [at |-> "add", pet |-> p, row |-> Copy(pets'[p])])
    /\ UNCHANGED <<season, nests, open, shown, sessions, granted>>

\* AddPlaced, unless the room is unloaded.
AddPlaced(b) ==
    /\ At(b, "add")
    /\ shown' = IF open = "closed" THEN shown ELSE [shown EXCEPT ![doing[b].pet] = doing[b].row]
    /\ Goes(b, Nothing)
    /\ UNCHANGED <<season, nests, open, pets, sessions, granted>>

\* usePlantProduct, "rebreed".
Treat(b) ==
    /\ Resting(b) /\ open = "open"
    /\ \E p \in Own(b) \intersect season.treated :
          /\ shown[p] # Absent /\ ~shown[p].able /\ shown[p].version < Changes
          /\ Goes(b, [at |-> "treat", pet |-> p, version |-> shown[p].version])
    /\ UNCHANGED <<season, nests, open, pets, shown, sessions, granted>>

Treated(b) ==
    /\ At(b, "treat")
    /\ LET job == doing[b] IN
       IF Eligible(job.pet, job.version)
       THEN /\ pets' = [pets EXCEPT ![job.pet].able = TRUE, ![job.pet].version = @ + 1]
            /\ Goes(b, [at |-> "show", rows |-> [p \in {job.pet} |-> Copy(pets'[p])]])
       ELSE UNCHANGED pets /\ Goes(b, Nothing)
    /\ UNCHANGED <<season, nests, open, shown, sessions, granted>>

(***************************************************************************)
(* The room, and time.                                                     *)
(***************************************************************************)
\* CloseRoom, the first close publisher ...
CloseRoom ==
    /\ season.closes /\ open = "open" /\ \A n \in Nests : RowFree(n)
    /\ open' = "closing" /\ Cancels({n \in Nests : Active(n)})
    /\ UNCHANGED <<season, nests, pets, shown, granted, doing>>

\* ... and UnloadRoom, the second.
UnloadRoom ==
    /\ open = "closing" /\ open' = "closed"
    /\ shown' = [p \in Parents |-> Absent]
    /\ UNCHANGED <<season, nests, pets, sessions, granted, doing>>

\* EnsureRoom.
LoadRoom ==
    /\ open = "closed" /\ open' = "open"
    /\ shown' = [p \in Parents |-> IF pets[p].place = "room" THEN Copy(pets[p]) ELSE Absent]
    /\ UNCHANGED <<season, nests, pets, sessions, granted, doing>>

Expire ==
    /\ \E n \in Nests :
          Active(n) /\ ~sessions[n].expired /\ sessions' = [sessions EXCEPT ![n].expired = TRUE]
    /\ UNCHANGED <<season, nests, open, pets, shown, granted, doing>>

BreedingNext ==
    \/ \E b \in Breeders :
          \/ Start(b) \/ Lock(b) \/ Save(b) \/ SaveCommit(b)
          \/ Confirm(b) \/ CheckParents(b) \/ Breed(b) \/ Show(b)
          \/ Cancel(b) \/ Cancelled(b) \/ PickUpNest(b) \/ PickedUp(b) \/ PlaceNest(b)
          \/ PickUp(b) \/ Disengage(b) \/ Take(b) \/ Remove(b)
          \/ PutDown(b) \/ AddPlaced(b) \/ Treat(b) \/ Treated(b)
    \/ CloseRoom \/ UnloadRoom \/ LoadRoom \/ Expire

(***************************************************************************)
(* Properties.                                                             *)
(***************************************************************************)
\* A pet is engaged at one nest at a time: two sessions started at different nests,
\* one of them brought to the room or taken away in between, never reserve the same
\* pet while neither has expired.
OneEngagement ==
    \A m, n \in Nests :
        m # n /\ Active(m) /\ Active(n) /\ ~sessions[m].expired /\ ~sessions[n].expired
            => sessions[m].pair \intersect sessions[n].pair = {}

\* A breeding consumes the eligibility of two pets that have it and are in the room,
\* whatever the copies it was decided from said: a treatment pays for one offspring.
ParentsSpent ==
    [][\A n \in Nests :
          sessions[n].state = "confirmed" /\ sessions'[n].state = "completed" =>
              \E pair \in Pairs : \A p \in pair :
                  pets[p].able /\ pets[p].place = "room" /\ ~pets'[p].able]_breeding

============================================================================
