# A formal model of Pixels

Pixels is an emulator server for a hotel of rooms: players connect over a
WebSocket, sign in with a one-time ticket, walk through rooms that live in
memory, and own furniture and money that live in PostgreSQL. This directory
holds TLA+ modules that model parts of it, TLC configurations that check small
instances, and TLAPS proofs for every value of the constants.

File names below are relative to `src/`; `realm/` abbreviates
`src/internal/realm/`. The exact lines every definition stands for are in the
`map` of `PROJECT.json`.

## Inventory

### How the process is put together

One goroutine reads a connection and runs each packet's handler to its end
(`pkg/http/websocket`), so the packets of one player are handled in order and
those of different players concurrently. Every active room has a loop goroutine
that ticks (`realm/room/runtime/live/owner`). Timers (heartbeat, marketplace
expiry, subscriptions), HTTP administration routes and event listeners run on
goroutines of their own or on that of whoever publishes: the event bus
(`pkg/bus`) delivers synchronously. State is shared through registries with a
mutex each, through the mutex of a session, player or room, through Redis
(tickets, throttles, caches) and through SQL transactions with guarded updates.

### Components

| component | state | operations | hard behaviour | what makes it correct |
|---|---|---|---|---|
| direct trade (`realm/trade`) | registry of sessions, index of players and of staged items; per session two offers, acceptances, confirmations, claim | start, offer, remove, accept, confirm, close, settle, cancel on departure | two confirmations race for the settlement; departure in the middle of anything; rows that change under an offer | one settler; what is exchanged is what both confirmed; nothing doubled or lost; a failed settlement ends |
| furniture rows (`realm/furniture`) | owner, place, reservation of each item | place, pick up, reserve, release, sell, transfer, consume | several writers of a row, read before a transaction and used inside it | guarded updates; only the owner withdraws |
| sessions (`networking/connection`, `pkg/http/websocket`, `networking/crypto/diffie`) | session state, secure channel, write queue, connection registry | accept, handshake, dispatch, send, authenticate, ping, dispose, tear down | disposal from any goroutine; a full queue; the cipher activated by another goroutine | a session ends once and completely; no frame sealed too early or plain too late |
| login (`realm/connection`, `internal/auth/sso`, `realm/session/binding`, `realm/player/live`) | tickets in Redis, live players, bindings | consume, check bans, authenticate, add, bind, bootstrap, disconnect | the same ticket or the same player twice; events that arrive after the next login; a ban against a login | a ticket signs in once; registries agree; nobody half logged in |
| sanctions (`realm/sanction`) | rows of bans, mutes, trade locks and warnings, a ladder, queued alerts; their image in the live player's snapshot and in `players.allow_trade` | apply, escalate, revoke, refresh, deliver pending | row, effect and snapshot are written one after the other, by several goroutines; snapshots copied and written back whole | a banned player does not stay online; the snapshot says what the rows say; escalations climb |
| guides and guardians (`realm/moderation`) | helpers on duty, conversations, reviews with votes and a deadline, issues | go on duty, ask, accept, hand on, end; report, decide, vote, leave, expire; pick, release, close | any participant leaves at any point; events that arrive late; one listener cleaning up for two managers | nobody is busy with what is over; judged by others, by majority, once; a review ends |
| room registry (`realm/room/runtime/live`) | active rooms, index of players; per room occupants, units, doorbell, loop | activate, load, join, leave, close, sweep | look up, join and index under three locks; close in between; the world loaded twice | nobody is inside a closed room; occupants are found; capacity; no lost room |
| room entry (`realm/room/access`) | doorbell queue, password counters, trusts, bans | enter, leave, ring, answer | approver leaves while somebody rings | a request always ends |
| room control (`realm/room/control`) | rights, votes, settings, mutes | kick, ban, delete | removal from another goroutine | as above |
| room loop, tasks | loop, delayed tasks | start, stop, tick, clear | stop against tick, replaced tasks | no tick after a stop |
| room world (`realm/room/world`) | units with path, control and mount; seats; columns with versions | walk, tick, stop, face, teleport, mount, kick, reload furniture | a path found outside of the lock and applied later; commands of several goroutines on a mounted pair | steps onto walkable tiles; riders with their mounts; seats with their sitters; a kick ends |
| rollers, games, wired (`realm/furniture/interactions`, `realm/room/world/games`) | stacks, teams, triggers | rolling, scores, triggers | order inside a tick, recursion of triggers | legal positions; bounded triggers |
| marketplace (`realm/marketplace`) | listings, tokens | list, buy, close, expire, redeem | purchase against close, expiry and trade; locks in two orders | money and item move once; lapsed listings end (they do not, see below) |
| currency ledger (`realm/inventory/currency`) | balances, ledger rows | grant, spend, set | concurrent transactions | balances never negative |
| catalog (`realm/catalog`) | offers, numbered units, vouchers, a cached generation | buy, redeem, update, delete, refresh | the last unit; a stale generation | unique numbers, counted sales |
| pet breeding (`realm/pet`) | a session per nest; pets' rows with versions; the room's copies of them | ask, agree, confirm, cancel; pick up, place, treat; close, load | two owners and two nests; decisions from copies; a deadline; keys of operations | a pet is engaged once; an offspring costs the eligibility of two pets |
| crafting, recycler | recipes | craft, recycle | rows used up elsewhere | rows consumed once |
| permissions (`internal/permission`) | two cache levels over SQL | resolve, mutate, invalidate | load against invalidation; a chain resolved while it changes | caches come to agree with the tables |
| the rest: messenger, groups, bots, polls, quests, camera, navigator, subscription, codec, plugins, configuration | | | | see `components` in `PROJECT.json` |

`PROJECT.json` lists every component with what is modelled of it or why it is
not, and under `hazards` what is hard to test, at its line, with the properties
that answer it.

## Modules

| module | what it is |
|---|---|
| `Trade` | direct trading, its settlement transaction and the other writers of the furniture rows |
| `TradeSwap` | abstract: two players agree and an exchange happens at once, whole |
| `Login` | connections, tickets, sessions, bindings, live players, bans |
| `SignIn` | abstract: a ticket signs its player in at most once, one session per player |
| `Rooms` | active rooms, entry, departure, closing, doorbells |
| `Database` | transactions of PostgreSQL at read committed: what a statement sees, row locks, commit, rollback |
| `Market` | the statements of the marketplace, of the balances it charges and of the furniture it withdraws |
| `Catalog` | the statements of purchases, vouchers and the administration of offers; the cached generation |
| `Commerce` | composes the two: requests, ticker and administration run their statements interleaved |
| `Bazaar` | abstract: every operation of the marketplace and the catalog is one indivisible step |
| `Breeding` | breeding of pets in a room: sessions of nests, rows of pets, the room's copies |
| `Socket` | one connection: reader, writer, heartbeat, others, the session's states, the Diffie channel, the client |
| `World` | units, seats and mounts of one room; walks, kicks, furniture and the tick |
| `Permissions` | permission groups, both caches, resolution, mutations |
| `Sanctions` | punishment rows, the ladder, pending warnings, a player's session and the snapshot of the live player |
| `Guides` | helpers on duty, conversations, and the sessions and disconnections they depend on |
| `Guardians` | extends `Guides`: peer reviews, votes, what a verdict leads to, the queue of issues |
| `MCTrade`, `MCLogin`, `MCRooms`, `MCCommerce`, `MCPlatform`, `MCModeration`, `MCSanctions` | the instances TLC checks; `MCPlatform` puts `Socket`, `World`, `Permissions` and `Guardians` side by side, `MCModeration` `Sanctions` and `Guardians`, `MCCommerce` `Commerce` and `Breeding` |
| `TradeProofs` | proofs about `Trade`: sessions and their settlement; rows, the offers' index and `TradeSwap` |
| `LoginProofs`, `RoomsProofs`, `BreedingProofs` | proofs about these modules |
| `GuardiansProofs` | proofs about `Guides` and `Guardians` |
| `SanctionsProofs` | proofs about `Sanctions`: snapshots of live players, levels of escalations |
| `CommerceProofs` | proofs about `Commerce`: every statement of every transaction; what follows, and `Bazaar` |
| `PlatformProofs` | proofs about `Socket`, the order of plain and sealed frames, and about `World`: riders, sitters and the tick |

`Trade` refines `TradeSwap` (`SwapSpec`), `Login` refines `SignIn`
(`SignInSpec`) and `Commerce` refines `Bazaar` (`BazaarSpec`), each by an
`INSTANCE`; all three are proved too. `Trade` and `Commerce` meet in the furniture row: in `Trade` listing
and selling are single steps of other writers, in `Commerce` a trade's settlement
is a single transfer among the transactions of the marketplace. `Login` folds the
handshake of `Socket` into one state and its write queue into an error a
handler may meet; `Rooms` folds the units of `World` into who has one. `Trade` and
`Login` see of a room only that a player has a unit in it; `Rooms` models how a
player comes to have one. The goroutine that ends an old session in `Login` is
one of the `Staff` of `Rooms`: `Login` shows that it acts late, `Rooms` what
that does to the registry.

### How the actions relate to the code

*Grain.* A step is what the code does under one mutex, in one SQL statement or
Redis command, or to a variable of the goroutine itself. Between two steps of a
handler any other process may run. `pc` holds where a goroutine is; the other
per-process variables are the locals the code keeps across the steps. A whole
transaction is several steps: rows it has written stay invisible to others until
`SettleCommit` and their locks are held (`Locked`).

*`Trade`.* `byPlayer` and `staged` are the maps of `runtime.Registry`; `first` to
`closed` are the fields of `runtime.Session`. Each packet handler is a pair: a
step that finds the session (`FindSession`), then one under its mutex
(`OfferStage`, `Unstage`, `SetAccepted`, `Confirm`, `Close`). `Confirm` that
completes both sides claims the settlement; `SettleSnapshot`, `SettleValidate`,
`SettleTransfer` item by item, `SettleCommit` or `SettleError` follow, then
`Complete`, or `FailSettlement` and `CloseAfterFailure`. `WithdrawRead`,
`WithdrawCheck` and `WithdrawWrite` are placing and listing, which read the row,
then the staged index, then run the guarded update; `Consume` is the deletion that does not. `terms` is a
history variable: both offers as they were when a player confirmed.

*`Login`.* `pc[c]` walks through `security.Ticket`: `Consume`, the ban check,
`Authenticate`, `AddLive`, `AddBinding`, `Bootstrap`, `Announce`; then through
the teardown of `Adapter.Handle` and `Handlers.Disconnected`: `Unregister`,
`Unbind`, `ReleaseLive`, `PublishDisconnected`. `PongTimeout` and `Kick` dispose
of a session from elsewhere at any point. A packet that enters a room takes the
handler through `ResolveVisitor` and `EnterRoom`; so does one that accepts a doorbell
request (`AnswerDoorbell`), with the connection that rang, while that one's own
goroutine goes on, into its teardown perhaps. `InsertBan`, `FindBanned` and
`DisconnectBanned` are the goroutine that inserts and enforces a ban.

*`Rooms`.* `Activate` to `SetPresence` are the enter command, `Registry.Join*`
and `Room.JoinWithCapacity`; `FindOccupied` to `FinishLeave` are
`Registry.Leave`, used by the leave command, before an entry, inside of a join
and by others; `Unregister` and `CloseRoom` are the two halves of
`Registry.Close`. `CheckOwner`, `CheckQueue` and `CheckApprover` are the reads
that decide whether `Leave` drains the doorbell. `Respond` that accepts runs the
enter command for the visitor on the responder's goroutine.

*`Commerce`.* A process runs a list of SQL statements (`todo`), each of them one
action named for the repository method; `MarketPlan` and `CatalogPlan` are the
lists, in the order the services call them. A statement sees committed rows and
its own transaction's (`Row`), waits for the rows others have locked (`Needs`,
`Ready`), and an error or a failed guard rolls
everything back (`Run`, `Rollback`). `lapsed` stands for the clock: `Lapse` lets
an `ExpiresAt` pass. What happens around a transaction is in the list as well:
`CountRedemptions` and `FindItem` before it, `ReadCatalog` and `StoreCatalog`,
the two halves of `Refresh`, after it. `Buyable` has the comparison with the
clock and `MarkSold` not: SQL's `now()` is the begin of the transaction, so its
`expires_at > now()` follows. `Expire` begins with a statement that PostgreSQL
refuses every time (`ExpireListings`), and is rolled back. An administrator's
patch changes the stack and the enabled flag (`Patch`) or makes the offer a room
bundle (`Bundle`); `forgotten` is a history of the sales that the second drops.

*`Breeding`.* `doing[b]` holds what the handler of a player has still to do, with
what it has read. `Start` validates the parents from the room's copies and begins
the transaction, `Lock` takes the advisory locks, `Save` is delete and upsert in one
step under them, `SaveCommit` publishes the row. `Confirm` and `CheckParents` read
the session and the copies; `Breed` is the transaction of three comparisons of
versions and the grant, `Show` replaces the copies after it. `PickUp`, `Disengage`,
`Take` and `Remove` are the pickup of a pet, whose first statement locks the rows
of its sessions (`RowFree`) until the commit; `Cancel`, `PickUpNest` and `CloseRoom`
cancel in other ways. `expired` stands for `expires_at` having passed; a
transaction that began before takes it for not expired (`late`).

*`Socket`.* `todo[p]` are the steps that reader, heartbeat and others have still
to do; `Handle` unfolds a packet's handler into them, `Disconnecting` is
`Session.Disconnect` with its disposer, `Ending` the end of a loop, `Refusing`
is `disconnectDiffie`, after which the reader goes on. `Enqueue` never blocks,
`Flush` (`enqueueBestEffort`) and `Wait` do, until `Grace`. `Write` takes one
item: a packet sealed if the channel is ready, the activation, or the close. The
client (`Speak`, `Hear`, `Secured`) is external: it does what the handshake
expects.

*`World`.* An action is what is done under the room's lock. A walk and a kick
are two: `Walk` and `Kick` are `PlanMovement` and the search, with the versions
of the columns it read (`Observed`); `ApplyWalk` and `ApplyKick` are
`ApplyControlledMovement`. `Miss` and `Face` are the two calls of
`handleMoveError`. `Tick` applies `Step` to one unit after the other in the order of
`sortedPlayerIDs` (`Ticked`), and `Exit` is the leave command the loop's publisher runs for
those who settled at the door. A mounted pair is linked by `rides`; commands
go to both (`Linked`).

*`Permissions`.* A reader's `Look`, `Visit`, `NextGroup` and `Continue` are what
`resolve` and `resolveGroup` do between two fragments; `FindLocal`, `FindShared`,
`Keep`, `Load`, `Store` and `Set` are `load` and `loadMiss`. An administrator's
change is one statement, or for a parent `UpdateGroup`, `Validate` group by
group, `ListAffected`, `WriteGroup`; then `RemoveLocal` and `RemoveShared` for
every fragment in turn. Every call of Redis may fail without an error.

*`Sanctions`.* An issuer's `Resolve` to `EffectFails` are `EscalateFor` and
`Apply`: the last escalation and its level, the insert, then the effect of its kind.
A refresh is `ReadActive`, `SetColumn` for a trade lock, `CopySnapshot` and
`SetSanctions`; a login is `Load`, `Bind`, `LoadActive`, `Project`, `LoadPending`,
`SendPending` and `MarkDelivered` warning by warning. `Rebuild` and
`ReplaceSnapshot` are whoever copies a snapshot, or makes one from the player's
row, and writes it back whole. Expiry is a step of the clock that changes no
stored state: `ActiveAt` compares.

*`Guides` and `Guardians`.* Each manager has one mutex, so an action is a whole
method. `Create` of a review is two, `FindReviewers` and `OpenTicket`, because it
asks the conversations and Redis in between while it holds its own mutex only:
`Unlocked` keeps the other methods out, not `GuidesOf`. `FinishReview` is a step of its
own, after the mutex, for the goroutine that closed the ticket. `Deadline` is the
clock passing `ClosesAt`; `Depart`, `DisconnectedGuide` and `DisconnectedGuardian`
are the end of a session and the two halves of the listener.

## What TLC checks

Every run explores its instance completely. Deadlock is checked except where the
instance may come to a legitimate end: in the `Login` runs with every connection
gone and every ticket used, in `commerce` when every request has been made and the pets have bred, in
`platform` when a connection has ended or the commands given are used up, in
`moderation` and `sanctions_mutes` when rows, logins, conversations and tickets are.
That requests, disposals, sessions and reviews do not get stuck before is stated by
liveness properties.

| run | instance | shows |
|---|---|---|
| `trade_agreement` | 2 players, 2 sessions, a chair and a credit coin, limit 1, one player leaves and enters | both indexes exact, one settler, the settler keeps its session, agreed terms only |
| `trade_rows` | 1 session, limit 2, the chair may be placed, listed, bought, consumed | a redeemed furniture paid out exactly once and nothing else paid, only the owner withdraws, and nobody places what is listed; refinement of `TradeSwap`; a claimed settlement ends |
| `login_sessions` | 3 connections of one player, 2 tickets, doorbells | registries agree and keep nothing of who is gone; nobody half logged in; a live player is ended by their own session; refinement of `SignIn` |
| `login_players` | 2 connections, 2 players with a ticket each, one may be banned, one rings at doors | disposed sessions end, a ban ends the session |
| `rooms_entry` | 2 players, one of whom also removes the other, one room for 1 with spectators, 2 room objects, closing | closed rooms empty, no lost room object, regulars have units, those never let in to watch within the limit |
| `rooms_index` | 2 players, one may enter full rooms, one removes players, 2 rooms for 1, one may close, one has a doorbell, 3 objects; goroutines take turns on each player (`TurnsSpec`) | occupants are found in the one active room they are in |
| `rooms_doorbell` | owner and visitor, a doorbell room for 1 that may close, no watching | requests end |
| `commerce` | 3 players, one of them with infinite balance, ticker and administrator; one item, 2 listings, one offer with a stack of at most 2, one voucher; three menus of operations | furniture is reserved exactly while it is listed, limited units are counted, marketplace transactions never wait in a circle, refinement of `Bazaar` |
| `commerce`: breeding | 2 owners, 3 pets that may pair in two ways, 2 nests, of which one is brought or taken; or one nest and pets that are treated, one that is moved, or a room that closes | a pet is engaged at one nest; a breeding consumes the eligibility of two pets in the room |
| `platform`: connection | queue of 2, one ping, one broadcast, Diffie required | sealed frames in order; everybody ends |
| `platform`: world | 2 players and a pet in a row of 3 tiles, 3 commands, one change of furniture | riders with their mounts, sitters on their seats, steps onto walkable tiles |
| `platform`: permissions | one reader; two groups, one change of a grant, a membership or a parent; or two administrators who nest the groups in each other | caches and answers converge to what the tables decide |
| `platform`: reviews | 3 players, 3 logins: one review by two reviewers, or two overlapping reviews by one each | every review ends |
| `moderation`: sanctions | one player, one session, 2 issuers, 2 rows; one issuer after the other, with one rebuild of the snapshot, or two at once without trade locks | a snapshot exact whenever nobody works on it; escalations climb by one |
| `moderation`: conversations | 3 players, 4 logins, 2 conversations | conversations and index in step; nobody waits for who is gone |
| `moderation`: overlapping reviews | 3 players who may report, be reported and review; 2 reviews of one reviewer | an index entry leads to an open review; nobody judges in their own case |
| `moderation`: differing reviews | 3 players, a review of a stranger by two reviewers with two verdicts, one issue, one moderator | punished by a strict majority of saved votes, once |

### What the code does not do

Two runs each check one sentence of the repository that the code breaks; TLC
prints the interleaving. The findings in `PROJECT.json` quote the sentences.

| run | sentence | what happens |
|---|---|---|
| `login_stale_disconnect` | removes room occupancy on player disconnect | a late event removes the next session's unit |
| `sanctions_mutes` | sanctions work identically whether the target is online or offline | a snapshot written back whole unmutes the player |

Two properties of `Rooms` are about all but those for whom the code breaks them,
which histories name: `CapacityRespected` does not count who was let in to watch
(`watched`), since the code asks nothing of a watcher who joins again, and
`OccupantsAreFound` says nothing of a player whom two goroutines have moved at the
same time (`overlapped`). They show that nothing else breaks them; the two
disagreements follow.

Other disagreements are visible in the modules' actions and have no run of their
own:

- `DeleteIndex` of a kick that began before its target entered another room deletes
  the new entry (`realm/room/runtime/live/registry.go:191`): the target occupies a
  room in which `FindByPlayer`, "an active room by occupant player id"
  (`registry.go:101`), does not find them, and `Leave` does nothing.
- A kick walks its target "to the room door when reachable"
  (`realm/room/control/moderation/broadcast/broadcaster.go:49`). A click on a tile
  without a path fails in the search, before anybody looks at the unit's control,
  and `Miss` stops the unit (`realm/room/world/commands/walk/command.go:107`): it
  stays in the room, under exit control, and its own walks are refused from then on.
- `SetColumn` stores a trade lock in `players.allow_trade`, and `SetAllowTrade` in
  the snapshot; nothing sets them back when the lock lapses
  (`realm/sanction/enforcement/projection/effect.go:100,114`), although
  `realm/sanction/core/service_test.go:192` says that expired sanctions need no
  cleanup worker.
- `LevelOf` finds no level for a warning with a duration, since `Normal` drops it from
  the row, and takes it for level 1 (`realm/sanction/database/ladder.go:27`):
  escalations never get past such an entry of the ladder, although
  `LastEscalation` is said to return the level (`ladder.go:12`).
- A reporter who detaches leaves the index while the review stays open, and may
  review or report again; the end of the first review then deletes the index entry
  in the second one (`realm/moderation/guardian/manager.go:193,232`), although
  `byPlayer` is said to index reviewers and reporters (`manager.go:44`).
- `DisconnectedGuide` whose packet to the partner cannot be sent skips
  `DisconnectedGuardian` (`realm/moderation/lifecycle.go:45`), which is said to
  detach a reviewer (`realm/moderation/guardian/handlers/handler.go:25`): who has
  gone stays a reviewer until the deadline.
- `StartRegister` registers a trade whose target left after `StartCheck`: its
  departure had nothing to cancel (`realm/trade/core/service.go:146`), although
  `realm/trade/module.go:43` says that disconnects cancel direct trades.
- A unit may stay in a room after its session: `EnterRoom` for a visitor whose doorbell
  was accepted runs on the goroutine of who accepted, with the player it resolved
  before (`realm/room/access/commands/doorbell/respond/command.go:99`,
  `enter/command.go:131`), and may come after the visitor's `PublishDisconnected`; and
  an error of a listener of `player.disconnected` (`realm/moderation/lifecycle.go:40`)
  keeps the bus from calling those after it, the room's among them perhaps
  (`realm/connection/handlers.go:212`). `realm/room/runtime.go:143` says that
  occupancy is removed on disconnect. `RegistriesAgree` is about the session
  registries only.
- `ExpireListings` "closes expired listings and returns them"
  (`realm/marketplace/database/listing.go:66`) for `Expire`, which "returns expired
  listings to seller inventories" (`core/expiry.go:10`). Its statement is an update
  of `marketplace_listings m` from the CTE `expired` and returns an unqualified `id`,
  which both have: PostgreSQL refuses it as ambiguous (42702) on every call, and the
  ticker drops the error (`module.go:47`). A listing that has lapsed stays open and
  its furniture reserved until the seller or an administrator closes it.
- A patch that gives an offer the template of a room bundle sets `LimitedStack` and
  `LimitedSells` to 0 (`realm/catalog/admin/item.go:199`) before `UpdateItem` looks
  whether the stack falls below the sales ("ErrLimitedBelowSales", line 54), so it is
  let through when numbers were sold: these stay, the count of them is lost, and a
  stack that the offer is given later counts from 0 and leaves out the taken numbers,
  so that fewer are sold than it says. `UnitsCounted` adds what was dropped
  (`forgotten`).
- `Consume` of a ticket succeeds as long as Redis has it: the recorded `ExpiresAt` is
  not compared (`internal/auth/sso/service.go:79`), although
  `docs/wiki/AUTH-SSO.md:24` says that expiry is enforced twice.
- `Admits` lets in who is an occupant already: a spectator of a full room who
  enters again becomes a regular occupant past `MaxUsers`, and watching is on unless
  it is configured otherwise (`realm/room/runtime/live/room.go:103`,
  `realm/room/access/entry/config.go:33`).
- Two goroutines that move a player at the same time (their own, a moderator's, a
  late teardown's, that of who accepts them at a door) can leave them in a room
  without an index entry or in two rooms: the index is written after the room's lock
  is released, and `Leave` deletes whatever entry there is by then
  (`realm/room/runtime/live/registry.go:161,191`).
- `DiffieComplete` queues the completion and the activation one after the other,
  so a ping may be queued between them and be written plain after the completion
  (`networking/connection/security.go:148`), although
  `docs/wiki/AUTH-SECURITY.md:39` says that the barrier is queued immediately after
  it. The client's first sealed frame may also be read before the activation; it
  is noise then (`Receive`).
- `Validate` reads parents that another administrator is about to change: two
  groups become each other's parent (`internal/permission/service/mutation.go:39`),
  although `internal/permission/service/validation.go:12` says that inheritance is
  acyclic. Resolution then answers with an error and the recursive query of
  `affectedPlayersSQL` does not end.
- A load stored after an invalidation, or a deletion Redis failed to do, leaves a
  stale fragment in Redis for ten minutes, from where it comes back to the local
  cache whenever that one's five seconds, "the maximum process-local staleness"
  (`internal/permission/cache/cache.go:18`), are over.
- `ApplyWalk` does not compare the unit's place with the start of the path: a unit
  that a tick or a teleport moved meanwhile jumps to the path's first step
  (`realm/room/world/runtime/movement.go:43`).
- Two units on the way to one seat both settle on it; the second one takes over the
  seat's entry, and the first one's departure deletes it
  (`realm/room/world/runtime/furniture.go:198,205`).
- The search reads the surface's maps without the room's lock while
  `ReloadFurniture` writes them (`realm/room/runtime/live/movement.go:83`), which
  Go may end the process for; `docs/wiki/ROOMS-ENTITIES.md:119` says that every
  read is guarded by the room's lock. `World` models the versions such a read can
  observe, not the crash.
- Stopping a kicked unit by moving furniture (`Decorate`), mounting it or giving it
  another control ends its kick as well.
- `CountRedemptions` is outside of the transaction: concurrent redemptions pass
  `RedemptionCap` (`realm/catalog/service/reward.go:161`).
- `CompleteUnit` enables an offer that an administrator disabled in between, unless
  it was the last unit (`realm/catalog/repository/limited.go:32`); a slower
  `Refresh` may store an older generation last, and a voucher's unit does not
  refresh it at all.
- `UpdateItem` locks the offer and then units, a limited purchase a unit and then
  the offer: PostgreSQL resolves their circle by aborting one (`Abort`).
- `Consume` (`realm/furniture/service/trading.go:77`) does not ask the staged
  index, so an item of an open offer can be consumed; the settlement then fails.
- A ban inserted between `PassBanCheck` and `AddLive` finds no live player, and
  the login does not check again (`realm/connection/handlers/security/auth.go:129,176`).
- `IndexPlayer` after `Unregister` leaves an index entry of a room that is closed
  (`realm/room/runtime/live/registry.go:161`).
- A second `LoadWorld` gives a unit to a spectator who joined in between
  (`realm/room/runtime/live/world.go:51`).
- `Ring` believes what `BeginRing` read: the approver may have left
  (`realm/room/access/commands/enter/runtime.go:125,132`).
- The operation key of an offspring is the nest and the session's version
  (`realm/pet/breeding/complete.go:63`), and versions start at 1 again because
  `Upsert` deletes the row of an ended session (`realm/pet/database/breeding.go:18`).
  The second breeding of a nest therefore usually finds the key in `granted`; the
  grant returns the first offspring (`realm/pet/database/pets.go:81`), which
  `Confirm` accepts (`complete.go:85`): both parents are spent and no pet is
  created, although `complete.go:21` says that it grants an offspring.
- For the same reason a `Confirm` that read a session which then ended may find one
  of another pair, at the same version, in its place: it completes that session and
  breeds the first pair. `FindBreedingSession`, said to return a non-expired session
  (`realm/pet/database/breeding.go:36`), does not compare the deadline; nor does the
  transaction.
- A pickup that finds its pet changed has cancelled the pet's sessions all the same
  (`realm/pet/presence/service.go:159,169`).
- A warning whose send fails because the connection is closing is neither queued
  nor sent again (`realm/sanction/enforcement/warning/effect.go:42`).
- Two escalations at the same time apply one level
  (`realm/sanction/core/escalation.go:35`).
- A reviewer who leaves as the last undecided one does not start the vote: the
  ticket stays offered until its deadline (`realm/moderation/guardian/manager.go:195`).
- A ticket everybody declines is closed without a trace, while one that everybody
  ignores becomes an issue (`realm/moderation/guardian/handlers/handler.go:102`).
- A vote that cannot be saved takes back in memory an earlier one whose row stays
  (`realm/moderation/guardian/manager.go:148`).
- A requester may rate a helper who never accepted: `End` of an attached
  conversation completes it (`realm/moderation/guide/manager.go:151`).
- An issue stays closed when the escalation after it fails
  (`realm/moderation/core/queue.go:64,68`); a review that is closed by a packet to
  detach is not finished when the answer to that packet cannot be sent
  (`realm/moderation/guardian/handlers/handler.go:147`).
- A player who logs in again before the old session's event is delivered goes off
  duty and out of a conversation by it (`RemovePlayer`).
- No action closes a room because it is empty: `UnloadIdle`
  (`realm/room/runtime/live/registry.go:241`) has no caller, although
  `docs/wiki/ROOMS-RUNTIME.md:95` says that a room is released once its last
  occupant leaves.

### Bounds

Constants marked `bound` in the modules limit who may do what (`Leavers`,
`Usable`, `Sanctioned`, `Closable`, `Staff`), and sets of identities limit
allocation: sessions (2, so that a new one can start while an old one is being
settled), room objects (one more than rooms, so that a room can be reopened while
handlers still hold the closed object; a closed object nobody holds is used
again), connections (3, so that one teardown, one refused login and one accepted
one overlap). Two players are what a trade, a pair of first entries, a race for
one place or a doorbell needs; what the trade theorems state is proved for any
number of them. Two items suffice for the one kind that changes owner and
the one that is consumed. Each property has a mutant, a plausible mistake in one
definition, that TLC finds under the same configuration: the bounds are large
enough for the mistake to show.

In `commerce` three menus keep apart the operations that share no row with each
other (selling, closing and the ticker; money and redemption; numbered units and
vouchers); each process makes one request, the administrator two. One listing is
open at first, so that a second one can be opened for the same item after it.
Prices and costs of 1 with a commission of 1 per cent make the buyer's price (2)
differ from the seller's proceeds (1) by the rounding alone.

`Breeding` moves while commerce does not. A *season* bounds what happens apart from
breeding, one kind of interference at a time: a nest brought or taken, treatments, a
pet that moves, the closing of the room; players cancel in the last three. A session
is started again up to version `Refreshes` = 2, which is an agreement of two owners
or a second request of one; pets change up to version `Changes` = 3: spent, treated
and spent again. Three pets of two owners give two pairs with a common pet. Pets are
grown, open to others, compatible and stay with their owner; a room that closes
finishes closing before it is loaded again, in one step.

In `moderation`, `Sanctions` and `Guardians` share no variable and no property, so a
behaviour moves one of them. Two rows give a punishment that expires and one that is
revoked or escalates after it, and two issuers an escalation inside of another; a
snapshot that two issuers refresh at once is doubtful, and nothing is said of it, so
trade locks and rebuilds are left to one issuer after the other. A *scene* bounds what
`Guardians` does: conversations, logins, tickets and issues, who is present and on
duty when it begins, whom reports are about and which verdicts are given. Three players
are a requester, a helper and the next helper; or reporter, reviewer and reported; or a
reporter and two reviewers. Guides and guardians are on duty in the scene of the
conversations; in those of the reviews duties do not change, and whom Redis excludes
does instead (`FindReviewers`). The shortlist of four candidates per reviewer is never
cut there.

`platform` checks four modules in one run. They share no variable and no property
relates two of them, so interleaving their steps would only multiply the states:
a behaviour moves one of them, chosen in the initial state. The queue of 2 is full
after the parameters and a ping, or a disposal's own two packets; the row of
three tiles is the shortest with a door, a seat and a way past neither; three
commands are what mounting, walking and interfering need. A fragment that is not
in `bounds.lasting` expires as soon as it is stored: the instance keeps the two
fragments whose staleness matters. In the reviews one player reports and two may review,
so that a vote can be recorded, declined or timed out with the other reviewer's still
open, and a reviewer, the last undecided one too, can leave at any of these times.
Guests differ in nothing, so the order in which they went on duty is fixed, and in the
review by two so is the reporter; in the overlapping reviews a reviewer's index entry
is lost to the other ticket, and there nobody leaves the game.

### Fairness

Weak fairness of the rest of a handler that has begun: the Go scheduler runs
every runnable goroutine, and SQL and Redis calls return, with an error if need
be. In `Trade` also of the delivery of departure events, in `Login` of the
teardown and of a ban that has been inserted, in `Rooms` of the second half of
`Close` and of `SweepDoorbell`, since the loop of a room that is open ticks for
ever and sweeps every request older than the time-out. In
`Socket` of each goroutine, of its timers (`Grace` is an alternative of the fair
step), of the writer, and of a read's failure once the connection is closed; not
of the client. In `Permissions` of expiry alone, for the process's clock and
Redis's pass: convergence needs no reader or administrator to be scheduled. In
`World` of a handler's second half, and of the loop. In `Guardians` the deadline
passes, and `TickReviews` is strongly fair: reviews opened one after the other may hold the
mutex whenever the ticker looks, but Go's mutex hands over to who waits longest. Nothing is assumed of
players: no packet is ever sure to arrive.

## What is proved

TLAPS checks the theorems for any sets of players, items, sessions, connections,
rooms, listings, offers, pets, nests, tickets and whatever else the constants name,
from the named assumptions on the constants only. These say that the value for nil
is none of the identities, that bounds are subsets of what they bound, that limits
and prices are natural numbers, and that what is numbered in the code (listings,
units, nests) is numbered. Where a theorem needs more, it says so in its statement.

Each theorem states a property of a run about the specification of the module, and
follows from an inductive invariant which is a theorem of its own (`Inductive`,
`RowsInductive`, `RoomsInductive`, `CommerceInductive`, `ModerationInductive`, `WorldInductive`) or is
proved inside. The runs `commerce`, `platform` and `moderation` put modules side by
side which share no variable; the theorems are about one of the modules by itself:
`CommerceSpec`, `BreedingSpec` and `ReviewSpec` are its initial predicate and its
next-state relation.

`TradeProofs`. `Inductive` establishes `IInv`: the type invariant, `TwoSides` (a
session has two different participants or none), `OnlyLiveHold` (only an open
session holds offers, confirmations, a claim), `Confirmations` (only participants
confirm, after both accepted, and the offers are still what they were then),
`Handlers` (what a handler remembers), `SettlesConfirmed`, and the properties
`IndexesSessions`, `OneSettler`, `SettlementOwnsSession`, `AgreedTerms`. None of
the last is inductive alone: that the terms of a settlement do not change rests
on every edit resetting the confirmations of an open session, which needs
`Confirmations`; that nobody else closes the session rests on the claim, hence on
`Handlers` and `OneSettler`.

`RowsInductive` establishes `RowsInv`, which adds, on top of `IInv`, that the index of
the staged items is exact, that a settlement transaction works on the offers of its
session (`BundlesAgreed`), that the guard of a row's update stays true while the
transaction holds its lock (`LocksHold`) and what a handler that withdraws an item
remembers (`Withdrawals`). `BundlesAgreed` is where the claim matters: nobody edits
an offer while its settlement runs. With `LocksHold` the commit moves every item
from a side that owns it at that moment, which is `TradeSwap`'s exchange; the same
invariant gives `OnlyOwnerWithdraws`, and `ValueOnce`: grants follow the offers while
deletions follow the rows, and they agree because the exact index keeps an item out of
the second offer (`LockedGrant`).

`LoginProofs`. `IInv` is `TypeOK`, `Locals` (what each position of a connection's
goroutine implies for its session, ticket and player), `Registries` (which
positions correspond to entries in the live, binding and connection registries),
and `TicketsTaken` (a connection past `Consume` holds a ticket that is gone from
Redis and that no other one holds). From it follow all safety
properties of `login_sessions`, among them `RegistriesAgree`, which combines
`BindingsAgree` and `NothingLeft`, and `LiveEndedByItsSession`, an
action property, and `LoginImplementsSignIn`: every step of `Login` is a step of
`SignIn` or changes neither of its variables (`BindingEnters`, `WastedTicket`,
`UnbindLeaves`, `Invisible`). `LiveBindsFreely` follows from `Registries` too: `Bind` never
finds a player who was not live and still bound, so `bindings.Add` never answers
`ErrBindingExists` there, and what `Bind` does then (undo `live.Add`) is unreachable.

`RoomsProofs`. `RoomsInv` holds what the handlers and closings refer to (`Handlers`,
`InUse`: an object that a handler holds keeps its room's id, so it is not used again),
that the registry has only open rooms (`RegisteredOpen`), and the three properties of
`rooms_entry`. A closed room stays empty because `Join`, `LoadWorld` and `BeginRing`
ask for `closed` under the room's mutex and `CloseRoom` empties what they fill.
`CapacityHolds` and `PlayersAreFound` assume nothing of the constants: watching may be
enabled, `Staff` remove players and approvers admit visitors on their own goroutine.
`CapacityInv` has to know who may bypass the limit and that every spectator is on
record. `FoundBy` states for each position of the goroutine that moves a player where
the player is and what the index says; it is handed on when one goroutine returns
and another begins (`BeginFound`), and whoever two move at once drops out of `FoundInv`.

`BreedingProofs`. `PetsEngagedOnce` rests on mutual exclusion: breeders who save
hold advisory locks for their nest and for both parents (`LocksApart`), so what one
of them found about its pair is still so when it commits (`SavedFits`).
`OffspringCostsParents` rests on versions: a copy in the room with the row's version
says what the row says (`ShownFit`), so the guarded update of `Breed` that finds the
version read spends a parent that was able to breed. Rows of nests may be deleted and
inserted again with version 1, so `OffspringCostsParents` says nothing of whose session
it was (above): the completed session's pair need not be the one that bred.

`GuardiansProofs`. `ModerationInv` has three parts, one per kind of state: `GuidesInv`
(conversations, their index, the queue of helpers), `ReviewsInv` (tickets, votes,
index) and `DeskInv` (issues and which review they come from). For `JudgedByOthers` the
invariant carries that the result of a closed ticket is what `close` counts from
the answers of its reviewers, which nothing changes afterwards. `PunishedOnce` needs
that a ticket has one issue at most and that nobody goes on with an issue or a ticket
after its end.

`SanctionsProofs` is about `SanctionsSpec` without the bounds of `moderation` on who
overlaps (`OneByOne`, `Overlap`). `SnapshotsStayExact` says nothing of `doubtful`
players, but everything of the others, whatever is done to those. Its invariant is
`Certain`: what a goroutine has read and still carries is `Fresh`, that is, between the
active rows and the unrevoked ones, which is exactly what survives the lapse of rows;
and the column and the snapshot are right but for what a refresh under way is about to
write (`ColumnFits`, `SnapshotFits`). A row inserted or revoked during a login, or
during another refresh, makes the player doubtful, and this is where the proof needs
it (`AloneThen`). `EscalationsClimb` follows from what every row says of its level
(`LevelsFit`) and from what an issuer has read (`Follows`). It assumes `LadderTold`:
no two entries of the ladder have the same kind and duration, and a warning has no
duration. The ladder of the migration
(`realm/sanction/database/migrations/0002_create_sanction_ladder.sql:14`) is told so; the
table does not demand it, and an administrator can write another one, whose levels
`LastEscalation` mistakes, since rows keep the kind and the duration only.

`CommerceProofs`. For every operation and every position in its list of statements there
is a predicate (`BuyFits`, `ListFits`, ...; `Fits` is their disjunction) which says
exactly what the transaction has written so far, as a function of the rows committed
*now*. That this stays true while others commit is what row locks are for: the rows a
transaction has read for update are among its locks, and no two transactions have locked
one row (`RowsLockedOnce`, part of the invariant). Each statement takes such a predicate
to the next one (the first part of the module). At the last position, `Commit` replaces
the rows by what was written, and that is an operation of `Bazaar`
(`CommerceImplementsBazaar`). What `Bazaar` keeps of the rows gives
`FurnitureIsListedOnce` and `NumbersAreCounted`. `LocksAreOrdered` gives every row a
rank, listing before balance before tokens before furniture: a transaction of the
marketplace waits for a rank above those it has locked.

`PlatformProofs` proves something of two modules that share no state. `FramesStayInOrder`
is about `Socket` alone, under any interleaving of the reader, the
heartbeat, other goroutines, the writer and the client. It has two halves. That the completion is written plain comes from the order in which the reader
queues it and the activation (`CompletedFirst`), and from where the two may be by the
state of the channel (`Phases`): until keys are negotiated no activation is queued, and
once the channel is ready no completion is, nor is one about to be; a client that
repeats its key meanwhile is refused, since the channel is no longer negotiating. That
no plain frame follows a sealed one is `StaysReady`, which a disposal could break:
`Session.Disconnect` makes the channel forget its keys while the writer runs. Every
goroutine that gets there has waited for `finished` before (`WaitsFirst`, a statement
about the steps each of them has still to do), and the writer writes nothing then.

`WorldInductive`, in the same module, is about `World`, for any grid, any players and pets
and any number of commands and changes of furniture. `WorldInv` says of every path, be it
a unit's or one that is planned and not applied, that the versions it was found with
are not ahead of the columns and that, as long as they are equal, it keeps off what is in
the way (`Routed`; a change of furniture gives its column a new version, so it outdates
every path that read it, and a search has read every column of its path,
`RoutesWalkable`); that a unit has one mount at most and equals it in everything
(`Paired`, `Together`); and that sitters sit (`Sitting`). `RidersStayTogether` and
`SittersStay` follow. `Paired` is needed because linking is by pairs: if a unit rode
two, a command to one of these would leave the other behind. `StepsStayWalkable` is a step
property, and a step of a unit is not known by its action: whatever happens, a unit's
path is the one it had, is gone, or was validated in that step, unless it had none
before (`Steady`). A tick is a recursive
function over `Order`. That it has one value for each unit (`TickedIs`), and what the
first units of a tick leave of the world (`TickedMoves`), is shown by the smallest number
for which it would not be so. A rider and its mount are ticked one after the
other: between the two they differ, which is why the invariant speaks of whole
ticks and `TickedMoves` says of the units ticked so far that they are `Moved`. It needs
that `Order` has every unit exactly once.

The attempt at `CommerceImplementsBazaar` corrected `Bazaar`: its `Redeem` used to pay
for everything sold at the time of the commit, but a listing whose sale commits between
`RedeemSold` and the commit is left for the next redemption. `Redeem` now
pays for any set of the account's sold listings, which it marks, and no more.

Proved as well and checked by no run of their own: the type invariants, that a
confirmation stands only as long as both acceptances do
(`ConfirmationNeedsAcceptance`), that no two connections get past `Consume` with
one ticket (`TicketsOpenOnce`), that the registry returns open rooms
(`RegistryReturnsOpenRooms`) and `RowsLockedOnce`.

Only model-checked: liveness, which is outside of what the prover handles: `SettlementEnds`,
`SessionsEnd`, `BanEndsSession`, `RequestsEnd`,
`EverybodyEnds`, `CachesConverge`, `ReviewsEnd`. Every invariant and every action
property of a passing run is the property of a theorem.

## What the modules leave out

Packets and what clients are told; the start throttle and a room's trade policy;
text, figures and levels of a player; coordinates and states of furniture. A
database commits or rolls back: a commit whose answer is lost is not modelled.
Rights and
mutes of a room are not modelled; failing to read them is (`FailLoad`), and in
`Leave` a failing permission lookup is treated as one that answers. The game
process does not restart in any module: live state is lost then by design.

`Commerce`: rewards other than the charge, the number and a voucher's credits
(groups, pets, bundles, gifts, trophies, effects, new furniture rows), creation of
offers, pages, and everything after a commit: events, balance packets, which may
be out of order, and the marketplace's search cache. A redelivered or retried
request is another request. `World`: heights, stacks of sections, furniture larger
than a tile, diagonal steps, statuses, one-step movements of interactions and
rollers (`RollUnit` releases no seat), delayed tasks. `Socket`: the arithmetic of
the cipher, messages that hold parts of packets, pong times. `Permissions`: the
creation of groups, weights, badges, and the projection of a change to clients.
`Breeding`: names, species, levels and rarities, what is sent, the choice of the
offspring and who owns it, needs and training, movement, administration of pets.
`Sanctions`: kicks, immunity, changes of the ladder while it is used, the
administrator's own switch of `allow_trade` (`realm/trade/admin/service.go:36`),
clocks that disagree. `Guides` and `Guardians`: the transcript and what is sent to
partners, throttles and topics that answer or ignore a report (a report may create
no issue), bullying reports, staff's broadcasts.

Not modelled at all, with the reasons in `PROJECT.json`: most feature domains
(messenger, groups, bots, polls, quests, subscription, navigator)
are guarded single-row statements behind the packet handlers; codec and packets
are data; plugins, configuration and routing keep no state of their own. They make
up most of the lines of the repository, which is why the map covers a small share
of it: the modules stand for where goroutines and transactions meet.

## Plan

Done: trading, login, rooms, commerce, connections, room worlds, permission
caches, sanctions, guides and guardians, breeding; the proofs listed above. What is
left, most important first:

1. `RoomLoop`: delayed tasks, their replacement keys and interactions that hold a
   unit's control; `Roller`: one step of a chain of rollers.
2. `RoomEntry`: passwords with counters and lockout in Redis, trusts, bans, rights.

## Running

    tlc -config MCTrade.cfg MCTrade
    tlapm TradeProofs.tla

`PROJECT.json` pairs every run with its module and configuration. The longest
run takes about two to three minutes on two workers.
