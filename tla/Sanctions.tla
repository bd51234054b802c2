----------------------------- MODULE Sanctions ------------------------------
(***************************************************************************)
(* Global punishments: rows in the database (src/internal/realm/sanction), *)
(* the effects their issuers run on live players, and the snapshot that a  *)
(* login loads.  Issuers are the goroutines of moderators, of the HTTP API *)
(* and of guardian reviews; each database access and each access to a live *)
(* player is a step of its own.                                            *)
(*                                                                         *)
(* An expiry is the row it belongs to: a snapshot that carries the latest  *)
(* expiry of some rows is the set of those rows, and it binds for as long  *)
(* as one of them has not lapsed.                                          *)
(***************************************************************************)
EXTENDS Integers, Sequences, SequencesExt, FiniteSets, FiniteSetsExt

CONSTANTS
    Players,
    Issuers,
    Ladder,    \* sanction_ladder by level: kind and duration in hours, 0 for no end
    Kinds,     \* the kinds that are applied outside of the ladder
    Rows,      \* bound: punishments
    Sessions,  \* bound: sessions of a player
    Rebuilds   \* bound: snapshots rebuilt by other operations

ASSUME SanctionsAssumption ==
    /\ Ladder \in Seq([kind : {"warn", "mute", "ban"}, hours : Nat]) /\ Ladder # <<>>
    /\ Kinds \subseteq {"warn", "mute", "ban", "trade_lock"}
    /\ Rows \in Nat /\ Sessions \in Nat /\ Rebuilds \in Nat
    /\ IsFiniteSet(Issuers) /\ Players \cap Issuers = {}

VARIABLES
    punishments,  \* the rows by id, in the order of issued_at
    allowed,      \* players.allow_trade
    alerts,       \* pending_alerts by punishment: "none", "pending" or "delivered"
    live,         \* the snapshot of each player
    issuer,       \* what each issuer has still to do
    login,        \* what each player's goroutine has still to do
    doubtful,     \* players two goroutines worked on at once, whose snapshot
                  \* was rebuilt, or for whom an effect failed
    rebuilt       \* how much of Rebuilds is used

sanctions ==
    <<punishments, allowed, alerts, live, issuer, login, doubtful, rebuilt>>

Rest == [step |-> "rest"]
Snapshot(session, on, allow) ==
    [session |-> session, on |-> on, mute |-> {}, trade_lock |-> {}, allow |-> allow]

SanctionsInit ==
    /\ punishments = <<>> /\ alerts = [i \in 1..Rows |-> "none"]
    /\ allowed = [p \in Players |-> TRUE]
    /\ live = [p \in Players |-> Snapshot(0, FALSE, TRUE)]
    /\ issuer = [m \in Issuers |-> Rest] /\ login = [p \in Players |-> Rest]
    /\ doubtful = {} /\ rebuilt = 0

Id == DOMAIN punishments
Shown == {"mute", "trade_lock"}  \* the kinds a snapshot shows
Instant(k) == k = "warn"

ActiveAt(row) == ~row.revoked /\ ~row.lapsed
Active(p, k) ==
    {i \in Id : punishments[i].to = p /\ punishments[i].kind = k /\ ActiveAt(punishments[i])}
\* Sanctions.MutedAt and TradeLockedAt.
Binds(rows) == \E i \in rows : ~punishments[i].lapsed

(***************************************************************************)
(* Rows.                                                                   *)
(***************************************************************************)
\* normalize: an instant punishment has no expiry.
Normal(k, hours) == IF Instant(k) THEN 0 ELSE hours
Row(p, k, hours, level) ==
    [to |-> p, kind |-> k, hours |-> Normal(k, hours), level |-> level,
     revoked |-> FALSE, lapsed |-> FALSE, probation |-> level # 0]

Insert(m, row) ==
    /\ Len(punishments) < Rows
    /\ punishments' = Append(punishments, row)
    /\ issuer' = [issuer EXCEPT ![m] =
           [step |-> "effect", to |-> row.to, kind |-> row.kind, row |-> Len(punishments) + 1]]
    /\ UNCHANGED <<allowed, alerts, live, login, rebuilt>>

\* Service.Apply.
Apply(m) ==
    /\ issuer[m] = Rest
    /\ \E p \in Players, k \in Kinds, hours \in 0..1 : Insert(m, Row(p, k, hours, 0))

Escalations(p) == {i \in Id : punishments[i].to = p /\ punishments[i].level # 0}

\* Repository.LastEscalation finds the level by kind and duration, the highest first.
LevelOf(row) ==
    LET same == {n \in DOMAIN Ladder : Ladder[n] = [kind |-> row.kind, hours |-> row.hours]}
    IN  IF same = {} THEN 1 ELSE Max(same)

\* ladderEntry: the level asked for, or the last one.
Entry(level) == Min({level, Len(Ladder)})
SameLevel(p) ==
    IF Escalations(p) = {} THEN 1 ELSE LevelOf(punishments[Max(Escalations(p))])
NextLevel(p) ==
    IF Escalations(p) = {} THEN 1
    ELSE LET last == punishments[Max(Escalations(p))]
         IN  IF last.probation THEN LevelOf(last) + 1 ELSE 1

\* EscalateFor reads the last escalation ...
Resolve(m) ==
    /\ issuer[m] = Rest
    /\ \E p \in Players :
          issuer' = [issuer EXCEPT ![m] =
              [step |-> "insert", to |-> p, level |-> Entry(NextLevel(p)), read |-> Escalations(p)]]
    /\ UNCHANGED <<punishments, allowed, alerts, live, login, rebuilt>>

\* ... and inserts the next one later.
Escalate(m) ==
    LET todo == issuer[m] IN
    /\ todo.step = "insert"
    /\ LET entry == Ladder[todo.level]
       IN  Insert(m, Row(todo.to, entry.kind, entry.hours, todo.level))

\* Service.Revoke: the row, then the effect.
Revoke(m) ==
    /\ issuer[m] = Rest
    /\ \E i \in Id :
          LET row == punishments[i] IN
          /\ ~row.revoked
          /\ punishments' = [punishments EXCEPT ![i].revoked = TRUE]
          /\ issuer' = [issuer EXCEPT ![m] =
                 IF row.kind \in Shown
                 THEN [step |-> "effect", to |-> row.to, kind |-> row.kind, row |-> i] ELSE Rest]
    /\ UNCHANGED <<allowed, alerts, live, login, rebuilt>>

\* Time passes.
Lapse ==
    /\ \E i \in Id :
          \/ /\ punishments[i].hours > 0 /\ ~punishments[i].lapsed
             /\ punishments' = [punishments EXCEPT ![i].lapsed = TRUE]
          \/ /\ punishments[i].probation
             /\ punishments' = [punishments EXCEPT ![i].probation = FALSE]
    /\ UNCHANGED <<allowed, alerts, live, issuer, login, rebuilt>>

(***************************************************************************)
(* Effects.                                                                *)
(***************************************************************************)
Then(m, todo) == issuer' = [issuer EXCEPT ![m] = todo]
At(m, step) == issuer[m].step = step
Online(p) == live[p].on

\* SessionDisconnect.Apply.
Ban(m) ==
    LET p == issuer[m].to IN
    /\ At(m, "effect") /\ issuer[m].kind = "ban"
    /\ live' = [live EXCEPT ![p] = Snapshot(@.session, FALSE, TRUE)]
    /\ login' = [login EXCEPT ![p] = IF Online(p) THEN Rest ELSE @]
    /\ Then(m, Rest)
    /\ UNCHANGED <<punishments, allowed, alerts, rebuilt>>

\* Warn.Apply finds the player's connection ...
Warn(m) ==
    /\ At(m, "effect") /\ issuer[m].kind = "warn"
    /\ Then(m, [issuer[m] EXCEPT !.step = IF Online(issuer[m].to) THEN "send" ELSE "queue"])
    /\ UNCHANGED <<punishments, allowed, alerts, live, login, rebuilt>>

\* ... and sends the warning, which may fail, or queues it.
Deliver(m) ==
    /\ At(m, "send")
    /\ Then(m, Rest)
    /\ UNCHANGED <<punishments, allowed, alerts, live, login, rebuilt>>

Queue(m) ==
    /\ At(m, "queue")
    /\ \/ alerts' = [alerts EXCEPT ![issuer[m].row] = "pending"]
       \/ UNCHANGED alerts
    /\ Then(m, Rest)
    /\ UNCHANGED <<punishments, allowed, live, login, rebuilt>>

\* The refresh of Mute and TradeLock: what is active,
ReadActive(m) ==
    LET todo == issuer[m] IN
    /\ At(m, "effect") /\ todo.kind \in Shown
    /\ Then(m, [step |-> IF todo.kind = "trade_lock" THEN "column" ELSE "find", to |-> todo.to,
                kind |-> todo.kind, rows |-> Active(todo.to, todo.kind)])
    /\ UNCHANGED <<punishments, allowed, alerts, live, login, rebuilt>>

\* the compatibility column of a trade lock,
SetColumn(m) ==
    /\ At(m, "column")
    /\ allowed' = [allowed EXCEPT ![issuer[m].to] = issuer[m].rows = {}]
    /\ Then(m, [issuer[m] EXCEPT !.step = "find"])
    /\ UNCHANGED <<punishments, alerts, live, login, rebuilt>>

\* a copy of the live snapshot,
CopySnapshot(m) ==
    LET todo == issuer[m]
        mine == live[todo.to]
    IN  /\ At(m, "find")
        /\ Then(m, IF ~mine.on THEN Rest
                   ELSE [step |-> "set", to |-> todo.to, kind |-> todo.kind, rows |-> todo.rows,
                         session |-> mine.session,
                         other |-> IF todo.kind = "mute" THEN mine.trade_lock ELSE mine.mute])
        /\ UNCHANGED <<punishments, allowed, alerts, live, login, rebuilt>>

\* SetSanctions with both kinds, on the player that was found,
Added(mine, kind, rows, other) ==
    IF kind = "mute" THEN [mine EXCEPT !.mute = @ \union rows, !.trade_lock = other]
    ELSE [mine EXCEPT !.trade_lock = @ \union rows, !.mute = other]
With(mine, kind, rows, other) ==
    IF kind = "mute" THEN [mine EXCEPT !.mute = rows, !.trade_lock = other]
    ELSE [mine EXCEPT !.trade_lock = rows, !.mute = other]
Same(todo) == live[todo.to].on /\ live[todo.to].session = todo.session

SetSanctions(m) ==
    LET todo == issuer[m] IN
    /\ At(m, "set")
    /\ live' = IF Same(todo)
               THEN [live EXCEPT ![todo.to] = With(@, todo.kind, todo.rows, todo.other)] ELSE live
    /\ Then(m, IF todo.kind = "mute" THEN Rest ELSE [todo EXCEPT !.step = "allow"])
    /\ UNCHANGED <<punishments, allowed, alerts, login, rebuilt>>

\* and its eligibility.
SetAllowTrade(m) ==
    LET todo == issuer[m] IN
    /\ At(m, "allow")
    /\ live' = IF Same(todo) THEN [live EXCEPT ![todo.to].allow = todo.rows = {}] ELSE live
    /\ Then(m, Rest)
    /\ UNCHANGED <<punishments, allowed, alerts, login, rebuilt>>

MayFail(m) == At(m, "column") \/ (At(m, "effect") /\ issuer[m].kind \in Shown)
\* A read or the update of the column fails: Apply logs it and goes on.
EffectFails(m) ==
    /\ MayFail(m) /\ Then(m, Rest)
    /\ UNCHANGED <<punishments, allowed, alerts, live, login, rebuilt>>

(***************************************************************************)
(* Sessions.                                                               *)
(***************************************************************************)
Continue(p, todo) == login' = [login EXCEPT ![p] = todo]
In(p, step) == login[p].step = step

\* Authenticator.Resolve reads the record and the bans.
Load(p) ==
    /\ login[p] = Rest /\ ~Online(p) /\ live[p].session < Sessions
    /\ Active(p, "ban") = {}
    /\ Continue(p, [step |-> "bind", allow |-> allowed[p]])
    /\ UNCHANGED <<punishments, allowed, alerts, live, issuer, rebuilt>>

\* Authenticator.Bind makes the player live.
Bind(p) ==
    /\ In(p, "bind")
    /\ live' = [live EXCEPT ![p] = Snapshot(@.session + 1, TRUE, login[p].allow)]
    /\ Continue(p, [step |-> "active"])
    /\ UNCHANGED <<punishments, allowed, alerts, issuer, rebuilt>>

\* bootstrap: what is active,
LoadActive(p) ==
    /\ In(p, "active")
    /\ Continue(p, [step |-> "project", mute |-> Active(p, "mute"),
                    trade_lock |-> Active(p, "trade_lock")])
    /\ UNCHANGED <<punishments, allowed, alerts, live, issuer, rebuilt>>

\* into the snapshot,
Project(p) ==
    /\ In(p, "project")
    /\ live' = [live EXCEPT ![p].mute = login[p].mute, ![p].trade_lock = login[p].trade_lock]
    /\ Continue(p, [step |-> "pending"])
    /\ UNCHANGED <<punishments, allowed, alerts, issuer, rebuilt>>

\* then the pending warnings, one by one.
Undelivered(p) == {i \in Id : punishments[i].to = p /\ alerts[i] = "pending"}
Drain(i, todo) == [step |-> "drain", todo |-> todo \ {i}]
Unsent(i, todo) == Drain(i, todo)
LoadPending(p) ==
    /\ In(p, "pending")
    /\ Continue(p, [step |-> "drain", todo |-> Undelivered(p)])
    /\ UNCHANGED <<punishments, allowed, alerts, live, issuer, rebuilt>>

\* A warning that cannot be sent is left for the next login.
SendPending(p) ==
    /\ In(p, "drain") /\ login[p].todo # {}
    /\ \/ Continue(p, [login[p] EXCEPT !.step = "mark"])
       \/ Continue(p, Unsent(Min(login[p].todo), login[p].todo))
    /\ UNCHANGED <<punishments, allowed, alerts, live, issuer, rebuilt>>

\* MarkAlertDelivered, whose failure is ignored.
MarkDelivered(p) ==
    /\ In(p, "mark")
    /\ LET i == Min(login[p].todo) IN
       /\ \/ alerts' = [alerts EXCEPT ![i] = "delivered"]
          \/ UNCHANGED alerts
       /\ Continue(p, Drain(i, login[p].todo))
    /\ UNCHANGED <<punishments, allowed, live, issuer, rebuilt>>

Bootstrapped(p) ==
    /\ In(p, "drain") /\ login[p].todo = {}
    /\ Continue(p, Rest)
    /\ UNCHANGED <<punishments, allowed, alerts, live, issuer, rebuilt>>

\* A login or a session ends; what is left of a bootstrap reaches nobody.
Leave(p) ==
    /\ (Online(p) /\ ~In(p, "mark")) \/ In(p, "bind")
    /\ live' = [live EXCEPT ![p] = Snapshot(@.session, FALSE, TRUE)]
    /\ Continue(p, Rest)
    /\ UNCHANGED <<punishments, allowed, alerts, issuer, rebuilt>>

\* Other operations change a field of the snapshot and write all of it back: from a
\* copy (chat bubbles), or built from the record (privacy, mannequins, the admin API).
Rebuild(p) ==
    /\ login[p] = Rest /\ Online(p) /\ rebuilt < Rebuilds
    /\ \E copy \in {live[p], Snapshot(live[p].session, TRUE, allowed[p])} :
          Continue(p, [step |-> "replace", copy |-> copy])
    /\ rebuilt' = rebuilt + 1
    /\ UNCHANGED <<punishments, allowed, alerts, live, issuer>>

ReplaceSnapshot(p) ==
    /\ In(p, "replace")
    /\ live' = [live EXCEPT ![p] = login[p].copy]
    /\ Continue(p, Rest)
    /\ UNCHANGED <<punishments, allowed, alerts, issuer, rebuilt>>

(***************************************************************************)
(* Who works on a snapshot, and whether its content is still certain.      *)
(***************************************************************************)
Refreshing(p) ==
    {m \in Issuers : /\ issuer[m].step \in {"effect", "column", "find", "set", "allow"}
                     /\ issuer[m].to = p /\ issuer[m].kind \in Shown}
Working(p) ==
    Refreshing(p) \union
    IF login[p].step \in {"rest", "pending", "drain", "mark"} THEN {} ELSE {p}

Doubt ==
    doubtful' =
        doubtful
        \union {p \in Players : Cardinality(Working(p)') > 1 \/ login'[p].step = "replace"}
        \union {issuer[m].to : m \in {n \in Issuers : MayFail(n) /\ issuer'[n] = Rest}}

Issuing ==
    \E m \in Issuers :
        \/ Apply(m) \/ Resolve(m) \/ Escalate(m) \/ Revoke(m)
        \/ Ban(m) \/ Warn(m) \/ Deliver(m) \/ Queue(m)
        \/ ReadActive(m) \/ SetColumn(m) \/ CopySnapshot(m) \/ SetSanctions(m)
        \/ SetAllowTrade(m) \/ EffectFails(m)

Playing ==
    \E p \in Players :
        \/ Load(p) \/ Bind(p) \/ LoadActive(p) \/ Project(p) \/ LoadPending(p)
        \/ SendPending(p) \/ MarkDelivered(p) \/ Bootstrapped(p) \/ Leave(p)
        \/ Rebuild(p) \/ ReplaceSnapshot(p)

SanctionsNext == (Issuing \/ Playing \/ Lapse) /\ Doubt
SanctionsSpec == SanctionsInit /\ [][SanctionsNext]_sanctions

(***************************************************************************)
(* Properties.                                                             *)
(***************************************************************************)
Muted(p) == Binds(live[p].mute)
MayTrade(p) == live[p].allow /\ ~Binds(live[p].trade_lock)

\* As long as the goroutines that work on a player do it one after the other, a live
\* player is muted exactly while a mute is active, cannot trade under an active trade
\* lock, and can once all locks are revoked, whether the punishments came before the
\* login or during the session (Mute.refresh, TradeLock.refresh, bootstrap).
SnapshotsExact ==
    \A p \in Players :
        Online(p) /\ p \notin doubtful /\ Working(p) = {} =>
            /\ Muted(p) <=> Active(p, "mute") # {}
            /\ Active(p, "trade_lock") # {} => ~MayTrade(p)
            /\ (\A i \in Id : /\ punishments[i].to = p
                              /\ punishments[i].kind = "trade_lock"
                              => punishments[i].revoked) => MayTrade(p)

\* An escalation that no other one overtook puts a player on probation one level above
\* the last one, up to the top of the ladder, although rows do not store their level
\* (EscalateFor, LastEscalation).
Climbs ==
    [][\A m \in Issuers :
          /\ Escalate(m) /\ issuer[m].read = Escalations(issuer[m].to) /\ issuer[m].read # {}
          /\ punishments[Max(issuer[m].read)].probation
          => Last(punishments').level = Min({Len(Ladder), punishments[Max(issuer[m].read)].level + 1})
      ]_sanctions

\* What the sources claim, and the code does not do.

\* A live player with an active mute is muted once nobody works on the snapshot.
MutesShown ==
    \A p \in Players :
        Online(p) /\ Working(p) = {} /\ Active(p, "mute") # {} => Muted(p)

============================================================================
