--------------------------- MODULE SanctionsProofs ---------------------------
(***************************************************************************)
(* Punishments of live players and the ladder of escalations, for any      *)
(* number of players, issuers, rows and sessions.                          *)
(***************************************************************************)
EXTENDS Sanctions, FiniteSetTheorems, SequenceTheorems, WellFoundedInduction, TLAPS

AllKinds == {"warn", "mute", "ban", "trade_lock"}
RowsType ==
    [to : Players, kind : AllKinds, hours : Nat, level : Nat,
     revoked : BOOLEAN, lapsed : BOOLEAN, probation : BOOLEAN]
Snapshots ==
    [session : Nat, on : BOOLEAN, mute : SUBSET Nat, trade_lock : SUBSET Nat, allow : BOOLEAN]

\* What an issuer has read goes with the step it comes to.
Jobs ==
    {Rest}
    \union [step : {"insert"}, to : Players, level : 1 .. Len(Ladder), read : SUBSET Nat]
    \union [step : {"effect", "send", "queue"}, to : Players, kind : AllKinds, row : Nat]
    \union [step : {"column"}, to : Players, kind : {"trade_lock"}, rows : SUBSET Nat]
    \union [step : {"find"}, to : Players, kind : Shown, rows : SUBSET Nat]
    \union [step : {"set"}, to : Players, kind : Shown, rows : SUBSET Nat,
            session : Nat, other : SUBSET Nat]
    \union [step : {"allow"}, to : Players, kind : {"trade_lock"}, rows : SUBSET Nat,
            session : Nat, other : SUBSET Nat]
Logins ==
    {Rest}
    \union [step : {"bind"}, allow : BOOLEAN]
    \union [step : {"active", "pending"}]
    \union [step : {"project"}, mute : SUBSET Nat, trade_lock : SUBSET Nat]
    \union [step : {"drain", "mark"}, todo : SUBSET Nat]
    \union [step : {"replace"}, copy : Snapshots]

SanctionTypes ==
    /\ punishments \in Seq(RowsType)
    /\ allowed \in [Players -> BOOLEAN]
    /\ live \in [Players -> Snapshots]
    /\ issuer \in [Issuers -> Jobs]
    /\ login \in [Players -> Logins]
    /\ doubtful \subseteq Players

(***************************************************************************)
(* Snapshots.                                                              *)
(***************************************************************************)
Unrevoked(p, k) ==
    {i \in Id : punishments[i].to = p /\ punishments[i].kind = k /\ ~punishments[i].revoked}

\* Rows that were read bind exactly as long as an active row of the kind exists.
Fresh(p, k, rows) == Active(p, k) \subseteq rows /\ rows \subseteq Unrevoked(p, k)

\* Nothing but an unrevoked trade lock keeps a player from trading.
Allows(p, allow) == allow \/ Unrevoked(p, "trade_lock") # {}

Other(k) == IF k = "mute" THEN "trade_lock" ELSE "mute"

\* Nobody overlaps anybody.
Alone(p) == (\A v, w \in Working(p) : v = w) /\ login[p].step # "replace"

\* The column is right unless a refresh is about to write it.
ColumnFits(p) ==
    (\A m \in Refreshing(p) :
        issuer[m].kind = "trade_lock" => issuer[m].step \notin {"effect", "column"})
    => Allows(p, allowed[p])

\* So is what a login has read,
LoginFits(p) ==
    /\ login[p].step = "bind" => Allows(p, login[p].allow)
    /\ login[p].step = "project" => \A k \in Shown : Fresh(p, k, login[p][k])

\* what a refresh works with,
RefreshFits(p) ==
    \A m \in Refreshing(p) :
        /\ issuer[m].step \in {"column", "find", "set", "allow"} =>
              Fresh(p, issuer[m].kind, issuer[m].rows)
        /\ issuer[m].step \in {"set", "allow"} /\ live[p].on =>
              live[p].session = issuer[m].session
        /\ issuer[m].step = "set" /\ live[p].on => Fresh(p, Other(issuer[m].kind), issuer[m].other)

\* and the snapshot, but for what a refresh is about to change.
SnapshotFits(p) ==
    live[p].on =>
        /\ (\A m \in Refreshing(p) : issuer[m].kind # "trade_lock") => Allows(p, live[p].allow)
        /\ login[p].step \notin {"bind", "active", "project", "replace"} => \A k \in Shown :
              (\A m \in Refreshing(p) : issuer[m].kind = k => issuer[m].step = "allow") =>
                  Fresh(p, k, live[p][k])

Certain(p) == Alone(p) /\ ColumnFits(p) /\ LoginFits(p) /\ RefreshFits(p) /\ SnapshotFits(p)

SnapshotsInv == SanctionTypes /\ \A p \in Players \ doubtful : Certain(p)

(***************************************************************************)
(* The ladder.                                                             *)
(***************************************************************************)
\* A row of an escalation has the kind and the duration of its level.
LevelsFit ==
    \A i \in Id : punishments[i].level # 0 =>
        /\ punishments[i].level \in 1 .. Len(Ladder)
        /\ punishments[i].kind = Ladder[punishments[i].level].kind
        /\ punishments[i].hours = Normal(punishments[i].kind, Ladder[punishments[i].level].hours)

\* The level an issuer is about to insert follows the escalation it read.
Follows(job) ==
    /\ job.read \subseteq Escalations(job.to)
    /\ job.read # {} /\ punishments[Max(job.read)].probation =>
          job.level = Min({Len(Ladder), punishments[Max(job.read)].level + 1})
NextFits == \A m \in Issuers : issuer[m].step = "insert" => Follows(issuer[m])

LadderInv == SanctionTypes /\ LevelsFit /\ NextFits

\* Entries of the ladder differ, and a warning has no duration.
LadderTold ==
    /\ \A n, k \in DOMAIN Ladder : Ladder[n] = Ladder[k] => n = k
    /\ \A n \in DOMAIN Ladder : Ladder[n].kind = "warn" => Ladder[n].hours = 0

-----------------------------------------------------------------------------
USE SanctionsAssumption

\* Well-founded relations, as the library states them of one set and its subsets.
LEMMA WFLowest ==
    ASSUME NEW R, NEW U, IsWellFoundedOn(R, U), NEW T, T \subseteq U, T # {}
    PROVE  \E x \in T : \A y \in T : ~(<<y, x>> \in R)
  BY WFMin

\* The last of some rows.
LEMMA LastOf ==
    ASSUME NEW n \in Nat, NEW S \in SUBSET (1 .. n), S # {}
    PROVE  Max(S) \in S /\ \A y \in S : y <= Max(S)
<1> DEFINE R == {ss \in Nat \X Nat : ss[1] < ss[2]}
           T == {n - x : x \in S}
<1>1. IsWellFoundedOn(R, Nat)
  BY NatLessThanWellFounded, Zenon DEF OpToRel
<1>2. T \subseteq Nat /\ T # {}
  <2>1. \A x \in S : x \in 1 .. n /\ n - x \in Nat
    OBVIOUS
  <2>2. QED
    BY <2>1
<1>3. \E t \in T : \A y \in T : ~(<<y, t>> \in R)
  BY <1>1, <1>2, WFLowest
<1>4. PICK t \in T : \A y \in T : ~(<<y, t>> \in R)
  BY <1>3
<1>5. PICK x \in S : t = n - x
  OBVIOUS
<1>6. ASSUME NEW y \in S PROVE x >= y
  <2>1. n - y \in T /\ n - y \in Nat /\ t \in Nat
    BY <1>2
  <2>2. ~(n - y < t)
    BY <1>4, <2>1
  <2>3. QED
    BY <1>5, <2>2
<1>7. Max(S) \in S /\ \A y \in S : Max(S) >= y
  BY <1>6 DEF Max
<1>8. QED
  BY <1>7

(***************************************************************************)
(* Types.                                                                  *)
(***************************************************************************)
\* What the step of an issuer says of the rest of its work.
LEMMA JobOf ==
    ASSUME NEW job \in Jobs
    PROVE  /\ job.step \in {"rest", "insert", "effect", "send", "queue", "column", "find", "set",
                            "allow"}
           /\ job.step = "rest" => job = Rest
           /\ job.step = "insert" =>
                job \in [step : {"insert"}, to : Players, level : 1 .. Len(Ladder), read : SUBSET Nat]
           /\ job.step \in {"effect", "send", "queue"} =>
                job \in [step : {"effect", "send", "queue"}, to : Players, kind : AllKinds, row : Nat]
           /\ job.step \in {"column", "find"} =>
                job \in [step : {"column", "find"}, to : Players, kind : Shown, rows : SUBSET Nat]
           /\ job.step \in {"set", "allow"} =>
                job \in [step : {"set", "allow"}, to : Players, kind : Shown, rows : SUBSET Nat,
                         session : Nat, other : SUBSET Nat]
           /\ job.step \in {"column", "allow"} => job.kind = "trade_lock"
  BY DEF Jobs, Rest, Shown

\* What the step of a login says of the rest of it.
LEMMA LoginOf ==
    ASSUME NEW job \in Logins
    PROVE  /\ job.step \in {"rest", "bind", "active", "pending", "project", "drain", "mark", "replace"}
           /\ job.step = "bind" => job \in [step : {"bind"}, allow : BOOLEAN]
           /\ job.step = "project" =>
                job \in [step : {"project"}, mute : SUBSET Nat, trade_lock : SUBSET Nat]
           /\ job.step \in {"drain", "mark"} =>
                job \in [step : {"drain", "mark"}, todo : SUBSET Nat]
           /\ job.step = "replace" => job \in [step : {"replace"}, copy : Snapshots]
  BY DEF Logins, Rest

\* A row is numbered, and so is every set of them.
LEMMA IdIsNat ==
    ASSUME SanctionTypes
    PROVE  /\ Id = 1 .. Len(punishments) /\ Len(punishments) \in Nat /\ Id \subseteq Nat
           /\ \A i \in Id : punishments[i] \in RowsType
           /\ \A p, k : Active(p, k) \subseteq Nat
           /\ \A p : Escalations(p) \subseteq Nat
  BY DEF SanctionTypes, Id, Active, Escalations

\* The initial state.
LEMMA TypesInit == SanctionsInit => SanctionTypes
  BY DEF SanctionsInit, SanctionTypes, Snapshot, Snapshots, Jobs, Logins

\* A new row has the type of rows.
LEMMA RowType ==
    ASSUME NEW p \in Players, NEW k \in AllKinds, NEW hours \in Nat, NEW level \in Nat
    PROVE  Row(p, k, hours, level) \in RowsType
  BY DEF Row, RowsType, Normal, Instant

\* Inserting a row.
LEMMA InsertTypes ==
    ASSUME SanctionTypes, NEW m \in Issuers, NEW row \in RowsType, Insert(m, row),
           doubtful' \subseteq Players
    PROVE  SanctionTypes'
<1>1. punishments' \in Seq(RowsType)
  BY AppendProperties DEF Insert, SanctionTypes
<1>2. [step |-> "effect", to |-> row.to, kind |-> row.kind, row |-> Len(punishments) + 1] \in Jobs
  BY IdIsNat DEF Jobs, RowsType
<1>3. issuer' \in [Issuers -> Jobs]
  BY <1>2 DEF Insert, SanctionTypes
<1>4. QED
  BY <1>1, <1>3 DEF Insert, SanctionTypes

\* The ladder has a first level, and the level an escalation comes to is one of it.
LEMMA EntryIsLevel ==
    ASSUME NEW level \in Nat \ {0}
    PROVE  /\ Len(Ladder) \in Nat \ {0}
           /\ Entry(level) \in 1 .. Len(Ladder)
           /\ Entry(level) = Min({Len(Ladder), level})
<1>1. Len(Ladder) \in Nat \ {0}
  BY EmptySeq, LenProperties
<1>2. \A x \in {level, Len(Ladder)} : x \in Nat
  BY <1>1
<1>3. Min({level, Len(Ladder)}) \in {level, Len(Ladder)}
      /\ \A y \in {level, Len(Ladder)} : Min({level, Len(Ladder)}) <= y
  <2>1. CASE level <= Len(Ladder)
    BY <1>1, <2>1 DEF Min
  <2>2. CASE Len(Ladder) <= level
    BY <1>1, <2>2 DEF Min
  <2>3. QED
    BY <1>1, <2>1, <2>2
<1>4. {level, Len(Ladder)} = {Len(Ladder), level}
  OBVIOUS
<1>5. Entry(level) = Min({level, Len(Ladder)})
  BY DEF Entry
<1>6. Min({level, Len(Ladder)}) \in 1 .. Len(Ladder)
  <2>1. \A least \in {level, Len(Ladder)} : least <= Len(Ladder) => least \in 1 .. Len(Ladder)
    BY <1>1
  <2>2. QED
    BY <1>3, <2>1
<1>7. QED
  BY <1>1, <1>4, <1>5, <1>6

\* A level found or counted from one is one.
LEMMA NextIsLevel ==
    ASSUME SanctionTypes, NEW p \in Players
    PROVE  NextLevel(p) \in Nat \ {0}
<1>1. \A row : LevelOf(row) \in Nat \ {0}
  <2> SUFFICES ASSUME NEW row PROVE LevelOf(row) \in Nat \ {0}
    OBVIOUS
  <2> DEFINE same == {n \in DOMAIN Ladder : Ladder[n] = [kind |-> row.kind, hours |-> row.hours]}
  <2>1. same \in SUBSET (1 .. Len(Ladder)) /\ Len(Ladder) \in Nat
    OBVIOUS
  <2>2. CASE same = {}
    BY <2>2 DEF LevelOf
  <2>3. CASE same # {}
    <3>1. Max(same) \in same
      BY <2>1, <2>3, LastOf
    <3>2. LevelOf(row) = Max(same)
      BY <2>3 DEF LevelOf
    <3>3. QED
      BY <2>1, <3>1, <3>2
  <2>4. QED
    BY <2>2, <2>3
<1>2. QED
  BY <1>1 DEF NextLevel

\* What is read and inserted.
LEMMA IssuingTypes ==
    ASSUME SanctionTypes, NEW m \in Issuers, doubtful' \subseteq Players,
           Apply(m) \/ Resolve(m) \/ Escalate(m) \/ Revoke(m)
    PROVE  SanctionTypes'
<1>1. CASE Apply(m)
  <2>1. PICK p \in Players, k \in Kinds, hours \in 0 .. 1 : Insert(m, Row(p, k, hours, 0))
    BY <1>1 DEF Apply
  <2>2. Row(p, k, hours, 0) \in RowsType
    BY RowType DEF AllKinds
  <2>3. QED
    BY <2>1, <2>2, InsertTypes
<1>2. CASE Resolve(m)
  <2>1. PICK p \in Players :
          issuer' = [issuer EXCEPT ![m] =
              [step |-> "insert", to |-> p, level |-> Entry(NextLevel(p)), read |-> Escalations(p)]]
    BY <1>2 DEF Resolve
  <2>2. Entry(NextLevel(p)) \in 1 .. Len(Ladder) /\ Escalations(p) \subseteq Nat
    BY NextIsLevel, EntryIsLevel, IdIsNat
  <2>3. [step |-> "insert", to |-> p, level |-> Entry(NextLevel(p)), read |-> Escalations(p)] \in Jobs
    BY <2>2 DEF Jobs
  <2>4. QED
    BY <1>2, <2>1, <2>3 DEF Resolve, SanctionTypes
<1>3. CASE Escalate(m)
  <2>1. issuer[m].step = "insert" /\ issuer[m] \in Jobs
    BY <1>3 DEF Escalate, SanctionTypes
  <2>2. issuer[m].to \in Players /\ issuer[m].level \in 1 .. Len(Ladder)
    BY <2>1, JobOf
  <2>3. /\ Ladder[issuer[m].level].kind \in AllKinds /\ Ladder[issuer[m].level].hours \in Nat
        /\ issuer[m].level \in Nat
    <3>1. \A n \in 1 .. Len(Ladder) : Ladder[n] \in [kind : {"warn", "mute", "ban"}, hours : Nat]
      BY ElementOfSeq
    <3>2. Ladder[issuer[m].level] \in [kind : {"warn", "mute", "ban"}, hours : Nat]
      BY <2>2, <3>1
    <3>3. issuer[m].level \in Nat
      BY <2>2
    <3>4. QED
      BY <3>2, <3>3 DEF AllKinds
  <2>4. QED
    BY <1>3, <2>2, <2>3, RowType, InsertTypes DEF Escalate
<1>4. CASE Revoke(m)
  <2>1. PICK i \in Id :
          /\ punishments' = [punishments EXCEPT ![i].revoked = TRUE]
          /\ issuer' = [issuer EXCEPT ![m] =
                 IF punishments[i].kind \in Shown
                 THEN [step |-> "effect", to |-> punishments[i].to, kind |-> punishments[i].kind,
                       row |-> i]
                 ELSE Rest]
    BY <1>4 DEF Revoke
  <2>2. punishments[i] \in RowsType /\ i \in 1 .. Len(punishments) /\ i \in Nat
    BY IdIsNat
  <2>3. punishments' = [punishments EXCEPT ![i] = [punishments[i] EXCEPT !.revoked = TRUE]]
        /\ [punishments[i] EXCEPT !.revoked = TRUE] \in RowsType
    BY <2>1, <2>2 DEF RowsType
  <2>4. punishments' \in Seq(RowsType)
    BY <2>2, <2>3, ExceptSeq DEF SanctionTypes
  <2>5. [step |-> "effect", to |-> punishments[i].to, kind |-> punishments[i].kind, row |-> i] \in Jobs
        /\ Rest \in Jobs
    BY <2>2 DEF Jobs, RowsType
  <2>6. issuer' \in [Issuers -> Jobs]
    BY <2>1, <2>5 DEF SanctionTypes
  <2>7. QED
    BY <1>4, <2>4, <2>6 DEF Revoke, SanctionTypes
<1>5. QED
  BY <1>1, <1>2, <1>3, <1>4

\* Effects.
LEMMA EffectTypes ==
    ASSUME SanctionTypes, NEW m \in Issuers, doubtful' \subseteq Players,
           \/ Ban(m) \/ Warn(m) \/ Deliver(m) \/ Queue(m) \/ ReadActive(m) \/ SetColumn(m)
           \/ CopySnapshot(m) \/ SetSanctions(m) \/ SetAllowTrade(m) \/ EffectFails(m)
    PROVE  SanctionTypes'
<1>1. issuer[m] \in Jobs
  BY DEF SanctionTypes
<1>2. Rest \in Jobs
  BY DEF Jobs
<1>3. \A job \in Jobs : [issuer EXCEPT ![m] = job] \in [Issuers -> Jobs]
  BY DEF SanctionTypes
<1>4. CASE Ban(m)
  <2>1. issuer[m].to \in Players
    BY <1>1, <1>4, JobOf DEF Ban, At
  <2>2. Snapshot(live[issuer[m].to].session, FALSE, TRUE) \in Snapshots
    BY <2>1 DEF SanctionTypes, Snapshot, Snapshots
  <2>3. Rest \in Logins
    BY DEF Logins
  <2>4. QED
    BY <1>2, <1>3, <1>4, <2>1, <2>2, <2>3 DEF Ban, Then, SanctionTypes
<1>5. CASE Warn(m)
  <2>1. issuer[m] \in [step : {"effect", "send", "queue"}, to : Players, kind : AllKinds, row : Nat]
    BY <1>1, <1>5, JobOf DEF Warn, At
  <2>2. [issuer[m] EXCEPT !.step = IF Online(issuer[m].to) THEN "send" ELSE "queue"] \in Jobs
    BY <2>1 DEF Jobs
  <2>3. QED
    BY <1>3, <1>5, <2>2 DEF Warn, Then, SanctionTypes
<1>6. CASE Deliver(m) \/ Queue(m) \/ EffectFails(m)
  BY <1>2, <1>3, <1>6 DEF Deliver, Queue, EffectFails, Then, SanctionTypes
<1>7. CASE ReadActive(m)
  <2>1. issuer[m].to \in Players /\ issuer[m].kind \in Shown
    BY <1>1, <1>7, JobOf DEF ReadActive, At
  <2>2. Active(issuer[m].to, issuer[m].kind) \subseteq Nat
    BY IdIsNat
  <2>3. [step |-> IF issuer[m].kind = "trade_lock" THEN "column" ELSE "find", to |-> issuer[m].to,
         kind |-> issuer[m].kind, rows |-> Active(issuer[m].to, issuer[m].kind)] \in Jobs
    BY <2>1, <2>2 DEF Jobs, Shown
  <2>4. QED
    BY <1>3, <1>7, <2>3 DEF ReadActive, Then, SanctionTypes
<1>8. CASE SetColumn(m)
  <2>1. issuer[m] \in [step : {"column", "find"}, to : Players, kind : Shown, rows : SUBSET Nat]
    BY <1>1, <1>8, JobOf DEF SetColumn, At
  <2>2. [issuer[m] EXCEPT !.step = "find"] \in Jobs
    BY <2>1 DEF Jobs, Shown
  <2>3. QED
    BY <1>3, <1>8, <2>1, <2>2 DEF SetColumn, Then, SanctionTypes
<1>9. CASE CopySnapshot(m)
  <2>1. issuer[m] \in [step : {"column", "find"}, to : Players, kind : Shown, rows : SUBSET Nat]
    BY <1>1, <1>9, JobOf DEF CopySnapshot, At
  <2>2. live[issuer[m].to] \in Snapshots
    BY <2>1 DEF SanctionTypes
  <2>3. [step |-> "set", to |-> issuer[m].to, kind |-> issuer[m].kind, rows |-> issuer[m].rows,
         session |-> live[issuer[m].to].session,
         other |-> IF issuer[m].kind = "mute" THEN live[issuer[m].to].trade_lock
                   ELSE live[issuer[m].to].mute] \in Jobs
    BY <2>1, <2>2 DEF Jobs, Snapshots
  <2>4. QED
    BY <1>2, <1>3, <1>9, <2>3 DEF CopySnapshot, Then, SanctionTypes
<1>10. ASSUME SetSanctions(m) \/ SetAllowTrade(m) PROVE SanctionTypes'
  <2>1. issuer[m] \in [step : {"set", "allow"}, to : Players, kind : Shown, rows : SUBSET Nat,
                       session : Nat, other : SUBSET Nat]
    BY <1>1, <1>10, JobOf DEF SetSanctions, SetAllowTrade, At
  <2>2. issuer[m].kind # "mute" => [issuer[m] EXCEPT !.step = "allow"] \in Jobs
    BY <2>1 DEF Jobs, Shown
  <2>3. live[issuer[m].to] \in Snapshots
    BY <2>1 DEF SanctionTypes
  <2>4. With(live[issuer[m].to], issuer[m].kind, issuer[m].rows, issuer[m].other) \in Snapshots
        /\ [live[issuer[m].to] EXCEPT !.allow = issuer[m].rows = {}] \in Snapshots
    BY <2>1, <2>3 DEF With, Snapshots
  <2>5. CASE SetSanctions(m)
    BY <1>2, <1>3, <2>1, <2>2, <2>4, <2>5 DEF SetSanctions, Then, SanctionTypes
  <2>6. CASE SetAllowTrade(m)
    <3>1. live' = IF Same(issuer[m])
                  THEN [live EXCEPT ![issuer[m].to] =
                           [live[issuer[m].to] EXCEPT !.allow = issuer[m].rows = {}]]
                  ELSE live
      BY <2>1, <2>6 DEF SetAllowTrade, SanctionTypes
    <3>2. live' \in [Players -> Snapshots]
      BY <2>1, <2>4, <3>1 DEF SanctionTypes
    <3>3. QED
      BY <1>2, <1>3, <2>6, <3>2 DEF SetAllowTrade, Then, SanctionTypes
  <2>7. QED
    BY <1>10, <2>5, <2>6
<1>11. QED
  BY <1>4, <1>5, <1>6, <1>7, <1>8, <1>9, <1>10

\* Sessions.
LEMMA PlayingTypes ==
    ASSUME SanctionTypes, NEW p \in Players, doubtful' \subseteq Players,
           \/ Load(p) \/ Bind(p) \/ LoadActive(p) \/ Project(p) \/ LoadPending(p)
           \/ SendPending(p) \/ MarkDelivered(p) \/ Bootstrapped(p) \/ Leave(p)
           \/ Rebuild(p) \/ ReplaceSnapshot(p)
    PROVE  SanctionTypes'
<1>1. login[p] \in Logins /\ live[p] \in Snapshots /\ allowed[p] \in BOOLEAN
  BY DEF SanctionTypes
<1>2. Rest \in Logins
  BY DEF Logins
<1>3. /\ \A job \in Logins : [login EXCEPT ![p] = job] \in [Players -> Logins]
      /\ \A snapshot \in Snapshots : [live EXCEPT ![p] = snapshot] \in [Players -> Snapshots]
  BY DEF SanctionTypes
<1>4. \A session \in Nat, on, allow \in BOOLEAN : Snapshot(session, on, allow) \in Snapshots
  BY DEF Snapshot, Snapshots
<1>5. live[p].session \in Nat /\ live[p].session + 1 \in Nat
  BY <1>1 DEF Snapshots
<1>6. CASE Load(p)
  <2>1. [step |-> "bind", allow |-> allowed[p]] \in Logins
    BY <1>1 DEF Logins
  <2>2. QED
    BY <1>3, <1>6, <2>1 DEF Load, Continue, SanctionTypes
<1>7. CASE Bind(p)
  <2>1. login[p].allow \in BOOLEAN
    BY <1>1, <1>7, LoginOf DEF Bind, In
  <2>2. Snapshot(live[p].session + 1, TRUE, login[p].allow) \in Snapshots
    BY <1>4, <1>5, <2>1
  <2>3. [step |-> "active"] \in Logins
    BY DEF Logins
  <2>4. QED
    BY <1>3, <1>7, <2>2, <2>3 DEF Bind, Continue, SanctionTypes
<1>8. CASE LoadActive(p)
  <2>1. Active(p, "mute") \subseteq Nat /\ Active(p, "trade_lock") \subseteq Nat
    BY IdIsNat
  <2>2. [step |-> "project", mute |-> Active(p, "mute"), trade_lock |-> Active(p, "trade_lock")]
        \in Logins
    BY <2>1 DEF Logins
  <2>3. QED
    BY <1>3, <1>8, <2>2 DEF LoadActive, Continue, SanctionTypes
<1>9. CASE Project(p)
  <2>1. login[p].mute \in SUBSET Nat /\ login[p].trade_lock \in SUBSET Nat
    BY <1>1, <1>9, LoginOf DEF Project, In
  <2>2. [live[p] EXCEPT !.mute = login[p].mute, !.trade_lock = login[p].trade_lock] \in Snapshots
    BY <1>1, <2>1 DEF Snapshots
  <2>3. live' = [live EXCEPT ![p] =
            [live[p] EXCEPT !.mute = login[p].mute, !.trade_lock = login[p].trade_lock]]
    BY <1>9 DEF Project, SanctionTypes
  <2>4. [step |-> "pending"] \in Logins
    BY DEF Logins
  <2>5. QED
    BY <1>3, <1>9, <2>2, <2>3, <2>4 DEF Project, Continue, SanctionTypes
<1>10. CASE LoadPending(p)
  <2>1. Undelivered(p) \subseteq Nat
    BY IdIsNat DEF Undelivered
  <2>2. [step |-> "drain", todo |-> Undelivered(p)] \in Logins
    BY <2>1 DEF Logins
  <2>3. /\ login' = [login EXCEPT ![p] = [step |-> "drain", todo |-> Undelivered(p)]]
        /\ UNCHANGED <<punishments, live, allowed, issuer>>
    BY <1>10 DEF LoadPending, Continue
  <2>4. QED
    BY <1>3, <2>2, <2>3 DEF SanctionTypes
<1>11. ASSUME SendPending(p) \/ MarkDelivered(p) PROVE SanctionTypes'
  <2>1. login[p] \in [step : {"drain", "mark"}, todo : SUBSET Nat]
    BY <1>1, <1>11, LoginOf DEF SendPending, MarkDelivered, In
  <2>2. [login[p] EXCEPT !.step = "mark"] \in Logins
        /\ \A i : Drain(i, login[p].todo) \in Logins
    BY <2>1 DEF Drain, Logins
  <2>3. CASE SendPending(p)
    BY <1>3, <2>2, <2>3 DEF SendPending, Unsent, Continue, SanctionTypes
  <2>4. CASE MarkDelivered(p)
    BY <1>3, <2>2, <2>4 DEF MarkDelivered, Unsent, Continue, SanctionTypes
  <2>5. QED
    BY <1>11, <2>3, <2>4
<1>12. CASE Bootstrapped(p)
  BY <1>2, <1>3, <1>12 DEF Bootstrapped, Continue, SanctionTypes
<1>13. CASE Leave(p)
  BY <1>2, <1>3, <1>4, <1>5, <1>13 DEF Leave, Continue, SanctionTypes
<1>14. CASE Rebuild(p)
  <2>1. Snapshot(live[p].session, TRUE, allowed[p]) \in Snapshots
    BY <1>1, <1>4, <1>5
  <2>2. \A copy \in {live[p], Snapshot(live[p].session, TRUE, allowed[p])} :
          [step |-> "replace", copy |-> copy] \in Logins
    BY <1>1, <2>1 DEF Logins
  <2>3. QED
    BY <1>3, <1>14, <2>2 DEF Rebuild, Continue, SanctionTypes
<1>15. CASE ReplaceSnapshot(p)
  <2>1. login[p].copy \in Snapshots
    BY <1>1, <1>15, LoginOf DEF ReplaceSnapshot, In
  <2>2. QED
    BY <1>2, <1>3, <1>15, <2>1 DEF ReplaceSnapshot, Continue, SanctionTypes
<1>16. QED
  BY <1>6, <1>7, <1>8, <1>9, <1>10, <1>11, <1>12, <1>13, <1>14, <1>15

\* Every step keeps the types.
LEMMA TypesNext == SanctionTypes /\ [SanctionsNext]_sanctions => SanctionTypes'
<1> SUFFICES ASSUME SanctionTypes, [SanctionsNext]_sanctions PROVE SanctionTypes'
  OBVIOUS
<1>1. CASE UNCHANGED sanctions
  BY <1>1 DEF sanctions, SanctionTypes
<1>2. ASSUME SanctionsNext PROVE doubtful' \subseteq Players
  <2>1. \A m \in Issuers : MayFail(m) => issuer[m].to \in Players
    <3> SUFFICES ASSUME NEW m \in Issuers, MayFail(m) PROVE issuer[m].to \in Players
      OBVIOUS
    <3>1. issuer[m] \in Jobs /\ issuer[m].step \in {"column", "effect"}
      BY DEF MayFail, At, SanctionTypes
    <3>2. QED
      BY <3>1, JobOf
  <2>2. QED
    BY <1>2, <2>1 DEF SanctionsNext, Doubt, SanctionTypes
<1>3. CASE Lapse /\ Doubt
  <2>1. PICK i \in Id :
          \/ punishments' = [punishments EXCEPT ![i].lapsed = TRUE]
          \/ punishments' = [punishments EXCEPT ![i].probation = FALSE]
    BY <1>3 DEF Lapse
  <2>2. punishments[i] \in RowsType /\ i \in 1 .. Len(punishments)
    BY IdIsNat
  <2>3. PICK row \in RowsType : punishments' = [punishments EXCEPT ![i] = row]
    <3>1. [punishments[i] EXCEPT !.lapsed = TRUE] \in RowsType
          /\ [punishments[i] EXCEPT !.probation = FALSE] \in RowsType
      BY <2>2 DEF RowsType
    <3>2. QED
      BY <2>1, <3>1
  <2>4. punishments' \in Seq(RowsType)
    BY <2>2, <2>3, ExceptSeq DEF SanctionTypes
  <2>5. QED
    BY <1>2, <1>3, <2>4 DEF Lapse, SanctionsNext, SanctionTypes
<1>4. QED
  BY <1>1, <1>2, <1>3, IssuingTypes, EffectTypes, PlayingTypes DEF SanctionsNext, Issuing, Playing

-----------------------------------------------------------------------------
(***************************************************************************)
(* The ladder.                                                             *)
(***************************************************************************)
\* What no step changes of the rows, and that probation does not begin again.
RowsKept ==
    \A i \in Id :
        /\ i \in Id'
        /\ punishments'[i].to = punishments[i].to /\ punishments'[i].kind = punishments[i].kind
        /\ punishments'[i].hours = punishments[i].hours
        /\ punishments'[i].level = punishments[i].level
        /\ punishments'[i].probation => punishments[i].probation

\* Inserting a row appends it.
LEMMA InsertKeeps ==
    ASSUME SanctionTypes, NEW m \in Issuers, NEW row \in RowsType, Insert(m, row)
    PROVE  /\ Id' = Id \union {Len(punishments) + 1} /\ Len(punishments) + 1 \notin Id
           /\ \A i \in Id : punishments'[i] = punishments[i]
           /\ punishments'[Len(punishments) + 1] = row
  BY AppendProperties, IdIsNat DEF Insert, SanctionTypes, Id

\* Changing a row changes no other one.
LEMMA ChangeKeeps ==
    ASSUME SanctionTypes, NEW i \in Id, NEW row, punishments' = [punishments EXCEPT ![i] = row]
    PROVE  /\ Id' = Id
           /\ \A j \in Id : punishments'[j] = IF j = i THEN row ELSE punishments[j]
  BY DEF Id, SanctionTypes

\* Revoking changes one row.
LEMMA RevokeRow ==
    ASSUME SanctionTypes, NEW m \in Issuers, Revoke(m)
    PROVE  \E i \in Id :
              /\ Id' = Id
              /\ \A j \in Id : j # i => punishments'[j] = punishments[j]
              /\ punishments'[i] = [punishments[i] EXCEPT !.revoked = TRUE]
              /\ issuer' = [issuer EXCEPT ![m] =
                     IF punishments[i].kind \in Shown
                     THEN [step |-> "effect", to |-> punishments[i].to,
                           kind |-> punishments[i].kind, row |-> i]
                     ELSE Rest]
<1>1. PICK i \in Id :
        /\ punishments' = [punishments EXCEPT ![i].revoked = TRUE]
        /\ issuer' = [issuer EXCEPT ![m] =
               IF punishments[i].kind \in Shown
               THEN [step |-> "effect", to |-> punishments[i].to,
                     kind |-> punishments[i].kind, row |-> i]
               ELSE Rest]
  BY DEF Revoke
<1>2. punishments' = [punishments EXCEPT ![i] = [punishments[i] EXCEPT !.revoked = TRUE]]
  BY <1>1
<1>3. QED
  BY <1>1, <1>2, ChangeKeeps

\* So does time.
LEMMA LapseRow ==
    ASSUME SanctionTypes, Lapse
    PROVE  \E i \in Id :
              /\ Id' = Id
              /\ \A j \in Id : j # i => punishments'[j] = punishments[j]
              /\ \/ punishments'[i] = [punishments[i] EXCEPT !.lapsed = TRUE]
                 \/ punishments'[i] = [punishments[i] EXCEPT !.probation = FALSE]
<1>1. PICK i \in Id :
        \/ punishments' = [punishments EXCEPT ![i].lapsed = TRUE]
        \/ punishments' = [punishments EXCEPT ![i].probation = FALSE]
  BY DEF Lapse
<1>2. \/ punishments' = [punishments EXCEPT ![i] = [punishments[i] EXCEPT !.lapsed = TRUE]]
      \/ punishments' = [punishments EXCEPT ![i] = [punishments[i] EXCEPT !.probation = FALSE]]
  BY <1>1
<1>3. QED
  BY <1>2, ChangeKeeps

\* The other steps of an issuer,
LEMMA EffectRows ==
    ASSUME NEW m \in Issuers,
           \/ Resolve(m) \/ Ban(m) \/ Warn(m) \/ Deliver(m) \/ Queue(m) \/ ReadActive(m)
           \/ SetColumn(m) \/ CopySnapshot(m) \/ SetSanctions(m) \/ SetAllowTrade(m)
           \/ EffectFails(m)
    PROVE  punishments' = punishments
  BY DEF Resolve, Ban, Warn, Deliver, Queue, ReadActive, SetColumn, CopySnapshot, SetSanctions,
     SetAllowTrade, EffectFails

\* and those of a session change no row.
LEMMA SessionRows ==
    ASSUME Playing
    PROVE  punishments' = punishments
  BY DEF Playing, Load, Bind, LoadActive, Project, LoadPending, SendPending, MarkDelivered,
     Bootstrapped, Leave, Rebuild, ReplaceSnapshot

\* The row an issuer of a punishment or an escalation inserts.
LEMMA Inserted ==
    ASSUME SanctionTypes, NEW m \in Issuers, Apply(m) \/ Escalate(m)
    PROVE  \E row \in RowsType :
              /\ Insert(m, row)
              /\ row.level # 0 =>
                    /\ Escalate(m) /\ row.level = issuer[m].level /\ row.level \in 1 .. Len(Ladder)
                    /\ row.kind = Ladder[row.level].kind
                    /\ row.hours = Normal(row.kind, Ladder[row.level].hours)
<1>1. CASE Apply(m)
  <2>1. PICK p \in Players, k \in Kinds, hours \in 0 .. 1 : Insert(m, Row(p, k, hours, 0))
    BY <1>1 DEF Apply
  <2>2. Row(p, k, hours, 0) \in RowsType
    BY RowType DEF AllKinds
  <2>3. QED
    BY <2>1, <2>2 DEF Row
<1>2. CASE Escalate(m)
  <2> DEFINE level == issuer[m].level
             row == Row(issuer[m].to, Ladder[level].kind, Ladder[level].hours, level)
  <2>1. issuer[m].step = "insert" /\ issuer[m] \in Jobs
    BY <1>2 DEF Escalate, SanctionTypes
  <2>2. issuer[m].to \in Players /\ level \in 1 .. Len(Ladder)
    BY <2>1, JobOf
  <2>3. Ladder[level] \in [kind : {"warn", "mute", "ban"}, hours : Nat] /\ level \in Nat
    <3>1. \A n \in 1 .. Len(Ladder) : Ladder[n] \in [kind : {"warn", "mute", "ban"}, hours : Nat]
      BY ElementOfSeq
    <3>2. QED
      BY <2>2, <3>1
  <2>4. row \in RowsType
    BY <2>2, <2>3, RowType DEF AllKinds
  <2>5. Insert(m, row)
    BY <1>2 DEF Escalate
  <2>6. row.level = level /\ row.kind = Ladder[level].kind
        /\ row.hours = Normal(Ladder[level].kind, Ladder[level].hours)
    BY DEF Row
  <2>7. QED
    BY <1>2, <2>2, <2>4, <2>5, <2>6
<1>3. QED
  BY <1>1, <1>2

\* What the ladder says of a row stays so.
LEMMA LevelsNext ==
    ASSUME SanctionTypes, LevelsFit, [SanctionsNext]_sanctions
    PROVE  LevelsFit' /\ RowsKept
<1>1. CASE punishments' = punishments
  BY <1>1 DEF LevelsFit, RowsKept, Id
<1>2. ASSUME NEW m \in Issuers, Apply(m) \/ Escalate(m) PROVE LevelsFit' /\ RowsKept
  <2>1. PICK row \in RowsType :
          /\ Insert(m, row)
          /\ row.level # 0 =>
                /\ Escalate(m) /\ row.level = issuer[m].level /\ row.level \in 1 .. Len(Ladder)
                /\ row.kind = Ladder[row.level].kind
                /\ row.hours = Normal(row.kind, Ladder[row.level].hours)
    BY <1>2, Inserted
  <2>2. /\ Id' = Id \union {Len(punishments) + 1}
        /\ \A i \in Id : punishments'[i] = punishments[i]
        /\ punishments'[Len(punishments) + 1] = row
    BY <2>1, InsertKeeps
  <2>3. QED
    BY <2>1, <2>2 DEF LevelsFit, RowsKept
<1>3. ASSUME NEW m \in Issuers, Revoke(m) PROVE LevelsFit' /\ RowsKept
  <2>1. PICK i \in Id :
          /\ Id' = Id
          /\ \A j \in Id : j # i => punishments'[j] = punishments[j]
          /\ punishments'[i] = [punishments[i] EXCEPT !.revoked = TRUE]
    BY <1>3, RevokeRow
  <2>2. punishments[i] \in RowsType
    BY IdIsNat
  <2>3. /\ punishments'[i].to = punishments[i].to
        /\ punishments'[i].kind = punishments[i].kind
        /\ punishments'[i].hours = punishments[i].hours
        /\ punishments'[i].level = punishments[i].level
        /\ punishments'[i].probation => punishments[i].probation
    BY <2>1, <2>2 DEF RowsType
  <2>4. \A j \in Id :
          /\ punishments'[j].to = punishments[j].to /\ punishments'[j].kind = punishments[j].kind
          /\ punishments'[j].hours = punishments[j].hours
          /\ punishments'[j].level = punishments[j].level
          /\ punishments'[j].probation => punishments[j].probation
    BY <2>1, <2>3
  <2>5. Id' = Id
    BY <2>1
  <2>6. QED
    BY <2>4, <2>5 DEF LevelsFit, RowsKept
<1>4. CASE Lapse
  <2>1. PICK i \in Id :
          /\ Id' = Id
          /\ \A j \in Id : j # i => punishments'[j] = punishments[j]
          /\ \/ punishments'[i] = [punishments[i] EXCEPT !.lapsed = TRUE]
             \/ punishments'[i] = [punishments[i] EXCEPT !.probation = FALSE]
    BY <1>4, LapseRow
  <2>2. punishments[i] \in RowsType
    BY IdIsNat
  <2>3. /\ punishments'[i].to = punishments[i].to
        /\ punishments'[i].kind = punishments[i].kind
        /\ punishments'[i].hours = punishments[i].hours
        /\ punishments'[i].level = punishments[i].level
        /\ punishments'[i].probation => punishments[i].probation
    <3>1. CASE punishments'[i] = [punishments[i] EXCEPT !.lapsed = TRUE]
      BY <2>2, <3>1 DEF RowsType
    <3>2. CASE punishments'[i] = [punishments[i] EXCEPT !.probation = FALSE]
      BY <2>2, <3>2 DEF RowsType
    <3>3. QED
      BY <2>1, <3>1, <3>2
  <2>4. \A j \in Id :
          /\ punishments'[j].to = punishments[j].to /\ punishments'[j].kind = punishments[j].kind
          /\ punishments'[j].hours = punishments[j].hours
          /\ punishments'[j].level = punishments[j].level
          /\ punishments'[j].probation => punishments[j].probation
    BY <2>1, <2>3
  <2>5. Id' = Id
    BY <2>1
  <2>6. QED
    BY <2>4, <2>5 DEF LevelsFit, RowsKept
<1>5. CASE UNCHANGED sanctions
  BY <1>1, <1>5 DEF sanctions
<1>6. QED
  BY <1>1, <1>2, <1>3, <1>4, <1>5, EffectRows, SessionRows DEF SanctionsNext, Issuing

\* A level of the ladder is found again in a row.
LEMMA LevelFound ==
    ASSUME NEW row, NEW n \in 1 .. Len(Ladder),
           row.kind = Ladder[n].kind, row.hours = Normal(row.kind, Ladder[n].hours),
           LadderTold
    PROVE  LevelOf(row) = n
<1> DEFINE same == {k \in DOMAIN Ladder : Ladder[k] = [kind |-> row.kind, hours |-> row.hours]}
<1>1. Ladder[n] \in [kind : {"warn", "mute", "ban"}, hours : Nat]
  BY ElementOfSeq
<1>2. row.hours = Ladder[n].hours
  BY <1>1 DEF LadderTold, Normal, Instant
<1>3. Ladder[n] = [kind |-> row.kind, hours |-> row.hours]
  BY <1>1, <1>2
<1>4. same = {n}
  <2>1. n \in same
    <3>1. DOMAIN Ladder = 1 .. Len(Ladder)
      BY LenProperties
    <3>2. QED
      BY <1>3, <3>1
  <2>2. \A k \in same : k = n
    BY <1>3, <2>1 DEF LadderTold
  <2>3. QED
    BY <2>1, <2>2
<1>5. Max({n}) = n
  BY DEF Max
<1>6. QED
  BY <1>4, <1>5 DEF LevelOf

\* An issuer's next level stays the right one until it is inserted.
LEMMA NextLevelKept ==
    ASSUME LadderInv, LadderTold, [SanctionsNext]_sanctions
    PROVE  NextFits'
<1>1. SanctionTypes /\ LevelsFit /\ NextFits /\ LevelsFit' /\ RowsKept
  BY LevelsNext DEF LadderInv
<1>2. \A p : Escalations(p) \subseteq Escalations(p)'
  BY <1>1 DEF RowsKept, Escalations
<1>3. ASSUME NEW job, Follows(job) PROVE Follows(job)'
  <2>1. job.read # {} => Max(job.read) \in Id
    <3>1. Id = 1 .. Len(punishments) /\ Len(punishments) \in Nat
      BY <1>1, IdIsNat
    <3>2. job.read \in SUBSET (1 .. Len(punishments))
      BY <1>3, <3>1 DEF Follows, Escalations
    <3>3. QED
      BY <3>1, <3>2, LastOf
  <2>2. QED
    BY <1>1, <1>2, <1>3, <2>1 DEF Follows, RowsKept
<1>4. ASSUME NEW p \in Players, Escalations(p) # {}, punishments[Max(Escalations(p))].probation
      PROVE  Entry(NextLevel(p)) = Min({Len(Ladder), punishments[Max(Escalations(p))].level + 1})
  <2> DEFINE last == punishments[Max(Escalations(p))]
  <2>1. Id = 1 .. Len(punishments) /\ Len(punishments) \in Nat
    BY <1>1, IdIsNat
  <2>2. Max(Escalations(p)) \in Escalations(p)
    BY <1>4, <2>1, LastOf DEF Escalations
  <2>3. /\ last.level \in 1 .. Len(Ladder) /\ last.kind = Ladder[last.level].kind
        /\ last.hours = Normal(last.kind, Ladder[last.level].hours)
    BY <1>1, <2>2 DEF LevelsFit, Escalations
  <2>4. LevelOf(last) = last.level
    BY <2>3, LevelFound
  <2>5. NextLevel(p) = last.level + 1
    BY <1>4, <2>4 DEF NextLevel
  <2>6. last.level + 1 \in Nat \ {0}
    BY <2>3
  <2>7. QED
    BY <2>5, <2>6, EntryIsLevel
<1>5. ASSUME NEW m \in Issuers, issuer'[m].step = "insert"
      PROVE  \/ issuer[m].step = "insert" /\ issuer'[m] = issuer[m]
             \/ \E p \in Players :
                   /\ punishments' = punishments
                   /\ issuer'[m] = [step |-> "insert", to |-> p, level |-> Entry(NextLevel(p)),
                                    read |-> Escalations(p)]
  <2>1. issuer \in [Issuers -> Jobs]
    BY <1>1 DEF SanctionTypes
  <2>2. ASSUME NEW n \in Issuers, NEW row, Insert(n, row)
        PROVE  issuer'[m] = issuer[m]
    BY <1>5, <2>1, <2>2 DEF Insert
  <2>3. ASSUME NEW n \in Issuers, Apply(n) \/ Escalate(n) PROVE issuer'[m] = issuer[m]
    BY <1>1, <2>2, <2>3, Inserted
  <2>4. ASSUME NEW n \in Issuers, Resolve(n)
        PROVE  \/ issuer'[m] = issuer[m]
               \/ \E p \in Players :
                     /\ punishments' = punishments
                     /\ issuer'[m] = [step |-> "insert", to |-> p, level |-> Entry(NextLevel(p)),
                                      read |-> Escalations(p)]
    BY <2>1, <2>4 DEF Resolve
  <2>5. ASSUME NEW n \in Issuers, Revoke(n) PROVE issuer'[m] = issuer[m]
    <3>1. PICK i \in Id : issuer' = [issuer EXCEPT ![n] =
              IF punishments[i].kind \in Shown
              THEN [step |-> "effect", to |-> punishments[i].to,
                    kind |-> punishments[i].kind, row |-> i]
              ELSE Rest]
      BY <1>1, <2>5, RevokeRow
    <3>2. n # m
      BY <1>5, <2>1, <3>1 DEF Rest
    <3>3. QED
      BY <2>1, <3>1, <3>2
  <2>6. ASSUME NEW n \in Issuers,
               \/ Ban(n) \/ Warn(n) \/ Deliver(n) \/ Queue(n) \/ ReadActive(n) \/ SetColumn(n)
               \/ CopySnapshot(n) \/ SetSanctions(n) \/ SetAllowTrade(n) \/ EffectFails(n)
        PROVE  issuer'[m] = issuer[m]
    <3>1. /\ \A i \in Issuers \ {n} : issuer'[i] = issuer[i]
          /\ issuer'[n].step # "insert"
      <4>1. issuer[n] \in Jobs
        BY <2>1
      <4>2. issuer[n].step \in {"effect", "send", "queue", "column", "find", "set", "allow"} =>
              \A step : [issuer[n] EXCEPT !.step = step].step = step
        BY <4>1, JobOf
      <4>3. Rest.step # "insert"
        BY DEF Rest
      <4>4. CASE Ban(n) \/ Deliver(n) \/ Queue(n) \/ EffectFails(n)
        BY <2>1, <4>3, <4>4 DEF Ban, Deliver, Queue, EffectFails, Then
      <4>5. CASE Warn(n)
        BY <2>1, <4>2, <4>5 DEF Warn, Then, At
      <4>6. CASE ReadActive(n)
        BY <2>1, <4>6 DEF ReadActive, Then
      <4>7. CASE SetColumn(n)
        BY <2>1, <4>2, <4>7 DEF SetColumn, Then, At
      <4>8. CASE CopySnapshot(n)
        <5>1. PICK mine : mine = live[issuer[n].to]
          OBVIOUS
        <5>2. CASE mine.on
          BY <2>1, <4>8, <5>1, <5>2 DEF CopySnapshot, Then
        <5>3. CASE ~mine.on
          BY <2>1, <4>3, <4>8, <5>1, <5>3 DEF CopySnapshot, Then
        <5>4. QED
          BY <5>2, <5>3
      <4>9. CASE SetSanctions(n) \/ SetAllowTrade(n)
        <5>1. issuer[n].step \in {"set", "allow"}
          BY <4>9 DEF SetSanctions, SetAllowTrade, At
        <5>2. issuer' = [issuer EXCEPT ![n] = Rest]
              \/ issuer' = [issuer EXCEPT ![n] = [issuer[n] EXCEPT !.step = "allow"]]
          BY <4>9 DEF SetSanctions, SetAllowTrade, Then
        <5>3. [issuer[n] EXCEPT !.step = "allow"].step = "allow"
          BY <4>2, <5>1
        <5>4. QED
          BY <2>1, <4>3, <5>2, <5>3
      <4>10. QED
        BY <2>6, <4>4, <4>5, <4>6, <4>7, <4>8, <4>9
    <3>2. QED
      BY <1>5, <2>1, <3>1
  <2>7. ASSUME Playing \/ Lapse \/ UNCHANGED sanctions PROVE issuer' = issuer
    BY <2>7 DEF Playing, Load, Bind, LoadActive, Project, LoadPending, SendPending, MarkDelivered,
       Bootstrapped, Leave, Rebuild, ReplaceSnapshot, Lapse, sanctions
  <2>8. QED
    <3>1. CASE issuer'[m] = issuer[m]
      BY <1>5, <3>1
    <3>2. CASE UNCHANGED sanctions \/ Playing \/ Lapse
      BY <2>7, <3>1, <3>2
    <3>3. CASE Issuing
      <4>1. PICK n \in Issuers :
              \/ Apply(n) \/ Resolve(n) \/ Escalate(n) \/ Revoke(n)
              \/ Ban(n) \/ Warn(n) \/ Deliver(n) \/ Queue(n)
              \/ ReadActive(n) \/ SetColumn(n) \/ CopySnapshot(n) \/ SetSanctions(n)
              \/ SetAllowTrade(n) \/ EffectFails(n)
        BY <3>3 DEF Issuing
      <4>2. CASE Resolve(n)
        BY <2>4, <3>1, <4>2
      <4>3. CASE ~Resolve(n)
        BY <2>3, <2>5, <2>6, <3>1, <4>1, <4>3
      <4>4. QED
        BY <4>2, <4>3
    <3>4. QED
      BY <3>2, <3>3 DEF SanctionsNext
<1>6. SUFFICES ASSUME NEW m \in Issuers, issuer'[m].step = "insert" PROVE Follows(issuer[m])'
  BY DEF NextFits
<1>7. CASE issuer[m].step = "insert" /\ issuer'[m] = issuer[m]
  <2>1. PICK job : job = issuer[m]
    OBVIOUS
  <2>2. Follows(job)'
    BY <1>1, <1>3, <1>7, <2>1 DEF NextFits
  <2>3. QED
    BY <1>7, <2>1, <2>2 DEF Follows
<1>8. ASSUME NEW p \in Players, punishments' = punishments,
             issuer'[m] = [step |-> "insert", to |-> p, level |-> Entry(NextLevel(p)),
                           read |-> Escalations(p)]
      PROVE  Follows(issuer[m])'
  BY <1>2, <1>4, <1>8 DEF Follows
<1>9. QED
  BY <1>5, <1>6, <1>7, <1>8

\* Each escalation in a row is one level above the last one, up to the top of the
\* ladder, for any ladder whose entries can be told apart, as those of the migration
\* can: LastEscalation finds the level again although rows do not store it.
THEOREM EscalationsClimb == ASSUME LadderTold PROVE SanctionsSpec => Climbs
<1> DEFINE Step ==
      \A m \in Issuers :
          /\ Escalate(m) /\ issuer[m].read = Escalations(issuer[m].to) /\ issuer[m].read # {}
          /\ punishments[Max(issuer[m].read)].probation
          => Last(punishments').level = Min({Len(Ladder), punishments[Max(issuer[m].read)].level + 1})
<1>1. SanctionsInit => LadderInv
  BY TypesInit DEF SanctionsInit, LadderInv, LevelsFit, NextFits, Id, Rest
<1>2. LadderInv /\ [SanctionsNext]_sanctions => LadderInv'
  BY TypesNext, LevelsNext, NextLevelKept DEF LadderInv
<1>3. LadderInv => Step
  <2> SUFFICES ASSUME LadderInv, NEW m \in Issuers, Escalate(m), issuer[m].read # {},
                      punishments[Max(issuer[m].read)].probation
               PROVE  Last(punishments').level =
                          Min({Len(Ladder), punishments[Max(issuer[m].read)].level + 1})
    OBVIOUS
  <2> DEFINE level == issuer[m].level
             row == Row(issuer[m].to, Ladder[level].kind, Ladder[level].hours, level)
  <2>1. punishments' = Append(punishments, row) /\ row.level = level
    BY DEF Escalate, Insert, Row
  <2>2. Last(punishments') = row
    BY <2>1, AppendProperties DEF Last, LadderInv, SanctionTypes
  <2>3. level = Min({Len(Ladder), punishments[Max(issuer[m].read)].level + 1})
    BY DEF LadderInv, NextFits, Follows, Escalate
  <2>4. QED
    BY <2>1, <2>2, <2>3
<1>4. LadderInv /\ [SanctionsNext]_sanctions => [Step]_sanctions
  BY <1>3
<1>5. QED
  BY <1>1, <1>2, <1>4, PTL DEF SanctionsSpec, Climbs

-----------------------------------------------------------------------------
(***************************************************************************)
(* Snapshots.                                                              *)
(***************************************************************************)
Loading == {"bind", "active", "project"}

\* Rows of a kind that lapse, but are not revoked, inserted or changed otherwise.
Steady(p, k) == Active(p, k)' \subseteq Active(p, k) /\ Unrevoked(p, k)' = Unrevoked(p, k)

\* A set with one element.
LEMMA OneElement ==
    ASSUME NEW S, IsFiniteSet(S), ~(Cardinality(S) > 1), NEW v \in S, NEW w \in S
    PROVE  v = w
<1> SUFFICES ASSUME v # w PROVE FALSE
  OBVIOUS
<1>1. IsFiniteSet({v}) /\ Cardinality({v}) = 1
  BY FS_Singleton
<1>2. Cardinality({v} \union {w}) = 2
  <2>1. w \notin {v}
    OBVIOUS
  <2>2. Cardinality({v} \union {w}) = Cardinality({v}) + 1
    BY <1>1, <2>1, FS_AddElement
  <2>3. Cardinality({v}) + 1 = 2
    BY <1>1
  <2>4. QED
    BY <2>2, <2>3
<1>3. Cardinality({v} \union {w}) <= Cardinality(S)
  BY FS_Subset
<1>4. Cardinality(S) \in Nat
  BY FS_CardinalityType
<1>5. QED
  BY <1>2, <1>3, <1>4

\* Of a player who is not doubtful, nobody's work overlaps.
LEMMA NoDoubt ==
    ASSUME SanctionsNext, NEW p \in Players \ doubtful'
    PROVE  /\ p \notin doubtful /\ Alone(p)'
           /\ \A m \in Issuers : MayFail(m) /\ issuer[m].to = p => issuer'[m] # Rest
<1>1. doubtful' =
          doubtful
          \union {q \in Players : Cardinality(Working(q)') > 1 \/ login'[q].step = "replace"}
          \union {issuer[m].to : m \in {n \in Issuers : MayFail(n) /\ issuer'[n] = Rest}}
  BY DEF SanctionsNext, Doubt
<1>2. p \notin doubtful /\ ~(Cardinality(Working(p)') > 1) /\ login'[p].step # "replace"
  BY <1>1
<1>3. \A m \in Issuers : MayFail(m) /\ issuer[m].to = p => issuer'[m] # Rest
  BY <1>1
<1>4. IsFiniteSet(Working(p)')
  <2>1. Working(p)' \subseteq Issuers \union {p}
    BY DEF Working, Refreshing
  <2>2. IsFiniteSet(Issuers \union {p})
    BY FS_AddElement
  <2>3. QED
    BY <2>1, <2>2, FS_Subset
<1>5. \A v, w \in Working(p)' : v = w
  BY <1>2, <1>4, OneElement
<1>6. QED
  BY <1>2, <1>3, <1>5 DEF Alone

\* What that means now,
LEMMA AloneNow ==
    ASSUME SanctionTypes, NEW p \in Players, Alone(p)
    PROVE  /\ \A m, n \in Refreshing(p) : m = n
           /\ login[p].step \in Loading => Refreshing(p) = {}
           /\ login[p].step \in Loading \union {"rest", "pending", "drain", "mark"}
<1>1. login[p] \in Logins
  BY DEF SanctionTypes
<1>2. login[p].step \in Loading \union {"rest", "pending", "drain", "mark"}
  BY <1>1, LoginOf DEF Alone, Loading
<1>3. login[p].step \in Loading => p \in Working(p)
  BY DEF Loading, Working
<1>4. Refreshing(p) \subseteq Working(p) /\ p \notin Refreshing(p)
  BY DEF Working, Refreshing
<1>5. QED
  BY <1>2, <1>3, <1>4 DEF Alone

\* and after a step.
LEMMA AloneThen ==
    ASSUME SanctionTypes', NEW p \in Players, Alone(p)'
    PROVE  /\ \A m, n \in Refreshing(p)' : m = n
           /\ login'[p].step \in Loading => Refreshing(p)' = {}
           /\ login'[p].step \in Loading \union {"rest", "pending", "drain", "mark"}
<1>1. login'[p] \in Logins
  BY DEF SanctionTypes
<1>2. login'[p].step \in Loading \union {"rest", "pending", "drain", "mark"}
  BY <1>1, LoginOf DEF Alone, Loading
<1>3. login'[p].step \in Loading => p \in Working(p)'
  BY DEF Loading, Working
<1>4. Refreshing(p)' \subseteq Working(p)' /\ p \notin Refreshing(p)'
  BY DEF Working, Refreshing
<1>5. QED
  BY <1>2, <1>3, <1>4 DEF Alone

\* A step that changes nothing of a player but that a session may end.
LEMMA OthersWork ==
    ASSUME SanctionTypes, SanctionTypes', NEW p \in Players, Certain(p), Alone(p)',
           \A k \in Shown : Steady(p, k),
           \A m \in Issuers : m \in Refreshing(p) \/ m \in Refreshing(p)' => issuer'[m] = issuer[m],
           allowed'[p] = allowed[p],
           live'[p] = live[p] \/ ~live'[p].on,
           LoginFits(p)',
           live'[p].on /\ login'[p].step \notin Loading => login[p].step \notin Loading
    PROVE  Certain(p)'
<1>1. Refreshing(p)' = Refreshing(p) /\ Refreshing(p) \subseteq Issuers
  BY DEF Refreshing
<1>2. \A m \in Refreshing(p) : issuer'[m] = issuer[m] /\ issuer[m].kind \in Shown
  BY <1>1 DEF Refreshing
<1>3. "trade_lock" \in Shown /\ \A k \in Shown : Other(k) \in Shown
  BY DEF Shown, Other
<1>4. /\ \A k \in Shown : \A rows : Fresh(p, k, rows) => Fresh(p, k, rows)'
      /\ \A allow : Allows(p, allow) => Allows(p, allow)'
  BY <1>3 DEF Steady, Fresh, Allows
<1>5. ColumnFits(p)'
  BY <1>1, <1>2, <1>3 DEF Certain, ColumnFits, Allows, Steady
<1>6. RefreshFits(p)'
  <2> SUFFICES ASSUME NEW m \in Refreshing(p)
               PROVE  /\ issuer'[m].step \in {"column", "find", "set", "allow"} =>
                            Fresh(p, issuer[m].kind, issuer[m].rows)'
                      /\ issuer'[m].step \in {"set", "allow"} /\ live'[p].on =>
                            live'[p].session = issuer'[m].session
                      /\ issuer'[m].step = "set" /\ live'[p].on =>
                            Fresh(p, Other(issuer[m].kind), issuer[m].other)'
    BY <1>1 DEF RefreshFits
  <2>1. PICK job : job = issuer[m] /\ job = issuer'[m] /\ job.kind \in Shown
    BY <1>2
  <2>2. /\ job.step \in {"column", "find", "set", "allow"} => Fresh(p, job.kind, job.rows)
        /\ job.step \in {"set", "allow"} /\ live[p].on => live[p].session = job.session
        /\ job.step = "set" /\ live[p].on => Fresh(p, Other(job.kind), job.other)
    BY <2>1 DEF Certain, RefreshFits
  <2>3. /\ job.step \in {"column", "find", "set", "allow"} => Fresh(p, job.kind, job.rows)'
        /\ job.step = "set" /\ live'[p].on => Fresh(p, Other(job.kind), job.other)'
    BY <1>3, <1>4, <2>1, <2>2
  <2>4. QED
    BY <2>1, <2>2, <2>3 DEF Fresh, Other
<1>7. SnapshotFits(p)'
  <2> SUFFICES ASSUME live'[p].on PROVE SnapshotFits(p)'
    BY DEF SnapshotFits
  <2>1. live'[p] = live[p]
    OBVIOUS
  <2>2. (\A m \in Refreshing(p)' : issuer'[m].kind # "trade_lock") => Allows(p, live[p].allow)'
    <3>1. (\A m \in Refreshing(p)' : issuer'[m].kind # "trade_lock") => Allows(p, live[p].allow)
      BY <1>1, <1>2, <2>1 DEF Certain, SnapshotFits
    <3>2. QED
      BY <1>3, <2>1, <3>1 DEF Allows, Steady
  <2>3. ASSUME login'[p].step \notin {"bind", "active", "project", "replace"}, NEW k \in Shown,
               \A m \in Refreshing(p)' : issuer'[m].kind = k => issuer'[m].step = "allow"
        PROVE  Fresh(p, k, live[p][k])'
    <3>1. login[p].step \notin {"bind", "active", "project", "replace"}
      BY <2>3 DEF Certain, Alone, Loading
    <3>2. Fresh(p, k, live[p][k])
      BY <1>1, <1>2, <2>1, <2>3, <3>1 DEF Certain, SnapshotFits
    <3>3. QED
      BY <2>1, <3>2 DEF Fresh, Steady
  <2>4. QED
    BY <2>2, <2>3 DEF SnapshotFits
<1>8. QED
  BY <1>5, <1>6, <1>7 DEF Certain

\* A punishment that is inserted or revoked is about to be shown.
LEMMA RefreshBegins ==
    ASSUME SanctionTypes, SanctionTypes', NEW p \in Players, Certain(p), Alone(p)',
           NEW m \in Issuers, m \notin Refreshing(p), NEW k \in Shown, NEW row,
           issuer' = [issuer EXCEPT ![m] =
               [step |-> "effect", to |-> p, kind |-> k, row |-> row]],
           UNCHANGED <<allowed, live, login>>,
           \A j \in Shown : j # k => Steady(p, j)
    PROVE  Certain(p)'
<1>1. issuer'[m] = [step |-> "effect", to |-> p, kind |-> k, row |-> row]
  BY DEF SanctionTypes
<1>2. m \in Refreshing(p)'
  BY <1>1 DEF Refreshing
<1>3. Refreshing(p)' = {m} /\ login'[p].step \notin Loading
  BY <1>2, AloneThen
<1>4. Refreshing(p) = {}
  <2>1. \A n \in Issuers \ {m} : issuer'[n] = issuer[n]
    BY DEF SanctionTypes
  <2>2. Refreshing(p) \subseteq Refreshing(p)'
    BY <2>1 DEF Refreshing
  <2>3. QED
    BY <1>3, <2>2
<1>5. k # "trade_lock" => Steady(p, "trade_lock")
  BY DEF Shown
<1>6. ColumnFits(p)'
  BY <1>1, <1>3, <1>4, <1>5 DEF Certain, ColumnFits, Allows, Steady
<1>7. LoginFits(p)' /\ RefreshFits(p)'
  BY <1>1, <1>3 DEF LoginFits, RefreshFits, Loading
<1>8. SnapshotFits(p)'
  <2> SUFFICES ASSUME live'[p].on PROVE SnapshotFits(p)'
    BY DEF SnapshotFits
  <2>1. (\A n \in Refreshing(p)' : issuer'[n].kind # "trade_lock") => Allows(p, live[p].allow)'
    BY <1>1, <1>3, <1>4, <1>5 DEF Certain, SnapshotFits, Allows, Steady
  <2>2. ASSUME login'[p].step \notin {"bind", "active", "project", "replace"}, NEW j \in Shown,
               \A n \in Refreshing(p)' : issuer'[n].kind = j => issuer'[n].step = "allow"
        PROVE  Fresh(p, j, live[p][j])'
    <3>1. j # k /\ Steady(p, j)
      BY <1>1, <1>3, <2>2
    <3>2. Fresh(p, j, live[p][j])
      BY <1>4, <2>2 DEF Certain, SnapshotFits
    <3>3. QED
      BY <3>1, <3>2 DEF Fresh, Steady
  <2>3. QED
    BY <2>1, <2>2 DEF SnapshotFits
<1>9. QED
  BY <1>6, <1>7, <1>8 DEF Certain

\* A refresh is the only one, and goes on while no session begins.
LEMMA OwnRefresh ==
    ASSUME SanctionTypes, NEW p \in Players, Certain(p), NEW m \in Refreshing(p)
    PROVE  /\ Refreshing(p) = {m} /\ login[p].step \notin Loading
           /\ m \in Issuers /\ issuer[m] \in Jobs /\ issuer[m].to = p /\ issuer[m].kind \in Shown
           /\ issuer[m].step \in {"column", "find", "set", "allow"} =>
                 Fresh(p, issuer[m].kind, issuer[m].rows)
           /\ issuer[m].step \in {"set", "allow"} /\ live[p].on =>
                 live[p].session = issuer[m].session
           /\ issuer[m].step = "set" /\ live[p].on =>
                 Fresh(p, Other(issuer[m].kind), issuer[m].other)
           /\ issuer[m].kind # "trade_lock" \/ issuer[m].step \in {"find", "set", "allow"} =>
                 Allows(p, allowed[p])
           /\ issuer[m].kind # "trade_lock" /\ live[p].on => Allows(p, live[p].allow)
           /\ live[p].on => \A k \in Shown :
                 issuer[m].kind # k \/ issuer[m].step = "allow" => Fresh(p, k, live[p][k])
<1>1. Refreshing(p) = {m} /\ login[p].step \notin Loading
      /\ login[p].step \in Loading \union {"rest", "pending", "drain", "mark"}
  BY AloneNow DEF Certain
<1>2. m \in Issuers /\ issuer[m] \in Jobs /\ issuer[m].to = p /\ issuer[m].kind \in Shown
  BY DEF Refreshing, SanctionTypes
<1>3. ColumnFits(p) /\ RefreshFits(p) /\ SnapshotFits(p)
  BY DEF Certain
<1>4. issuer[m].kind # "trade_lock" \/ issuer[m].step \in {"find", "set", "allow"} =>
          Allows(p, allowed[p])
  BY <1>1, <1>3 DEF ColumnFits
<1>5. live[p].on =>
         /\ issuer[m].kind # "trade_lock" => Allows(p, live[p].allow)
         /\ \A k \in Shown :
               issuer[m].kind # k \/ issuer[m].step = "allow" => Fresh(p, k, live[p][k])
  BY <1>1, <1>3 DEF SnapshotFits, Loading
<1>6. QED
  BY <1>1, <1>2, <1>3, <1>4, <1>5 DEF RefreshFits

\* What the end of a refresh has to establish,
LEMMA RefreshEnds ==
    ASSUME SanctionTypes, NEW p \in Players, Certain(p), NEW m \in Refreshing(p), Alone(p)',
           \A n \in Issuers \ {m} : issuer'[n] = issuer[n],
           issuer'[m] = Rest,
           UNCHANGED <<punishments, login>>,
           Allows(p, allowed'[p]),
           live'[p].on => Allows(p, live'[p].allow),
           live'[p].on => \A k \in Shown : Fresh(p, k, live'[p][k])
    PROVE  Certain(p)'
<1>1. Refreshing(p) = {m} /\ login[p].step \notin Loading /\ m \in Issuers
  BY OwnRefresh
<1>2. Refreshing(p)' = {}
  BY <1>1 DEF Refreshing, Rest
<1>3. \A q, k : Active(q, k)' = Active(q, k) /\ Unrevoked(q, k)' = Unrevoked(q, k)
  BY DEF Active, Unrevoked, Id, ActiveAt
<1>4. ColumnFits(p)'
  BY <1>3 DEF ColumnFits, Allows
<1>5. LoginFits(p)' /\ RefreshFits(p)'
  BY <1>1, <1>2 DEF LoginFits, RefreshFits, Loading
<1>6. SnapshotFits(p)'
  BY <1>3 DEF SnapshotFits, Allows, Fresh
<1>7. QED
  BY <1>4, <1>5, <1>6 DEF Certain

\* and what its next step has.
LEMMA RefreshGoesOn ==
    ASSUME SanctionTypes, NEW p \in Players, Certain(p), NEW m \in Refreshing(p), Alone(p)',
           \A n \in Issuers \ {m} : issuer'[n] = issuer[n],
           issuer'[m].step \in {"column", "find", "set", "allow"},
           issuer'[m].to = p, issuer'[m].kind = issuer[m].kind,
           UNCHANGED <<punishments, login>>,
           issuer'[m].step = "column" => issuer[m].kind = "trade_lock",
           issuer'[m].step # "column" => Allows(p, allowed'[p]),
           Fresh(p, issuer[m].kind, issuer'[m].rows),
           issuer'[m].step \in {"set", "allow"} /\ live'[p].on =>
               live'[p].session = issuer'[m].session,
           issuer'[m].step = "set" /\ live'[p].on =>
               Fresh(p, Other(issuer[m].kind), issuer'[m].other),
           live'[p].on /\ issuer[m].kind # "trade_lock" => Allows(p, live'[p].allow),
           live'[p].on => \A k \in Shown :
               issuer[m].kind # k \/ issuer'[m].step = "allow" => Fresh(p, k, live'[p][k])
    PROVE  Certain(p)'
<1>1. Refreshing(p) = {m} /\ login[p].step \notin Loading /\ m \in Issuers
      /\ issuer[m].kind \in Shown
  BY OwnRefresh
<1>2. Refreshing(p)' = {m}
  BY <1>1 DEF Refreshing
<1>3. \A q, k : Active(q, k)' = Active(q, k) /\ Unrevoked(q, k)' = Unrevoked(q, k)
  BY DEF Active, Unrevoked, Id, ActiveAt
<1>4. ColumnFits(p)'
  BY <1>2, <1>3 DEF ColumnFits, Allows
<1>5. LoginFits(p)'
  BY <1>1 DEF LoginFits, Loading
<1>6. RefreshFits(p)'
  BY <1>2, <1>3 DEF RefreshFits, Fresh, Other
<1>7. SnapshotFits(p)'
  <2> SUFFICES ASSUME live'[p].on PROVE SnapshotFits(p)'
    BY DEF SnapshotFits
  <2>1. (\A n \in Refreshing(p)' : issuer'[n].kind # "trade_lock") => Allows(p, live[p].allow)'
    BY <1>2, <1>3 DEF Allows
  <2>2. ASSUME NEW k \in Shown,
               \A n \in Refreshing(p)' : issuer'[n].kind = k => issuer'[n].step = "allow"
        PROVE  Fresh(p, k, live[p][k])'
    <3>1. Fresh(p, k, live'[p][k])
      BY <1>2, <2>2
    <3>2. QED
      BY <1>3, <3>1 DEF Fresh
  <2>3. QED
    BY <2>1, <2>2 DEF SnapshotFits
<1>8. QED
  BY <1>4, <1>5, <1>6, <1>7 DEF Certain

\* The steps of a refresh.
LEMMA RefreshSteps ==
    ASSUME SanctionTypes, SanctionTypes', SanctionsNext, NEW p \in Players \ doubtful', Certain(p),
           NEW m \in Refreshing(p),
           \/ ReadActive(m) \/ SetColumn(m) \/ CopySnapshot(m) \/ SetSanctions(m)
           \/ SetAllowTrade(m) \/ EffectFails(m)
    PROVE  Certain(p)'
<1> DEFINE kind == issuer[m].kind
           rows == issuer[m].rows
<1>1. Alone(p)' /\ (MayFail(m) => issuer'[m] # Rest) /\ p \in Players
  BY NoDoubt, OwnRefresh
<1>2. /\ m \in Issuers /\ issuer[m] \in Jobs /\ issuer[m].to = p /\ kind \in Shown
      /\ live[p] \in Snapshots /\ allowed[p] \in BOOLEAN
  BY OwnRefresh DEF SanctionTypes
<1>3. issuer[m].step \in {"column", "find", "set", "allow"} => Fresh(p, kind, rows)
  BY <1>1, OwnRefresh
<1>4. rows # {} /\ kind = "trade_lock" /\ Fresh(p, kind, rows) => Unrevoked(p, "trade_lock") # {}
  BY DEF Fresh
<1>5. \A job : issuer' = [issuer EXCEPT ![m] = job] =>
                   issuer'[m] = job /\ \A n \in Issuers \ {m} : issuer'[n] = issuer[n]
  BY <1>2 DEF SanctionTypes
<1>6. CASE ReadActive(m)
  <2> DEFINE job == [step |-> IF kind = "trade_lock" THEN "column" ELSE "find", to |-> p,
                     kind |-> kind, rows |-> Active(p, kind)]
  <2>1. issuer' = [issuer EXCEPT ![m] = job] /\ UNCHANGED <<punishments, allowed, live, login>>
    BY <1>2, <1>6 DEF ReadActive, Then
  <2>2. Fresh(p, kind, Active(p, kind))
    BY DEF Fresh, Active, Unrevoked, ActiveAt
  <2>3. /\ issuer'[m] = job /\ \A n \in Issuers \ {m} : issuer'[n] = issuer[n]
    BY <1>5, <2>1
  <2>4. /\ issuer'[m].step = (IF kind = "trade_lock" THEN "column" ELSE "find")
        /\ issuer'[m].to = p /\ issuer'[m].kind = kind /\ issuer'[m].rows = Active(p, kind)
    BY <2>3
  <2>5. kind # "trade_lock" => Allows(p, allowed[p])
    BY <1>1, OwnRefresh
  <2>6. /\ live[p].on /\ kind # "trade_lock" => Allows(p, live[p].allow)
        /\ live[p].on => \A k \in Shown : kind # k => Fresh(p, k, live[p][k])
    BY <1>1, OwnRefresh
  <2>7. QED
    BY <1>1, <2>1, <2>2, <2>3, <2>4, <2>5, <2>6, RefreshGoesOn
<1>7. CASE SetColumn(m)
  <2> DEFINE job == [issuer[m] EXCEPT !.step = "find"]
  <2>1. /\ issuer' = [issuer EXCEPT ![m] = job] /\ UNCHANGED <<punishments, live, login>>
        /\ allowed'[p] = (rows = {}) /\ issuer[m].step = "column"
    BY <1>2, <1>7 DEF SetColumn, Then, At, SanctionTypes
  <2>2. issuer[m] \in [step : {"column", "find"}, to : Players, kind : Shown, rows : SUBSET Nat]
        /\ kind = "trade_lock"
    BY <1>2, <2>1, JobOf
  <2>3. /\ issuer'[m] = job /\ \A n \in Issuers \ {m} : issuer'[n] = issuer[n]
    BY <1>5, <2>1
  <2>4. issuer'[m].step = "find" /\ issuer'[m].to = p /\ issuer'[m].kind = kind
        /\ issuer'[m].rows = rows
    BY <1>2, <2>2, <2>3
  <2>5. Allows(p, allowed'[p])
    BY <1>3, <1>4, <2>1, <2>2 DEF Allows
  <2>6. /\ live[p].on /\ kind # "trade_lock" => Allows(p, live[p].allow)
        /\ live[p].on => \A k \in Shown : kind # k => Fresh(p, k, live[p][k])
    BY <1>1, OwnRefresh
  <2>7. QED
    BY <1>1, <1>3, <2>1, <2>3, <2>4, <2>5, <2>6, RefreshGoesOn
<1>8. CASE CopySnapshot(m)
  <2> DEFINE other == IF kind = "mute" THEN live[p].trade_lock ELSE live[p].mute
             job == [step |-> "set", to |-> p, kind |-> kind, rows |-> rows,
                     session |-> live[p].session, other |-> other]
  <2>1. /\ issuer[m].step = "find" /\ UNCHANGED <<punishments, allowed, live, login>>
        /\ issuer' = [issuer EXCEPT ![m] = IF ~live[p].on THEN Rest ELSE job]
    BY <1>2, <1>8 DEF CopySnapshot, Then, At
  <2>2. Allows(p, allowed[p])
    BY <1>1, <2>1, OwnRefresh
  <2>3. CASE ~live[p].on
    <3>1. issuer'[m] = Rest /\ \A n \in Issuers \ {m} : issuer'[n] = issuer[n]
      BY <1>5, <2>1, <2>3
    <3>2. QED
      BY <1>1, <2>1, <2>2, <2>3, <3>1, RefreshEnds
  <2>4. CASE live[p].on
    <3>1. issuer'[m] = job /\ \A n \in Issuers \ {m} : issuer'[n] = issuer[n]
      BY <1>5, <2>1, <2>4
    <3>2. /\ issuer'[m].step = "set" /\ issuer'[m].to = p /\ issuer'[m].kind = kind
          /\ issuer'[m].rows = rows /\ issuer'[m].session = live[p].session
          /\ issuer'[m].other = other
      BY <3>1
    <3>3. /\ kind # "trade_lock" => Allows(p, live[p].allow)
          /\ \A k \in Shown : kind # k => Fresh(p, k, live[p][k])
      BY <1>1, <2>4, OwnRefresh
    <3>4. other = live[p][Other(kind)] /\ Other(kind) \in Shown /\ Other(kind) # kind
      BY <1>2 DEF Other, Shown
    <3>5. Fresh(p, Other(kind), other)
      BY <3>3, <3>4
    <3>6. QED
      BY <1>1, <1>3, <2>1, <2>2, <2>4, <3>1, <3>2, <3>3, <3>5, RefreshGoesOn
  <2>5. QED
    BY <2>3, <2>4
<1>9. CASE SetSanctions(m)
  <2>1. /\ issuer[m].step = "set" /\ UNCHANGED <<punishments, allowed, login>>
        /\ live' = IF Same(issuer[m])
                   THEN [live EXCEPT ![p] = With(live[p], kind, rows, issuer[m].other)] ELSE live
        /\ issuer' = [issuer EXCEPT ![m] = IF kind = "mute" THEN Rest
                                           ELSE [issuer[m] EXCEPT !.step = "allow"]]
    BY <1>2, <1>9 DEF SetSanctions, Then, At
  <2>2. /\ Allows(p, allowed[p])
        /\ live[p].on => live[p].session = issuer[m].session
        /\ live[p].on => Fresh(p, Other(kind), issuer[m].other)
        /\ live[p].on /\ kind # "trade_lock" => Allows(p, live[p].allow)
    BY <1>1, <2>1, OwnRefresh
  <2>3. /\ live'[p].on = live[p].on /\ live'[p].session = live[p].session
        /\ live'[p].allow = live[p].allow
        /\ live[p].on => live'[p][kind] = rows /\ live'[p][Other(kind)] = issuer[m].other
    <3>1. CASE Same(issuer[m])
      <4>1. live'[p] = With(live[p], kind, rows, issuer[m].other)
        BY <1>1, <2>1, <3>1 DEF SanctionTypes
      <4>2. CASE kind = "mute"
        BY <1>2, <4>1, <4>2 DEF With, Other, Snapshots
      <4>3. CASE kind = "trade_lock"
        BY <1>2, <4>1, <4>3 DEF With, Other, Snapshots
      <4>4. QED
        BY <1>2, <4>2, <4>3 DEF Shown
    <3>2. CASE ~Same(issuer[m])
      <4>1. ~live[p].on
        BY <1>2, <2>2, <3>2 DEF Same
      <4>2. QED
        BY <2>1, <3>2, <4>1
    <3>3. QED
      BY <3>1, <3>2
  <2>4. \A k \in Shown : k = kind \/ k = Other(kind)
    BY <1>2 DEF Shown, Other
  <2>5. live'[p].on => \A k \in Shown : Fresh(p, k, live'[p][k])
    BY <1>3, <2>1, <2>2, <2>3, <2>4
  <2>6. CASE kind = "mute"
    <3>1. issuer'[m] = Rest /\ \A n \in Issuers \ {m} : issuer'[n] = issuer[n]
      BY <1>5, <2>1, <2>6
    <3>2. QED
      BY <1>1, <2>1, <2>2, <2>3, <2>5, <2>6, <3>1, RefreshEnds
  <2>7. CASE kind # "mute"
    <3>1. /\ issuer'[m] = [issuer[m] EXCEPT !.step = "allow"]
          /\ \A n \in Issuers \ {m} : issuer'[n] = issuer[n]
      BY <1>5, <2>1, <2>7
    <3>2. issuer[m] \in [step : {"set", "allow"}, to : Players, kind : Shown, rows : SUBSET Nat,
                         session : Nat, other : SUBSET Nat]
      BY <1>2, <2>1, JobOf
    <3>3. /\ issuer'[m].step = "allow" /\ issuer'[m].to = p /\ issuer'[m].kind = kind
          /\ issuer'[m].rows = rows /\ issuer'[m].session = issuer[m].session
      BY <1>2, <3>1, <3>2
    <3>4. QED
      BY <1>1, <1>3, <2>1, <2>2, <2>3, <2>5, <3>1, <3>3, RefreshGoesOn
  <2>8. QED
    BY <2>6, <2>7
<1>10. CASE SetAllowTrade(m)
  <2>1. /\ issuer[m].step = "allow" /\ UNCHANGED <<punishments, allowed, login>>
        /\ live' = IF Same(issuer[m]) THEN [live EXCEPT ![p].allow = rows = {}] ELSE live
        /\ issuer' = [issuer EXCEPT ![m] = Rest]
    BY <1>2, <1>10 DEF SetAllowTrade, Then, At
  <2>2. /\ Allows(p, allowed[p]) /\ kind = "trade_lock"
        /\ live[p].on => live[p].session = issuer[m].session
        /\ live[p].on => \A k \in Shown : Fresh(p, k, live[p][k])
    BY <1>1, <1>2, <2>1, OwnRefresh, JobOf
  <2>3. issuer'[m] = Rest /\ \A n \in Issuers \ {m} : issuer'[n] = issuer[n]
    BY <1>5, <2>1
  <2>4. /\ live'[p].on = live[p].on /\ \A k \in Shown : live'[p][k] = live[p][k]
        /\ live[p].on => live'[p].allow = (rows = {})
    <3>1. CASE Same(issuer[m])
      <4>1. live'[p] = [live[p] EXCEPT !.allow = rows = {}]
        BY <1>1, <2>1, <3>1 DEF SanctionTypes
      <4>2. QED
        BY <1>2, <4>1 DEF Snapshots, Shown
    <3>2. CASE ~Same(issuer[m])
      <4>1. ~live[p].on
        BY <1>2, <2>2, <3>2 DEF Same
      <4>2. QED
        BY <2>1, <3>2, <4>1
    <3>3. QED
      BY <3>1, <3>2
  <2>5. live'[p].on => Allows(p, live'[p].allow)
    BY <1>3, <1>4, <2>1, <2>2, <2>4 DEF Allows
  <2>6. QED
    BY <1>1, <2>1, <2>2, <2>3, <2>4, <2>5, RefreshEnds
<1>11. CASE EffectFails(m)
  BY <1>1, <1>5, <1>11 DEF EffectFails, Then
<1>12. QED
  BY <1>6, <1>7, <1>8, <1>9, <1>10, <1>11

\* Rows that keep whose they are, their kind and whether they are revoked are steady.
LEMMA RowsSteady ==
    ASSUME NEW p, NEW k, Id' = Id,
           \A i \in Id :
              /\ punishments'[i].to = punishments[i].to
              /\ punishments'[i].kind = punishments[i].kind
              /\ punishments[i].to = p /\ punishments[i].kind = k =>
                    /\ punishments'[i].revoked = punishments[i].revoked
                    /\ punishments[i].lapsed => punishments'[i].lapsed
    PROVE  Steady(p, k)
<1>1. Active(p, k)' \subseteq Active(p, k)
  BY DEF Active, ActiveAt
<1>2. Unrevoked(p, k)' = Unrevoked(p, k)
  BY DEF Unrevoked
<1>3. QED
  BY <1>1, <1>2 DEF Steady

\* What a login has read stays right if nothing is inserted or revoked.
LEMMA LoginStays ==
    ASSUME NEW p, Certain(p), \A k \in Shown : Steady(p, k), login'[p] = login[p]
    PROVE  LoginFits(p)'
  BY DEF Certain, LoginFits, Steady, Fresh, Allows, Shown

\* A step of an issuer that works for somebody else.
LEMMA OthersIssue ==
    ASSUME SanctionTypes, SanctionTypes', NEW p \in Players, Certain(p), Alone(p)',
           NEW m \in Issuers, m \notin Refreshing(p), m \notin Refreshing(p)',
           \A n \in Issuers \ {m} : issuer'[n] = issuer[n],
           \A k \in Shown : Steady(p, k),
           allowed'[p] = allowed[p], live'[p] = live[p], login'[p] = login[p]
    PROVE  Certain(p)'
<1>1. LoginFits(p)'
  BY LoginStays
<1>2. \A n \in Issuers : n \in Refreshing(p) \/ n \in Refreshing(p)' => issuer'[n] = issuer[n]
  OBVIOUS
<1>3. QED
  BY <1>1, <1>2, OthersWork

\* Rows that stay are steady.
LEMMA SameRows ==
    ASSUME punishments' = punishments
    PROVE  \A p, k : Steady(p, k)
  BY DEF Steady, Active, Unrevoked, ActiveAt, Id

\* Inserting a punishment.
LEMMA InsertSteps ==
    ASSUME SanctionTypes, SanctionTypes', NEW p \in Players, Certain(p), Alone(p)',
           NEW m \in Issuers, Apply(m) \/ Escalate(m)
    PROVE  Certain(p)'
<1>1. PICK row \in RowsType : Insert(m, row)
  BY Inserted
<1>2. /\ issuer' = [issuer EXCEPT ![m] = [step |-> "effect", to |-> row.to, kind |-> row.kind,
                                          row |-> Len(punishments) + 1]]
      /\ UNCHANGED <<allowed, live, login>>
  BY <1>1 DEF Insert
<1>3. issuer'[m] = [step |-> "effect", to |-> row.to, kind |-> row.kind,
                    row |-> Len(punishments) + 1]
      /\ \A n \in Issuers \ {m} : issuer'[n] = issuer[n]
  BY <1>2 DEF SanctionTypes
<1>4. m \notin Refreshing(p)
  BY DEF Refreshing, Apply, Escalate, Rest
<1>5. /\ Id' = Id \union {Len(punishments) + 1} /\ Len(punishments) + 1 \notin Id
      /\ \A i \in Id : punishments'[i] = punishments[i]
      /\ punishments'[Len(punishments) + 1] = row
  BY <1>1, InsertKeeps
<1>6. \A k \in Shown : row.to # p \/ row.kind # k => Steady(p, k)
  BY <1>5 DEF Steady, Active, Unrevoked, ActiveAt
<1>7. CASE row.to = p /\ row.kind \in Shown
  <2>1. issuer' = [issuer EXCEPT ![m] = [step |-> "effect", to |-> p, kind |-> row.kind,
                                         row |-> Len(punishments) + 1]]
    BY <1>2, <1>7
  <2>2. \A j \in Shown : j # row.kind => Steady(p, j)
    BY <1>6
  <2>3. QED
    BY <1>2, <1>4, <1>7, <2>1, <2>2, RefreshBegins
<1>8. CASE ~(row.to = p /\ row.kind \in Shown)
  <2>1. m \notin Refreshing(p)'
    BY <1>3, <1>8 DEF Refreshing
  <2>2. \A k \in Shown : Steady(p, k)
    BY <1>6, <1>8
  <2>3. QED
    BY <1>2, <1>3, <1>4, <2>1, <2>2, OthersIssue
<1>9. QED
  BY <1>7, <1>8

\* Revoking one.
LEMMA RevokeSteps ==
    ASSUME SanctionTypes, SanctionTypes', NEW p \in Players, Certain(p), Alone(p)',
           NEW m \in Issuers, Revoke(m)
    PROVE  Certain(p)'
<1>1. PICK i \in Id :
        /\ Id' = Id
        /\ \A j \in Id : j # i => punishments'[j] = punishments[j]
        /\ punishments'[i] = [punishments[i] EXCEPT !.revoked = TRUE]
        /\ issuer' = [issuer EXCEPT ![m] =
               IF punishments[i].kind \in Shown
               THEN [step |-> "effect", to |-> punishments[i].to,
                     kind |-> punishments[i].kind, row |-> i]
               ELSE Rest]
  BY RevokeRow
<1>2. PICK row \in RowsType : row = punishments[i]
  BY <1>1, IdIsNat
<1>3. punishments'[i].to = row.to /\ punishments'[i].kind = row.kind
  BY <1>1, <1>2 DEF RowsType
<1>4. issuer'[m] = (IF row.kind \in Shown
                    THEN [step |-> "effect", to |-> row.to, kind |-> row.kind, row |-> i] ELSE Rest)
      /\ \A n \in Issuers \ {m} : issuer'[n] = issuer[n]
  BY <1>1, <1>2 DEF SanctionTypes
<1>5. m \notin Refreshing(p) /\ UNCHANGED <<allowed, live, login>>
  BY DEF Refreshing, Revoke, Rest
<1>6. \A k \in Shown : row.to # p \/ row.kind # k => Steady(p, k)
  <2> SUFFICES ASSUME NEW k \in Shown, row.to # p \/ row.kind # k PROVE Steady(p, k)
    OBVIOUS
  <2>1. ASSUME NEW j \in Id
        PROVE  /\ punishments'[j].to = punishments[j].to
               /\ punishments'[j].kind = punishments[j].kind
               /\ punishments[j].to = p /\ punishments[j].kind = k =>
                     /\ punishments'[j].revoked = punishments[j].revoked
                     /\ punishments[j].lapsed => punishments'[j].lapsed
    <3>1. CASE j = i
      BY <1>2, <1>3, <3>1
    <3>2. CASE j # i
      BY <1>1, <3>2
    <3>3. QED
      BY <3>1, <3>2
  <2>2. QED
    BY <1>1, <2>1, RowsSteady
<1>7. CASE row.to = p /\ row.kind \in Shown
  <2>1. issuer' = [issuer EXCEPT ![m] =
                       [step |-> "effect", to |-> p, kind |-> row.kind, row |-> i]]
    BY <1>1, <1>2, <1>7
  <2>2. \A j \in Shown : j # row.kind => Steady(p, j)
    BY <1>6
  <2>3. QED
    BY <1>5, <1>7, <2>1, <2>2, RefreshBegins
<1>8. CASE ~(row.to = p /\ row.kind \in Shown)
  <2>1. m \notin Refreshing(p)'
    BY <1>4, <1>8 DEF Refreshing, Rest
  <2>2. \A k \in Shown : Steady(p, k)
    BY <1>6, <1>8
  <2>3. QED
    BY <1>4, <1>5, <2>1, <2>2, OthersIssue
<1>9. QED
  BY <1>7, <1>8

\* A ban ends the session of the player it finds.
LEMMA BanSteps ==
    ASSUME SanctionTypes, SanctionTypes', NEW p \in Players, Certain(p), Alone(p)',
           NEW m \in Issuers, Ban(m)
    PROVE  Certain(p)'
<1>1. /\ issuer[m].kind = "ban" /\ issuer[m].step = "effect"
      /\ live' = [live EXCEPT ![issuer[m].to] = Snapshot(live[issuer[m].to].session, FALSE, TRUE)]
      /\ login' = [login EXCEPT ![issuer[m].to] =
                       IF Online(issuer[m].to) THEN Rest ELSE login[issuer[m].to]]
      /\ issuer' = [issuer EXCEPT ![m] = Rest]
      /\ UNCHANGED <<punishments, allowed>>
  BY DEF Ban, Then, At
<1>2. issuer'[m] = Rest /\ \A n \in Issuers \ {m} : issuer'[n] = issuer[n]
  BY <1>1 DEF SanctionTypes
<1>3. m \notin Refreshing(p) /\ m \notin Refreshing(p)'
  BY <1>1, <1>2 DEF Refreshing, Rest, Shown
<1>4. \A k \in Shown : Steady(p, k)
  BY <1>1, SameRows
<1>5. CASE issuer[m].to # p
  <2>1. live'[p] = live[p] /\ login'[p] = login[p]
    BY <1>1, <1>5 DEF SanctionTypes
  <2>2. QED
    BY <1>1, <1>2, <1>3, <1>4, <2>1, OthersIssue
<1>6. CASE issuer[m].to = p
  <2>1. ~live'[p].on /\ (login'[p] = Rest \/ login'[p] = login[p])
    BY <1>1, <1>6 DEF SanctionTypes, Snapshot
  <2>2. LoginFits(p)'
    <3>1. CASE login'[p] = Rest
      BY <3>1 DEF LoginFits, Rest
    <3>2. CASE login'[p] = login[p]
      BY <1>4, <3>2, LoginStays
    <3>3. QED
      BY <2>1, <3>1, <3>2
  <2>3. \A n \in Issuers : n \in Refreshing(p) \/ n \in Refreshing(p)' => issuer'[n] = issuer[n]
    BY <1>2, <1>3
  <2>4. QED
    BY <1>1, <1>4, <2>1, <2>2, <2>3, OthersWork
<1>7. QED
  BY <1>5, <1>6

\* The steps of a refresh of somebody else, of a warning and of an escalation that is read.
LEMMA OtherSteps ==
    ASSUME SanctionTypes, SanctionTypes', NEW p \in Players, Certain(p), Alone(p)',
           NEW m \in Issuers, m \notin Refreshing(p),
           \/ Resolve(m) \/ Warn(m) \/ Deliver(m) \/ Queue(m) \/ ReadActive(m) \/ SetColumn(m)
           \/ CopySnapshot(m) \/ SetSanctions(m) \/ SetAllowTrade(m) \/ EffectFails(m)
    PROVE  Certain(p)'
<1>1. issuer[m] \in Jobs
  BY DEF SanctionTypes
<1>2. \A job : issuer' = [issuer EXCEPT ![m] = job] =>
                   issuer'[m] = job /\ \A n \in Issuers \ {m} : issuer'[n] = issuer[n]
  BY DEF SanctionTypes
<1>3. \A k \in Shown : Steady(p, k)
  BY EffectRows, SameRows
<1>4. ASSUME Resolve(m) \/ Deliver(m) \/ Queue(m) \/ EffectFails(m)
      PROVE  Certain(p)'
  <2>1. UNCHANGED <<allowed, live, login>>
    BY <1>4 DEF Resolve, Deliver, Queue, EffectFails
  <2>2. PICK job : job.step \in {"rest", "insert"} /\ issuer' = [issuer EXCEPT ![m] = job]
    BY <1>4 DEF Resolve, Deliver, Queue, EffectFails, Then, Rest
  <2>3. m \notin Refreshing(p)'
    BY <1>2, <2>2 DEF Refreshing
  <2>4. QED
    BY <1>2, <1>3, <2>1, <2>2, <2>3, OthersIssue
<1>5. CASE Warn(m)
  <2>1. UNCHANGED <<allowed, live, login>> /\ issuer[m].step = "effect"
    BY <1>5 DEF Warn, At
  <2>2. issuer[m] \in [step : {"effect", "send", "queue"}, to : Players, kind : AllKinds, row : Nat]
    BY <1>1, <2>1, JobOf
  <2>3. /\ issuer'[m] = [issuer[m] EXCEPT !.step = IF Online(issuer[m].to) THEN "send" ELSE "queue"]
        /\ \A n \in Issuers \ {m} : issuer'[n] = issuer[n]
    BY <1>2, <1>5 DEF Warn, Then
  <2>4. issuer'[m].step \in {"send", "queue"}
    BY <2>2, <2>3
  <2>5. m \notin Refreshing(p)'
    BY <2>4 DEF Refreshing
  <2>6. QED
    BY <1>3, <2>1, <2>3, <2>5, OthersIssue
<1>6. ASSUME ReadActive(m) \/ SetColumn(m) \/ CopySnapshot(m) \/ SetSanctions(m) \/ SetAllowTrade(m)
      PROVE  Certain(p)'
  <2>1. issuer[m].step \in {"effect", "column", "find", "set", "allow"} /\ issuer[m].kind \in Shown
    BY <1>1, <1>6, JobOf DEF ReadActive, SetColumn, CopySnapshot, SetSanctions, SetAllowTrade, At
  <2>2. issuer[m].to # p
    BY <2>1 DEF Refreshing
  <2>3. allowed'[p] = allowed[p] /\ live'[p] = live[p] /\ login'[p] = login[p]
    BY <1>6, <2>2 DEF ReadActive, SetColumn, CopySnapshot, SetSanctions, SetAllowTrade, SanctionTypes
  <2>4. PICK job : (job = Rest \/ job.to = issuer[m].to) /\ issuer' = [issuer EXCEPT ![m] = job]
    <3>1. CASE ReadActive(m) \/ CopySnapshot(m)
      BY <3>1 DEF ReadActive, CopySnapshot, Then
    <3>2. CASE SetAllowTrade(m)
      BY <3>2 DEF SetAllowTrade, Then
    <3>3. CASE SetColumn(m)
      <4>1. issuer[m] \in [step : {"column", "find"}, to : Players, kind : Shown, rows : SUBSET Nat]
        BY <1>1, <3>3, JobOf DEF SetColumn, At
      <4>2. QED
        BY <3>3, <4>1 DEF SetColumn, Then
    <3>4. CASE SetSanctions(m)
      <4>1. issuer[m] \in [step : {"set", "allow"}, to : Players, kind : Shown, rows : SUBSET Nat,
                           session : Nat, other : SUBSET Nat]
        BY <1>1, <3>4, JobOf DEF SetSanctions, At
      <4>2. QED
        BY <3>4, <4>1 DEF SetSanctions, Then
    <3>5. QED
      BY <1>6, <3>1, <3>2, <3>3, <3>4
  <2>5. m \notin Refreshing(p)'
    BY <1>2, <2>2, <2>4 DEF Refreshing, Rest
  <2>6. QED
    BY <1>2, <1>3, <2>3, <2>4, <2>5, OthersIssue
<1>7. QED
  BY <1>4, <1>5, <1>6

\* The steps of sessions.
LEMMA SessionSteps ==
    ASSUME SanctionTypes, SanctionTypes', NEW p \in Players, Certain(p), Alone(p)',
           Playing
    PROVE  Certain(p)'
<1>1. PICK q \in Players :
          \/ Load(q) \/ Bind(q) \/ LoadActive(q) \/ Project(q) \/ LoadPending(q)
          \/ SendPending(q) \/ MarkDelivered(q) \/ Bootstrapped(q) \/ Leave(q)
          \/ Rebuild(q) \/ ReplaceSnapshot(q)
  BY DEF Playing
<1>2. UNCHANGED <<punishments, allowed, issuer>>
  BY <1>1 DEF Load, Bind, LoadActive, Project, LoadPending, SendPending, MarkDelivered,
     Bootstrapped, Leave, Rebuild, ReplaceSnapshot
<1>3. \A k \in Shown : Steady(p, k)
  BY <1>2, SameRows
<1>4. \A todo : login' = [login EXCEPT ![p] = todo] => login'[p] = todo
  BY DEF SanctionTypes
<1>5. login[p] \in Logins /\ live[p] \in Snapshots
  BY DEF SanctionTypes
<1>6. CASE q # p
  <2>1. login'[p] = login[p] /\ live'[p] = live[p]
    BY <1>1, <1>6 DEF Load, Bind, LoadActive, Project, LoadPending, SendPending, MarkDelivered,
       Bootstrapped, Leave, Rebuild, ReplaceSnapshot, Continue, SanctionTypes
  <2>2. QED
    BY <1>2, <1>3, <2>1, LoginStays, OthersWork
<1>7. ASSUME Load(p) PROVE Certain(p)'
  <2>1. login'[p] = [step |-> "bind", allow |-> allowed[p]] /\ live' = live
    BY <1>4, <1>7 DEF Load, Continue
  <2>2. Refreshing(p) = {}
    BY <1>2, <2>1, AloneThen DEF Loading, Refreshing
  <2>3. Allows(p, allowed[p])
    BY <2>2 DEF Certain, ColumnFits
  <2>4. LoginFits(p)'
    BY <1>2, <2>1, <2>3 DEF LoginFits, Allows, Unrevoked, Id
  <2>5. login'[p].step \in Loading
    BY <2>1 DEF Loading
  <2>6. QED
    BY <1>2, <1>3, <2>1, <2>4, <2>5, OthersWork
<1>8. ASSUME LoadActive(p) PROVE Certain(p)'
  <2>1. login'[p] = [step |-> "project", mute |-> Active(p, "mute"),
                     trade_lock |-> Active(p, "trade_lock")] /\ live' = live
    BY <1>4, <1>8 DEF LoadActive, Continue
  <2>2. \A k \in Shown : Fresh(p, k, Active(p, k))
    BY DEF Fresh, Active, Unrevoked, ActiveAt
  <2>3. \A k \in Shown : login'[p][k] = Active(p, k)
    BY <2>1 DEF Shown
  <2>4. LoginFits(p)'
    <3>1. \A k \in Shown : Fresh(p, k, login'[p][k])
      BY <2>2, <2>3
    <3>2. \A k \in Shown : Fresh(p, k, login[p][k])'
      BY <1>2, <3>1 DEF Fresh, Active, Unrevoked, ActiveAt, Id
    <3>3. QED
      BY <2>1, <3>2 DEF LoginFits
  <2>5. login'[p].step \in Loading
    BY <2>1 DEF Loading
  <2>6. QED
    BY <1>2, <1>3, <2>1, <2>4, <2>5, OthersWork
<1>9. ASSUME LoadPending(p) \/ SendPending(p) \/ MarkDelivered(p) \/ Bootstrapped(p)
      PROVE  Certain(p)'
  <2>1. live' = live /\ login[p].step \in {"pending", "drain", "mark"}
    BY <1>9 DEF LoadPending, SendPending, MarkDelivered, Bootstrapped, In
  <2>2. login'[p].step \in {"rest", "drain", "mark"}
    <3>1. CASE LoadPending(p) \/ MarkDelivered(p) \/ Bootstrapped(p)
      <4>1. CASE LoadPending(p)
        <5>1. login'[p] = [step |-> "drain", todo |-> Undelivered(p)]
          BY <1>4, <4>1 DEF LoadPending, Continue
        <5>2. QED
          BY <5>1
      <4>2. CASE MarkDelivered(p)
        <5>1. login'[p] = Drain(Min(login[p].todo), login[p].todo)
          BY <1>4, <4>2 DEF MarkDelivered, Continue
        <5>2. QED
          BY <5>1 DEF Drain
      <4>3. CASE Bootstrapped(p)
        <5>1. login'[p] = Rest
          BY <1>4, <4>3 DEF Bootstrapped, Continue
        <5>2. QED
          BY <5>1 DEF Rest
      <4>4. QED
        BY <3>1, <4>1, <4>2, <4>3
    <3>2. CASE SendPending(p)
      <4>1. login[p] \in [step : {"drain", "mark"}, todo : SUBSET Nat]
        BY <1>5, <3>2, LoginOf DEF SendPending, In
      <4>2. [login[p] EXCEPT !.step = "mark"].step = "mark"
        BY <4>1
      <4>3. login'[p] = [login[p] EXCEPT !.step = "mark"]
            \/ login'[p] = Unsent(Min(login[p].todo), login[p].todo)
        BY <1>4, <3>2 DEF SendPending, Continue
      <4>4. QED
        <5>1. CASE login'[p] = [login[p] EXCEPT !.step = "mark"]
          BY <4>2, <5>1
        <5>2. CASE login'[p] = Unsent(Min(login[p].todo), login[p].todo)
          <6>1. login'[p].step = "drain"
            BY <5>2 DEF Unsent, Drain
          <6>2. QED
            BY <6>1
        <5>3. QED
          BY <4>3, <5>1, <5>2
    <3>3. QED
      BY <1>9, <3>1, <3>2
  <2>3. LoginFits(p)'
    BY <2>2 DEF LoginFits
  <2>4. login[p].step \notin Loading
    BY <2>1 DEF Loading
  <2>5. QED
    BY <1>2, <1>3, <2>1, <2>3, <2>4, OthersWork
<1>10. ASSUME Leave(p) PROVE Certain(p)'
  <2>1. login'[p] = Rest /\ live'[p].on = FALSE
    BY <1>4, <1>10 DEF Leave, Continue, Snapshot, SanctionTypes
  <2>2. LoginFits(p)'
    BY <2>1 DEF LoginFits, Rest
  <2>3. QED
    BY <1>2, <1>3, <2>1, <2>2, OthersWork
<1>11. ASSUME Bind(p) \/ Project(p) PROVE Certain(p)'
  <2>1. login[p].step \in {"bind", "project"} /\ login'[p].step \in {"active", "pending"}
    <3>1. CASE Bind(p)
      <4>1. login[p].step = "bind" /\ login'[p] = [step |-> "active"]
        BY <1>4, <3>1 DEF Bind, In, Continue
      <4>2. QED
        BY <4>1
    <3>2. CASE Project(p)
      <4>1. login[p].step = "project" /\ login'[p] = [step |-> "pending"]
        BY <1>4, <3>2 DEF Project, In, Continue
      <4>2. QED
        BY <4>1
    <3>3. QED
      BY <1>11, <3>1, <3>2
  <2>2. Refreshing(p) = {} /\ Refreshing(p)' = {}
    BY <1>2, <2>1, AloneNow DEF Certain, Loading, Refreshing
  <2>3. Allows(p, allowed[p])
    BY <2>2 DEF Certain, ColumnFits
  <2>4. ColumnFits(p)' /\ LoginFits(p)' /\ RefreshFits(p)'
    BY <1>2, <2>1, <2>2, <2>3 DEF ColumnFits, LoginFits, RefreshFits, Allows, Unrevoked, Id
  <2>5. \A allow : Allows(p, allow) => Allows(p, allow)'
    BY <1>2 DEF Allows, Unrevoked, Id
  <2>6. CASE Bind(p)
    <3>1. live'[p] = Snapshot(live[p].session + 1, TRUE, login[p].allow)
      BY <2>6 DEF Bind, SanctionTypes
    <3>2. live'[p].allow = login[p].allow /\ login'[p].step = "active"
      <4>1. login'[p] = [step |-> "active"]
        BY <1>4, <2>6 DEF Bind, Continue
      <4>2. QED
        BY <3>1, <4>1 DEF Snapshot
    <3>3. Allows(p, login[p].allow)
      BY <2>6 DEF Bind, In, Certain, LoginFits
    <3>4. SnapshotFits(p)'
      BY <2>5, <3>2, <3>3 DEF SnapshotFits
    <3>5. QED
      BY <2>4, <3>4 DEF Certain
  <2>7. CASE Project(p)
    <3>1. /\ login[p].step = "project"
          /\ live' = [live EXCEPT ![p].mute = login[p].mute, ![p].trade_lock = login[p].trade_lock]
      BY <2>7 DEF Project, In
    <3>2. live'[p] = [live[p] EXCEPT !.mute = login[p].mute, !.trade_lock = login[p].trade_lock]
      BY <3>1 DEF SanctionTypes
    <3>3. /\ live'[p].on = live[p].on /\ live'[p].allow = live[p].allow
          /\ live'[p]["mute"] = login[p]["mute"] /\ live'[p]["trade_lock"] = login[p]["trade_lock"]
      BY <1>5, <3>2 DEF Snapshots
    <3>4. \A k \in Shown : Fresh(p, k, login[p][k])
      BY <3>1 DEF Certain, LoginFits
    <3>5. live[p].on => Allows(p, live[p].allow)
      BY <2>2 DEF Certain, SnapshotFits
    <3>6. \A k \in Shown : Fresh(p, k, live'[p][k])
      BY <3>3, <3>4 DEF Shown
    <3>7. \A k \in Shown : Fresh(p, k, live[p][k])'
      BY <1>2, <3>6 DEF Fresh, Active, Unrevoked, ActiveAt, Id
    <3>8. SnapshotFits(p)'
      BY <2>5, <3>3, <3>5, <3>7 DEF SnapshotFits
    <3>9. QED
      BY <2>4, <3>8 DEF Certain
  <2>8. QED
    BY <1>11, <2>6, <2>7
<1>12. ~Rebuild(p)
  <2> SUFFICES ASSUME Rebuild(p) PROVE FALSE
    OBVIOUS
  <2>1. PICK copy : login' = [login EXCEPT ![p] = [step |-> "replace", copy |-> copy]]
    BY DEF Rebuild, Continue
  <2>2. QED
    BY <1>4, <2>1 DEF Alone
<1>13. ~ReplaceSnapshot(p)
  BY DEF ReplaceSnapshot, In, Certain, Alone
<1>14. QED
  BY <1>1, <1>6, <1>7, <1>8, <1>9, <1>10, <1>11, <1>12, <1>13

\* Every step leaves the snapshot of a player certain who is not doubtful.
LEMMA CertainNext ==
    ASSUME SanctionTypes, SanctionTypes', SanctionsNext, NEW p \in Players \ doubtful', Certain(p)
    PROVE  Certain(p)'
<1>1. Alone(p)' /\ p \in Players
  BY NoDoubt
<1>2. CASE Playing
  BY <1>1, <1>2, SessionSteps
<1>3. CASE Lapse
  <2>1. PICK i \in Id :
          /\ Id' = Id
          /\ \A j \in Id : j # i => punishments'[j] = punishments[j]
          /\ \/ punishments'[i] = [punishments[i] EXCEPT !.lapsed = TRUE]
             \/ punishments'[i] = [punishments[i] EXCEPT !.probation = FALSE]
    BY <1>3, LapseRow
  <2>2. PICK row \in RowsType : row = punishments[i]
    BY <2>1, IdIsNat
  <2>3. \A j \in Id : /\ punishments'[j].to = punishments[j].to
                      /\ punishments'[j].kind = punishments[j].kind
                      /\ punishments'[j].revoked = punishments[j].revoked
                      /\ punishments[j].lapsed => punishments'[j].lapsed
    <3>1. /\ punishments'[i].to = row.to /\ punishments'[i].kind = row.kind
          /\ punishments'[i].revoked = row.revoked
          /\ row.lapsed => punishments'[i].lapsed
      BY <2>1, <2>2 DEF RowsType
    <3>2. QED
      BY <2>1, <2>2, <3>1
  <2>4. \A k \in Shown : Steady(p, k)
    BY <2>1, <2>3, RowsSteady
  <2>5. UNCHANGED <<allowed, live, issuer, login>>
    BY <1>3 DEF Lapse
  <2>6. LoginFits(p)'
    BY <2>4, <2>5, LoginStays
  <2>7. QED
    BY <1>1, <2>4, <2>5, <2>6, OthersWork
<1>4. CASE Issuing
  <2>1. PICK m \in Issuers :
          \/ Apply(m) \/ Resolve(m) \/ Escalate(m) \/ Revoke(m)
          \/ Ban(m) \/ Warn(m) \/ Deliver(m) \/ Queue(m)
          \/ ReadActive(m) \/ SetColumn(m) \/ CopySnapshot(m) \/ SetSanctions(m)
          \/ SetAllowTrade(m) \/ EffectFails(m)
    BY <1>4 DEF Issuing
  <2>2. CASE m \in Refreshing(p)
    <3>1. issuer[m].step \in {"effect", "column", "find", "set", "allow"} /\ issuer[m].kind \in Shown
      BY <2>2 DEF Refreshing
    <3>2. \/ ReadActive(m) \/ SetColumn(m) \/ CopySnapshot(m) \/ SetSanctions(m)
          \/ SetAllowTrade(m) \/ EffectFails(m)
          \/ Apply(m) \/ Escalate(m) \/ Revoke(m)
      <4>1. issuer[m].step # "rest" /\ issuer[m].step # "send" /\ issuer[m].step # "queue"
            /\ issuer[m].kind # "ban" /\ issuer[m].kind # "warn"
        BY <3>1 DEF Shown
      <4>2. ~Resolve(m) /\ ~Ban(m) /\ ~Warn(m) /\ ~Deliver(m) /\ ~Queue(m)
        <5>1. ~Resolve(m)
          BY <4>1 DEF Resolve, Rest
        <5>2. ~Ban(m) /\ ~Warn(m)
          BY <4>1 DEF Ban, Warn
        <5>3. ~Deliver(m) /\ ~Queue(m)
          BY <4>1 DEF Deliver, Queue, At
        <5>4. QED
          BY <5>1, <5>2, <5>3
      <4>3. QED
        BY <2>1, <4>2
    <3>3. QED
      BY <1>1, <2>2, <3>2, RefreshSteps, InsertSteps, RevokeSteps
  <2>3. CASE m \notin Refreshing(p)
    <3>1. CASE Apply(m) \/ Escalate(m)
      BY <1>1, <3>1, InsertSteps
    <3>2. CASE Revoke(m)
      BY <1>1, <3>2, RevokeSteps
    <3>3. CASE Ban(m)
      BY <1>1, <3>3, BanSteps
    <3>4. QED
      BY <1>1, <2>1, <2>3, <3>1, <3>2, <3>3, OtherSteps
  <2>4. QED
    BY <2>2, <2>3
<1>5. QED
  BY <1>2, <1>3, <1>4 DEF SanctionsNext

\* As long as the goroutines that work on a player do it one after the other, the player is
\* muted exactly while a mute is active, cannot trade under an active trade lock, and can once
\* all locks are revoked (Mute.refresh, TradeLock.refresh, bootstrap), whatever others do.
THEOREM SnapshotsStayExact == SanctionsSpec => []SnapshotsExact
<1>1. SanctionsInit => SnapshotsInv
  <2> SUFFICES ASSUME SanctionsInit, NEW p \in Players PROVE Certain(p)
    BY TypesInit DEF SnapshotsInv
  <2>1. /\ Refreshing(p) = {} /\ login[p] = Rest /\ allowed[p] = TRUE /\ ~live[p].on
        /\ Working(p) = {}
    BY DEF SanctionsInit, Refreshing, Rest, Snapshot, Working
  <2>2. QED
    BY <2>1 DEF Certain, Alone, ColumnFits, LoginFits, RefreshFits, SnapshotFits, Allows, Rest
<1>2. SnapshotsInv /\ [SanctionsNext]_sanctions => SnapshotsInv'
  <2> SUFFICES ASSUME SnapshotsInv, [SanctionsNext]_sanctions PROVE SnapshotsInv'
    OBVIOUS
  <2>1. SanctionTypes'
    BY TypesNext DEF SnapshotsInv
  <2>2. CASE SanctionsNext
    <3> SUFFICES ASSUME NEW p \in Players \ doubtful' PROVE Certain(p)'
      BY <2>1 DEF SnapshotsInv
    <3>1. Certain(p)
      BY <2>2, NoDoubt DEF SnapshotsInv
    <3>2. QED
      BY <2>1, <2>2, <3>1, CertainNext DEF SnapshotsInv
  <2>3. CASE UNCHANGED sanctions
    <3> SUFFICES ASSUME NEW p \in Players \ doubtful PROVE Certain(p)'
      BY <2>1, <2>3 DEF SnapshotsInv, sanctions
    <3>1. Certain(p)
      BY DEF SnapshotsInv
    <3>2. UNCHANGED <<punishments, allowed, live, issuer, login>>
      BY <2>3 DEF sanctions
    <3>3. QED
      BY <3>1, <3>2 DEF Certain, Alone, ColumnFits, LoginFits, RefreshFits, SnapshotFits, Allows,
         Fresh, Refreshing, Working, Active, Unrevoked, ActiveAt, Id
  <2>4. QED
    BY <2>2, <2>3
<1>3. SnapshotsInv => SnapshotsExact
  <2> SUFFICES ASSUME SnapshotsInv, NEW p \in Players, live[p].on, p \notin doubtful,
                      Working(p) = {}
               PROVE  /\ Muted(p) <=> Active(p, "mute") # {}
                      /\ Active(p, "trade_lock") # {} => ~MayTrade(p)
                      /\ (\A i \in Id : punishments[i].to = p /\ punishments[i].kind = "trade_lock"
                                        => punishments[i].revoked) => MayTrade(p)
    BY DEF SnapshotsExact, Online
  <2>1. Certain(p)
    BY DEF SnapshotsInv
  <2>2. Refreshing(p) = {} /\ login[p].step \in {"rest", "pending", "drain", "mark"}
    BY DEF Working
  <2>3. Fresh(p, "mute", live[p].mute) /\ Fresh(p, "trade_lock", live[p].trade_lock)
    BY <2>1, <2>2 DEF Certain, SnapshotFits, Shown
  <2>4. Allows(p, live[p].allow)
    BY <2>1, <2>2 DEF Certain, SnapshotFits
  <2>5. ASSUME NEW k, NEW rows, Fresh(p, k, rows) PROVE Binds(rows) <=> Active(p, k) # {}
    BY <2>5 DEF Fresh, Binds, Active, Unrevoked, ActiveAt
  <2>6. Muted(p) <=> Active(p, "mute") # {}
    BY <2>3, <2>5 DEF Muted
  <2>7. Active(p, "trade_lock") # {} => ~MayTrade(p)
    BY <2>3, <2>5 DEF MayTrade
  <2>8. ASSUME \A i \in Id : punishments[i].to = p /\ punishments[i].kind = "trade_lock"
                             => punishments[i].revoked
        PROVE  MayTrade(p)
    <3>1. Unrevoked(p, "trade_lock") = {} /\ Active(p, "trade_lock") = {}
      BY <2>8 DEF Unrevoked, Active, ActiveAt
    <3>2. ~Binds(live[p].trade_lock)
      BY <2>3, <2>5, <3>1
    <3>3. QED
      BY <2>4, <3>1, <3>2 DEF MayTrade, Allows
  <2>9. QED
    BY <2>6, <2>7, <2>8
<1>4. QED
  BY <1>1, <1>2, <1>3, PTL DEF SanctionsSpec
=============================================================================
