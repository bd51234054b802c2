--------------------------- MODULE BreedingProofs ---------------------------
(***************************************************************************)
(* Exclusion by advisory locks and by versions, proved for any number of   *)
(* breeders, pets and nests.                                               *)
(***************************************************************************)
EXTENDS Breeding, WellFoundedInduction, TLAPS

BreedingSpec == BreedingInit /\ [][BreedingNext]_breeding

SessionStates == {"none", "requested", "confirmed", "completed", "cancelled"}
Sessions ==
    [pair : SUBSET Parents, agreed : SUBSET Parents, state : SessionStates,
     expired : BOOLEAN, version : Nat]
PetRows == [place : {"room", "inventory"}, able : BOOLEAN, version : Nat]
Copies == [able : BOOLEAN, version : Nat]
SaveJobs ==
    [at : {"lock", "save"}, nest : Nests, pair : SUBSET Parents, late : SUBSET Nests]
CommitJobs == [at : {"save commit"}, nest : Nests, pair : SUBSET Parents, saved : Sessions]

Saving(b) == doing[b].at \in {"save", "save commit"}

\* The shape of the rows, and of what those who save work with.
BreedingTypes ==
    /\ season \in Seasons /\ nests \subseteq Nests
    /\ sessions \in [Nests -> Sessions]
    /\ DOMAIN doing = Breeders
    /\ \A b \in Breeders :
         /\ doing[b].at \in {"lock", "save"} => doing[b] \in SaveJobs
         /\ doing[b].at = "save commit" => doing[b] \in CommitJobs

\* The advisory locks of two breeders who save differ.
LocksApart ==
    \A b, c \in Breeders :
        b # c /\ Saving(b) /\ Saving(c) => Advised(b) \intersect Advised(c) = {}

\* A row that is not committed yet engages the pair it was asked for, which no
\* other nest engages.
SavedFits ==
    \A b \in Breeders : doing[b].at = "save commit" =>
        /\ doing[b].saved.pair = doing[b].pair
        /\ \A m \in Nests \ {doing[b].nest} :
             Active(m) /\ ~sessions[m].expired => sessions[m].pair \intersect doing[b].pair = {}

EngagementInv == BreedingTypes /\ LocksApart /\ SavedFits /\ OneEngagement

\* A copy of a pet is older than its row or says the same.
Fits(p, copy) ==
    copy.version <= pets[p].version /\ (copy.version = pets[p].version => copy.able = pets[p].able)

\* The room's copies fit.
ShownFit ==
    /\ pets \in [Parents -> PetRows] /\ shown \in [Parents -> Copies]
    /\ \A p \in Parents : shown[p] = Absent \/ Fits(p, shown[p])

\* So does what a handler is about to show; parents are a pair of the season's,
\* and whoever breeds them has seen that they may.
JobFits(b) ==
    /\ doing[b].at = "show" =>
         \A p \in DOMAIN doing[b].rows \intersect Parents :
             doing[b].rows[p] \in Copies /\ Fits(p, doing[b].rows[p])
    /\ doing[b].at = "add" =>
         doing[b].pet \in Parents /\ doing[b].row \in Copies /\ Fits(doing[b].pet, doing[b].row)
    /\ doing[b].at \in {"release", "take", "remove", "treat"} => doing[b].pet \in Parents
    /\ doing[b].at \in {"lock", "save", "save commit", "parents", "breed"} =>
         doing[b].pair \in Pairs
    /\ doing[b].at = "save commit" => doing[b].saved.state # "completed"
    /\ doing[b].at = "breed" =>
         \A p \in doing[b].pair :
             doing[b].seen[p] \in Nat /\ Fits(p, [able |-> TRUE, version |-> doing[b].seen[p]])

VersionsInv ==
    /\ ShownFit
    /\ \A n \in Nests : Active(n) => sessions[n].pair \in Pairs
    /\ \A b \in Breeders : JobFits(b)

-----------------------------------------------------------------------------
\* Well-founded relations, as the library states them of one set and its subsets.
LEMMA WFLowest ==
    ASSUME NEW R, NEW U, IsWellFoundedOn(R, U), NEW T, T \subseteq U, T # {}
    PROVE  \E x \in T : \A y \in T : ~(<<y, x>> \in R)
  BY WFMin

\* Some nest of those in the room has the lowest id.
LEMMA LowestNest == ASSUME NEW S \in SUBSET Nat, S # {} PROVE Min(S) \in S
<1> DEFINE R == {ss \in Nat \X Nat : ss[1] < ss[2]}
<1>1. IsWellFoundedOn(R, Nat)
  BY NatLessThanWellFounded, Zenon DEF OpToRel
<1>2. S \subseteq Nat /\ S # {}
  OBVIOUS
<1>3. \E x \in S : \A y \in S : ~(<<y, x>> \in R)
  BY <1>1, <1>2, WFLowest
<1>4. PICK x \in S : \A y \in S : ~(<<y, x>> \in R)
  BY <1>3
<1>5. ASSUME NEW y \in S PROVE x <= y
  <2>1. x \in Nat /\ y \in Nat /\ ~(<<y, x>> \in R)
    BY <1>4
  <2>2. ~(y < x)
    BY <2>1
  <2>3. QED
    BY <2>1, <2>2
<1>6. QED
  BY <1>5 DEF Min

-----------------------------------------------------------------------------
(* One engagement.                                                         *)

\* At first nothing is engaged.
LEMMA EngagementInit == BreedingInit => EngagementInv
<1>1. SUFFICES ASSUME BreedingInit PROVE EngagementInv
  OBVIOUS
<1>2. BreedingTypes
  BY <1>1, BreedingAssumption DEF BreedingInit, BreedingTypes, Sessions, NoSession, Nothing,
     SessionStates
<1>3. LocksApart /\ SavedFits
  BY <1>1 DEF BreedingInit, LocksApart, SavedFits, Saving, Nothing
<1>4. OneEngagement
  BY <1>1 DEF BreedingInit, OneEngagement, Active, NoSession
<1>5. QED
  BY <1>2, <1>3, <1>4 DEF EngagementInv

\* A session in force, in both states or in the later one only.
InForce(n) == Active(n) /\ ~sessions[n].expired

\* Sessions do nothing but end.
SessionsEnd ==
    /\ sessions' \in [Nests -> Sessions]
    /\ \A n \in Nests :
         /\ Active(n)' => Active(n) /\ sessions'[n].pair = sessions[n].pair
         /\ InForce(n)' => InForce(n)

\* A session of another state and version.
LEMMA SessionChanged ==
    ASSUME NEW old \in Sessions, NEW s \in SessionStates, NEW v \in Nat
    PROVE  /\ [old EXCEPT !.state = s, !.version = v] \in Sessions
           /\ [old EXCEPT !.state = s, !.version = v].state = s
  BY DEF Sessions

\* The next version of a session, and the ends it may have.
LEMMA NextVersion ==
    ASSUME NEW old \in Sessions
    PROVE  old.version + 1 \in Nat /\ {"completed", "cancelled"} \subseteq SessionStates
  BY DEF Sessions, SessionStates

\* A handler that is done.
LEMMA NothingRests == Nothing.at = "rest"
  BY DEF Nothing

\* SetBreedingSessionState ends a session.
LEMMA SetStateEnds ==
    ASSUME BreedingTypes, NEW n \in Nests, NEW s \in {"completed", "cancelled"}, SetState(n, s)
    PROVE  SessionsEnd
<1> DEFINE v == sessions[n].version + 1
           over == [sessions[n] EXCEPT !.state = s, !.version = v]
<1>1. sessions' = [sessions EXCEPT ![n] = over]
  BY DEF SetState
<1>2. sessions \in [Nests -> Sessions] /\ sessions[n] \in Sessions
  BY DEF BreedingTypes
<1>3. v \in Nat /\ s \in SessionStates
  BY <1>2, NextVersion
<1>4. over \in Sessions /\ over.state = s
  <2> HIDE DEF v
  <2>1. QED
    BY <1>2, <1>3, SessionChanged
<1> HIDE DEF over
<1>5. QED
  BY <1>1, <1>2, <1>4 DEF SessionsEnd, InForce, Active

\* So does the cancellation of several.
LEMMA CancelsEnd ==
    ASSUME BreedingTypes, NEW ns, Cancels(ns)
    PROVE  SessionsEnd
<1> DEFINE Over(n) == [sessions[n] EXCEPT !.state = "cancelled", !.version = @ + 1]
<1>1. /\ sessions' = [n \in Nests |-> IF n \in ns THEN Over(n) ELSE sessions[n]]
      /\ sessions \in [Nests -> Sessions]
  BY DEF Cancels, BreedingTypes
<1>2. ASSUME NEW n \in Nests PROVE Over(n) \in Sessions /\ Over(n).state = "cancelled"
  <2> DEFINE v == sessions[n].version + 1
  <2>1. sessions[n] \in Sessions
    BY <1>1
  <2>2. v \in Nat /\ "cancelled" \in SessionStates
    BY <2>1, NextVersion
  <2> HIDE DEF v
  <2>3. QED
    BY <2>1, <2>2, SessionChanged DEF v
<1> HIDE DEF Over
<1>3. QED
  BY <1>1, <1>2 DEF SessionsEnd, InForce, Active

\* A step after which sessions are at most over, and nobody saves who did not.
LEMMA EngagementQuiet ==
    ASSUME EngagementInv, SessionsEnd, season' = season, nests' \subseteq Nests,
           DOMAIN doing' = Breeders,
           \A b \in Breeders :
             doing'[b] = doing[b] \/ doing'[b].at \notin {"lock", "save", "save commit"}
    PROVE  EngagementInv'
<1>1. BreedingTypes'
  BY DEF EngagementInv, BreedingTypes, SessionsEnd
<1>2. \A b \in Breeders : Saving(b)' => Saving(b) /\ Advised(b)' = Advised(b)
  BY DEF Saving, Advised, Serialised, NestOnly
<1>3. LocksApart'
  BY <1>2 DEF EngagementInv, LocksApart
<1>4. \A n \in Nests : InForce(n)' => InForce(n) /\ sessions'[n].pair = sessions[n].pair
  BY DEF SessionsEnd, InForce
<1>5. SavedFits'
  BY <1>4 DEF EngagementInv, SavedFits, InForce
<1>6. OneEngagement'
  BY <1>4 DEF EngagementInv, OneEngagement, InForce
<1>7. QED
  BY <1>1, <1>3, <1>5, <1>6 DEF EngagementInv

\* A handler goes on, or nobody's does.
LEMMA GoesOn ==
    ASSUME BreedingTypes, NEW b \in Breeders, NEW job, Goes(b, job)
    PROVE  /\ DOMAIN doing' = Breeders /\ doing'[b] = job
           /\ \A c \in Breeders \ {b} : doing'[c] = doing[c]
  BY DEF BreedingTypes, Goes

\* Start asks for a pair in the lowest nest.
LEMMA StartEngagement ==
    ASSUME EngagementInv, NEW b \in Breeders, Start(b)
    PROVE  EngagementInv'
<1>1. BreedingTypes /\ SessionsEnd
  BY DEF EngagementInv, Start, BreedingTypes, SessionsEnd, InForce, Active
<1>2. PICK pair \in Pairs :
        Goes(b, [at |-> "lock", nest |-> Min(nests), pair |-> pair,
                 late |-> {n \in Nests : sessions[n].expired}])
  BY DEF Start
<1>3. Min(nests) \in Nests /\ pair \subseteq Parents
  <2>1. nests \in SUBSET Nat /\ nests # {} /\ nests \subseteq Nests
    BY BreedingAssumption DEF Start, EngagementInv, BreedingTypes
  <2>2. Min(nests) \in nests
    BY <2>1, LowestNest
  <2>3. pair \subseteq Parents
    BY <1>2, BreedingAssumption DEF Pairs, EngagementInv, BreedingTypes
  <2>4. QED
    BY <2>1, <2>2, <2>3
<1>4. /\ DOMAIN doing' = Breeders /\ doing'[b] \in SaveJobs /\ doing'[b].at = "lock"
      /\ \A c \in Breeders \ {b} : doing'[c] = doing[c]
  BY <1>1, <1>2, <1>3, GoesOn DEF SaveJobs
<1>5. UNCHANGED <<season, nests, sessions>>
  BY DEF Start
<1>6. BreedingTypes'
  BY <1>1, <1>4, <1>5 DEF BreedingTypes
<1>7. \A c \in Breeders : Saving(c)' => c # b /\ Saving(c) /\ Advised(c)' = Advised(c)
  BY <1>4 DEF Saving, Advised, Serialised, NestOnly
<1>8. LocksApart'
  BY <1>7 DEF EngagementInv, LocksApart
<1>9. SavedFits' /\ OneEngagement'
  BY <1>4, <1>5 DEF EngagementInv, SavedFits, OneEngagement, Active
<1>10. QED
  BY <1>6, <1>8, <1>9 DEF EngagementInv

\* The advisory locks are taken together, when nobody else has one of them.
LEMMA LockEngagement ==
    ASSUME EngagementInv, NEW b \in Breeders, Lock(b)
    PROVE  EngagementInv'
<1> DEFINE job == [doing[b] EXCEPT !.at = "save"]
           keys == Serialised(doing[b].nest, doing[b].pair)
<1>1. /\ BreedingTypes /\ Goes(b, job) /\ Free(b, keys)
      /\ UNCHANGED <<season, nests, sessions>>
      /\ doing[b] \in SaveJobs /\ doing[b].at = "lock"
  BY DEF EngagementInv, Lock, At, BreedingTypes
<1>2. job \in SaveJobs /\ job.at = "save" /\ job.nest = doing[b].nest /\ job.pair = doing[b].pair
  BY <1>1 DEF SaveJobs
<1> HIDE DEF job
<1>3. /\ DOMAIN doing' = Breeders /\ doing'[b] = job
      /\ \A c \in Breeders \ {b} : doing'[c] = doing[c]
  BY <1>1, GoesOn
<1>4. BreedingTypes'
  BY <1>1, <1>2, <1>3 DEF BreedingTypes
<1>5. /\ Advised(b)' = keys
      /\ \A c \in Breeders \ {b} : Advised(c)' = Advised(c) /\ (Saving(c)' <=> Saving(c))
  BY <1>2, <1>3 DEF Saving, Advised, Serialised, NestOnly
<1>6. LocksApart'
  BY <1>1, <1>5 DEF EngagementInv, LocksApart, Free
<1>7. SavedFits' /\ OneEngagement'
  <2>1. SavedFits /\ OneEngagement /\ sessions' = sessions
    BY <1>1 DEF EngagementInv
  <2>2. SavedFits'
    BY <1>2, <1>3, <2>1 DEF SavedFits, Active
  <2>3. OneEngagement'
    BY <2>1 DEF OneEngagement, Active
  <2>4. QED
    BY <2>2, <2>3
<1>8. QED
  BY <1>4, <1>6, <1>7 DEF EngagementInv

\* What the upsert writes reserves the pair that was asked for, which no other
\* nest engages.
LEMMA UpsertFits ==
    ASSUME BreedingTypes, NEW b \in Breeders, NEW job \in SaveJobs, Upsert(b, job) # NoSession
    PROVE  /\ Upsert(b, job) \in Sessions /\ Upsert(b, job).pair = job.pair
           /\ \A m \in Nests \ {job.nest} :
                InForce(m) => sessions[m].pair \intersect job.pair = {}
<1> DEFINE old == sessions[job.nest]
           mine == job.pair \intersect Own(b)
           agreed == old.agreed \union mine
           new == [pair |-> job.pair, agreed |-> mine, state |-> "requested",
                   expired |-> FALSE, version |-> 1]
           again == [old EXCEPT !.agreed = agreed, !.expired = FALSE, !.version = @ + 1,
                          !.state = IF agreed = job.pair THEN "confirmed" ELSE "requested"]
<1>1. old \in Sessions /\ mine \subseteq Parents
  BY DEF BreedingTypes, SaveJobs, Own
<1>2. ASSUME Engaged(job) PROVE FALSE
  <2>1. Upsert(b, job) = NoSession
    BY <1>2 DEF Upsert
  <2>2. QED
    BY <2>1
<1>3. \A m \in Nests \ {job.nest} : InForce(m) => sessions[m].pair \intersect job.pair = {}
  BY <1>2 DEF Engaged, Lapsed, InForce
<1>4. Upsert(b, job) = new \/ (old.pair = job.pair /\ Upsert(b, job) = again)
  BY <1>2 DEF Upsert
<1>5. new \in Sessions /\ new.pair = job.pair
  BY <1>1 DEF Sessions, SessionStates, SaveJobs
<1>6. again \in Sessions /\ again.pair = old.pair
  <2> DEFINE s == IF agreed = job.pair THEN "confirmed" ELSE "requested"
             v == old.version + 1
  <2>1. agreed \in SUBSET Parents /\ s \in SessionStates
    BY <1>1 DEF Sessions, SessionStates
  <2>2. v \in Nat
    BY <1>1, NextVersion
  <2>3. again = [old EXCEPT !.agreed = agreed, !.expired = FALSE, !.version = v, !.state = s]
    OBVIOUS
  <2>4. old \in Sessions
    BY <1>1
  <2> HIDE DEF agreed, old, s, v
  <2>5. /\ [old EXCEPT !.agreed = agreed, !.expired = FALSE, !.version = v, !.state = s]
             \in Sessions
        /\ [old EXCEPT !.agreed = agreed, !.expired = FALSE, !.version = v, !.state = s].pair
             = old.pair
    BY <2>1, <2>2, <2>4 DEF Sessions
  <2> HIDE DEF again
  <2>6. QED
    BY <2>3, <2>5
<1>7. QED
  BY <1>3, <1>4, <1>5, <1>6

\* The statements of SaveBreedingSession, up to the commit.
LEMMA SaveEngagement ==
    ASSUME EngagementInv, NEW b \in Breeders, Save(b)
    PROVE  EngagementInv'
<1> DEFINE job == doing[b]
           saved == Upsert(b, job)
           kept == [at |-> "save commit", nest |-> job.nest, pair |-> job.pair, saved |-> saved]
<1>1. /\ BreedingTypes /\ UNCHANGED <<season, nests, sessions>>
      /\ job \in SaveJobs /\ job.at = "save"
  BY DEF EngagementInv, Save, At, BreedingTypes
<1>2. CASE saved = NoSession
  <2>1. Goes(b, Nothing)
    BY <1>2 DEF Save
  <2>2. /\ DOMAIN doing' = Breeders
        /\ \A c \in Breeders :
             doing'[c] = doing[c] \/ doing'[c].at \notin {"lock", "save", "save commit"}
    BY <1>1, <2>1, GoesOn, NothingRests
  <2>3. SessionsEnd /\ nests' \subseteq Nests
    BY <1>1 DEF SessionsEnd, InForce, Active, BreedingTypes
  <2>4. QED
    BY <1>1, <2>2, <2>3, EngagementQuiet
<1>3. CASE saved # NoSession
  <2>1. /\ saved \in Sessions /\ saved.pair = job.pair
        /\ \A m \in Nests \ {job.nest} : InForce(m) => sessions[m].pair \intersect job.pair = {}
    BY <1>1, <1>3, UpsertFits
  <2>2. Goes(b, kept)
    BY <1>3 DEF Save
  <2> HIDE DEF saved
  <2>3. kept \in CommitJobs /\ kept.at = "save commit" /\ kept.nest = job.nest /\ kept.pair = job.pair
        /\ kept.saved = saved
    BY <1>1, <2>1 DEF CommitJobs, SaveJobs
  <2>4. /\ DOMAIN doing' = Breeders /\ doing'[b] = kept
        /\ \A c \in Breeders \ {b} : doing'[c] = doing[c]
    BY <1>1, <2>2, GoesOn
  <2> HIDE DEF kept
  <2>5. BreedingTypes'
    BY <1>1, <2>3, <2>4 DEF BreedingTypes
  <2>6. \A c \in Breeders : Advised(c)' = Advised(c) /\ (Saving(c)' <=> Saving(c))
    BY <1>1, <2>3, <2>4 DEF Saving, Advised, Serialised, NestOnly
  <2>7. LocksApart'
    BY <2>6 DEF EngagementInv, LocksApart
  <2>8. SavedFits'
    <3>1. \A m \in Nests \ {job.nest} :
            Active(m) /\ ~sessions[m].expired => sessions[m].pair \intersect job.pair = {}
      BY <2>1 DEF InForce
    <3>2. SavedFits /\ sessions' = sessions
      BY <1>1 DEF EngagementInv
    <3>3. ASSUME NEW c \in Breeders, doing'[c].at = "save commit"
          PROVE  /\ doing'[c].saved.pair = doing'[c].pair
                 /\ \A m \in Nests \ {doing'[c].nest} :
                      Active(m) /\ ~sessions[m].expired =>
                          sessions[m].pair \intersect doing'[c].pair = {}
      <4>1. CASE c = b
        BY <2>1, <2>3, <2>4, <3>1, <4>1, Zenon
      <4>2. CASE c # b
        <5>1. doing'[c] = doing[c]
          BY <2>4, <4>2
        <5>2. QED
          BY <3>2, <3>3, <5>1, Zenon DEF SavedFits
      <4>3. QED
        BY <4>1, <4>2
    <3>4. QED
      BY <3>2, <3>3, Zenon DEF SavedFits, Active
  <2>9. OneEngagement'
    BY <1>1 DEF EngagementInv, OneEngagement, Active
  <2>10. QED
    BY <2>5, <2>7, <2>8, <2>9 DEF EngagementInv
<1>4. QED
  BY <1>2, <1>3

\* Its commit: others who have rows to commit hold other locks, so that they ask
\* for other pets at other nests.
LEMMA SaveCommitEngagement ==
    ASSUME EngagementInv, NEW b \in Breeders, SaveCommit(b)
    PROVE  EngagementInv'
<1> DEFINE n == doing[b].nest
           row == doing[b].saved
<1>1. /\ BreedingTypes /\ UNCHANGED <<season, nests>> /\ doing[b] \in CommitJobs
      /\ doing[b].at = "save commit" /\ Goes(b, Nothing)
      /\ sessions' = [sessions EXCEPT ![n] = row]
  BY DEF EngagementInv, SaveCommit, At, BreedingTypes
<1>2. n \in Nests /\ row \in Sessions /\ row.pair = doing[b].pair
  BY <1>1 DEF CommitJobs, EngagementInv, SavedFits
<1>3. /\ DOMAIN doing' = Breeders /\ doing'[b] = Nothing
      /\ \A c \in Breeders \ {b} : doing'[c] = doing[c]
  BY <1>1, GoesOn
<1>4. sessions'[n] = row /\ \A m \in Nests \ {n} : sessions'[m] = sessions[m]
  BY <1>1, <1>2 DEF BreedingTypes
<1>5. BreedingTypes'
  BY <1>1, <1>2, <1>3, NothingRests DEF BreedingTypes
<1>6. LocksApart'
  <2>1. \A c \in Breeders : Saving(c)' => c # b /\ Saving(c) /\ Advised(c)' = Advised(c)
    BY <1>3, NothingRests DEF Saving, Advised, Serialised, NestOnly
  <2>2. QED
    BY <2>1 DEF EngagementInv, LocksApart
<1>7. \A m \in Nests \ {n} : InForce(m) => sessions[m].pair \intersect row.pair = {}
  BY <1>1, <1>2 DEF EngagementInv, SavedFits, InForce
<1>8. SavedFits'
  <2>1. SUFFICES ASSUME NEW c \in Breeders, doing'[c].at = "save commit"
                 PROVE  /\ doing'[c].saved.pair = doing'[c].pair
                        /\ \A m \in Nests \ {doing'[c].nest} :
                             InForce(m)' => sessions'[m].pair \intersect doing'[c].pair = {}
    BY DEF SavedFits, InForce
  <2>2. c # b /\ doing'[c] = doing[c] /\ doing[c].saved.pair = doing[c].pair
    BY <1>3, <2>1, NothingRests DEF EngagementInv, SavedFits
  <2>3. doing[b].pair \intersect doing[c].pair = {}
    BY <1>1, <2>1, <2>2 DEF EngagementInv, LocksApart, Saving, Advised, Serialised
  <2>4. ASSUME NEW m \in Nests \ {doing[c].nest}, InForce(m)'
        PROVE  sessions'[m].pair \intersect doing[c].pair = {}
    <3>1. CASE m = n
      BY <1>2, <1>4, <2>3, <3>1
    <3>2. CASE m # n
      BY <1>4, <2>1, <2>2, <2>4, <3>2 DEF EngagementInv, SavedFits, InForce, Active
    <3>3. QED
      BY <3>1, <3>2
  <2>5. QED
    BY <2>2, <2>4
<1>9. OneEngagement'
  <2>1. \A m \in Nests \ {n} : InForce(m)' => InForce(m)
    BY <1>4 DEF InForce, Active
  <2>2. \A m, k \in Nests : m # k /\ InForce(m)' /\ InForce(k)' =>
          sessions'[m].pair \intersect sessions'[k].pair = {}
    <3>1. SUFFICES ASSUME NEW m \in Nests, NEW k \in Nests, m # k, InForce(m)', InForce(k)'
                   PROVE  sessions'[m].pair \intersect sessions'[k].pair = {}
      OBVIOUS
    <3>2. CASE m = n
      BY <1>4, <1>7, <2>1, <3>1, <3>2
    <3>3. CASE k = n
      BY <1>4, <1>7, <2>1, <3>1, <3>3
    <3>4. CASE m # n /\ k # n
      BY <1>4, <2>1, <3>1, <3>4 DEF EngagementInv, OneEngagement, InForce
    <3>5. QED
      BY <3>2, <3>3, <3>4
  <2>3. QED
    BY <2>2 DEF OneEngagement, InForce
<1>10. QED
  BY <1>5, <1>6, <1>8, <1>9 DEF EngagementInv

\* Sessions are at most over, and nobody saves who did not.
Ending ==
    /\ SessionsEnd /\ season' = season /\ nests' \subseteq Nests /\ DOMAIN doing' = Breeders
    /\ \A b \in Breeders :
         doing'[b] = doing[b] \/ doing'[b].at \notin {"lock", "save", "save commit"}

\* Every other step of a handler, and every step of the room and of time, at
\* most ends sessions.
LEMMA OtherSteps ==
    ASSUME BreedingTypes, BreedingNext,
           \A b \in Breeders : ~Start(b) /\ ~Lock(b) /\ ~Save(b) /\ ~SaveCommit(b)
    PROVE  Ending
<1> DEFINE Calm == \A b \in Breeders :
             doing'[b] = doing[b] \/ doing'[b].at \notin {"lock", "save", "save commit"}
<1>1. BreedingTypes /\ DOMAIN doing = Breeders /\ nests \subseteq Nests
  BY DEF BreedingTypes
<1>2. UNCHANGED sessions => SessionsEnd
  BY <1>1 DEF BreedingTypes, SessionsEnd, InForce, Active
<1>3. ASSUME NEW b \in Breeders, NEW job, Goes(b, job),
             job.at \notin {"lock", "save", "save commit"}
      PROVE  DOMAIN doing' = Breeders /\ Calm
  BY <1>1, <1>3, GoesOn
<1>4. ASSUME UNCHANGED doing PROVE DOMAIN doing' = Breeders /\ Calm
  BY <1>1, <1>4
<1>5. ASSUME NEW b \in Breeders, CheckParents(b) \/ Show(b) \/ Confirm(b) PROVE Ending
  <2>1. UNCHANGED <<season, nests, sessions>>
    BY <1>5 DEF CheckParents, Show, Confirm
  <2>2. DOMAIN doing' = Breeders /\ Calm
    <3>1. CASE CheckParents(b)
      BY <1>1, <3>1, NothingRests DEF CheckParents, Goes
    <3>2. CASE Show(b)
      BY <1>1, <3>2, NothingRests DEF Show, Goes
    <3>3. CASE Confirm(b)
      BY <1>1, <3>3 DEF Confirm, Goes
    <3>4. QED
      BY <1>5, <3>1, <3>2, <3>3
  <2>3. QED
    BY <1>1, <1>2, <1>3, <2>1, <2>2 DEF Ending
<1>6. ASSUME NEW b \in Breeders, Breed(b) PROVE Ending
  <2>1. UNCHANGED <<season, nests>>
    BY <1>6 DEF Breed
  <2>2. SessionsEnd
    <3>1. CASE UNCHANGED sessions
      BY <1>2, <3>1
    <3>2. CASE SetState(doing[b].nest, "completed")
      <4>1. doing[b].nest \in Nests \/ UNCHANGED sessions
        BY <1>1, <3>2 DEF SetState, BreedingTypes
      <4>2. QED
        BY <1>1, <1>2, <3>2, <4>1, SetStateEnds
    <3>3. QED
      BY <1>6, <3>1, <3>2 DEF Breed
  <2>3. DOMAIN doing' = Breeders /\ Calm
    <3>1. CASE Goes(b, Nothing)
      BY <1>1, <3>1, NothingRests DEF Goes
    <3>2. CASE \E rows : Goes(b, [at |-> "show", rows |-> rows])
      BY <1>1, <3>2 DEF Goes
    <3>3. QED
      BY <1>6, <3>1, <3>2 DEF Breed
  <2>4. QED
    BY <1>1, <1>3, <2>1, <2>2, <2>3 DEF Ending
<1>7. ASSUME NEW b \in Breeders, Cancelled(b) PROVE Ending
  <2>1. UNCHANGED <<season, nests>> /\ Goes(b, Nothing)
    BY <1>7 DEF Cancelled
  <2>2. SessionsEnd
    <3>1. CASE UNCHANGED sessions
      BY <1>2, <3>1
    <3>2. CASE SetState(doing[b].nest, "cancelled")
      <4>1. doing[b].nest \in Nests \/ UNCHANGED sessions
        BY <1>1, <3>2 DEF SetState, BreedingTypes
      <4>2. QED
        BY <1>1, <1>2, <3>2, <4>1, SetStateEnds
    <3>3. QED
      BY <1>7, <3>1, <3>2 DEF Cancelled
  <2>3. QED
    BY <1>1, <1>3, <2>1, <2>2, NothingRests DEF Ending
<1>8. ASSUME NEW n PROVE ToCancel(n).at \in {"cancel", "rest"}
  BY NothingRests DEF ToCancel
<1>9. ASSUME NEW b \in Breeders, Cancel(b) \/ PickUpNest(b) \/ PickedUp(b) \/ PlaceNest(b)
      PROVE  Ending
  <2>1. UNCHANGED <<season, sessions>> /\ nests' \subseteq Nests
    BY <1>1, <1>9, BreedingAssumption DEF Cancel, PickUpNest, PickedUp, PlaceNest, BreedingTypes
  <2>2. DOMAIN doing' = Breeders /\ Calm
    <3>1. CASE Cancel(b)
      BY <1>1, <1>8, <3>1 DEF Cancel, Goes
    <3>2. CASE PickUpNest(b)
      <4>1. CASE UNCHANGED doing
        BY <1>4, <4>1
      <4>2. CASE \E n : Goes(b, [at |-> "picked up", nest |-> n])
        <5>1. PICK n : Goes(b, [at |-> "picked up", nest |-> n])
          BY <4>2
        <5>2. doing' = [doing EXCEPT ![b] = [at |-> "picked up", nest |-> n]]
          BY <5>1 DEF Goes
        <5>3. QED
          BY <1>1, <5>2
      <4>3. QED
        BY <3>2, <4>1, <4>2 DEF PickUpNest
    <3>3. CASE PickedUp(b)
      BY <1>1, <1>8, <3>3 DEF PickedUp, Goes
    <3>4. CASE PlaceNest(b)
      BY <1>1, <3>4 DEF PlaceNest, Goes
    <3>5. QED
      BY <1>9, <3>1, <3>2, <3>3, <3>4
  <2>3. QED
    BY <1>2, <2>1, <2>2 DEF Ending
<1>10. ASSUME NEW b \in Breeders,
              \/ PickUp(b) \/ Disengage(b) \/ Remove(b) \/ PutDown(b) \/ AddPlaced(b)
              \/ Treat(b) \/ Treated(b)
       PROVE  Ending
  <2>1. UNCHANGED <<season, nests, sessions>>
    BY <1>10 DEF PickUp, Disengage, Remove, PutDown, AddPlaced, Treat, Treated
  <2>2. DOMAIN doing' = Breeders /\ Calm
    <3>1. CASE PickUp(b) \/ Disengage(b) \/ Treat(b)
      <4>1. CASE PickUp(b)
        BY <1>1, <4>1 DEF PickUp, Goes
      <4>2. CASE Disengage(b)
        BY <1>1, <4>2 DEF Disengage, Goes
      <4>3. CASE Treat(b)
        BY <1>1, <4>3 DEF Treat, Goes
      <4>4. QED
        BY <3>1, <4>1, <4>2, <4>3
    <3>2. CASE Remove(b) \/ AddPlaced(b)
      BY <1>1, <3>2, NothingRests DEF Remove, AddPlaced, Goes
    <3>3. CASE Treated(b)
      <4>1. CASE Goes(b, Nothing)
        BY <1>1, <4>1, NothingRests DEF Goes
      <4>2. CASE \E rows : Goes(b, [at |-> "show", rows |-> rows])
        BY <1>1, <4>2 DEF Goes
      <4>3. QED
        BY <3>3, <4>1, <4>2 DEF Treated
    <3>4. CASE PutDown(b)
      <4>1. \E p, row : Goes(b, [at |-> "add", pet |-> p, row |-> row])
        BY <3>4 DEF PutDown
      <4>2. QED
        BY <1>1, <4>1 DEF Goes
    <3>5. QED
      BY <1>10, <3>1, <3>2, <3>3, <3>4
  <2>3. QED
    BY <1>1, <1>2, <1>3, <2>1, <2>2 DEF Ending
<1>11. ASSUME NEW b \in Breeders, Take(b) PROVE Ending
  <2>1. UNCHANGED <<season, nests>> /\ SessionsEnd
    BY <1>1, <1>11, CancelsEnd DEF Take
  <2>2. DOMAIN doing' = Breeders /\ Calm
    <3>1. CASE Goes(b, Nothing)
      BY <1>1, <3>1, NothingRests DEF Goes
    <3>2. CASE \E p : Goes(b, [at |-> "remove", pet |-> p])
      BY <1>1, <3>2 DEF Goes
    <3>3. QED
      BY <1>11, <3>1, <3>2 DEF Take
  <2>3. QED
    BY <1>1, <1>3, <2>1, <2>2 DEF Ending
<1>12. CASE CloseRoom \/ UnloadRoom \/ LoadRoom
  <2>1. UNCHANGED <<season, nests, doing>> /\ SessionsEnd
    BY <1>1, <1>2, <1>12, CancelsEnd DEF CloseRoom, UnloadRoom, LoadRoom
  <2>2. QED
    BY <1>1, <1>4, <2>1 DEF Ending
<1>13. CASE Expire
  <2>1. PICK n \in Nests : sessions' = [sessions EXCEPT ![n] = [sessions[n] EXCEPT !.expired = TRUE]]
    BY <1>13 DEF Expire
  <2>2. sessions[n] \in Sessions /\ sessions \in [Nests -> Sessions]
    BY <1>1 DEF BreedingTypes
  <2>3. /\ [sessions[n] EXCEPT !.expired = TRUE] \in Sessions
        /\ [sessions[n] EXCEPT !.expired = TRUE].expired
    BY <2>2 DEF Sessions
  <2>4. SessionsEnd
    BY <2>1, <2>2, <2>3 DEF SessionsEnd, InForce, Active
  <2>5. UNCHANGED <<season, nests, doing>>
    BY <1>13 DEF Expire
  <2>6. QED
    BY <1>1, <1>4, <2>4, <2>5 DEF Ending
<1>14. QED
  BY <1>5, <1>6, <1>7, <1>9, <1>10, <1>11, <1>12, <1>13 DEF BreedingNext

\* Every step keeps engagements apart.
LEMMA EngagementNext == ASSUME EngagementInv, [BreedingNext]_breeding PROVE EngagementInv'
<1>1. CASE \E b \in Breeders : Start(b) \/ Lock(b) \/ Save(b) \/ SaveCommit(b)
  BY <1>1, StartEngagement, LockEngagement, SaveEngagement, SaveCommitEngagement
<1>2. CASE UNCHANGED breeding
  <2>1. SessionsEnd /\ UNCHANGED <<season, nests, doing>> /\ DOMAIN doing = Breeders
        /\ nests \subseteq Nests
    BY <1>2 DEF breeding, EngagementInv, BreedingTypes, SessionsEnd, InForce, Active
  <2>2. QED
    BY <2>1, EngagementQuiet
<1>3. CASE BreedingNext /\ \A b \in Breeders : ~Start(b) /\ ~Lock(b) /\ ~Save(b) /\ ~SaveCommit(b)
  <2>1. Ending
    BY <1>3, OtherSteps DEF EngagementInv
  <2>2. QED
    BY <2>1, EngagementQuiet DEF Ending
<1>4. QED
  BY <1>1, <1>2, <1>3

\* However many sessions are started at once, at whatever nests and over
\* sessions that expire or end meanwhile, no pet is engaged at two nests.
THEOREM PetsEngagedOnce == BreedingSpec => []OneEngagement
<1>1. EngagementInv => OneEngagement
  BY DEF EngagementInv
<1>2. QED
  BY <1>1, EngagementInit, EngagementNext, PTL DEF BreedingSpec

-----------------------------------------------------------------------------
(* What a breeding consumes.                                               *)

\* Every copy is of the current version, at first.
LEMMA VersionsInit == BreedingInit => VersionsInv
<1>1. SUFFICES ASSUME BreedingInit PROVE VersionsInv
  OBVIOUS
<1>2. ShownFit
  <2>1. /\ pets = [p \in Parents |-> [place |-> "room", able |-> TRUE, version |-> 1]]
        /\ shown = [p \in Parents |-> [able |-> TRUE, version |-> 1]]
    BY <1>1 DEF BreedingInit
  <2>2. pets \in [Parents -> PetRows] /\ shown \in [Parents -> Copies]
    BY <2>1 DEF PetRows, Copies
  <2>3. ASSUME NEW p \in Parents PROVE Fits(p, shown[p])
    <3>1. pets[p].version = 1 /\ pets[p].able /\ shown[p].version = 1 /\ shown[p].able
      BY <2>1
    <3>2. pets[p].able = TRUE /\ shown[p].able = TRUE
      BY <2>1
    <3>3. QED
      BY <3>1, <3>2 DEF Fits
  <2>4. QED
    BY <2>2, <2>3 DEF ShownFit
<1>3. \A n \in Nests : ~Active(n)
  BY <1>1 DEF BreedingInit, Active, NoSession
<1>4. \A b \in Breeders : JobFits(b)
  BY <1>1, NothingRests DEF BreedingInit, JobFits
<1>5. QED
  BY <1>2, <1>3, <1>4 DEF VersionsInv

\* Every change of a pet is a new version of it.
PetsGrow ==
    /\ pets' \in [Parents -> PetRows]
    /\ \A p \in Parents : pets'[p] = pets[p] \/ pets'[p].version = pets[p].version + 1

\* A copy that fits stays older than the next version.
LEMMA FitsKept ==
    ASSUME ShownFit, PetsGrow, NEW p \in Parents, NEW copy, copy.version \in Nat, Fits(p, copy)
    PROVE  Fits(p, copy)'
<1>1. pets[p].version \in Nat /\ pets'[p].version \in Nat
  BY DEF ShownFit, PetsGrow, PetRows
<1>2. QED
  BY <1>1 DEF Fits, PetsGrow

\* So do the copies a handler has.
LEMMA JobKept ==
    ASSUME BreedingTypes, ShownFit, PetsGrow, season' = season, NEW b \in Breeders, JobFits(b),
           doing'[b] = doing[b]
    PROVE  JobFits(b)'
<1>1. Pairs' = Pairs /\ \A pair \in Pairs : pair \subseteq Parents
  BY BreedingAssumption DEF Pairs, BreedingTypes
<1>2. doing[b].at = "show" =>
        \A p \in DOMAIN doing[b].rows \intersect Parents :
            doing[b].rows[p] \in Copies /\ Fits(p, doing[b].rows[p])'
  BY FitsKept DEF JobFits, Copies
<1>3. doing[b].at = "add" =>
        doing[b].pet \in Parents /\ doing[b].row \in Copies /\ Fits(doing[b].pet, doing[b].row)'
  BY FitsKept DEF JobFits, Copies
<1>4. doing[b].at = "breed" =>
        \A p \in doing[b].pair :
            /\ doing[b].seen[p] \in Nat
            /\ Fits(p, [able |-> TRUE, version |-> doing[b].seen[p]])'
  BY <1>1, FitsKept DEF JobFits
<1>5. QED
  BY <1>1, <1>2, <1>3, <1>4 DEF JobFits, Fits

\* A row as it is copied fits it.
LEMMA CopyFits ==
    ASSUME pets \in [Parents -> PetRows], NEW p \in Parents
    PROVE  Copy(pets[p]) \in Copies /\ Fits(p, Copy(pets[p]))
<1>1. pets[p] \in PetRows
  OBVIOUS
<1>2. QED
  BY <1>1 DEF PetRows, Copies, Copy, Fits

\* A step that changes what the room shows, the rows and one handler's job, so
\* that they fit.
LEMMA VersionsStep ==
    ASSUME BreedingTypes, VersionsInv, season' = season, NEW b \in Breeders,
           PetsGrow, DOMAIN doing' = Breeders,
           \A c \in Breeders \ {b} : doing'[c] = doing[c],
           JobFits(b)',
           shown' \in [Parents -> Copies],
           \A p \in Parents : shown'[p] \in {Absent, shown[p]} \/ Fits(p, shown[p])',
           \A n \in Nests : Active(n)' => sessions'[n].pair \in Pairs
    PROVE  VersionsInv'
<1>1. ShownFit'
  <2>1. \A p \in Parents : shown[p] = Absent \/ Fits(p, shown[p])
    BY DEF VersionsInv, ShownFit
  <2>2. ASSUME NEW p \in Parents, Fits(p, shown[p]), shown'[p] = shown[p] PROVE Fits(p, shown[p])'
    <3>1. pets[p].version \in Nat /\ pets'[p].version \in Nat /\ shown[p].version \in Nat
      BY DEF VersionsInv, ShownFit, PetsGrow, PetRows, Copies
    <3>2. QED
      BY <2>2, <3>1 DEF Fits, PetsGrow
  <2>3. QED
    BY <2>1, <2>2 DEF ShownFit, PetsGrow
<1>2. \A c \in Breeders : JobFits(c)'
  BY JobKept DEF VersionsInv
<1>3. QED
  BY <1>1, <1>2 DEF VersionsInv, Pairs

\* ... of which most steps change the job only.
LEMMA VersionsMove ==
    ASSUME BreedingTypes, VersionsInv, NEW b \in Breeders, NEW job, Goes(b, job),
           UNCHANGED <<season, pets, shown>>,
           \A n \in Nests : Active(n)' => sessions'[n].pair \in Pairs,
           JobFits(b)'
    PROVE  VersionsInv'
<1>1. PetsGrow /\ shown' \in [Parents -> Copies]
  BY DEF VersionsInv, ShownFit, PetsGrow
<1>2. DOMAIN doing' = Breeders /\ \A c \in Breeders \ {b} : doing'[c] = doing[c]
  BY GoesOn
<1>3. QED
  BY <1>1, <1>2, VersionsStep

\* A session that is not new is of the season's pairs.
LEMMA PairsKept ==
    ASSUME BreedingTypes, VersionsInv, season' = season, SessionsEnd \/ UNCHANGED sessions
    PROVE  \A n \in Nests : Active(n)' => sessions'[n].pair \in Pairs
  BY DEF VersionsInv, SessionsEnd, Active

\* The upsert asks for a session or confirms it.
LEMMA UpsertEngages ==
    ASSUME BreedingTypes, NEW b \in Breeders, NEW job \in SaveJobs, Upsert(b, job) # NoSession
    PROVE  Upsert(b, job).state # "completed"
<1> DEFINE old == sessions[job.nest]
           mine == job.pair \intersect Own(b)
           agreed == old.agreed \union mine
           s == IF agreed = job.pair THEN "confirmed" ELSE "requested"
           v == old.version + 1
           new == [pair |-> job.pair, agreed |-> mine, state |-> "requested",
                   expired |-> FALSE, version |-> 1]
           again == [old EXCEPT !.agreed = agreed, !.expired = FALSE, !.version = v, !.state = s]
<1>1. old \in Sessions /\ s # "completed"
  BY DEF BreedingTypes, SaveJobs
<1>2. Upsert(b, job) = new \/ Upsert(b, job) = again
  BY DEF Upsert
<1>3. new.state = "requested"
  OBVIOUS
<1> HIDE DEF new, agreed, s, v, old
<1>4. again.state = s
  BY <1>1 DEF Sessions
<1>5. QED
  BY <1>1, <1>2, <1>3, <1>4

\* Starting, confirming and saving.
LEMMA SavingVersions ==
    ASSUME EngagementInv, VersionsInv, NEW b \in Breeders,
           Start(b) \/ Lock(b) \/ Save(b) \/ SaveCommit(b) \/ Confirm(b)
    PROVE  VersionsInv'
<1>1. BreedingTypes /\ SavedFits /\ JobFits(b) /\ UNCHANGED <<season, pets, shown>>
      /\ Pairs' = Pairs
  BY DEF EngagementInv, VersionsInv, Start, Lock, Save, SaveCommit, Confirm, Pairs
<1>2. CASE Start(b)
  <2>1. PICK pair \in Pairs :
          Goes(b, [at |-> "lock", nest |-> Min(nests), pair |-> pair,
                   late |-> {n \in Nests : sessions[n].expired}])
    BY <1>2 DEF Start
  <2>2. doing'[b].at = "lock" /\ doing'[b].pair \in Pairs
    BY <1>1, <2>1, GoesOn
  <2>3. UNCHANGED sessions
    BY <1>2 DEF Start
  <2>4. JobFits(b)'
    BY <1>1, <2>2 DEF JobFits
  <2>5. QED
    BY <1>1, <2>1, <2>3, <2>4, PairsKept, VersionsMove
<1>3. CASE Lock(b)
  <2>1. doing[b] \in SaveJobs /\ Goes(b, [doing[b] EXCEPT !.at = "save"]) /\ UNCHANGED sessions
        /\ doing[b].at = "lock"
    BY <1>1, <1>3 DEF Lock, At, BreedingTypes
  <2>2. /\ [doing[b] EXCEPT !.at = "save"].at = "save"
        /\ [doing[b] EXCEPT !.at = "save"].pair = doing[b].pair
    BY <2>1 DEF SaveJobs
  <2>3. doing'[b].at = "save" /\ doing'[b].pair \in Pairs
    BY <1>1, <2>1, <2>2, GoesOn DEF JobFits
  <2>4. JobFits(b)'
    BY <1>1, <2>3 DEF JobFits
  <2>5. QED
    BY <1>1, <2>1, <2>4, PairsKept, VersionsMove
<1>4. CASE Save(b)
  <2>1. UNCHANGED sessions /\ doing[b].at = "save" /\ doing[b].pair \in Pairs
    BY <1>1, <1>4 DEF Save, At, JobFits
  <2>2. CASE Goes(b, Nothing)
    <3>1. JobFits(b)'
      BY <1>1, <2>2, GoesOn, NothingRests DEF JobFits
    <3>2. QED
      BY <1>1, <2>1, <2>2, <3>1, PairsKept, VersionsMove
  <2>3. ASSUME NEW job, Goes(b, job), job.at = "save commit", job.pair = doing[b].pair,
               job.saved.state # "completed"
        PROVE  VersionsInv'
    <3>1. /\ doing'[b].at = "save commit" /\ doing'[b].pair = doing[b].pair
          /\ doing'[b].saved.state # "completed"
      BY <1>1, <2>3, GoesOn
    <3>2. JobFits(b)'
      BY <1>1, <2>1, <3>1 DEF JobFits
    <3>3. QED
      BY <1>1, <2>1, <2>3, <3>2, PairsKept, VersionsMove
  <2>4. CASE ~Goes(b, Nothing)
    <3>1. PICK n, row, pair : /\ pair = doing[b].pair
            /\ row = Upsert(b, doing[b]) /\ row # NoSession
            /\ Goes(b, [at |-> "save commit", nest |-> n, pair |-> pair, saved |-> row])
      BY <1>4, <2>4 DEF Save
    <3> DEFINE job == [at |-> "save commit", nest |-> n, pair |-> pair, saved |-> row]
    <3>2. job.at = "save commit" /\ job.pair = doing[b].pair /\ job.saved = row
      BY <3>1
    <3>3. Goes(b, job)
      BY <3>1
    <3>4. row.state # "completed"
      BY <1>1, <2>1, <3>1, UpsertEngages DEF BreedingTypes
    <3> HIDE DEF job
    <3>5. QED
      BY <2>3, <3>2, <3>3, <3>4
  <2>5. QED
    BY <2>2, <2>4
<1>5. CASE SaveCommit(b)
  <2>1. /\ doing[b].at = "save commit" /\ doing[b].saved.pair \in Pairs /\ Goes(b, Nothing)
        /\ sessions' = [sessions EXCEPT ![doing[b].nest] = doing[b].saved]
    BY <1>1, <1>5 DEF SaveCommit, At, JobFits, SavedFits
  <2>2. \A n \in Nests : Active(n)' => sessions'[n].pair \in Pairs
    <3>1. sessions \in [Nests -> Sessions] /\ \A n \in Nests : Active(n) => sessions[n].pair \in Pairs
      BY <1>1 DEF BreedingTypes, VersionsInv
    <3>2. QED
      BY <2>1, <3>1 DEF Active
  <2>3. JobFits(b)'
    BY <1>1, <2>1, GoesOn, NothingRests DEF JobFits
  <2>4. QED
    BY <1>1, <2>1, <2>2, <2>3, VersionsMove
<1>6. CASE Confirm(b)
  <2>1. PICK n \in Nests :
          /\ sessions[n].state = "confirmed"
          /\ Goes(b, [at |-> "parents", nest |-> n, pair |-> sessions[n].pair,
                      version |-> sessions[n].version])
    BY <1>6 DEF Confirm
  <2>2. sessions[n].pair \in Pairs /\ UNCHANGED sessions
    BY <1>6, <2>1 DEF VersionsInv, Active, Confirm
  <2>3. doing'[b].at = "parents" /\ doing'[b].pair \in Pairs
    BY <1>1, <2>1, <2>2, GoesOn
  <2>4. JobFits(b)'
    BY <1>1, <2>3 DEF JobFits
  <2>5. QED
    BY <1>1, <2>1, <2>2, <2>4, PairsKept, VersionsMove
<1>7. QED
  BY <1>2, <1>3, <1>4, <1>5, <1>6

\* Steps that neither save, breed, nor touch a pet.
LEMMA QuietVersions ==
    ASSUME BreedingTypes, VersionsInv, SessionsEnd \/ UNCHANGED sessions, NEW b \in Breeders,
           \/ Cancel(b) \/ Cancelled(b) \/ PickUpNest(b) \/ PickedUp(b) \/ PlaceNest(b)
           \/ PickUp(b) \/ Disengage(b) \/ Treat(b)
    PROVE  VersionsInv'
<1> DEFINE Dull == {"rest", "cancel", "picked up"}
<1>1. UNCHANGED <<season, pets, shown>> /\ JobFits(b)
  BY DEF VersionsInv, Cancel, Cancelled, PickUpNest, PickedUp, PlaceNest, PickUp, Disengage, Treat
<1>2. \A n \in Nests : Active(n)' => sessions'[n].pair \in Pairs
  BY <1>1, PairsKept
<1>3. ASSUME NEW job, Goes(b, job), job.at \in Dull PROVE VersionsInv'
  <2>1. doing'[b].at \in Dull
    BY <1>3, GoesOn
  <2>2. JobFits(b)'
    BY <2>1 DEF JobFits
  <2>3. QED
    BY <1>1, <1>2, <1>3, <2>2, VersionsMove
<1>4. ASSUME NEW job, Goes(b, job), job.at \in {"release", "take", "treat"}, job.pet \in Parents
      PROVE  VersionsInv'
  <2>1. doing'[b].at \in {"release", "take", "treat"} /\ doing'[b].pet \in Parents
    BY <1>4, GoesOn
  <2>2. JobFits(b)'
    BY <2>1 DEF JobFits
  <2>3. QED
    BY <1>1, <1>2, <1>4, <2>2, VersionsMove
<1>5. ASSUME UNCHANGED doing PROVE VersionsInv'
  <2>1. PetsGrow /\ shown' \in [Parents -> Copies] /\ DOMAIN doing' = Breeders
    BY <1>1, <1>5 DEF VersionsInv, ShownFit, PetsGrow, BreedingTypes
  <2>2. JobFits(b)'
    BY <1>1, <1>5, <2>1, JobKept DEF VersionsInv
  <2>3. QED
    BY <1>1, <1>2, <1>5, <2>1, <2>2, VersionsStep
<1>6. CASE Cancel(b) \/ PickedUp(b)
  <2>1. PICK n : Goes(b, ToCancel(n))
    BY <1>6 DEF Cancel, PickedUp
  <2>2. ToCancel(n).at \in Dull
    BY NothingRests DEF ToCancel
  <2>3. QED
    BY <1>3, <2>1, <2>2
<1>7. CASE Cancelled(b)
  BY <1>3, <1>7, NothingRests DEF Cancelled
<1>8. CASE PickUpNest(b)
  <2>1. CASE UNCHANGED doing
    BY <1>5, <2>1
  <2>2. ASSUME NEW n, Goes(b, [at |-> "picked up", nest |-> n]) PROVE VersionsInv'
    BY <1>3, <2>2
  <2>3. QED
    BY <1>8, <2>1, <2>2 DEF PickUpNest
<1>9. CASE PlaceNest(b)
  BY <1>5, <1>9 DEF PlaceNest
<1>10. CASE PickUp(b)
  <2>1. PICK p \in Parents : Goes(b, [at |-> "release", pet |-> p, version |-> pets[p].version])
    BY <1>10 DEF PickUp, Own
  <2>2. QED
    BY <1>4, <2>1
<1>11. CASE Disengage(b)
  <2>1. /\ doing[b].pet \in Parents
        /\ Goes(b, [at |-> "take", pet |-> doing[b].pet, version |-> doing[b].version,
                    cancelled |-> Of(doing[b].pet)])
    BY <1>1, <1>11 DEF Disengage, At, JobFits
  <2>2. QED
    BY <1>4, <2>1
<1>12. CASE Treat(b)
  <2>1. PICK p \in Parents : Goes(b, [at |-> "treat", pet |-> p, version |-> shown[p].version])
    BY <1>12 DEF Treat, Own
  <2>2. QED
    BY <1>4, <2>1
<1>13. QED
  BY <1>6, <1>7, <1>8, <1>9, <1>10, <1>11, <1>12

\* What is shown is what a handler carries, or the pet is gone.
LEMMA ShowVersions ==
    ASSUME BreedingTypes, VersionsInv, NEW b \in Breeders,
           CheckParents(b) \/ Show(b) \/ Remove(b) \/ AddPlaced(b)
    PROVE  VersionsInv'
<1>1. /\ UNCHANGED <<season, pets, sessions>> /\ JobFits(b)
      /\ pets \in [Parents -> PetRows] /\ shown \in [Parents -> Copies] /\ Absent \in Copies
      /\ \A p \in Parents : shown[p] = Absent \/ Fits(p, shown[p])
  BY DEF VersionsInv, ShownFit, CheckParents, Show, Remove, AddPlaced, Absent, Copies
<1>2. PetsGrow /\ \A n \in Nests : Active(n)' => sessions'[n].pair \in Pairs
  BY <1>1, PairsKept DEF PetsGrow
<1>3. CASE CheckParents(b)
  <2>1. doing[b].at = "parents" /\ doing[b].pair \in Pairs /\ UNCHANGED shown
    BY <1>1, <1>3 DEF CheckParents, At, JobFits
  <2>2. CASE Goes(b, Nothing)
    <3>1. JobFits(b)'
      BY <1>1, <2>2, GoesOn, NothingRests DEF JobFits
    <3>2. QED
      BY <1>1, <1>2, <2>1, <2>2, <3>1, VersionsMove
  <2>3. CASE ~Goes(b, Nothing)
    <3> DEFINE seen == [p \in doing[b].pair |-> shown[p].version]
               job == [at |-> "breed", nest |-> doing[b].nest, pair |-> doing[b].pair,
                       version |-> doing[b].version, seen |-> seen]
    <3>1. Willing(b, doing[b].pair) /\ Goes(b, job)
      BY <1>3, <2>3 DEF CheckParents
    <3>2. doing[b].pair \subseteq Parents
      BY <2>1, BreedingAssumption DEF Pairs, BreedingTypes
    <3>3. \A p \in doing[b].pair :
            seen[p] \in Nat /\ Fits(p, [able |-> TRUE, version |-> seen[p]])
      <4>1. SUFFICES ASSUME NEW p \in doing[b].pair
                     PROVE  seen[p] \in Nat /\ Fits(p, [able |-> TRUE, version |-> seen[p]])
        OBVIOUS
      <4>2. shown[p] \in Copies /\ shown[p].able /\ Fits(p, shown[p]) /\ seen[p] = shown[p].version
        BY <1>1, <3>1, <3>2 DEF Willing
      <4>3. shown[p].able = TRUE
        BY <4>2 DEF Copies
      <4>4. QED
        BY <4>2, <4>3 DEF Fits, Copies
    <3>4. doing'[b] = job
      BY <3>1, GoesOn
    <3>5. /\ doing'[b].at = "breed" /\ doing'[b].pair = doing[b].pair /\ doing'[b].seen = seen
      BY <3>4
    <3> HIDE DEF seen, job
    <3>6. JobFits(b)'
      BY <1>1, <2>1, <3>3, <3>5 DEF JobFits, Fits, Pairs
    <3>7. QED
      BY <1>1, <1>2, <2>1, <3>1, <3>6, VersionsMove
  <2>4. QED
    BY <2>2, <2>3
<1>4. ASSUME Goes(b, Nothing), shown' \in [Parents -> Copies],
             \A p \in Parents : shown'[p] \in {Absent, shown[p]} \/ Fits(p, shown[p])'
      PROVE  VersionsInv'
  <2>1. JobFits(b)' /\ DOMAIN doing' = Breeders /\ \A c \in Breeders \ {b} : doing'[c] = doing[c]
    BY <1>4, GoesOn, NothingRests DEF JobFits
  <2>2. QED
    BY <1>1, <1>2, <1>4, <2>1, VersionsStep
<1>5. CASE Show(b)
  <2> DEFINE rows == doing[b].rows
  <2>1. /\ \A p \in DOMAIN rows \intersect Parents : rows[p] \in Copies /\ Fits(p, rows[p])
        /\ Goes(b, Nothing)
        /\ shown' = [p \in Parents |->
             IF p \in DOMAIN rows /\ shown[p] # Absent THEN rows[p] ELSE shown[p]]
    BY <1>1, <1>5 DEF Show, At, JobFits
  <2> HIDE DEF rows
  <2>2. shown' \in [Parents -> Copies]
    BY <1>1, <2>1
  <2>3. \A p \in Parents : shown'[p] = shown[p] \/ (shown'[p] = rows[p] /\ Fits(p, rows[p]))
    BY <2>1
  <2>4. \A p \in Parents : shown'[p] \in {Absent, shown[p]} \/ Fits(p, shown[p])'
    BY <1>1, <2>3 DEF Fits
  <2>5. QED
    BY <1>4, <2>1, <2>2, <2>4
<1>6. CASE Remove(b)
  <2>1. shown' = [shown EXCEPT ![doing[b].pet] = Absent] /\ Goes(b, Nothing)
    BY <1>6 DEF Remove
  <2>2. shown' \in [Parents -> Copies] /\ \A p \in Parents : shown'[p] \in {Absent, shown[p]}
    BY <1>1, <2>1
  <2>3. QED
    BY <1>4, <2>1, <2>2
<1>7. CASE AddPlaced(b)
  <2> DEFINE row == doing[b].row
  <2>1. /\ Goes(b, Nothing) /\ row \in Copies /\ Fits(doing[b].pet, row)
        /\ shown' = shown \/ shown' = [shown EXCEPT ![doing[b].pet] = row]
    BY <1>1, <1>7 DEF AddPlaced, At, JobFits
  <2> HIDE DEF row
  <2>2. /\ shown' \in [Parents -> Copies]
        /\ \A p \in Parents : shown'[p] = shown[p] \/ (shown'[p] = row /\ Fits(p, row))
    BY <1>1, <2>1
  <2>3. \A p \in Parents : shown'[p] \in {Absent, shown[p]} \/ Fits(p, shown[p])'
    BY <1>1, <2>2 DEF Fits
  <2>4. QED
    BY <1>4, <2>1, <2>2, <2>3
<1>8. QED
  BY <1>3, <1>5, <1>6, <1>7

\* The next version of a pet.
LEMMA NextRow ==
    ASSUME NEW row \in PetRows, NEW able \in BOOLEAN, NEW place \in {"room", "inventory"}
    PROVE  /\ [row EXCEPT !.able = able, !.version = @ + 1] \in PetRows
           /\ [row EXCEPT !.able = able, !.version = @ + 1].version = row.version + 1
           /\ [row EXCEPT !.able = able, !.version = @ + 1].able = able
           /\ [row EXCEPT !.place = place, !.version = @ + 1] \in PetRows
           /\ [row EXCEPT !.place = place, !.version = @ + 1].version = row.version + 1
<1> DEFINE v == row.version + 1
<1>1. v \in Nat
  BY DEF PetRows
<1> HIDE DEF v
<1>2. /\ [row EXCEPT !.able = able, !.version = v] \in PetRows
      /\ [row EXCEPT !.able = able, !.version = v].version = v
      /\ [row EXCEPT !.able = able, !.version = v].able = able
      /\ [row EXCEPT !.place = place, !.version = v] \in PetRows
      /\ [row EXCEPT !.place = place, !.version = v].version = v
  BY <1>1 DEF PetRows
<1>3. QED
  BY <1>2 DEF v

\* What a copy says.
LEMMA CopySays ==
    ASSUME NEW row \in PetRows
    PROVE  /\ Copy(row) \in Copies
           /\ Copy(row).version = row.version /\ Copy(row).able = row.able
           /\ row.version <= row.version
  BY DEF PetRows, Copies, Copy

\* A breeding is a new version of both parents.
LEMMA SpentGrows ==
    ASSUME pets \in [Parents -> PetRows], NEW pair, pets' = Spent(pair)
    PROVE  /\ PetsGrow
           /\ \A p \in pair \intersect Parents : pets'[p].able = FALSE
<1>1. \A p \in Parents :
        pets'[p] = IF p \in pair THEN [pets[p] EXCEPT !.able = FALSE, !.version = @ + 1] ELSE pets[p]
  BY DEF Spent
<1> DEFINE Over(p) == [pets[p] EXCEPT !.able = FALSE, !.version = @ + 1]
<1>2. \A p \in Parents : /\ Over(p) \in PetRows /\ Over(p).version = pets[p].version + 1
                          /\ Over(p).able = FALSE
  <2>1. SUFFICES ASSUME NEW p \in Parents
                 PROVE  /\ Over(p) \in PetRows /\ Over(p).version = pets[p].version + 1
                        /\ Over(p).able = FALSE
    OBVIOUS
  <2>2. pets[p] \in PetRows /\ FALSE \in BOOLEAN /\ "room" \in {"room", "inventory"}
    OBVIOUS
  <2>3. QED
    BY <2>2, NextRow
<1>3. \A p \in Parents : pets'[p] = IF p \in pair THEN Over(p) ELSE pets[p]
  BY <1>1
<1> HIDE DEF Over
<1>4. \A p \in Parents : pets'[p] \in PetRows
  BY <1>2, <1>3
<1>5. DOMAIN pets' = Parents /\ pets' = [p \in Parents |-> pets'[p]]
  BY DEF Spent
<1>6. pets' \in [Parents -> PetRows]
  BY <1>4, <1>5
<1>7. \A p \in Parents : pets'[p] = pets[p] \/ pets'[p].version = pets[p].version + 1
  BY <1>2, <1>3
<1>8. \A p \in pair \intersect Parents : pets'[p].able = FALSE
  BY <1>2, <1>3
<1>9. QED
  BY <1>6, <1>7, <1>8 DEF PetsGrow

\* So is a change of one pet.
LEMMA OneGrows ==
    ASSUME pets \in [Parents -> PetRows], NEW p \in Parents, NEW row \in PetRows,
           row.version = pets[p].version + 1, pets' = [pets EXCEPT ![p] = row]
    PROVE  PetsGrow
  BY DEF PetsGrow

\* A step that changes pets, sessions that were there, and one handler's job.
LEMMA VersionsGrow ==
    ASSUME BreedingTypes, VersionsInv, NEW b \in Breeders, NEW job, Goes(b, job), PetsGrow,
           UNCHANGED <<season, shown>>, SessionsEnd \/ UNCHANGED sessions, JobFits(b)'
    PROVE  VersionsInv'
<1>1. DOMAIN doing' = Breeders /\ \A c \in Breeders \ {b} : doing'[c] = doing[c]
  BY GoesOn
<1>2. shown' \in [Parents -> Copies]
  BY DEF VersionsInv, ShownFit
<1>3. \A n \in Nests : Active(n)' => sessions'[n].pair \in Pairs
  BY PairsKept
<1>4. QED
  BY <1>1, <1>2, <1>3, VersionsStep

\* ... which has nothing left to do, takes a pet away, or shows what it wrote.
LEMMA RestFits ==
    ASSUME BreedingTypes, NEW b \in Breeders, Goes(b, Nothing) PROVE JobFits(b)'
  BY GoesOn, NothingRests DEF JobFits

\* Rows that are shown as they were written.
LEMMA WrittenFits ==
    ASSUME BreedingTypes, PetsGrow, NEW b \in Breeders, NEW ps, ps \subseteq Parents,
           Goes(b, [at |-> "show", rows |-> [p \in ps |-> Copy(pets'[p])]])
    PROVE  JobFits(b)'
<1> DEFINE rows == [p \in ps |-> Copy(pets'[p])]
<1>1. doing'[b] = [at |-> "show", rows |-> rows]
  BY GoesOn
<1>2. \A p \in Parents : pets'[p] \in PetRows
  BY DEF PetsGrow
<1>3. /\ DOMAIN rows = ps
      /\ \A p \in ps : /\ rows[p] \in Copies /\ rows[p].version <= pets'[p].version
                       /\ rows[p].able = pets'[p].able
  BY <1>2, CopySays
<1> HIDE DEF rows
<1>4. doing'[b].at = "show" /\ doing'[b].rows = rows
  BY <1>1
<1>5. QED
  BY <1>3, <1>4 DEF JobFits, Fits

\* Breeding, treatment, and the moves of a pet.
LEMMA GrowingVersions ==
    ASSUME BreedingTypes, VersionsInv, SessionsEnd, NEW b \in Breeders,
           Breed(b) \/ Take(b) \/ PutDown(b) \/ Treated(b)
    PROVE  VersionsInv'
<1>1. /\ UNCHANGED <<season, shown>> /\ pets \in [Parents -> PetRows] /\ JobFits(b)
      /\ FALSE \in BOOLEAN /\ TRUE \in BOOLEAN
      /\ "room" \in {"room", "inventory"} /\ "inventory" \in {"room", "inventory"}
  BY DEF VersionsInv, ShownFit, Breed, Take, PutDown, Treated
<1>2. ASSUME UNCHANGED pets, Goes(b, Nothing) PROVE VersionsInv'
  <2>1. PetsGrow
    BY <1>1, <1>2 DEF PetsGrow
  <2>2. QED
    BY <1>1, <1>2, <2>1, RestFits, VersionsGrow
<1>3. CASE Breed(b)
  <2>1. CASE UNCHANGED pets /\ Goes(b, Nothing)
    BY <1>2, <2>1
  <2>2. CASE /\ pets' = Spent(doing[b].pair)
             /\ Goes(b, [at |-> "show", rows |-> [p \in doing[b].pair |-> Copy(pets'[p])]])
    <3> DEFINE pair == doing[b].pair
    <3>1. pair \in Pairs
      BY <1>1, <1>3 DEF Breed, At, JobFits
    <3>2. pair \subseteq Parents
      BY <3>1, BreedingAssumption DEF Pairs, BreedingTypes
    <3>3. /\ pets' = Spent(pair)
          /\ Goes(b, [at |-> "show", rows |-> [p \in pair |-> Copy(pets'[p])]])
      BY <2>2
    <3> HIDE DEF pair
    <3>4. PetsGrow
      BY <1>1, <3>3, SpentGrows
    <3>5. JobFits(b)'
      BY <3>2, <3>3, <3>4, WrittenFits
    <3>6. QED
      BY <1>1, <3>3, <3>4, <3>5, VersionsGrow
  <2>3. QED
    BY <1>3, <2>1, <2>2 DEF Breed
<1>4. CASE Take(b)
  <2> DEFINE pet == doing[b].pet
             row == [pets[pet] EXCEPT !.place = "inventory", !.version = @ + 1]
  <2>1. pet \in Parents
    BY <1>1, <1>4 DEF Take, At, JobFits
  <2>2. CASE UNCHANGED pets /\ Goes(b, Nothing)
    BY <1>2, <2>2
  <2>3. CASE pets' = [pets EXCEPT ![pet] = row] /\ Goes(b, [at |-> "remove", pet |-> pet])
    <3> DEFINE next == [at |-> "remove", pet |-> pet]
    <3>1. row \in PetRows /\ row.version = pets[pet].version + 1
      BY <1>1, <2>1, NextRow
    <3> HIDE DEF row, pet
    <3>2. PetsGrow
      BY <1>1, <2>1, <2>3, <3>1, OneGrows
    <3>3. Goes(b, next) /\ next.at = "remove" /\ next.pet = pet
      BY <2>3
    <3> HIDE DEF next
    <3>4. doing'[b].at = "remove" /\ doing'[b].pet = pet
      BY <3>3, GoesOn
    <3>5. JobFits(b)'
      BY <2>1, <3>4 DEF JobFits
    <3>6. QED
      BY <1>1, <3>2, <3>3, <3>5, VersionsGrow, Zenon
  <2>4. QED
    BY <1>4, <2>2, <2>3 DEF Take
<1>5. CASE PutDown(b)
  <2>1. PICK p \in Parents :
          /\ pets' = [pets EXCEPT ![p].place = "room", ![p].version = @ + 1]
          /\ Goes(b, [at |-> "add", pet |-> p, row |-> Copy(pets'[p])])
    BY <1>5 DEF PutDown, Own
  <2> DEFINE row == [pets[p] EXCEPT !.place = "room", !.version = @ + 1]
  <2>2. pets' = [pets EXCEPT ![p] = row]
    BY <2>1
  <2>3. row \in PetRows /\ row.version = pets[p].version + 1
    BY <1>1, NextRow
  <2> HIDE DEF row
  <2>4. PetsGrow
    BY <1>1, <2>2, <2>3, OneGrows
  <2>5. pets'[p] \in PetRows
    BY <2>4 DEF PetsGrow
  <2>6. /\ Copy(pets'[p]) \in Copies /\ Copy(pets'[p]).version <= pets'[p].version
        /\ Copy(pets'[p]).able = pets'[p].able
    BY <2>5, CopySays
  <2> DEFINE copy == Copy(pets'[p])
  <2>7. doing'[b] = [at |-> "add", pet |-> p, row |-> copy]
    BY <2>1, GoesOn
  <2> HIDE DEF copy
  <2>8. doing'[b].at = "add" /\ doing'[b].pet = p /\ doing'[b].row = copy
    BY <2>7
  <2>9. JobFits(b)'
    BY <2>6, <2>8 DEF JobFits, Fits, copy
  <2>10. QED
    BY <1>1, <2>1, <2>4, <2>9, VersionsGrow
<1>6. CASE Treated(b)
  <2> DEFINE pet == doing[b].pet
             row == [pets[pet] EXCEPT !.able = TRUE, !.version = @ + 1]
  <2>1. pet \in Parents
    BY <1>1, <1>6 DEF Treated, At, JobFits
  <2>2. CASE UNCHANGED pets /\ Goes(b, Nothing)
    BY <1>2, <2>2
  <2>3. CASE /\ pets' = [pets EXCEPT ![pet] = row]
             /\ Goes(b, [at |-> "show", rows |-> [p \in {pet} |-> Copy(pets'[p])]])
    <3>1. row \in PetRows /\ row.version = pets[pet].version + 1
      BY <1>1, <2>1, NextRow
    <3> HIDE DEF row, pet
    <3>2. PetsGrow
      BY <1>1, <2>1, <2>3, <3>1, OneGrows
    <3>3. JobFits(b)'
      BY <2>1, <2>3, <3>2, WrittenFits
    <3>4. QED
      BY <1>1, <2>3, <3>2, <3>3, VersionsGrow
  <2>4. QED
    BY <1>6, <2>2, <2>3 DEF Treated
<1>7. QED
  BY <1>3, <1>4, <1>5, <1>6

\* The room, time, and steps of another component.
LEMMA RoomVersions ==
    ASSUME BreedingTypes, VersionsInv, SessionsEnd \/ UNCHANGED sessions,
           CloseRoom \/ UnloadRoom \/ LoadRoom \/ Expire \/ UNCHANGED breeding
    PROVE  VersionsInv'
<1>1. /\ UNCHANGED <<season, pets, doing>>
      /\ pets \in [Parents -> PetRows] /\ shown \in [Parents -> Copies] /\ Absent \in Copies
      /\ \A p \in Parents : shown[p] = Absent \/ Fits(p, shown[p])
  BY DEF VersionsInv, ShownFit, CloseRoom, UnloadRoom, LoadRoom, Expire, breeding, Absent, Copies
<1>2. PetsGrow /\ \A n \in Nests : Active(n)' => sessions'[n].pair \in Pairs
  BY <1>1, PairsKept DEF PetsGrow
<1>3. \A b \in Breeders : JobFits(b)'
  BY <1>1, <1>2, JobKept DEF VersionsInv
<1>4. /\ shown' \in [Parents -> Copies]
      /\ \A p \in Parents : shown'[p] = Absent \/ Fits(p, shown'[p])
  <2>1. CASE UNCHANGED shown
    BY <1>1, <2>1
  <2>2. CASE shown' = [p \in Parents |-> Absent]
    BY <1>1, <2>2
  <2>3. CASE shown' = [p \in Parents |-> IF pets[p].place = "room" THEN Copy(pets[p]) ELSE Absent]
    BY <1>1, <2>3, CopyFits
  <2>4. QED
    BY <2>1, <2>2, <2>3 DEF CloseRoom, UnloadRoom, LoadRoom, Expire, breeding
<1>5. ShownFit'
  BY <1>1, <1>4 DEF ShownFit, Fits
<1>6. QED
  BY <1>1, <1>2, <1>3, <1>5 DEF VersionsInv, Pairs

\* Every step keeps copies older than the rows, or true to them.
LEMMA VersionsNext == ASSUME EngagementInv, VersionsInv, [BreedingNext]_breeding PROVE VersionsInv'
<1>1. BreedingTypes
  BY DEF EngagementInv
<1>2. CASE \E b \in Breeders : Start(b) \/ Lock(b) \/ Save(b) \/ SaveCommit(b)
  BY <1>2, SavingVersions
<1>3. CASE UNCHANGED breeding
  BY <1>1, <1>3, RoomVersions DEF breeding
<1>4. CASE BreedingNext /\ \A b \in Breeders : ~Start(b) /\ ~Lock(b) /\ ~Save(b) /\ ~SaveCommit(b)
  <2>1. SessionsEnd
    BY <1>1, <1>4, OtherSteps DEF Ending
  <2>2. CASE CloseRoom \/ UnloadRoom \/ LoadRoom \/ Expire
    BY <1>1, <2>1, <2>2, RoomVersions
  <2>3. ASSUME NEW b \in Breeders, Confirm(b) PROVE VersionsInv'
    BY <2>3, SavingVersions
  <2>4. ASSUME NEW b \in Breeders,
               \/ Cancel(b) \/ Cancelled(b) \/ PickUpNest(b) \/ PickedUp(b) \/ PlaceNest(b)
               \/ PickUp(b) \/ Disengage(b) \/ Treat(b)
        PROVE  VersionsInv'
    BY <1>1, <2>1, <2>4, QuietVersions
  <2>5. ASSUME NEW b \in Breeders, CheckParents(b) \/ Show(b) \/ Remove(b) \/ AddPlaced(b)
        PROVE  VersionsInv'
    BY <1>1, <2>5, ShowVersions
  <2>6. ASSUME NEW b \in Breeders, Breed(b) \/ Take(b) \/ PutDown(b) \/ Treated(b)
        PROVE  VersionsInv'
    BY <1>1, <2>1, <2>6, GrowingVersions
  <2>7. QED
    BY <1>4, <2>2, <2>3, <2>4, <2>5, <2>6 DEF BreedingNext
<1>5. QED
  BY <1>2, <1>3, <1>4

\* A session of which SetBreedingSessionState says that it is over.
LEMMA SetStateSays ==
    ASSUME BreedingTypes, NEW k, NEW s, SetState(k, s), NEW n \in Nests
    PROVE  /\ n # k => sessions'[n] = sessions[n]
           /\ n = k => sessions'[n].state = s
<1> DEFINE v == sessions[k].version + 1
           over == [sessions[k] EXCEPT !.state = s, !.version = v]
<1>1. sessions' = [sessions EXCEPT ![k] = over] /\ sessions \in [Nests -> Sessions]
  BY DEF SetState, BreedingTypes
<1>2. n = k => over.state = s
  <2> HIDE DEF v
  <2>1. QED
    BY <1>1 DEF Sessions
<1> HIDE DEF over
<1>3. QED
  BY <1>1, <1>2

\* A cancelled session is not a completed one.
LEMMA CancelsSay ==
    ASSUME BreedingTypes, NEW ns, Cancels(ns), NEW n \in Nests
    PROVE  sessions'[n] = sessions[n] \/ sessions'[n].state = "cancelled"
<1> DEFINE v == sessions[n].version + 1
           over == [sessions[n] EXCEPT !.state = "cancelled", !.version = v]
<1>1. (sessions'[n] = sessions[n] \/ sessions'[n] = over) /\ sessions[n] \in Sessions
  BY DEF Cancels, BreedingTypes
<1>2. over.state = "cancelled"
  <2> HIDE DEF v
  <2>1. QED
    BY <1>1 DEF Sessions
<1>3. QED
  BY <1>1, <1>2

\* A breeding, and nothing else, completes a session.
LEMMA OnlyBreedCompletes ==
    ASSUME BreedingTypes, VersionsInv, [BreedingNext]_breeding, NEW n \in Nests,
           sessions[n].state # "completed", sessions'[n].state = "completed"
    PROVE  \E b \in Breeders : Breed(b)
<1>1. sessions'[n] # sessions[n] /\ ~UNCHANGED sessions
  OBVIOUS
<1>2. ASSUME NEW b \in Breeders, SaveCommit(b) PROVE FALSE
  <2>1. /\ doing[b].saved.state # "completed" /\ sessions \in [Nests -> Sessions]
        /\ sessions' = [sessions EXCEPT ![doing[b].nest] = doing[b].saved]
    BY <1>2 DEF SaveCommit, At, VersionsInv, JobFits, BreedingTypes
  <2>2. QED
    BY <1>1, <2>1
<1>3. ASSUME NEW b \in Breeders, Cancelled(b) PROVE FALSE
  <2>1. SetState(doing[b].nest, "cancelled")
    BY <1>1, <1>3 DEF Cancelled
  <2>2. QED
    BY <1>1, <2>1, SetStateSays
<1>4. ASSUME NEW b \in Breeders, Take(b) PROVE FALSE
  <2>1. Cancels(doing[b].cancelled)
    BY <1>4 DEF Take
  <2>2. QED
    BY <1>1, <2>1, CancelsSay
<1>5. CASE CloseRoom
  <2>1. Cancels({m \in Nests : Active(m)})
    BY <1>5 DEF CloseRoom
  <2>2. QED
    BY <1>1, <2>1, CancelsSay
<1>6. CASE Expire
  <2>1. PICK m \in Nests : sessions' = [sessions EXCEPT ![m] = [sessions[m] EXCEPT !.expired = TRUE]]
    BY <1>6 DEF Expire
  <2>2. sessions[m] \in Sessions /\ sessions \in [Nests -> Sessions]
    BY DEF BreedingTypes
  <2>3. [sessions[m] EXCEPT !.expired = TRUE].state = sessions[m].state
    BY <2>2 DEF Sessions
  <2>4. QED
    BY <1>1, <2>1, <2>2, <2>3
<1>7. BreedingNext
  BY <1>1 DEF breeding
<1>8. ASSUME NEW b \in Breeders,
             \/ Start(b) \/ Lock(b) \/ Save(b) \/ Confirm(b) \/ CheckParents(b) \/ Show(b)
             \/ Cancel(b) \/ PickUpNest(b) \/ PickedUp(b) \/ PlaceNest(b)
      PROVE  FALSE
  BY <1>1, <1>8 DEF Start, Lock, Save, Confirm, CheckParents, Show, Cancel, PickUpNest, PickedUp,
     PlaceNest
<1>9. ASSUME NEW b \in Breeders,
             PickUp(b) \/ Disengage(b) \/ Remove(b) \/ PutDown(b) \/ AddPlaced(b) \/ Treat(b)
               \/ Treated(b)
      PROVE  FALSE
  BY <1>1, <1>9 DEF PickUp, Disengage, Remove, PutDown, AddPlaced, Treat, Treated
<1>10. CASE UnloadRoom \/ LoadRoom
  BY <1>1, <1>10 DEF UnloadRoom, LoadRoom
<1>11. QED
  BY <1>2, <1>3, <1>4, <1>5, <1>6, <1>7, <1>8, <1>9, <1>10 DEF BreedingNext

\* A completed session has consumed the eligibility of a pair that had it.
LEMMA SpentStep ==
    ASSUME BreedingTypes, VersionsInv, [BreedingNext]_breeding, NEW n \in Nests,
           sessions[n].state = "confirmed", sessions'[n].state = "completed"
    PROVE  \E pair \in Pairs : \A p \in pair :
               pets[p].able /\ pets[p].place = "room" /\ ~pets'[p].able
<1>1. PICK b \in Breeders : Breed(b)
  BY OnlyBreedCompletes
<1>2. ~UNCHANGED sessions
  OBVIOUS
<1> DEFINE pair == doing[b].pair
           seen == doing[b].seen
<1>3. /\ pets' = Spent(pair) /\ \A p \in pair : Eligible(p, seen[p])
      /\ doing[b].at = "breed"
  BY <1>1, <1>2 DEF Breed, At
<1>4. pair \in Pairs /\ \A p \in pair :
        seen[p] \in Nat /\ Fits(p, [able |-> TRUE, version |-> seen[p]])
  BY <1>3 DEF VersionsInv, JobFits
<1>5. pair \subseteq Parents
  BY <1>4, BreedingAssumption DEF Pairs, BreedingTypes
<1> HIDE DEF pair, seen
<1>6. \A p \in pair : pets[p].able /\ pets[p].place = "room"
  BY <1>3, <1>4 DEF Eligible, Placed, Fits
<1>7. \A p \in pair : pets'[p].able = FALSE
  BY <1>3, <1>5, SpentGrows DEF VersionsInv, ShownFit
<1>8. QED
  BY <1>4, <1>6, <1>7

\* Whatever the copies in the room, the treatments and the transactions of other
\* handlers did meanwhile, an offspring costs two parents that could breed.
THEOREM OffspringCostsParents == BreedingSpec => ParentsSpent
<1> DEFINE Inv == EngagementInv /\ VersionsInv
           Costs == \A n \in Nests :
               sessions[n].state = "confirmed" /\ sessions'[n].state = "completed" =>
                   \E pair \in Pairs : \A p \in pair :
                       pets[p].able /\ pets[p].place = "room" /\ ~pets'[p].able
<1>1. BreedingInit => Inv
  BY EngagementInit, VersionsInit
<1>2. Inv /\ [BreedingNext]_breeding => Inv'
  BY EngagementNext, VersionsNext
<1>3. Inv /\ [BreedingNext]_breeding => [Costs]_breeding
  BY SpentStep DEF EngagementInv
<1>4. QED
  BY <1>1, <1>2, <1>3, PTL DEF BreedingSpec, ParentsSpent
=============================================================================
