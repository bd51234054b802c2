------------------------------- MODULE Guides -------------------------------
(***************************************************************************)
(* Helpers and the conversations they are matched to                       *)
(* (src/internal/realm/moderation/guide): one manager with one mutex.      *)
(* Players come and go; what a session leaves behind is cleaned up by the  *)
(* player.disconnected event, which the goroutine of the old connection    *)
(* delivers and which a new login may overtake.                            *)
(***************************************************************************)
EXTENDS Integers, Sequences, SequencesExt, FiniteSets, Functions

CONSTANTS
    Guests,  \* the players
    Nobody,
    Scenes   \* bound: how much may happen, and what is configured

VARIABLES
    scene,      \* the one that is played
    online,     \* players with a session
    departing,  \* what is left to do for the player's last player.disconnected
    logins,     \* logins so far
    since,      \* helpers on duty, the oldest first
    roles,      \* what each helper is on duty for
    talks,      \* open conversations by id
    talking,    \* byPlayer: a participant's conversation, or 0
    completed,  \* the conversation a requester may still comment on, or 0
    opened      \* nextID

presence == <<scene, online, departing, logins>>
guides == <<since, roles, talks, talking, completed, opened>>

\* Bounds: conversations, logins, roles helpers go on duty for; who is there, and on duty
\* for what, when the scene begins.
ASSUME GuidesAssumption ==
    /\ Nobody \notin Guests /\ IsFiniteSet(Guests)
    /\ \A s \in Scenes :
          /\ s.talks \in Nat /\ s.logins \in Nat /\ s.present \subseteq Guests
          /\ s.roles \union s.duty \subseteq {"guide", "guardian"}

GuidesInit ==
    /\ scene \in Scenes
    /\ online = scene.present /\ logins = Cardinality(scene.present)
    /\ departing = [p \in Guests |-> "none"]
    /\ roles = [p \in Guests |-> IF p \in scene.present THEN scene.duty ELSE {}]
    /\ since \in IF scene.duty = {} THEN {<<>>} ELSE SetToSeqs(scene.present)
    /\ talks = <<>> /\ talking = [p \in Guests |-> 0] /\ completed = [p \in Guests |-> 0]
    /\ opened = 0

(***************************************************************************)
(* Sessions.                                                               *)
(***************************************************************************)
Connect(p) ==
    /\ p \notin online /\ logins < scene.logins
    /\ online' = online \union {p} /\ logins' = logins + 1
    /\ UNCHANGED departing

\* A session ends; bound: one event of a player at a time.
Depart(p) ==
    /\ p \in online /\ departing[p] = "none"
    /\ online' = online \ {p} /\ departing' = [departing EXCEPT ![p] = "guides"]
    /\ UNCHANGED logins

(***************************************************************************)
(* The manager.                                                            *)
(***************************************************************************)
StaysOnDuty(p) == since
OffDuty(p) == RemoveFirst(since, p)
SetDuty(p) ==
    /\ p \in online /\ scene.roles # {}
    /\ \E duty \in SUBSET scene.roles :
          /\ roles' = [roles EXCEPT ![p] = duty]
          /\ since' = IF duty = {} THEN OffDuty(p)
                      ELSE IF roles[p] = {} THEN Append(since, p) ELSE since
    /\ UNCHANGED <<talks, talking, completed, opened>>

\* Those of a role who are in no conversation, by their places in since, and the oldest.
Free(role, p) == role \in roles[p] /\ talking[p] = 0
IdleHelpers(role, excluded) ==
    {i \in DOMAIN since : since[i] \notin excluded /\ Free(role, since[i])}
OldestGuide(excluded) ==
    LET idle == IdleHelpers("guide", excluded) IN IF idle = {} THEN Nobody ELSE since[Min(idle)]

NoTalk == [requester |-> Nobody, guide |-> Nobody, state |-> "none"]
TalkFor(p) == IF talking[p] \in DOMAIN talks THEN talks[talking[p]] ELSE NoTalk
Open(id, talk) == [i \in DOMAIN talks \union {id} |-> IF i = id THEN talk ELSE talks[i]]
Attach(id, requester, guide) ==
    /\ talks' = Open(id, [requester |-> requester, guide |-> guide, state |-> "attached"])
    /\ talking' = [talking EXCEPT ![requester] = id, ![guide] = id]

\* remove: both participants are free again.
RequesterOnly(talk) == {talk.requester}
Freed(talk) == {talk.requester, talk.guide}
Vacated(talk) == [p \in Guests |-> IF p \in Freed(talk) THEN 0 ELSE talking[p]]
CloseTalk(id) ==
    /\ talks' = Restrict(talks, DOMAIN talks \ {id})
    /\ talking' = Vacated(talks[id])

Create(p) ==
    LET guide == OldestGuide({p}) IN
    /\ p \in online /\ talking[p] = 0 /\ guide # Nobody /\ opened < scene.talks
    /\ opened' = opened + 1
    /\ Attach(opened + 1, p, guide)
    /\ UNCHANGED <<since, roles, completed>>

Accept(p) ==
    LET talk == TalkFor(p) IN
    /\ p \in online /\ talk # NoTalk /\ talk.guide = p /\ talk.state = "attached"
    /\ talks' = [talks EXCEPT ![talking[p]].state = "started"]
    /\ UNCHANGED <<since, roles, talking, completed, opened>>

\* A rejected request goes to the next guide, or ends.
Reject(p) ==
    LET talk == TalkFor(p)
        next == OldestGuide({p, talk.requester})
        id == talking[p]
    IN  /\ p \in online /\ talk # NoTalk /\ talk.guide = p /\ talk.state = "attached"
        /\ IF next = Nobody THEN CloseTalk(id)
           ELSE /\ talks' = [talks EXCEPT ![id].guide = next]
                /\ talking' = [Vacated(talk) EXCEPT ![talk.requester] = id, ![next] = id]
        /\ UNCHANGED <<since, roles, completed, opened>>

\* Either one ends it, in any state.
EndTalk(p) ==
    LET talk == TalkFor(p) IN
    /\ p \in online /\ talk # NoTalk
    /\ completed' = [completed EXCEPT ![talk.requester] = talking[p]]
    /\ CloseTalk(talking[p])
    /\ UNCHANGED <<since, roles, opened>>

\* guideFeedback, whose row may fail to be inserted.
TakeCompleted(p) ==
    /\ p \in online /\ completed[p] # 0
    /\ completed' = [completed EXCEPT ![p] = 0]
    /\ UNCHANGED <<since, roles, talks, talking, opened>>

\* RemovePlayer.
RemovePlayer(p) ==
    /\ since' = OffDuty(p) /\ roles' = [roles EXCEPT ![p] = {}]
    /\ completed' = [completed EXCEPT ![p] = 0]
    /\ IF TalkFor(p) = NoTalk THEN UNCHANGED <<talks, talking>> ELSE CloseTalk(talking[p])
    /\ UNCHANGED opened

GuidesOf(p) ==
    SetDuty(p) \/ Create(p) \/ Accept(p) \/ Reject(p) \/ EndTalk(p) \/ TakeCompleted(p)

(***************************************************************************)
(* Properties.                                                             *)
(***************************************************************************)
Expected(p) == p \in online \/ departing[p] = "guides"

\* The index leads each participant of a conversation to it and everybody else to none,
\* no two participants are one player, only who is in no conversation any more may
\* comment on it, and nobody waits for who is gone: participants and helpers on duty have
\* a session, or the event that removes them is still to come; whatever guides reject,
\* end or leave (Create, Decide, remove, RemovePlayer).
TalksAgree ==
    /\ \A id \in DOMAIN talks :
          LET talk == talks[id] IN
          /\ talk.requester # talk.guide
          /\ \A p \in {talk.requester, talk.guide} : talking[p] = id /\ Expected(p)
    /\ \A p \in Guests : talking[p] # 0 =>
          talking[p] \in DOMAIN talks /\ p \in {talks[talking[p]].requester, talks[talking[p]].guide}
    /\ \A p \in Guests : completed[p] \notin DOMAIN talks
    /\ \A p \in Range(since) : Expected(p)

============================================================================
