---------------------------- MODULE MCModeration ----------------------------
(***************************************************************************)
(* Sanctions, and guides with guardians: they share no state, and no       *)
(* property relates them, so a behaviour moves one of them, chosen at the  *)
(* start, and leaves the other in an initial state.                        *)
(***************************************************************************)
EXTENDS Sanctions, Guardians, TLC

VARIABLE part  \* the one that moves, sanctions by one issuer after the other or by two at once

CONSTANTS ann, p1, p2, p3, stranger

Steps == <<[kind |-> "mute", hours |-> 1], [kind |-> "ban", hours |-> 1]>>

\* Helpers who talk to each other.
Conversations ==
    [talks |-> 2, logins |-> 4, roles |-> {"guide", "guardian"}, present |-> {}, duty |-> {}, reported |-> {}, count |-> 1,
     tickets |-> 0, issues |-> 0, verdicts |-> {}]
\* Overlapping reviews by and about each other.
Overlapping ==
    [Conversations EXCEPT !.talks = 0, !.logins = 3, !.roles = {}, !.present = Guests, !.duty = {"guardian"},
        !.reported = Guests, !.tickets = 2, !.verdicts = {"bad"}]
\* A review of a stranger by two reviewers who may differ, and the issue it ends in.
Differing ==
    [Overlapping EXCEPT !.reported = {stranger}, !.count = 2, !.tickets = 1, !.issues = 1,
        !.verdicts = {"bad", "horrible"}]
Played == {Conversations, Overlapping, Differing}

\* Issuers differ in nothing, nor do guests.
Swaps == Permutations(Issuers) \union Permutations(Guests)

parts == <<part, sanctions, moderation>>

Init ==
    /\ part \in {"sanctions", "overlapping sanctions", "moderation"}
    /\ SanctionsInit /\ GuardiansInit
    /\ part # "moderation" => scene = Conversations

\* Bounds: nothing is promised of a snapshot that two issuers refresh at once, so where
\* two overlap there are no trade locks.
OneByOne == \E m \in Issuers : issuer'[m] = Rest
Overlap == rebuilt' = 0 /\ \A i \in DOMAIN punishments' : punishments'[i].kind # "trade_lock"

Next ==
    /\ UNCHANGED part
    /\ \/ part = "sanctions" /\ SanctionsNext /\ OneByOne /\ UNCHANGED moderation
       \/ part = "overlapping sanctions" /\ SanctionsNext /\ Overlap /\ UNCHANGED moderation
       \/ part = "moderation" /\ GuardiansNext /\ UNCHANGED sanctions

Spec == Init /\ [][Next]_parts

============================================================================
