--------------------------- MODULE GuardiansProofs ---------------------------
(***************************************************************************)
(* Conversations with guides, peer reviews and the issues they end in, for *)
(* any number of players, moderators, tickets and issues.                  *)
(***************************************************************************)
EXTENDS Guardians, FiniteSetTheorems, SequenceTheorems, WellFoundedInduction, TLAPS

ReviewSpec == GuardiansInit /\ [][GuardiansNext]_moderation

(***************************************************************************)
(* Guides.                                                                 *)
(***************************************************************************)
Duties == {"guide", "guardian"}
Talks == [requester : Guests, guide : Guests, state : {"attached", "started"}]

GuideTypes ==
    /\ scene \in Scenes /\ online \subseteq Guests
    /\ departing \in [Guests -> {"none", "guides", "guardians"}]
    /\ since \in Seq(Guests) /\ roles \in [Guests -> SUBSET Duties]
    /\ opened \in Nat /\ DOMAIN talks \subseteq 1 .. opened
    /\ \A id \in DOMAIN talks : talks[id] \in Talks
    /\ talking \in [Guests -> Nat]
    /\ completed \in [Guests -> Nat]

\* A helper is in the queue once, and on duty while in it.
QueueFits ==
    /\ \A i, j \in DOMAIN since : since[i] = since[j] => i = j
    /\ \A i \in DOMAIN since : roles[since[i]] # {}

\* A conversation to comment on was opened.
CommentsFit == \A p \in Guests : completed[p] <= opened

GuidesInv == GuideTypes /\ QueueFits /\ CommentsFit /\ TalksAgree

(***************************************************************************)
(* Reviews.                                                                *)
(***************************************************************************)
Verdicts == {"acceptable", "bad", "horrible"}
Answers == {"asked", "accepted", "declined"} \union Verdicts
Tickets ==
    [reporter : Guests, reported : scene.reported, state : {"offered", "voting", "closed"},
     due : BOOLEAN, reviewers : UNION {[players -> Answers] : players \in SUBSET Guests},
     result : {"none", "mixed"} \union Verdicts, outcome : {"none", "todo", "done", "dropped"},
     escalated : 0 .. 1]

\* A ticket and the votes the database has of it: nobody judges a case of their own,
\* the votes were saved, a closed review has the result of its votes, whose
\* consequence is drawn once.
Fits(ticket, saved) ==
    /\ ticket \in Tickets
    /\ {ticket.reporter, ticket.reported} \cap DOMAIN ticket.reviewers = {}
    /\ \A g \in Of(ticket, scene.verdicts) : g \in DOMAIN saved /\ saved[g] = ticket.reviewers[g]
    /\ ticket.state = "closed" => ticket.result = Result(ticket)
    /\ ticket.state # "closed" => ticket.outcome = "none"
    /\ ticket.escalated # 0 =>
          ticket.state = "closed" /\ ticket.outcome = "done" /\ ticket.result \in {"bad", "horrible"}

TicketsFit ==
    /\ tickets \in Seq(Tickets) /\ DOMAIN votes = DOMAIN tickets
    /\ \A id \in DOMAIN tickets : Fits(tickets[id], votes[id])

\* An index entry leads to an open ticket of which the player is a party.
IndexFits ==
    /\ byPlayer \in [Guests -> Nat]
    /\ \A p \in Guests : byPlayer[p] # 0 =>
          IsOpen(byPlayer[p]) /\ p \in Parties(tickets[byPlayer[p]])

\* Whoever holds the mutex across the insertion has found others to review.
OfferFits ==
    holder # Nobody =>
        /\ holder \in Guests /\ offer.by \subseteq Guests /\ offer.reported \in scene.reported
        /\ {holder, offer.reported} \cap offer.by = {}

\* The rows the database has of a ticket.
Rows == UNION {[players -> Verdicts] : players \in SUBSET Guests}
VotesFit == votes \in Seq(Rows)

ReviewsInv == TicketsFit /\ IndexFits /\ OfferFits /\ VotesFit

(***************************************************************************)
(* The desk.                                                               *)
(***************************************************************************)
Issues ==
    [ticket : Nat, reporter : Guests, state : {"open", "picked", "resolved", "deleted"},
     picker : Staff \union {Nobody}, escalated : 0 .. 1]

\* An issue is resolved before it is escalated, by one moderator.
IssuesFit ==
    /\ issues \in Seq(Issues) /\ staff \in [Staff -> Nat]
    /\ \A m \in Staff : staff[m] # 0 =>
          /\ staff[m] \in DOMAIN issues
          /\ issues[staff[m]].state = "resolved" /\ issues[staff[m]].escalated = 0
          /\ \A k \in Staff : staff[k] = staff[m] => k = m
    /\ \A i \in DOMAIN issues : issues[i].escalated # 0 => issues[i].state = "resolved"

\* An issue comes of a review that is done and was not escalated.
SourcesFit ==
    \A i \in DOMAIN issues : issues[i].ticket # 0 =>
        /\ issues[i].ticket \in DOMAIN tickets
        /\ tickets[issues[i].ticket].outcome = "done" /\ tickets[issues[i].ticket].escalated = 0

DeskInv == IssuesFit /\ SourcesFit

ModerationInv == GuidesInv /\ ReviewsInv /\ DeskInv

-----------------------------------------------------------------------------
(***************************************************************************)
(* The queue of helpers.                                                   *)
(***************************************************************************)
\* Well-founded relations, as the library states them of one set and its subsets.
LEMMA WFLeast ==
    ASSUME NEW R, NEW U, IsWellFoundedOn(R, U), NEW T, T \subseteq U, T # {}
    PROVE  \E x \in T : \A y \in T : ~(<<y, x>> \in R)
  BY WFMin

\* A set of places has a first one.
LEMMA LowestOf == ASSUME NEW S \in SUBSET Nat, S # {} PROVE Min(S) \in S
<1> DEFINE R == {ss \in Nat \X Nat : ss[1] < ss[2]}
<1>1. IsWellFoundedOn(R, Nat)
  BY NatLessThanWellFounded, Zenon DEF OpToRel
<1>2. S \subseteq Nat /\ S # {}
  OBVIOUS
<1>3. \E x \in S : \A y \in S : ~(<<y, x>> \in R)
  BY <1>1, <1>2, WFLeast
<1>4. PICK x \in S : \A y \in S : ~(<<y, x>> \in R)
  BY <1>3
<1>5. ASSUME NEW y \in S PROVE x <= y
  <2>1. x \in Nat /\ y \in Nat /\ ~(<<y, x>> \in R)
    BY <1>4
  <2>2. ~(y < x)
    BY <2>1
  <2>3. QED
    BY <2>1, <2>2
<1>6. QED
  BY <1>5 DEF Min

\* A helper taken off duty is out of the queue, in which nothing else changes.
LEMMA OffDutyFits ==
    ASSUME since \in Seq(Guests), \A i, j \in DOMAIN since : since[i] = since[j] => i = j,
           NEW p \in Guests
    PROVE  /\ OffDuty(p) \in Seq(Guests)
           /\ \A i, j \in DOMAIN OffDuty(p) : OffDuty(p)[i] = OffDuty(p)[j] => i = j
           /\ \A i \in DOMAIN OffDuty(p) :
                OffDuty(p)[i] # p /\ \E j \in DOMAIN since : since[j] = OffDuty(p)[i]
<1>1. CASE ~\E i \in 1 .. Len(since) : since[i] = p
  <2>1. OffDuty(p) = since
    BY <1>1 DEF OffDuty, RemoveFirst
  <2>2. QED
    BY <1>1, <2>1
<1>2. ASSUME NEW k \in 1 .. Len(since), since[k] = p
      PROVE  /\ OffDuty(p) \in Seq(Guests)
             /\ \A i, j \in DOMAIN OffDuty(p) : OffDuty(p)[i] = OffDuty(p)[j] => i = j
             /\ \A i \in DOMAIN OffDuty(p) :
                  OffDuty(p)[i] # p /\ \E j \in DOMAIN since : since[j] = OffDuty(p)[i]
  <2> DEFINE before == SubSeq(since, 1, k - 1)
             after == SubSeq(since, k + 1, Len(since))
             left == before \o after
  <2>1. {i \in 1 .. Len(since) : since[i] = p} = {k}
    BY <1>2
  <2>2. Min({k}) = k
    BY DEF Min
  <2>3. SelectInSeq(since, LAMBDA v : v = p) = k
    BY <2>1, <2>2 DEF SelectInSeq
  <2>4. OffDuty(p) = left
    BY <1>2, <2>3 DEF OffDuty, RemoveFirst, RemoveAt
  <2>5. /\ before \in Seq(Guests) /\ Len(before) = k - 1
        /\ \A i \in 1 .. k - 1 : before[i] = since[i]
    BY <1>2
  <2>6. /\ after \in Seq(Guests) /\ Len(after) = Len(since) - k
        /\ \A i \in 1 .. Len(since) - k : after[i] = since[i + k]
    BY <1>2
  <2>7. /\ left \in Seq(Guests) /\ Len(left) = Len(since) - 1
        /\ \A i \in 1 .. Len(left) : left[i] = IF i < k THEN since[i] ELSE since[i + 1]
    <3> HIDE DEF before, after
    <3>1. left \in Seq(Guests) /\ Len(left) = Len(since) - 1
      <4>1. left \in Seq(Guests) /\ Len(left) = Len(before) + Len(after)
        BY <2>5, <2>6, ConcatProperties
      <4>2. Len(since) \in Nat /\ k \in Nat /\ (k - 1) + (Len(since) - k) = Len(since) - 1
        BY <1>2
      <4>3. QED
        BY <2>5, <2>6, <4>1, <4>2
    <3>2. ASSUME NEW i \in 1 .. Len(left)
          PROVE  left[i] = IF i < k THEN since[i] ELSE since[i + 1]
      <4>1. CASE i < k
        BY <2>5, <2>6, <3>1, <4>1
      <4>2. CASE ~(i < k)
        <5>1. left[i] = after[i - (k - 1)]
          BY <2>5, <2>6, <3>1, <4>2
        <5>2. i - (k - 1) \in 1 .. Len(since) - k /\ (i - (k - 1)) + k = i + 1
          BY <3>1, <4>2
        <5>3. QED
          BY <2>6, <4>2, <5>1, <5>2
      <4>3. QED
        BY <4>1, <4>2
    <3>3. QED
      BY <3>1, <3>2
  <2> HIDE DEF left
  <2>8. \A i \in 1 .. Len(left) :
          \E j \in 1 .. Len(since) : j # k /\ left[i] = since[j] /\ (j = i \/ j = i + 1)
    BY <2>7
  <2>9. /\ \A i, j \in 1 .. Len(left) : left[i] = left[j] => i = j
        /\ \A i \in 1 .. Len(left) : left[i] # p
    <3>1. ASSUME NEW i \in 1 .. Len(left)
          PROVE  /\ i \in 1 .. Len(since) /\ i + 1 \in 1 .. Len(since)
                 /\ left[i] = since[IF i < k THEN i ELSE i + 1]
                 /\ (IF i < k THEN i ELSE i + 1) # k
      BY <1>2, <2>7
    <3>2. ASSUME NEW i \in 1 .. Len(left), NEW j \in 1 .. Len(left), left[i] = left[j]
          PROVE  i = j
      <4> DEFINE x == IF i < k THEN i ELSE i + 1
                 y == IF j < k THEN j ELSE j + 1
      <4>1. x \in 1 .. Len(since) /\ left[i] = since[x]
        BY <3>1
      <4>2. y \in 1 .. Len(since) /\ left[j] = since[y]
        BY <3>1
      <4>3. x = y
        <5> HIDE DEF x, y
        <5>1. x \in DOMAIN since /\ y \in DOMAIN since
          BY <4>1, <4>2
        <5>2. since[x] = since[y]
          BY <3>2, <4>1, <4>2
        <5>3. QED
          BY <5>1, <5>2
      <4>4. QED
        BY <1>2, <4>3
    <3>3. ASSUME NEW i \in 1 .. Len(left) PROVE left[i] # p
      BY <1>2, <3>1
    <3>4. QED
      BY <3>2, <3>3
  <2>10. DOMAIN left = 1 .. Len(left) /\ DOMAIN since = 1 .. Len(since)
    BY <2>7
  <2>11. /\ left \in Seq(Guests)
         /\ \A i, j \in DOMAIN left : left[i] = left[j] => i = j
         /\ \A i \in DOMAIN left : left[i] # p /\ \E j \in DOMAIN since : since[j] = left[i]
    <3>1. \A i, j \in DOMAIN left : left[i] = left[j] => i = j
      BY <2>9, <2>10
    <3>2. ASSUME NEW i \in DOMAIN left
          PROVE  left[i] # p /\ \E j \in DOMAIN since : since[j] = left[i]
      BY <2>8, <2>9, <2>10
    <3>3. QED
      BY <2>7, <3>1, <3>2
  <2>12. QED
    BY <2>4, <2>11, Zenon
<1>3. QED
  BY <1>1, <1>2

\* A helper who goes on duty is the last in the queue.
LEMMA QueueAppend ==
    ASSUME since \in Seq(Guests), \A i, j \in DOMAIN since : since[i] = since[j] => i = j,
           NEW p \in Guests, \A i \in DOMAIN since : since[i] # p
    PROVE  /\ Append(since, p) \in Seq(Guests)
           /\ \A i, j \in DOMAIN Append(since, p) :
                Append(since, p)[i] = Append(since, p)[j] => i = j
           /\ \A i \in DOMAIN Append(since, p) :
                Append(since, p)[i] = p \/ \E j \in DOMAIN since : since[j] = Append(since, p)[i]
<1> DEFINE more == Append(since, p)
<1>1. /\ more \in Seq(Guests) /\ DOMAIN more = 1 .. Len(since) + 1 /\ more[Len(since) + 1] = p
      /\ \A i \in 1 .. Len(since) : more[i] = since[i]
  OBVIOUS
<1> HIDE DEF more
<1>2. QED
  BY <1>1 DEF more

\* Who is chosen is idle, on duty, and not excluded.
LEMMA OldestFits ==
    ASSUME since \in Seq(Guests), NEW excluded, OldestGuide(excluded) # Nobody
    PROVE  /\ OldestGuide(excluded) \in Guests \ excluded
           /\ talking[OldestGuide(excluded)] = 0
           /\ \E i \in DOMAIN since : since[i] = OldestGuide(excluded)
<1> DEFINE idle == IdleHelpers("guide", excluded)
<1>1. idle \in SUBSET Nat /\ idle # {} /\ idle \subseteq DOMAIN since
  BY DEF OldestGuide, IdleHelpers
<1>2. Min(idle) \in idle
  BY <1>1, LowestOf
<1>3. OldestGuide(excluded) = since[Min(idle)]
  BY <1>1 DEF OldestGuide
<1> DEFINE m == Min(idle)
<1>4. /\ m \in DOMAIN since /\ since[m] \notin excluded /\ talking[since[m]] = 0
      /\ OldestGuide(excluded) = since[m]
  BY <1>2, <1>3 DEF IdleHelpers, Free
<1> HIDE DEF m
<1>5. since[m] \in Guests
  BY <1>4
<1>6. QED
  BY <1>4, <1>5

-----------------------------------------------------------------------------
(***************************************************************************)
(* Conversations.                                                          *)
(***************************************************************************)
\* What TalksAgree says of the index, of comments, and of who is still expected.
TalkIndex ==
    /\ \A id \in DOMAIN talks :
         /\ talks[id].requester # talks[id].guide
         /\ talking[talks[id].requester] = id /\ talking[talks[id].guide] = id
    /\ \A p \in Guests : talking[p] # 0 =>
         talking[p] \in DOMAIN talks /\ p \in Freed(talks[talking[p]])
CommentsApart == \A p \in Guests : completed[p] \notin DOMAIN talks
AllExpected ==
    /\ \A id \in DOMAIN talks : Expected(talks[id].requester) /\ Expected(talks[id].guide)
    /\ \A i \in DOMAIN since : Expected(since[i])

\* The parts of TalksAgree.
LEMMA TalksParts == TalksAgree <=> TalkIndex /\ CommentsApart /\ AllExpected
<1>1. (\A p \in Range(since) : Expected(p)) <=> \A i \in DOMAIN since : Expected(since[i])
  BY DEF Range
<1>2. QED
  BY <1>1 DEF TalksAgree, TalkIndex, CommentsApart, AllExpected, Freed

\* A change that leaves conversations alone.
LEMMA TalksStay ==
    ASSUME GuidesInv, UNCHANGED <<scene, talks, talking, opened>>,
           online' \subseteq Guests, departing' \in [Guests -> {"none", "guides", "guardians"}],
           since' \in Seq(Guests), roles' \in [Guests -> SUBSET Duties], QueueFits',
           completed' \in [Guests -> Nat],
           \A p \in Guests : completed'[p] \in {0, completed[p]},
           \A p \in Guests : talking[p] # 0 /\ Expected(p) => Expected(p)',
           \A i \in DOMAIN since' : Expected(since[i])'
    PROVE  GuidesInv'
<1>1. GuideTypes /\ CommentsFit /\ TalkIndex /\ CommentsApart /\ AllExpected
  BY TalksParts DEF GuidesInv
<1>2. GuideTypes'
  BY <1>1 DEF GuideTypes
<1>3. CommentsFit'
  <2>1. opened \in Nat /\ completed \in [Guests -> Nat] /\ \A p \in Guests : completed[p] <= opened
    BY <1>1 DEF CommentsFit, GuideTypes
  <2>2. ASSUME NEW p \in Guests PROVE completed'[p] <= opened'
    <3>1. 0 <= opened /\ completed[p] <= opened /\ opened' = opened
      BY <2>1
    <3>2. completed'[p] = 0 \/ completed'[p] = completed[p]
      OBVIOUS
    <3>3. QED
      BY <3>1, <3>2
  <2>3. QED
    BY <2>2 DEF CommentsFit
<1>4. TalkIndex'
  BY <1>1 DEF TalkIndex, Freed
<1>5. CommentsApart'
  <2>1. 0 \notin DOMAIN talks /\ \A p \in Guests : completed[p] \notin DOMAIN talks
    BY <1>1 DEF CommentsApart, GuideTypes
  <2>2. \A p \in Guests : completed'[p] \notin DOMAIN talks'
    BY <2>1
  <2>3. QED
    BY <2>2 DEF CommentsApart
<1>6. AllExpected'
  <2>1. \A id \in DOMAIN talks :
          /\ talks[id].requester \in Guests /\ talks[id].guide \in Guests
          /\ talking[talks[id].requester] # 0 /\ talking[talks[id].guide] # 0
    BY <1>1 DEF GuideTypes, Talks, TalkIndex
  <2>2. \A id \in DOMAIN talks' :
          Expected(talks[id].requester)' /\ Expected(talks[id].guide)'
    BY <1>1, <2>1 DEF AllExpected
  <2>3. QED
    BY <2>2 DEF AllExpected
<1>7. TalksAgree'
  BY <1>4, <1>5, <1>6, TalksParts, PTL
<1>8. QED
  BY <1>2, <1>3, <1>7 DEF GuidesInv

\* remove keeps the index true of the other conversations.
LEMMA CloseTalkIndex ==
    ASSUME GuideTypes, TalkIndex, NEW id \in DOMAIN talks, CloseTalk(id)
    PROVE  /\ TalkIndex' /\ talking' \in [Guests -> Nat]
           /\ DOMAIN talks' = DOMAIN talks \ {id} /\ \A k \in DOMAIN talks' : talks'[k] = talks[k]
<1> DEFINE gone == Freed(talks[id])
<1>1. /\ DOMAIN talks' = DOMAIN talks \ {id} /\ \A k \in DOMAIN talks' : talks'[k] = talks[k]
      /\ talking' = [p \in Guests |-> IF p \in gone THEN 0 ELSE talking[p]]
  BY DEF CloseTalk, Restrict, Vacated
<1>2. /\ \A p \in gone : talking[p] = id
      /\ \A p \in Guests : talking[p] = id => p \in gone
      /\ \A k \in DOMAIN talks : talks[k].requester \in Guests /\ talks[k].guide \in Guests
      /\ talking \in [Guests -> Nat] /\ \A k \in DOMAIN talks : k # 0
  BY DEF TalkIndex, Freed, GuideTypes, Talks
<1> HIDE DEF gone
<1>3. talking' \in [Guests -> Nat]
  BY <1>1, <1>2
<1>4. TalkIndex'
  BY <1>1, <1>2 DEF TalkIndex, Freed
<1>5. QED
  BY <1>1, <1>3, <1>4

\* A conversation that ends, whoever ends it; who leaves duty with it may be gone.
LEMMA CloseTalkFits ==
    ASSUME GuidesInv, NEW id \in DOMAIN talks, CloseTalk(id), UNCHANGED <<scene, opened>>,
           online' \subseteq Guests, departing' \in [Guests -> {"none", "guides", "guardians"}],
           since' \in Seq(Guests), roles' \in [Guests -> SUBSET Duties], QueueFits',
           completed' \in [Guests -> Nat],
           \A p \in Guests : completed'[p] \in {0, id, completed[p]},
           \A p \in Guests \ Freed(talks[id]) : Expected(p) => Expected(p)',
           \A i \in DOMAIN since' : Expected(since[i])'
    PROVE  GuidesInv'
<1>1. GuideTypes /\ CommentsFit /\ TalkIndex /\ CommentsApart /\ AllExpected
  BY TalksParts DEF GuidesInv
<1>2. /\ TalkIndex' /\ talking' \in [Guests -> Nat]
      /\ DOMAIN talks' = DOMAIN talks \ {id} /\ \A k \in DOMAIN talks' : talks'[k] = talks[k]
  BY <1>1, CloseTalkIndex
<1>3. GuideTypes'
  BY <1>1, <1>2 DEF GuideTypes
<1>4. CommentsFit'
  <2>1. /\ opened \in Nat /\ id \in 1 .. opened /\ completed \in [Guests -> Nat]
        /\ \A p \in Guests : completed[p] <= opened
    BY <1>1 DEF CommentsFit, GuideTypes
  <2>2. ASSUME NEW p \in Guests PROVE completed'[p] <= opened'
    <3>1. 0 <= opened /\ id <= opened /\ completed[p] <= opened /\ opened' = opened
      BY <2>1
    <3>2. completed'[p] = 0 \/ completed'[p] = id \/ completed'[p] = completed[p]
      OBVIOUS
    <3>3. QED
      BY <3>1, <3>2
  <2>3. QED
    BY <2>2 DEF CommentsFit
<1>5. CommentsApart'
  <2>1. 0 \notin DOMAIN talks /\ \A p \in Guests : completed[p] \notin DOMAIN talks
    BY <1>1 DEF CommentsApart, GuideTypes
  <2>2. \A p \in Guests : completed'[p] \notin DOMAIN talks'
    BY <1>2, <2>1
  <2>3. QED
    BY <2>2 DEF CommentsApart
<1>6. AllExpected'
  <2>1. ASSUME NEW k \in DOMAIN talks \ {id}
        PROVE  /\ talks[k].requester \in Guests \ Freed(talks[id])
               /\ talks[k].guide \in Guests \ Freed(talks[id])
    BY <1>1 DEF GuideTypes, Talks, TalkIndex, Freed
  <2>2. \A k \in DOMAIN talks' :
          Expected(talks[k].requester)' /\ Expected(talks[k].guide)'
    BY <1>1, <1>2, <2>1 DEF AllExpected
  <2>3. QED
    BY <2>2 DEF AllExpected
<1>7. TalksAgree'
  BY <1>2, <1>5, <1>6, TalksParts, PTL
<1>8. QED
  BY <1>3, <1>4, <1>7 DEF GuidesInv

\* A request is matched to an idle guide, who is not the requester.
LEMMA CreateFits ==
    ASSUME GuidesInv, NEW p \in Guests, Create(p), UNCHANGED presence
    PROVE  GuidesInv'
<1> DEFINE g == OldestGuide({p})
           n == opened + 1
           new == [requester |-> p, guide |-> g, state |-> "attached"]
<1>1. /\ GuideTypes /\ QueueFits /\ CommentsFit /\ TalkIndex /\ CommentsApart /\ AllExpected
      /\ opened \in Nat /\ since \in Seq(Guests)
  BY TalksParts DEF GuidesInv, GuideTypes
<1>2. /\ p \in online /\ talking[p] = 0 /\ g # Nobody /\ opened' = n /\ Attach(n, p, g)
      /\ UNCHANGED <<scene, online, departing, since, roles, completed>>
  BY DEF Create, presence
<1>3. g \in Guests /\ g # p /\ talking[g] = 0 /\ \E i \in DOMAIN since : since[i] = g
  BY <1>1, <1>2, OldestFits
<1>4. new \in Talks /\ new.requester = p /\ new.guide = g
  BY <1>3 DEF Talks
<1>5. /\ talks' = [k \in DOMAIN talks \union {n} |-> IF k = n THEN new ELSE talks[k]]
      /\ talking' = [talking EXCEPT ![p] = n, ![g] = n]
  BY <1>2 DEF Attach, Open
<1> HIDE DEF g, new
<1>6. n \in Nat /\ n # 0 /\ n \notin DOMAIN talks /\ DOMAIN talks \subseteq 1 .. n /\ n \in 1 .. n
  BY <1>1 DEF GuideTypes
<1> HIDE DEF n
<1>7. GuideTypes'
  <2>1. DOMAIN talks' \subseteq 1 .. n /\ \A k \in DOMAIN talks' : talks'[k] \in Talks
    BY <1>1, <1>4, <1>5, <1>6 DEF GuideTypes
  <2>2. talking' \in [Guests -> Nat]
    BY <1>1, <1>5, <1>6 DEF GuideTypes
  <2>3. QED
    BY <1>1, <1>2, <1>6, <2>1, <2>2 DEF GuideTypes
<1>8. QueueFits'
  BY <1>1, <1>2 DEF QueueFits
<1>9. CommentsFit' /\ CommentsApart'
  <2>1. ASSUME NEW q \in Guests PROVE completed[q] <= n /\ completed[q] # n
               /\ completed[q] \notin DOMAIN talks
    BY <1>1 DEF CommentsFit, CommentsApart, GuideTypes, n
  <2>2. QED
    BY <1>2, <1>5, <2>1 DEF CommentsFit, CommentsApart
<1>10. TalkIndex'
  <2>1. /\ talking' \in [Guests -> Nat] /\ talking'[p] = n /\ talking'[g] = n
        /\ \A q \in Guests \ {p, g} : talking'[q] = talking[q]
    BY <1>1, <1>3, <1>5, <1>6 DEF GuideTypes
  <2>2. ASSUME NEW k \in DOMAIN talks
        PROVE  /\ talks'[k] = talks[k] /\ k \in DOMAIN talks' /\ k # 0
               /\ talks[k].requester \in Guests \ {p, g} /\ talks[k].guide \in Guests \ {p, g}
    BY <1>1, <1>2, <1>3, <1>5, <1>6 DEF GuideTypes, Talks, TalkIndex
  <2>3. n \in DOMAIN talks' /\ talks'[n] = new /\ DOMAIN talks' = DOMAIN talks \union {n}
    BY <1>5
  <2>4. \A k \in DOMAIN talks' :
          /\ talks'[k].requester # talks'[k].guide
          /\ talking'[talks'[k].requester] = k /\ talking'[talks'[k].guide] = k
    BY <1>1, <1>3, <1>4, <2>1, <2>2, <2>3 DEF TalkIndex
  <2>5. ASSUME NEW q \in Guests, talking'[q] # 0
        PROVE  talking'[q] \in DOMAIN talks' /\ q \in Freed(talks[talking[q]])'
    <3>1. CASE q \in {p, g}
      BY <1>4, <2>1, <2>3, <3>1 DEF Freed
    <3>2. CASE q \notin {p, g}
      BY <1>1, <2>1, <2>2, <2>5, <3>2 DEF Freed, TalkIndex
    <3>3. QED
      BY <3>1, <3>2
  <2>6. QED
    BY <2>4, <2>5 DEF TalkIndex
<1>11. AllExpected'
  <2>1. Expected(p) /\ Expected(g)
    BY <1>1, <1>2, <1>3 DEF AllExpected, Expected
  <2>2. \A q : Expected(q)' <=> Expected(q)
    BY <1>2 DEF Expected
  <2>3. \A k \in DOMAIN talks' : Expected(talks'[k].requester) /\ Expected(talks'[k].guide)
    BY <1>1, <1>4, <1>5, <2>1 DEF AllExpected
  <2>4. QED
    BY <1>1, <1>2, <2>2, <2>3 DEF AllExpected, Expected
<1>12. TalksAgree'
  BY <1>9, <1>10, <1>11, TalksParts, PTL
<1>13. QED
  BY <1>7, <1>8, <1>9, <1>12 DEF GuidesInv

\* An accepted conversation has the same participants.
LEMMA AcceptFits ==
    ASSUME GuidesInv, NEW p \in Guests, Accept(p), UNCHANGED presence
    PROVE  GuidesInv'
<1> DEFINE id == talking[p]
           new == [talks[id] EXCEPT !.state = "started"]
<1>1. GuideTypes /\ QueueFits /\ CommentsFit /\ TalkIndex /\ CommentsApart /\ AllExpected
  BY TalksParts DEF GuidesInv
<1>2. /\ id \in DOMAIN talks /\ talks' = [talks EXCEPT ![id] = new]
      /\ UNCHANGED <<scene, online, departing, since, roles, talking, completed, opened>>
  BY DEF Accept, TalkFor, presence
<1>3. talks[id] \in Talks
  BY <1>1, <1>2 DEF GuideTypes
<1>4. new \in Talks /\ new.requester = talks[id].requester /\ new.guide = talks[id].guide
  BY <1>3 DEF Talks
<1> HIDE DEF new, id
<1>5. /\ DOMAIN talks' = DOMAIN talks
      /\ \A k \in DOMAIN talks : /\ talks'[k] \in Talks
                                 /\ talks'[k].requester = talks[k].requester
                                 /\ talks'[k].guide = talks[k].guide
  BY <1>1, <1>2, <1>4 DEF GuideTypes
<1>6. GuideTypes' /\ QueueFits' /\ CommentsFit' /\ CommentsApart'
  BY <1>1, <1>2, <1>5 DEF GuideTypes, QueueFits, CommentsFit, CommentsApart
<1>7. TalkIndex'
  BY <1>1, <1>2, <1>5 DEF TalkIndex, Freed
<1>8. AllExpected'
  BY <1>1, <1>2, <1>5 DEF AllExpected, Expected
<1>9. TalksAgree'
  BY <1>6, <1>7, <1>8, TalksParts, PTL
<1>10. QED
  BY <1>6, <1>9 DEF GuidesInv

\* A rejected request goes to another guide, or ends.
LEMMA RejectFits ==
    ASSUME GuidesInv, NEW p \in Guests, Reject(p), UNCHANGED presence
    PROVE  GuidesInv'
<1> DEFINE id == talking[p]
           talk == talks[id]
           asker == talk.requester
           next == OldestGuide({p, asker})
           new == [talk EXCEPT !.guide = next]
<1>1. /\ GuideTypes /\ QueueFits /\ CommentsFit /\ TalkIndex /\ CommentsApart /\ AllExpected
      /\ since \in Seq(Guests) /\ talking \in [Guests -> Nat]
  BY TalksParts DEF GuidesInv, GuideTypes
<1>2. /\ id \in DOMAIN talks /\ TalkFor(p) = talk /\ talk.guide = p
      /\ UNCHANGED <<scene, online, departing, since, roles, completed, opened>>
  BY DEF Reject, TalkFor, presence
<1>3. CASE CloseTalk(id)
  <2>1. QueueFits' /\ \A q : Expected(q)' <=> Expected(q)
    BY <1>1, <1>2 DEF QueueFits, Expected
  <2>2. \A i \in DOMAIN since' : Expected(since[i])'
    BY <1>1, <1>2, <2>1 DEF AllExpected, Expected
  <2>3. QED
    BY <1>1, <1>2, <1>3, <2>1, <2>2, CloseTalkFits DEF GuideTypes
<1>4. CASE next # Nobody
  <2>1. /\ talks' = [talks EXCEPT ![id] = new]
        /\ talking' = [Vacated(talk) EXCEPT ![asker] = id, ![next] = id]
    BY <1>2, <1>4 DEF Reject
  <2>2. next \in Guests \ {p, asker} /\ talking[next] = 0 /\ \E i \in DOMAIN since : since[i] = next
    BY <1>1, <1>4, OldestFits
  <2>3. talk \in Talks /\ asker \in Guests /\ id \in Nat \ {0}
    BY <1>1, <1>2 DEF GuideTypes, Talks
  <2>4. new \in Talks /\ new.requester = asker /\ new.guide = next
    BY <2>2, <2>3 DEF Talks
  <2>5. asker # p /\ talking[asker] = id /\ \A k \in DOMAIN talks \ {id} :
          /\ talks[k].requester \in Guests \ {p, asker, next}
          /\ talks[k].guide \in Guests \ {p, asker, next} /\ k # 0
    BY <1>1, <1>2, <2>2 DEF GuideTypes, Talks, TalkIndex
  <2>6. /\ talking' \in [Guests -> Nat] /\ talking'[asker] = id /\ talking'[next] = id
             /\ talking'[p] = 0
        /\ \A q \in Guests \ {p, asker, next} : talking'[q] = talking[q]
    BY <1>1, <1>2, <2>1, <2>2, <2>3, <2>5 DEF Vacated, Freed
  <2> HIDE DEF new, next
  <2>7. /\ DOMAIN talks' = DOMAIN talks /\ talks'[id] = new
        /\ \A k \in DOMAIN talks \ {id} : talks'[k] = talks[k]
    BY <1>2, <2>1
  <2> HIDE DEF asker, id, talk
  <2>8. GuideTypes'
    <3>1. \A k \in DOMAIN talks' : talks'[k] \in Talks
      BY <1>1, <2>4, <2>7 DEF GuideTypes
    <3>2. QED
      BY <1>1, <1>2, <2>6, <2>7, <3>1 DEF GuideTypes
  <2>9. QueueFits' /\ CommentsFit' /\ CommentsApart'
    BY <1>1, <1>2, <2>7 DEF QueueFits, CommentsFit, CommentsApart
  <2>10. TalkIndex'
    <3>1. ASSUME NEW k \in DOMAIN talks'
          PROVE  /\ talks'[k].requester # talks'[k].guide
                 /\ talking'[talks'[k].requester] = k /\ talking'[talks'[k].guide] = k
      <4>1. CASE k = id
        BY <2>2, <2>4, <2>6, <2>7, <4>1
      <4>2. CASE k # id
        <5>1. k \in DOMAIN talks \ {id} /\ talks'[k] = talks[k]
          BY <2>7, <4>2
        <5>2. /\ talks[k].requester # talks[k].guide
              /\ talking[talks[k].requester] = k /\ talking[talks[k].guide] = k
          BY <1>1, <5>1 DEF TalkIndex
        <5>3. QED
          BY <2>5, <2>6, <5>1, <5>2
      <4>3. QED
        BY <4>1, <4>2
    <3>2. ASSUME NEW q \in Guests, talking'[q] # 0
          PROVE  talking'[q] \in DOMAIN talks' /\ q \in Freed(talks[talking[q]])'
      <4>1. CASE q \in {asker, next}
        BY <1>2, <2>4, <2>6, <2>7, <4>1 DEF Freed
      <4>2. CASE q \notin {p, asker, next}
        <5>1. /\ talking'[q] = talking[q] /\ talking[q] \in DOMAIN talks
              /\ q \in Freed(talks[talking[q]])
          BY <1>1, <2>6, <3>2, <4>2 DEF TalkIndex
        <5>2. talking[q] # id
          BY <1>2, <4>2, <5>1 DEF Freed, talk, asker
        <5>3. QED
          BY <2>7, <5>1, <5>2 DEF Freed
      <4>3. QED
        BY <2>6, <3>2, <4>1, <4>2
    <3>3. QED
      BY <3>1, <3>2 DEF TalkIndex
  <2>11. AllExpected'
    <3>1. Expected(asker) /\ Expected(next)
      BY <1>1, <1>2, <2>2 DEF AllExpected, asker, talk
    <3>2. \A q : Expected(q)' <=> Expected(q)
      BY <1>2 DEF Expected
    <3>3. \A k \in DOMAIN talks' : Expected(talks'[k].requester) /\ Expected(talks'[k].guide)
      BY <1>1, <2>4, <2>7, <3>1 DEF AllExpected
    <3>4. QED
      BY <1>1, <1>2, <3>2, <3>3 DEF AllExpected, Expected
  <2>12. TalksAgree'
    BY <2>9, <2>10, <2>11, TalksParts, PTL
  <2>13. QED
    BY <2>8, <2>9, <2>12 DEF GuidesInv
<1>5. QED
  BY <1>2, <1>3, <1>4 DEF Reject

\* Duty is changed, or a comment is spent.
LEMMA DutyFits ==
    ASSUME GuidesInv, NEW p \in Guests, SetDuty(p) \/ TakeCompleted(p), UNCHANGED presence
    PROVE  GuidesInv'
<1>1. /\ GuideTypes /\ QueueFits /\ AllExpected
      /\ since \in Seq(Guests) /\ \A i, j \in DOMAIN since : since[i] = since[j] => i = j
      /\ UNCHANGED <<scene, talks, talking, opened, online, departing>> /\ p \in online
      /\ \A q : Expected(q)' <=> Expected(q)
  BY TalksParts DEF GuidesInv, GuideTypes, QueueFits, SetDuty, TakeCompleted, presence, Expected
<1>2. online' \subseteq Guests /\ departing' \in [Guests -> {"none", "guides", "guardians"}]
  BY <1>1 DEF GuideTypes
<1>3. CASE TakeCompleted(p)
  <2>1. UNCHANGED <<since, roles>> /\ completed' = [completed EXCEPT ![p] = 0]
    BY <1>3 DEF TakeCompleted
  <2>2. /\ QueueFits' /\ since' \in Seq(Guests) /\ roles' \in [Guests -> SUBSET Duties]
        /\ \A i \in DOMAIN since' : Expected(since[i])'
    BY <1>1, <2>1 DEF QueueFits, GuideTypes, AllExpected, Expected
  <2>3. /\ completed' \in [Guests -> Nat]
        /\ \A q \in Guests : completed'[q] \in {0, completed[q]}
    BY <1>1, <2>1 DEF GuideTypes
  <2>4. QED
    BY <1>1, <1>2, <2>2, <2>3, TalksStay
<1>4. CASE SetDuty(p)
  <2>1. PICK duty \in SUBSET scene.roles :
          /\ roles' = [roles EXCEPT ![p] = duty]
          /\ since' = IF duty = {} THEN OffDuty(p)
                      ELSE IF roles[p] = {} THEN Append(since, p) ELSE since
    BY <1>4 DEF SetDuty
  <2>2. UNCHANGED completed
    BY <1>4 DEF SetDuty
  <2>3. duty \in SUBSET Duties
    BY <1>1, GuidesAssumption DEF GuideTypes, Duties
  <2>4. roles' \in [Guests -> SUBSET Duties]
    BY <1>1, <2>1, <2>3 DEF GuideTypes
  <2>5. \A q \in Guests : roles'[q] = IF q = p THEN duty ELSE roles[q]
    BY <1>1, <2>1 DEF GuideTypes
  <2>6. /\ since' \in Seq(Guests)
        /\ \A i, j \in DOMAIN since' : since'[i] = since'[j] => i = j
        /\ \A i \in DOMAIN since' : since'[i] = p \/ \E j \in DOMAIN since : since[j] = since'[i]
        /\ \A i \in DOMAIN since' : since'[i] = p => duty # {}
    <3>1. CASE duty = {}
      BY <1>1, <2>1, <3>1, OffDutyFits
    <3>2. CASE duty # {} /\ roles[p] = {}
      <4>1. since' = Append(since, p) /\ \A i \in DOMAIN since : since[i] # p
        BY <1>1, <2>1, <3>2 DEF QueueFits
      <4>2. QED
        BY <1>1, <3>2, <4>1, QueueAppend
    <3>3. CASE duty # {} /\ roles[p] # {}
      BY <1>1, <2>1, <3>3
    <3>4. QED
      BY <3>1, <3>2, <3>3
  <2>7. \A i \in DOMAIN since' : since'[i] \in Guests
    BY <2>6
  <2>8. \A i \in DOMAIN since' : roles'[since'[i]] # {}
    BY <1>1, <2>5, <2>6, <2>7 DEF QueueFits
  <2>9. QueueFits'
    BY <2>6, <2>8 DEF QueueFits
  <2>10. \A i \in DOMAIN since' : Expected(since[i])'
    BY <1>1, <2>6 DEF AllExpected, Expected
  <2>11. completed' \in [Guests -> Nat] /\ \A q \in Guests : completed'[q] \in {0, completed[q]}
    BY <1>1, <2>2 DEF GuideTypes
  <2>12. QED
    BY <1>1, <1>2, <2>4, <2>6, <2>9, <2>10, <2>11, TalksStay
<1>5. QED
  BY <1>3, <1>4

\* Either participant ends a conversation.
LEMMA EndTalkFits ==
    ASSUME GuidesInv, NEW p \in Guests, EndTalk(p), UNCHANGED presence
    PROVE  GuidesInv'
<1> DEFINE id == talking[p]
<1>1. GuideTypes /\ QueueFits /\ AllExpected
  BY TalksParts DEF GuidesInv
<1>2. /\ id \in DOMAIN talks /\ CloseTalk(id)
      /\ completed' = [completed EXCEPT ![talks[id].requester] = id]
      /\ UNCHANGED <<scene, online, departing, since, roles, opened>>
  BY DEF EndTalk, TalkFor, presence
<1>3. id \in Nat
  BY <1>1, <1>2 DEF GuideTypes
<1>4. completed' \in [Guests -> Nat] /\ \A q \in Guests : completed'[q] \in {0, id, completed[q]}
  <2> HIDE DEF id
  <2>1. QED
    BY <1>1, <1>2, <1>3 DEF GuideTypes
<1>5. /\ QueueFits' /\ \A q : Expected(q)' <=> Expected(q)
      /\ \A i \in DOMAIN since' : Expected(since[i])'
  BY <1>1, <1>2 DEF QueueFits, Expected, AllExpected
<1>6. QED
  BY <1>1, <1>2, <1>4, <1>5, CloseTalkFits DEF GuideTypes

\* What a session leaves behind is removed.
LEMMA DisconnectedFits ==
    ASSUME GuidesInv, NEW p \in Guests, DisconnectedGuide(p), UNCHANGED scene
    PROVE  GuidesInv'
<1> DEFINE id == talking[p]
<1>1. /\ GuideTypes /\ QueueFits /\ AllExpected /\ TalkIndex
      /\ since \in Seq(Guests) /\ \A i, j \in DOMAIN since : since[i] = since[j] => i = j
  BY TalksParts DEF GuidesInv, GuideTypes, QueueFits
<1>2. /\ RemovePlayer(p) /\ UNCHANGED <<scene, online>>
      /\ departing' \in {[departing EXCEPT ![p] = "guardians"], [departing EXCEPT ![p] = "none"]}
  BY DEF DisconnectedGuide
<1>3. /\ since' = OffDuty(p) /\ roles' = [roles EXCEPT ![p] = {}]
      /\ completed' = [completed EXCEPT ![p] = 0] /\ UNCHANGED opened
  BY <1>2 DEF RemovePlayer
<1>4. /\ online' \subseteq Guests /\ departing' \in [Guests -> {"none", "guides", "guardians"}]
      /\ \A q \in Guests \ {p} : departing'[q] = departing[q]
  BY <1>1, <1>2 DEF GuideTypes
<1>5. \A q \in Guests \ {p} : Expected(q)' <=> Expected(q)
  BY <1>2, <1>4 DEF Expected
<1>6. /\ since' \in Seq(Guests) /\ \A i, j \in DOMAIN since' : since'[i] = since'[j] => i = j
      /\ \A i \in DOMAIN since' : since'[i] # p /\ \E j \in DOMAIN since : since[j] = since'[i]
  BY <1>1, <1>3, OffDutyFits
<1>7. \A i \in DOMAIN since' : since'[i] \in Guests \ {p}
  BY <1>6
<1>8. roles' \in [Guests -> SUBSET Duties] /\ \A q \in Guests \ {p} : roles'[q] = roles[q]
  BY <1>1, <1>3 DEF GuideTypes
<1>9. QueueFits'
  BY <1>1, <1>6, <1>7, <1>8 DEF QueueFits
<1>10. \A i \in DOMAIN since' : Expected(since'[i]) /\ since'[i] \in Guests \ {p}
  BY <1>1, <1>6, <1>7 DEF AllExpected
<1>11. \A i \in DOMAIN since' : Expected(since[i])'
  BY <1>2, <1>4, <1>10 DEF Expected
<1>12. completed' \in [Guests -> Nat] /\ \A q \in Guests : completed'[q] \in {0, completed[q]}
  BY <1>1, <1>3 DEF GuideTypes
<1>13. CASE TalkFor(p) = NoTalk
  <2>1. id \notin DOMAIN talks
    <3>1. SUFFICES ASSUME id \in DOMAIN talks PROVE FALSE
      OBVIOUS
    <3>2. talks[id].requester = Nobody /\ talks[id].requester \in Guests
      BY <1>1, <1>13, <3>1 DEF TalkFor, NoTalk, GuideTypes, Talks
    <3>3. QED
      BY <3>2, GuidesAssumption
  <2>2. id = 0 /\ UNCHANGED <<talks, talking>>
    BY <1>1, <1>2, <1>13, <2>1 DEF TalkIndex, RemovePlayer
  <2>3. \A q \in Guests : talking[q] # 0 /\ Expected(q) => Expected(q)'
    BY <1>5, <2>2
  <2>4. QED
    BY <1>2, <1>3, <1>4, <1>6, <1>8, <1>9, <1>11, <1>12, <2>2, <2>3, TalksStay
<1>14. CASE TalkFor(p) # NoTalk
  <2>1. id \in DOMAIN talks /\ CloseTalk(id)
    BY <1>2, <1>14 DEF TalkFor, RemovePlayer
  <2>2. p \in Freed(talks[id])
    BY <1>1, <2>1 DEF TalkIndex, GuideTypes
  <2>3. \A q \in Guests \ Freed(talks[id]) : Expected(q) => Expected(q)'
    BY <1>5, <2>2
  <2>4. \A q \in Guests : completed'[q] \in {0, id, completed[q]}
    BY <1>12
  <2>5. QED
    BY <1>2, <1>3, <1>4, <1>6, <1>8, <1>9, <1>11, <1>12, <2>1, <2>3, <2>4, CloseTalkFits
<1>15. QED
  BY <1>13, <1>14

\* Sessions begin and end; the rest of an event says nothing of guides.
LEMMA SessionsFit ==
    ASSUME GuidesInv, UNCHANGED <<scene, guides>>, NEW p \in Guests,
           \/ Connect(p) \/ Depart(p)
           \/ departing[p] = "guardians" /\ departing' = [departing EXCEPT ![p] = "none"]
                /\ UNCHANGED online
    PROVE  GuidesInv'
<1>1. /\ GuideTypes /\ QueueFits /\ AllExpected
      /\ UNCHANGED <<since, roles, talks, talking, completed, opened>>
  BY TalksParts DEF GuidesInv, guides
<1>2. online' \subseteq Guests /\ departing' \in [Guests -> {"none", "guides", "guardians"}]
  BY <1>1 DEF GuideTypes, Connect, Depart
<1>3. \A q \in Guests : Expected(q) => Expected(q)'
  BY <1>1 DEF GuideTypes, Connect, Depart, Expected
<1>4. \A i \in DOMAIN since' : Expected(since[i])'
  <2>1. \A i \in DOMAIN since : since[i] \in Guests /\ Expected(since[i])
    BY <1>1 DEF GuideTypes, AllExpected
  <2>2. QED
    BY <1>1, <1>3, <2>1 DEF Expected
<1>5. QueueFits'
  BY <1>1 DEF QueueFits
<1>6. QED
  BY <1>1, <1>2, <1>3, <1>4, <1>5, TalksStay DEF GuideTypes

\* Nobody talks at first, and who is on duty has a session.
LEMMA GuidesInitFits == GuidesInit => GuidesInv
<1>1. SUFFICES ASSUME GuidesInit PROVE GuidesInv
  OBVIOUS
<1>2. /\ scene \in Scenes /\ scene.present \subseteq Guests /\ scene.duty \subseteq Duties
      /\ Cardinality(scene.present) \in Nat
  BY <1>1, GuidesAssumption, FS_Subset, FS_CardinalityType DEF GuidesInit, Duties
<1>3. /\ since \in Seq(Guests) /\ \A i, j \in DOMAIN since : since[i] = since[j] => i = j
      /\ \A i \in DOMAIN since : since[i] \in scene.present /\ scene.duty # {}
  <2>1. CASE scene.duty = {}
    BY <1>1, <2>1 DEF GuidesInit
  <2>2. CASE scene.duty # {}
    <3>1. since \in SetToSeqs(scene.present)
      BY <1>1, <2>2 DEF GuidesInit
    <3>2. /\ since \in [1 .. Cardinality(scene.present) -> scene.present]
          /\ \A i, j \in 1 .. Cardinality(scene.present) : i # j => since[i] # since[j]
      BY <3>1 DEF SetToSeqs
    <3>3. since \in Seq(scene.present)
      BY <1>2, <3>2, SeqDef
    <3>4. QED
      BY <1>2, <2>2, <3>2, <3>3
  <2>3. QED
    BY <2>1, <2>2
<1>4. /\ talks = <<>> /\ DOMAIN talks = {} /\ opened = 0 /\ online = scene.present
      /\ departing = [p \in Guests |-> "none"] /\ talking = [p \in Guests |-> 0]
      /\ completed = [p \in Guests |-> 0]
      /\ roles = [p \in Guests |-> IF p \in scene.present THEN scene.duty ELSE {}]
  BY <1>1 DEF GuidesInit
<1>5. GuideTypes
  BY <1>2, <1>3, <1>4 DEF GuideTypes
<1>6. QueueFits
  BY <1>2, <1>3, <1>4 DEF QueueFits
<1>7. CommentsFit
  BY <1>4 DEF CommentsFit
<1>8. TalkIndex /\ CommentsApart
  BY <1>4 DEF TalkIndex, CommentsApart
<1>9. AllExpected
  BY <1>3, <1>4 DEF AllExpected, Expected
<1>10. QED
  BY <1>5, <1>6, <1>7, <1>8, <1>9, TalksParts DEF GuidesInv

\* Every step keeps conversations in order.
LEMMA GuidesNextFits == ASSUME GuidesInv, [GuardiansNext]_moderation PROVE GuidesInv'
<1>1. CASE UNCHANGED <<presence, guides>>
  BY <1>1 DEF presence, guides, GuidesInv, GuideTypes, QueueFits, CommentsFit, TalksAgree, Expected
<1>2. ASSUME UNCHANGED scene, SessionSteps PROVE GuidesInv'
  <2>1. PICK p \in Guests :
          \/ (Connect(p) \/ Depart(p)) /\ UNCHANGED guides
          \/ DisconnectedGuide(p)
          \/ DisconnectedGuardian(p) /\ UNCHANGED guides
    BY <1>2 DEF SessionSteps
  <2>2. CASE DisconnectedGuide(p)
    BY <1>2, <2>2, DisconnectedFits
  <2>3. CASE (Connect(p) \/ Depart(p)) /\ UNCHANGED guides
    BY <1>2, <2>3, SessionsFit
  <2>4. CASE DisconnectedGuardian(p) /\ UNCHANGED guides
    BY <1>2, <2>4, SessionsFit DEF DisconnectedGuardian
  <2>5. QED
    BY <2>1, <2>2, <2>3, <2>4
<1>3. ASSUME Talking PROVE GuidesInv'
  BY <1>3, CreateFits, AcceptFits, RejectFits, DutyFits, EndTalkFits DEF Talking, GuidesOf
<1>4. CASE UNCHANGED moderation
  BY <1>1, <1>4 DEF moderation
<1>5. CASE GuardiansNext
  <2>1. UNCHANGED scene
    BY <1>5 DEF GuardiansNext
  <2>2. CASE SessionSteps
    BY <1>2, <2>1, <2>2
  <2>3. CASE Talking
    BY <1>3, <2>3
  <2>4. CASE \E p \in Guests : ReviewBy(p)
    BY <1>1, <2>4 DEF ReviewBy
  <2>5. CASE Ticker \/ Queueing \/ Finishing
    BY <1>1, <2>5 DEF Ticker, Queueing, Finishing
  <2>6. QED
    BY <1>5, <2>2, <2>3, <2>4, <2>5 DEF GuardiansNext
<1>6. QED
  BY <1>4, <1>5

\* The index leads participants to their conversation and nobody else anywhere,
\* and nobody waits for who is gone, however helpers reject, leave, come back or
\* go off duty, and however late the event of a session that ended arrives.
THEOREM ConversationsAgree == ReviewSpec => []TalksAgree
<1>1. GuardiansInit => GuidesInv
  BY GuidesInitFits DEF GuardiansInit
<1>2. GuidesInv => TalksAgree
  BY DEF GuidesInv
<1>3. QED
  BY <1>1, <1>2, GuidesNextFits, PTL DEF ReviewSpec

-----------------------------------------------------------------------------
(***************************************************************************)
(* Tickets.                                                                *)
(***************************************************************************)
\* The scene does not change, nor what it says of tickets.
LEMMA ResultMoves == ASSUME UNCHANGED scene, NEW t PROVE Result(t)' = Result(t)
  BY DEF Result, Of, Majority
\* Nor what a ticket is.
LEMMA TicketsMoves == ASSUME UNCHANGED scene PROVE Tickets' = Tickets
  BY DEF Tickets
\* Nor which tickets fit.
LEMMA FitsMoves == ASSUME UNCHANGED scene, NEW t, NEW v PROVE Fits(t, v)' <=> Fits(t, v)
  BY ResultMoves, TicketsMoves DEF Fits, Of

\* The result is one of the votes only.
LEMMA ResultOfVotes ==
    ASSUME NEW t, NEW u, t.reviewers = u.reviewers
    PROVE  Result(t) = Result(u) /\ \A statuses : Of(t, statuses) = Of(u, statuses)
  BY DEF Result, Of

\* The result is a verdict with the strict majority, or there is none.
LEMMA ResultIs ==
    ASSUME NEW t, scene \in Scenes
    PROVE  /\ Result(t) \in {"none", "mixed"} \union Verdicts
           /\ Result(t) # "mixed" =>
                Majority(Cardinality(Of(t, {Result(t)})), Cardinality(Of(t, scene.verdicts)))
<1> DEFINE total == Cardinality(Of(t, scene.verdicts))
           won == {v \in scene.verdicts : Majority(Cardinality(Of(t, {v})), total)}
<1>1. won \subseteq Verdicts
  BY GuardiansAssumption DEF Verdicts
<1>2. Result(t) = IF won = {} THEN "mixed" ELSE CHOOSE v \in won : TRUE
  BY DEF Result
<1>3. won # {} => Result(t) \in won
  BY <1>2
<1>4. QED
  BY <1>1, <1>2, <1>3

\* Reviewers and their answers.
LEMMA ReviewersType ==
    ASSUME NEW t \in Tickets
    PROVE  DOMAIN t.reviewers \subseteq Guests /\ t.reviewers \in [DOMAIN t.reviewers -> Answers]
  BY DEF Tickets

\* A closed review has its result.
LEMMA ClosedFits ==
    ASSUME scene \in Scenes, NEW t, NEW v, Fits(t, v), t.state # "closed",
           NEW outcome \in {"todo", "dropped"}
    PROVE  /\ Fits(Closed(t, outcome), v)
           /\ Closed(t, outcome).state = "closed" /\ Closed(t, outcome).outcome = outcome
           /\ Closed(t, outcome).escalated = t.escalated
<1> DEFINE result == Result(t)
           u == [t EXCEPT !.state = "closed", !.result = result, !.outcome = outcome]
<1>1. t \in Tickets /\ t.escalated = 0 /\ result \in {"none", "mixed"} \union Verdicts
  BY ResultIs DEF Fits, Tickets
<1>2. Closed(t, outcome) = u
  BY DEF Closed
<1> HIDE DEF result
<1>3. /\ u.state = "closed" /\ u.result = result /\ u.outcome = outcome
      /\ u.reviewers = t.reviewers /\ u.reporter = t.reporter /\ u.reported = t.reported
      /\ u.escalated = t.escalated
  BY <1>1 DEF Tickets
<1>4. u \in Tickets
  BY <1>1 DEF Tickets
<1> HIDE DEF u
<1>5. u.result = Result(u) /\ Of(u, scene.verdicts) = Of(t, scene.verdicts)
  BY <1>3, ResultOfVotes DEF result
<1>6. Fits(u, v)
  BY <1>1, <1>3, <1>4, <1>5 DEF Fits
<1>7. QED
  BY <1>2, <1>3, <1>6

\* An answer that is no verdict, or a verdict that was saved.
LEMMA AnsweredFits ==
    ASSUME scene \in Scenes, NEW t, NEW v, NEW w, Fits(t, v), t.state # "closed",
           NEW p \in DOMAIN t.reviewers, NEW answer \in Answers,
           answer \in scene.verdicts => p \in DOMAIN w /\ w[p] = answer,
           \A g \in DOMAIN v \ {p} : g \in DOMAIN w /\ w[g] = v[g]
    PROVE  /\ Fits([t EXCEPT !.reviewers[p] = answer], w)
           /\ [t EXCEPT !.reviewers[p] = answer].state = t.state
           /\ [t EXCEPT !.reviewers[p] = answer].reporter = t.reporter
           /\ DOMAIN [t EXCEPT !.reviewers[p] = answer].reviewers = DOMAIN t.reviewers
<1> DEFINE reviewers == [t.reviewers EXCEPT ![p] = answer]
           u == [t EXCEPT !.reviewers = reviewers]
<1>1. t \in Tickets /\ t.escalated = 0
  BY DEF Fits, Tickets
<1>2. [t EXCEPT !.reviewers[p] = answer] = u
  OBVIOUS
<1>3. /\ reviewers \in [DOMAIN t.reviewers -> Answers] /\ DOMAIN t.reviewers \in SUBSET Guests
      /\ reviewers[p] = answer
      /\ \A g \in DOMAIN t.reviewers \ {p} : reviewers[g] = t.reviewers[g]
  BY <1>1, ReviewersType
<1> HIDE DEF reviewers
<1>4. /\ u.state = t.state /\ u.result = t.result /\ u.outcome = t.outcome
      /\ u.reviewers = reviewers /\ u.reporter = t.reporter /\ u.reported = t.reported
      /\ u.escalated = t.escalated
  BY <1>1 DEF Tickets
<1>5. u \in Tickets
  BY <1>1, <1>3 DEF Tickets
<1> HIDE DEF u
<1>6. \A g \in Of(u, scene.verdicts) : g \in DOMAIN w /\ w[g] = u.reviewers[g]
  BY <1>3, <1>4 DEF Fits, Of
<1>7. Fits(u, w)
  BY <1>1, <1>3, <1>4, <1>5, <1>6 DEF Fits
<1>8. QED
  BY <1>2, <1>3, <1>4, <1>7

\* A reviewer who leaves.
LEMMA LeftFits ==
    ASSUME scene \in Scenes, NEW t, NEW v, Fits(t, v), t.state # "closed", NEW p
    PROVE  /\ Fits(Left(t, p), v) /\ Left(t, p).state = t.state
           /\ Left(t, p).reporter = t.reporter
           /\ DOMAIN Left(t, p).reviewers = DOMAIN t.reviewers \ {p}
<1> DEFINE reviewers == [g \in DOMAIN t.reviewers \ {p} |-> t.reviewers[g]]
           u == [t EXCEPT !.reviewers = reviewers]
<1>1. t \in Tickets /\ t.escalated = 0
  BY DEF Fits, Tickets
<1>2. Left(t, p) = u
  BY DEF Left
<1>3. /\ reviewers \in [DOMAIN t.reviewers \ {p} -> Answers]
      /\ DOMAIN t.reviewers \ {p} \in SUBSET Guests
      /\ \A g \in DOMAIN t.reviewers \ {p} : reviewers[g] = t.reviewers[g]
  BY <1>1, ReviewersType
<1> HIDE DEF reviewers
<1>4. /\ u.state = t.state /\ u.result = t.result /\ u.outcome = t.outcome
      /\ u.reviewers = reviewers /\ u.reporter = t.reporter /\ u.reported = t.reported
      /\ u.escalated = t.escalated
  BY <1>1 DEF Tickets
<1>5. u \in Tickets
  BY <1>1, <1>3 DEF Tickets
<1> HIDE DEF u
<1>6. \A g \in Of(u, scene.verdicts) : g \in DOMAIN v /\ v[g] = u.reviewers[g]
  BY <1>3, <1>4 DEF Fits, Of
<1>7. Fits(u, v)
  BY <1>1, <1>3, <1>4, <1>5, <1>6 DEF Fits
<1>8. QED
  BY <1>2, <1>3, <1>4, <1>7

\* Time passes for a ticket, or its voting begins.
LEMMA DatedFits ==
    ASSUME scene \in Scenes, NEW t, NEW v, Fits(t, v), t.state # "closed", NEW due \in BOOLEAN
    PROVE  /\ Fits([t EXCEPT !.state = "voting", !.due = due], v)
           /\ [t EXCEPT !.state = "voting", !.due = due].state = "voting"
           /\ [t EXCEPT !.state = "voting", !.due = due].reporter = t.reporter
           /\ [t EXCEPT !.state = "voting", !.due = due].reviewers = t.reviewers
           /\ Fits([t EXCEPT !.due = due], v)
           /\ [t EXCEPT !.due = due].state = t.state
           /\ [t EXCEPT !.due = due].reporter = t.reporter
           /\ [t EXCEPT !.due = due].reviewers = t.reviewers
<1>1. t \in Tickets /\ t.escalated = 0
  BY DEF Fits, Tickets
<1>2. ASSUME NEW u \in Tickets, u.state # "closed", u.outcome = t.outcome,
             u.escalated = t.escalated, u.reviewers = t.reviewers,
             u.reporter = t.reporter, u.reported = t.reported
      PROVE  Fits(u, v)
  <2>1. Of(u, scene.verdicts) = Of(t, scene.verdicts)
    BY <1>2, ResultOfVotes
  <2>2. QED
    BY <1>1, <1>2, <2>1 DEF Fits
<1> DEFINE u == [t EXCEPT !.state = "voting", !.due = due]
           w == [t EXCEPT !.due = due]
<1>3. /\ u \in Tickets /\ u.state = "voting" /\ u.outcome = t.outcome
      /\ u.escalated = t.escalated /\ u.reviewers = t.reviewers
      /\ u.reporter = t.reporter /\ u.reported = t.reported
  BY <1>1 DEF Tickets
<1>4. /\ w \in Tickets /\ w.state = t.state /\ w.outcome = t.outcome
      /\ w.escalated = t.escalated /\ w.reviewers = t.reviewers
      /\ w.reporter = t.reporter /\ w.reported = t.reported
  BY <1>1 DEF Tickets
<1> HIDE DEF u, w
<1>5. Fits(u, v) /\ Fits(w, v)
  BY <1>2, <1>3, <1>4
<1>6. QED
  BY <1>3, <1>4, <1>5 DEF u, w

\* A review whose consequence is drawn.
LEMMA FinishedFits ==
    ASSUME scene \in Scenes, NEW t, NEW v, Fits(t, v), t.outcome = "todo"
    PROVE  /\ Fits([t EXCEPT !.outcome = "done"], v)
           /\ [t EXCEPT !.outcome = "done"].outcome = "done"
           /\ [t EXCEPT !.outcome = "done"].state = "closed"
           /\ [t EXCEPT !.outcome = "done"].escalated = 0
           /\ t.result \in {"bad", "horrible"} =>
                /\ Fits([t EXCEPT !.outcome = "done", !.escalated = @ + 1], v)
                /\ [t EXCEPT !.outcome = "done", !.escalated = @ + 1].state = "closed"
<1>1. t \in Tickets /\ t.escalated = 0 /\ t.state = "closed" /\ t.result = Result(t)
  BY DEF Fits, Tickets
<1>2. ASSUME NEW u \in Tickets, u.state = "closed", u.outcome = "done", u.reviewers = t.reviewers,
             u.reporter = t.reporter, u.reported = t.reported, u.result = t.result,
             u.escalated # 0 => t.result \in {"bad", "horrible"}
      PROVE  Fits(u, v)
  <2>1. Of(u, scene.verdicts) = Of(t, scene.verdicts) /\ Result(u) = Result(t)
    BY <1>2, ResultOfVotes
  <2>2. QED
    BY <1>1, <1>2, <2>1 DEF Fits
<1> DEFINE n == t.escalated + 1
           u == [t EXCEPT !.outcome = "done"]
           w == [t EXCEPT !.outcome = "done", !.escalated = n]
<1>3. /\ u \in Tickets /\ u.state = "closed" /\ u.outcome = "done"
      /\ u.escalated = 0 /\ u.reviewers = t.reviewers
      /\ u.reporter = t.reporter /\ u.reported = t.reported /\ u.result = t.result
  BY <1>1 DEF Tickets
<1>4. n \in 0 .. 1
  BY <1>1
<1> HIDE DEF n
<1>5. /\ w \in Tickets /\ w.state = "closed" /\ w.outcome = "done"
      /\ w.reviewers = t.reviewers
      /\ w.reporter = t.reporter /\ w.reported = t.reported /\ w.result = t.result
  BY <1>1, <1>4 DEF Tickets
<1>6. [t EXCEPT !.outcome = "done", !.escalated = @ + 1] = w
  BY DEF n
<1> HIDE DEF u, w
<1>7. Fits(u, v) /\ (t.result \in {"bad", "horrible"} => Fits(w, v))
  BY <1>2, <1>3, <1>5
<1>8. QED
  BY <1>3, <1>5, <1>6, <1>7 DEF u

-----------------------------------------------------------------------------
(***************************************************************************)
(* Steps of reviews.                                                       *)
(***************************************************************************)
\* Tickets of which only open ones change, and an index that only loses entries.
LEMMA TicketsChange ==
    ASSUME scene \in Scenes, UNCHANGED scene, TicketsFit, IndexFits,
           DOMAIN tickets' = DOMAIN tickets, DOMAIN votes' = DOMAIN votes,
           tickets' = [k \in DOMAIN tickets |-> tickets'[k]],
           \A k \in DOMAIN tickets : Fits(tickets'[k], votes'[k]),
           byPlayer' \in [Guests -> Nat],
           \A q \in Guests : byPlayer'[q] # 0 =>
               /\ byPlayer'[q] = byPlayer[q]
               /\ tickets'[byPlayer[q]].state # "closed" /\ q \in Parties(tickets'[byPlayer[q]])
    PROVE  TicketsFit' /\ IndexFits'
<1>1. \A k \in DOMAIN tickets : tickets'[k] \in Tickets /\ Fits(tickets'[k], votes'[k])
  BY DEF Fits
<1>2. PICK n \in Nat : DOMAIN tickets = 1 .. n
  BY DEF TicketsFit
<1>3. tickets' \in [1 .. n -> Tickets]
  BY <1>1, <1>2
<1>4. tickets' \in Seq(Tickets)
  BY <1>2, <1>3, SeqDef
<1>5. TicketsFit'
  <2>1. Tickets' = Tickets /\ \A k \in DOMAIN tickets' : Fits(tickets[k], votes[k])'
    BY <1>1, TicketsMoves, FitsMoves
  <2>2. QED
    BY <1>4, <2>1 DEF TicketsFit
<1>6. IndexFits'
  BY DEF IndexFits, IsOpen, Parties
<1>7. QED
  BY <1>5, <1>6

\* One open ticket changes, its votes only grow, and nobody leaves the index who is
\* still a party.
LEMMA TicketChanges ==
    ASSUME scene \in Scenes, UNCHANGED scene, TicketsFit, IndexFits,
           NEW id \in DOMAIN tickets, NEW t, SetTicket(id, t), Fits(t, votes'[id]),
           DOMAIN votes' = DOMAIN votes, \A k \in DOMAIN votes \ {id} : votes'[k] = votes[k],
           byPlayer' \in [Guests -> Nat],
           \A q \in Guests : byPlayer'[q] # 0 =>
               /\ byPlayer'[q] = byPlayer[q]
               /\ byPlayer[q] = id => t.state # "closed" /\ q \in Parties(t)
    PROVE  TicketsFit' /\ IndexFits'
<1>1. /\ DOMAIN tickets' = DOMAIN tickets /\ tickets' = [k \in DOMAIN tickets |-> tickets'[k]]
      /\ tickets'[id] = t /\ \A k \in DOMAIN tickets \ {id} : tickets'[k] = tickets[k]
  BY DEF SetTicket, TicketsFit
<1>2. \A k \in DOMAIN tickets : Fits(tickets'[k], votes'[k])
  <2>1. \A k \in DOMAIN tickets \ {id} : Fits(tickets[k], votes[k]) /\ k \in DOMAIN votes
    BY DEF TicketsFit
  <2>2. QED
    BY <1>1, <2>1
<1>3. ASSUME NEW q \in Guests, byPlayer'[q] # 0
      PROVE  /\ byPlayer'[q] = byPlayer[q]
             /\ tickets'[byPlayer[q]].state # "closed" /\ q \in Parties(tickets'[byPlayer[q]])
  <2>1. byPlayer'[q] = byPlayer[q] /\ IsOpen(byPlayer[q]) /\ q \in Parties(tickets[byPlayer[q]])
    BY <1>3 DEF IndexFits
  <2>2. QED
    BY <1>1, <1>3, <2>1 DEF IsOpen
<1>4. QED
  BY <1>1, <1>2, <1>3, TicketsChange

\* What is closed and finished stays so where only open tickets change.
LEMMA SourcesStay ==
    ASSUME TicketsFit, SourcesFit, UNCHANGED issues,
           DOMAIN tickets \subseteq DOMAIN tickets',
           \A k \in DOMAIN tickets : IsOpen(k) \/ tickets'[k] = tickets[k]
    PROVE  SourcesFit'
<1>1. \A k \in DOMAIN tickets : IsOpen(k) => tickets[k].outcome = "none"
  BY DEF TicketsFit, Fits, IsOpen
<1>2. QED
  BY <1>1 DEF SourcesFit

\* Offers and the desk stand where nothing of them changes.
LEMMA OfferStays == ASSUME OfferFits, UNCHANGED <<scene, holder, offer>> PROVE OfferFits'
  BY DEF OfferFits
\* Nor do rows change where no vote is saved.
LEMMA VotesStay == ASSUME VotesFit, UNCHANGED votes PROVE VotesFit'
  BY DEF VotesFit, Rows
\* The desk itself does not look at tickets.
LEMMA IssuesStay == ASSUME IssuesFit, UNCHANGED desk PROVE IssuesFit'
  BY DEF IssuesFit, desk

\* Players are taken off the index.
LEMMA UnindexedFits ==
    ASSUME IndexFits, NEW players, byPlayer' = Unindexed(players)
    PROVE  /\ byPlayer' \in [Guests -> Nat]
           /\ \A q \in Guests : byPlayer'[q] # 0 => byPlayer'[q] = byPlayer[q] /\ q \notin players
  BY DEF IndexFits, Unindexed

\* A reviewer accepts or declines.
LEMMA DecideFits ==
    ASSUME scene \in Scenes, UNCHANGED scene, ReviewsInv, DeskInv, UNCHANGED desk,
           NEW p \in Guests, Decide(p)
    PROVE  ReviewsInv' /\ DeskInv'
<1> DEFINE id == byPlayer[p]
<1>1. /\ TicketsFit /\ IndexFits /\ OfferFits /\ VotesFit /\ IssuesFit /\ SourcesFit
      /\ UNCHANGED <<holder, offer, votes, issues>>
  BY DEF ReviewsInv, DeskInv, desk, Decide
<1>2. /\ IsOpen(id) /\ p \in DOMAIN tickets[id].reviewers /\ id \in DOMAIN votes
      /\ Fits(tickets[id], votes[id])
  BY <1>1 DEF Decide, Reviewing, TicketsFit, IsOpen
<1>3. PICK answer \in {"accepted", "declined"} :
        LET asked == [tickets[id] EXCEPT !.reviewers[p] = answer] IN
        IF Of(asked, {"asked"}) # {} THEN SetTicket(id, asked) /\ UNCHANGED byPlayer
        ELSE IF Of(asked, {"accepted"}) = {} THEN Close(id, asked, "dropped")
        ELSE SetTicket(id, [asked EXCEPT !.state = "voting", !.due = FALSE]) /\ UNCHANGED byPlayer
  BY DEF Decide
<1> DEFINE asked == [tickets[id] EXCEPT !.reviewers[p] = answer]
           voting == [asked EXCEPT !.state = "voting", !.due = FALSE]
<1>4. answer \in Answers /\ answer \notin scene.verdicts
  BY <1>3, GuardiansAssumption DEF Answers
<1>5. /\ Fits(asked, votes[id]) /\ asked.state # "closed"
      /\ asked.reporter = tickets[id].reporter
      /\ DOMAIN asked.reviewers = DOMAIN tickets[id].reviewers
  BY <1>2, <1>4, AnsweredFits DEF IsOpen
<1>6. \/ SetTicket(id, asked) /\ UNCHANGED byPlayer
      \/ Close(id, asked, "dropped")
      \/ SetTicket(id, voting) /\ UNCHANGED byPlayer
  BY <1>3
<1> HIDE DEF asked
<1>7. Parties(asked) = Parties(tickets[id])
  BY <1>5 DEF Parties
<1>8. SUFFICES TicketsFit' /\ IndexFits'
  <2>1. /\ DOMAIN tickets' = DOMAIN tickets
        /\ \A k \in DOMAIN tickets : IsOpen(k) \/ tickets'[k] = tickets[k]
    BY <1>2, <1>6 DEF SetTicket, Close
  <2>2. QED
    BY <1>1, <2>1, SourcesStay, OfferStays, VotesStay, IssuesStay DEF ReviewsInv, DeskInv
<1>9. CASE SetTicket(id, asked) /\ UNCHANGED byPlayer
  <2>1. id \in DOMAIN tickets /\ Fits(asked, votes'[id])
    BY <1>1, <1>2, <1>5 DEF IsOpen
  <2>2. byPlayer' \in [Guests -> Nat] /\ \A q \in Guests : byPlayer'[q] # 0 =>
               /\ byPlayer'[q] = byPlayer[q]
               /\ byPlayer[q] = id => asked.state # "closed" /\ q \in Parties(asked)
    BY <1>1, <1>5, <1>7, <1>9 DEF IndexFits
  <2>3. QED
    BY <1>1, <1>9, <2>1, <2>2, TicketChanges
<1>10. CASE SetTicket(id, voting) /\ UNCHANGED byPlayer
  <2>1. /\ Fits(voting, votes[id]) /\ voting.state # "closed"
        /\ voting.reporter = asked.reporter /\ voting.reviewers = asked.reviewers
    BY <1>5, DatedFits
  <2> HIDE DEF voting
  <2>2. Parties(voting) = Parties(tickets[id])
    BY <1>7, <2>1 DEF Parties
  <2>3. id \in DOMAIN tickets /\ Fits(voting, votes'[id])
    BY <1>1, <1>2, <2>1 DEF IsOpen
  <2>4. byPlayer' \in [Guests -> Nat] /\ \A q \in Guests : byPlayer'[q] # 0 =>
               /\ byPlayer'[q] = byPlayer[q]
               /\ byPlayer[q] = id => voting.state # "closed" /\ q \in Parties(voting)
    BY <1>1, <1>10, <2>1, <2>2 DEF IndexFits
  <2>5. QED
    BY <1>1, <1>10, <2>3, <2>4, TicketChanges
<1>11. CASE Close(id, asked, "dropped")
  <2>1. Fits(Closed(asked, "dropped"), votes'[id]) /\ id \in DOMAIN tickets
    BY <1>1, <1>2, <1>5, ClosedFits DEF IsOpen
  <2>2. SetTicket(id, Closed(asked, "dropped")) /\ byPlayer' = Unindexed(Parties(asked))
    BY <1>11 DEF Close
  <2>3. byPlayer' \in [Guests -> Nat]
        /\ \A q \in Guests : byPlayer'[q] # 0 => byPlayer'[q] = byPlayer[q] /\ byPlayer[q] # id
    BY <1>1, <1>7, <2>2, UnindexedFits DEF IndexFits
  <2>4. QED
    BY <1>1, <2>1, <2>2, <2>3, TicketChanges
<1>12. QED
  BY <1>6, <1>9, <1>10, <1>11

\* A reviewer votes, and the vote is saved or taken back.
LEMMA VoteFits ==
    ASSUME scene \in Scenes, UNCHANGED scene, ReviewsInv, DeskInv, UNCHANGED desk,
           NEW p \in Guests, Vote(p)
    PROVE  ReviewsInv' /\ DeskInv'
<1> DEFINE id == byPlayer[p]
<1>1. /\ TicketsFit /\ IndexFits /\ OfferFits /\ VotesFit /\ IssuesFit /\ SourcesFit
      /\ UNCHANGED <<holder, offer, issues>>
  BY DEF ReviewsInv, DeskInv, desk, Vote
<1>2. /\ IsOpen(id) /\ p \in DOMAIN tickets[id].reviewers /\ id \in DOMAIN votes
      /\ Fits(tickets[id], votes[id]) /\ id \in DOMAIN tickets /\ tickets[id].state # "closed"
  BY <1>1 DEF Vote, Reviewing, TicketsFit, IsOpen
<1>3. \/ \E verdict \in scene.verdicts :
            LET voted == [tickets[id] EXCEPT !.reviewers[p] = verdict] IN
            /\ votes' = [votes EXCEPT ![id] = SaveVote(@, p, verdict)]
            /\ IF VotingComplete(voted) THEN Close(id, voted, "todo")
               ELSE SetTicket(id, voted) /\ UNCHANGED byPlayer
      \/ /\ SetTicket(id, [tickets[id] EXCEPT !.reviewers[p] = Unsaved])
         /\ UNCHANGED <<votes, byPlayer>>
  BY DEF Vote
<1>4. SUFFICES /\ TicketsFit' /\ IndexFits' /\ DOMAIN tickets' = DOMAIN tickets
               /\ \A k \in DOMAIN tickets : IsOpen(k) \/ tickets'[k] = tickets[k]
  <2>1. ASSUME NEW verdict \in scene.verdicts,
               votes' = [votes EXCEPT ![id] = SaveVote(@, p, verdict)]
        PROVE  VotesFit'
    <3> DEFINE saved == SaveVote(votes[id], p, verdict)
               players == DOMAIN votes[id] \union {p}
    <3>1. votes[id] \in Rows /\ verdict \in Verdicts
      BY <1>1, <1>2, GuardiansAssumption DEF VotesFit, Verdicts
    <3>2. saved \in [players -> Verdicts] /\ players \in SUBSET Guests
      BY <3>1 DEF SaveVote, Rows
    <3> HIDE DEF saved, players
    <3>3. saved \in Rows
      BY <3>2 DEF Rows
    <3>4. votes' = [votes EXCEPT ![id] = saved]
      BY <2>1 DEF saved
    <3>5. votes' \in Seq(Rows)
      BY <1>1, <1>2, <3>3, <3>4 DEF VotesFit
    <3>6. QED
      BY <3>5 DEF VotesFit, Rows
  <2>2. VotesFit'
    BY <1>1, <1>3, <2>1, VotesStay
  <2>3. QED
    BY <1>1, <2>2, SourcesStay, OfferStays, IssuesStay DEF ReviewsInv, DeskInv
<1>5. CASE SetTicket(id, [tickets[id] EXCEPT !.reviewers[p] = Unsaved]) /\ UNCHANGED <<votes, byPlayer>>
  <2> DEFINE undone == [tickets[id] EXCEPT !.reviewers[p] = "accepted"]
  <2>1. "accepted" \in Answers /\ "accepted" \notin scene.verdicts
    BY GuardiansAssumption DEF Answers
  <2>2. /\ Fits(undone, votes[id]) /\ undone.state # "closed"
        /\ undone.reporter = tickets[id].reporter
        /\ DOMAIN undone.reviewers = DOMAIN tickets[id].reviewers
    BY <1>2, <2>1, AnsweredFits
  <2>3. SetTicket(id, undone)
    BY <1>5 DEF Unsaved
  <2> HIDE DEF undone
  <2>4. Parties(undone) = Parties(tickets[id])
    BY <2>2 DEF Parties
  <2>5. byPlayer' \in [Guests -> Nat] /\ \A q \in Guests : byPlayer'[q] # 0 =>
               /\ byPlayer'[q] = byPlayer[q]
               /\ byPlayer[q] = id => undone.state # "closed" /\ q \in Parties(undone)
    BY <1>1, <1>5, <2>2, <2>4 DEF IndexFits
  <2>6. TicketsFit' /\ IndexFits'
    BY <1>1, <1>2, <1>5, <2>2, <2>3, <2>5, TicketChanges
  <2>7. QED
    BY <1>2, <2>3, <2>6 DEF SetTicket
<1>6. ASSUME NEW verdict \in scene.verdicts,
             LET voted == [tickets[id] EXCEPT !.reviewers[p] = verdict] IN
             /\ votes' = [votes EXCEPT ![id] = SaveVote(@, p, verdict)]
             /\ \/ Close(id, voted, "todo")
                \/ SetTicket(id, voted) /\ UNCHANGED byPlayer
      PROVE  /\ TicketsFit' /\ IndexFits' /\ DOMAIN tickets' = DOMAIN tickets
             /\ \A k \in DOMAIN tickets : IsOpen(k) \/ tickets'[k] = tickets[k]
  <2> DEFINE voted == [tickets[id] EXCEPT !.reviewers[p] = verdict]
             saved == SaveVote(votes[id], p, verdict)
  <2>1. verdict \in Answers
    BY GuardiansAssumption DEF Answers, Verdicts
  <2>2. /\ p \in DOMAIN saved /\ saved[p] = verdict
        /\ \A g \in DOMAIN votes[id] \ {p} : g \in DOMAIN saved /\ saved[g] = votes[id][g]
    BY DEF SaveVote
  <2>3. votes' = [votes EXCEPT ![id] = saved]
    BY <1>6
  <2> HIDE DEF saved
  <2>4. /\ DOMAIN votes' = DOMAIN votes /\ votes'[id] = saved
        /\ \A k \in DOMAIN votes \ {id} : votes'[k] = votes[k]
    BY <1>2, <2>3
  <2>5. /\ Fits(voted, votes'[id]) /\ voted.state # "closed"
        /\ voted.reporter = tickets[id].reporter
        /\ DOMAIN voted.reviewers = DOMAIN tickets[id].reviewers
    BY <1>2, <2>1, <2>2, <2>4, AnsweredFits
  <2>6. Close(id, voted, "todo") \/ (SetTicket(id, voted) /\ UNCHANGED byPlayer)
    BY <1>6
  <2> HIDE DEF voted
  <2>7. Parties(voted) = Parties(tickets[id])
    BY <2>5 DEF Parties
  <2>8. CASE Close(id, voted, "todo")
    <3>1. Fits(Closed(voted, "todo"), votes'[id])
      BY <2>5, ClosedFits
    <3>2. SetTicket(id, Closed(voted, "todo")) /\ byPlayer' = Unindexed(Parties(voted))
      BY <2>8 DEF Close
    <3>3. byPlayer' \in [Guests -> Nat]
          /\ \A q \in Guests : byPlayer'[q] # 0 => byPlayer'[q] = byPlayer[q] /\ byPlayer[q] # id
      BY <1>1, <2>7, <3>2, UnindexedFits DEF IndexFits
    <3>4. TicketsFit' /\ IndexFits'
      BY <1>1, <1>2, <2>4, <3>1, <3>2, <3>3, TicketChanges
    <3>5. QED
      BY <1>2, <3>2, <3>4 DEF SetTicket
  <2>9. CASE SetTicket(id, voted) /\ UNCHANGED byPlayer
    <3>1. byPlayer' \in [Guests -> Nat] /\ \A q \in Guests : byPlayer'[q] # 0 =>
               /\ byPlayer'[q] = byPlayer[q]
               /\ byPlayer[q] = id => voted.state # "closed" /\ q \in Parties(voted)
      BY <1>1, <2>5, <2>7, <2>9 DEF IndexFits
    <3>2. TicketsFit' /\ IndexFits'
      BY <1>1, <1>2, <2>4, <2>5, <2>9, <3>1, TicketChanges
    <3>3. QED
      BY <1>2, <2>9, <3>2 DEF SetTicket
  <2>10. QED
    BY <2>6, <2>8, <2>9
<1>7. QED
  BY <1>3, <1>5, <1>6

\* A player leaves a review, by packet or after a disconnection.
LEMMA DetachFits ==
    ASSUME scene \in Scenes, UNCHANGED scene, ReviewsInv, DeskInv, UNCHANGED desk,
           NEW p \in Guests, Detach(p)
    PROVE  ReviewsInv' /\ DeskInv'
<1> DEFINE id == byPlayer[p]
           left == Left(tickets[id], p)
<1>1. /\ TicketsFit /\ IndexFits /\ OfferFits /\ VotesFit /\ IssuesFit /\ SourcesFit
      /\ UNCHANGED <<holder, offer, votes, issues>>
  BY DEF ReviewsInv, DeskInv, desk, Detach
<1>2. SUFFICES /\ TicketsFit' /\ IndexFits' /\ DOMAIN tickets' = DOMAIN tickets
               /\ \A k \in DOMAIN tickets : IsOpen(k) \/ tickets'[k] = tickets[k]
  BY <1>1, SourcesStay, OfferStays, VotesStay, IssuesStay DEF ReviewsInv, DeskInv
<1>3. CASE ~Reviewing(p)
  <2>1. UNCHANGED <<tickets, byPlayer>>
    BY <1>3 DEF Detach
  <2>2. TicketsFit'
    BY <1>1, <2>1, TicketsMoves, FitsMoves DEF TicketsFit
  <2>3. IndexFits'
    BY <1>1, <2>1 DEF IndexFits, IsOpen, Parties
  <2>4. QED
    BY <2>1, <2>2, <2>3
<1>4. CASE Reviewing(p)
  <2>1. /\ IsOpen(id) /\ id \in DOMAIN tickets /\ tickets[id].state # "closed"
        /\ Fits(tickets[id], votes[id])
    BY <1>1, <1>4 DEF Reviewing, TicketsFit, IsOpen
  <2>2. /\ Fits(left, votes'[id]) /\ left.state # "closed"
        /\ left.reporter = tickets[id].reporter
        /\ DOMAIN left.reviewers = DOMAIN tickets[id].reviewers \ {p}
    BY <1>1, <2>1, LeftFits
  <2>3. \/ /\ SetTicket(id, Closed(left, "todo"))
           /\ byPlayer' = Unindexed(Parties(left) \union {p})
        \/ SetTicket(id, left) /\ byPlayer' = Unindexed({p})
    BY <1>4 DEF Detach
  <2> HIDE DEF left
  <2>4. Parties(tickets[id]) \ {p} \subseteq Parties(left)
    BY <2>2 DEF Parties
  <2>5. CASE SetTicket(id, left) /\ byPlayer' = Unindexed({p})
    <3>1. byPlayer' \in [Guests -> Nat] /\ \A q \in Guests : byPlayer'[q] # 0 =>
               /\ byPlayer'[q] = byPlayer[q]
               /\ byPlayer[q] = id => left.state # "closed" /\ q \in Parties(left)
      BY <1>1, <2>2, <2>4, <2>5, UnindexedFits DEF IndexFits
    <3>2. TicketsFit' /\ IndexFits'
      BY <1>1, <2>1, <2>2, <2>5, <3>1, TicketChanges
    <3>3. QED
      BY <2>1, <2>5, <3>2 DEF SetTicket
  <2>6. CASE /\ SetTicket(id, Closed(left, "todo"))
             /\ byPlayer' = Unindexed(Parties(left) \union {p})
    <3>1. Fits(Closed(left, "todo"), votes'[id])
      BY <2>2, ClosedFits
    <3>2. byPlayer' \in [Guests -> Nat]
          /\ \A q \in Guests : byPlayer'[q] # 0 => byPlayer'[q] = byPlayer[q] /\ byPlayer[q] # id
      BY <1>1, <2>4, <2>6, UnindexedFits DEF IndexFits
    <3>3. TicketsFit' /\ IndexFits'
      BY <1>1, <2>1, <2>6, <3>1, <3>2, TicketChanges
    <3>4. QED
      BY <2>1, <2>6, <3>3 DEF SetTicket
  <2>7. QED
    BY <2>3, <2>5, <2>6
<1>5. QED
  BY <1>3, <1>4

\* Time passes for a review.
LEMMA DeadlineFits ==
    ASSUME scene \in Scenes, UNCHANGED scene, ReviewsInv, DeskInv, UNCHANGED desk,
           NEW id \in DOMAIN tickets, Deadline(id)
    PROVE  ReviewsInv' /\ DeskInv'
<1> DEFINE dated == [tickets[id] EXCEPT !.due = TRUE]
<1>1. /\ TicketsFit /\ IndexFits /\ OfferFits /\ VotesFit /\ IssuesFit /\ SourcesFit /\ IsOpen(id)
      /\ UNCHANGED <<holder, offer, votes, issues, byPlayer>> /\ Fits(tickets[id], votes[id])
  BY DEF ReviewsInv, DeskInv, desk, Deadline, TicketsFit
<1>2. /\ Fits(dated, votes'[id]) /\ dated.state # "closed"
      /\ dated.reporter = tickets[id].reporter /\ dated.reviewers = tickets[id].reviewers
  BY <1>1, DatedFits DEF IsOpen
<1>3. SetTicket(id, dated)
  BY DEF Deadline, SetTicket
<1> HIDE DEF dated
<1>4. byPlayer' \in [Guests -> Nat] /\ \A q \in Guests : byPlayer'[q] # 0 =>
           /\ byPlayer'[q] = byPlayer[q]
           /\ byPlayer[q] = id => dated.state # "closed" /\ q \in Parties(dated)
  BY <1>1, <1>2 DEF IndexFits, Parties
<1>5. TicketsFit' /\ IndexFits'
  BY <1>1, <1>2, <1>3, <1>4, TicketChanges
<1>6. /\ DOMAIN tickets' = DOMAIN tickets
      /\ \A k \in DOMAIN tickets : IsOpen(k) \/ tickets'[k] = tickets[k]
  BY <1>1, <1>3 DEF SetTicket
<1>7. QED
  BY <1>1, <1>5, <1>6, SourcesStay, OfferStays, VotesStay, IssuesStay DEF ReviewsInv, DeskInv

\* The ticker closes what is due.
LEMMA TickFits ==
    ASSUME scene \in Scenes, UNCHANGED scene, ReviewsInv, DeskInv, UNCHANGED desk, TickReviews
    PROVE  ReviewsInv' /\ DeskInv'
<1>1. /\ TicketsFit /\ IndexFits /\ OfferFits /\ VotesFit /\ IssuesFit /\ SourcesFit
      /\ UNCHANGED <<holder, offer, votes, issues>> /\ byPlayer' = Unindexed(Expired(Due))
      /\ tickets' = [id \in DOMAIN tickets |->
                       IF id \in Due THEN Closed(tickets[id], "todo") ELSE tickets[id]]
  BY DEF ReviewsInv, DeskInv, desk, TickReviews
<1>2. /\ DOMAIN tickets' = DOMAIN tickets /\ tickets' = [k \in DOMAIN tickets |-> tickets'[k]]
      /\ \A k \in DOMAIN tickets :
           tickets'[k] = IF k \in Due THEN Closed(tickets[k], "todo") ELSE tickets[k]
  BY <1>1
<1>3. \A k \in DOMAIN tickets : Fits(tickets'[k], votes'[k])
  <2>1. \A k \in DOMAIN tickets : Fits(tickets[k], votes[k])
    BY <1>1 DEF TicketsFit
  <2>2. \A k \in Due : tickets[k].state # "closed"
    BY DEF Due, IsOpen
  <2>3. QED
    BY <1>1, <1>2, <2>1, <2>2, ClosedFits
<1>4. ASSUME NEW q \in Guests, byPlayer'[q] # 0
      PROVE  /\ byPlayer'[q] = byPlayer[q]
             /\ tickets'[byPlayer[q]].state # "closed" /\ q \in Parties(tickets'[byPlayer[q]])
  <2>1. byPlayer'[q] = byPlayer[q] /\ q \notin Expired(Due)
    BY <1>1, <1>4, UnindexedFits
  <2>2. IsOpen(byPlayer[q]) /\ q \in Parties(tickets[byPlayer[q]])
    BY <1>1, <1>4, <2>1 DEF IndexFits
  <2>3. byPlayer[q] \notin Due /\ byPlayer[q] \in DOMAIN tickets
    BY <2>1, <2>2 DEF Expired, IsOpen
  <2>4. QED
    BY <1>2, <2>1, <2>2, <2>3 DEF IsOpen
<1>5. byPlayer' \in [Guests -> Nat]
  BY <1>1, UnindexedFits
<1>6. TicketsFit' /\ IndexFits'
  BY <1>1, <1>2, <1>3, <1>4, <1>5, TicketsChange
<1>7. \A k \in DOMAIN tickets : IsOpen(k) \/ tickets'[k] = tickets[k]
  BY <1>2 DEF Due
<1>8. QED
  BY <1>1, <1>2, <1>6, <1>7, SourcesStay, OfferStays, VotesStay, IssuesStay DEF ReviewsInv, DeskInv

\* Whoever calls for a review has found others for it.
LEMMA FindFits ==
    ASSUME GuideTypes, ReviewsInv, DeskInv, UNCHANGED <<scene, desk>>,
           NEW p \in Guests, FindReviewers(p)
    PROVE  ReviewsInv' /\ DeskInv'
<1>1. /\ TicketsFit /\ IndexFits /\ OfferFits /\ VotesFit /\ IssuesFit /\ SourcesFit
      /\ UNCHANGED <<tickets, byPlayer, votes, issues>> /\ holder' = p
  BY DEF ReviewsInv, DeskInv, desk, FindReviewers
<1>2. PICK reported \in scene.reported, excluded \in SUBSET Guests :
        offer' = [by |-> {since[i] : i \in Oldest(scene.count, Candidates(p, reported, excluded))},
                  reported |-> reported]
  BY DEF FindReviewers
<1>3. \A i \in Candidates(p, reported, excluded) :
        since[i] \in Guests /\ since[i] # reported /\ since[i] # p
  BY DEF Candidates, Shortlist, Oldest, IdleHelpers, GuideTypes
<1>4. /\ offer'.by \subseteq Guests /\ offer'.reported = reported
      /\ p \notin offer'.by /\ reported \notin offer'.by
  BY <1>2, <1>3 DEF Oldest
<1>5. OfferFits'
  BY <1>1, <1>4 DEF OfferFits
<1>6. TicketsFit'
  BY <1>1, TicketsMoves, FitsMoves DEF TicketsFit
<1>7. IndexFits'
  BY <1>1 DEF IndexFits, IsOpen, Parties
<1>8. QED
  BY <1>1, <1>5, <1>6, <1>7, SourcesStay, VotesStay, IssuesStay DEF ReviewsInv, DeskInv

\* The review is opened, unless its row could not be inserted.
LEMMA OpenFits ==
    ASSUME scene \in Scenes, UNCHANGED <<scene, desk>>, ReviewsInv, DeskInv, OpenTicket
    PROVE  ReviewsInv' /\ DeskInv'
<1>1. /\ TicketsFit /\ IndexFits /\ OfferFits /\ VotesFit /\ IssuesFit /\ SourcesFit
      /\ UNCHANGED issues /\ holder # Nobody /\ holder' = Nobody
  BY DEF ReviewsInv, DeskInv, desk, OpenTicket, Unlocked
<1>2. OfferFits'
  BY <1>1 DEF OfferFits
<1>3. CASE UNCHANGED <<tickets, byPlayer, votes>>
  <2>1. TicketsFit'
    BY <1>1, <1>3, TicketsMoves, FitsMoves DEF TicketsFit
  <2>2. IndexFits'
    BY <1>1, <1>3 DEF IndexFits, IsOpen, Parties
  <2>3. QED
    BY <1>1, <1>2, <1>3, <2>1, <2>2, SourcesStay, VotesStay, IssuesStay DEF ReviewsInv, DeskInv
<1> DEFINE id == Len(tickets) + 1
           asked == [g \in offer.by |-> "asked"]
           ticket == [reporter |-> holder, reported |-> offer.reported, state |-> "offered",
                      due |-> FALSE, reviewers |-> asked,
                      result |-> "none", outcome |-> "none", escalated |-> 0]
<1>4. CASE /\ tickets' = Append(tickets, ticket)
           /\ byPlayer' = [p \in Guests |-> IF p \in offer.by \union {holder} THEN id ELSE byPlayer[p]]
           /\ votes' = Append(votes, <<>>)
  <2>1. /\ holder \in Guests /\ offer.by \subseteq Guests /\ offer.reported \in scene.reported
        /\ holder \notin offer.by /\ offer.reported \notin offer.by
    BY <1>1 DEF OfferFits
  <2>2. /\ asked \in [offer.by -> Answers] /\ DOMAIN asked = offer.by
        /\ \A g \in offer.by : asked[g] = "asked"
    BY DEF Answers
  <2> HIDE DEF asked
  <2>3. /\ ticket.reporter = holder /\ ticket.reported = offer.reported /\ ticket.state = "offered"
        /\ ticket.reviewers = asked /\ ticket.outcome = "none" /\ ticket.escalated = 0
    OBVIOUS
  <2>4. ticket \in Tickets
    BY <2>1, <2>2 DEF Tickets
  <2> HIDE DEF ticket
  <2>5. Of(ticket, scene.verdicts) = {}
    BY <2>2, <2>3, GuardiansAssumption DEF Of
  <2>6. Fits(ticket, <<>>)
    BY <2>1, <2>2, <2>3, <2>4, <2>5 DEF Fits
  <2>7. /\ tickets \in Seq(Tickets) /\ votes \in Seq(Rows) /\ Len(tickets) \in Nat
        /\ Len(votes) = Len(tickets) /\ id \in Nat \ {0}
    BY <1>1 DEF TicketsFit, VotesFit
  <2>8. <<>> \in Rows
    <3>1. <<>> \in [{} -> Verdicts]
      OBVIOUS
    <3>2. QED
      BY <3>1 DEF Rows
  <2>9. /\ tickets' \in Seq(Tickets) /\ Len(tickets') = id /\ tickets'[id] = ticket
        /\ \A k \in 1 .. Len(tickets) : tickets'[k] = tickets[k]
    BY <1>4, <2>4, <2>7
  <2>10. /\ votes' \in Seq(Rows) /\ Len(votes') = id /\ votes'[id] = <<>>
         /\ \A k \in 1 .. Len(tickets) : votes'[k] = votes[k]
    BY <1>4, <2>7, <2>8
  <2>11. /\ DOMAIN tickets' = 1 .. id /\ DOMAIN tickets = 1 .. Len(tickets)
         /\ 1 .. id = (1 .. Len(tickets)) \union {id} /\ DOMAIN votes' = 1 .. id
    BY <2>7, <2>9, <2>10
  <2>12. TicketsFit'
    <3>1. \A k \in 1 .. Len(tickets) : Fits(tickets[k], votes[k])
      BY <1>1, <2>11 DEF TicketsFit
    <3>2. \A k \in 1 .. id : Fits(tickets'[k], votes'[k])
      BY <2>6, <2>9, <2>10, <2>11, <3>1
    <3>3. Tickets' = Tickets /\ \A k \in DOMAIN tickets' : Fits(tickets[k], votes[k])'
      BY <2>11, <3>2, TicketsMoves, FitsMoves
    <3>4. QED
      BY <2>9, <2>11, <3>3 DEF TicketsFit
  <2>13. IndexFits'
    <3>1. byPlayer' \in [Guests -> Nat]
      BY <1>1, <1>4, <2>7 DEF IndexFits
    <3>2. ASSUME NEW q \in Guests, byPlayer'[q] # 0
          PROVE  /\ byPlayer'[q] \in DOMAIN tickets' /\ tickets'[byPlayer'[q]].state # "closed"
                 /\ \/ q \in DOMAIN tickets'[byPlayer'[q]].reviewers
                    \/ q = tickets'[byPlayer'[q]].reporter
      <4>1. CASE q \in offer.by \union {holder}
        <5>1. byPlayer'[q] = id
          BY <1>4, <4>1
        <5>2. QED
          BY <2>2, <2>3, <2>9, <2>11, <4>1, <5>1
      <4>2. CASE q \notin offer.by \union {holder}
        <5>1. byPlayer'[q] = byPlayer[q]
          BY <1>4, <4>2
        <5>2. QED
          BY <1>1, <2>9, <2>11, <3>2, <5>1 DEF IndexFits, IsOpen, Parties
      <4>3. QED
        BY <4>1, <4>2
    <3>3. QED
      BY <3>1, <3>2 DEF IndexFits, IsOpen, Parties
  <2>14. VotesFit'
    BY <2>10 DEF VotesFit, Rows
  <2>15. SourcesFit'
    <3>1. DOMAIN tickets \subseteq DOMAIN tickets' /\ \A k \in DOMAIN tickets : tickets'[k] = tickets[k]
      BY <2>9, <2>11
    <3>2. QED
      BY <1>1, <3>1, SourcesStay
  <2>16. QED
    BY <1>1, <1>2, <2>12, <2>13, <2>14, <2>15, IssuesStay DEF ReviewsInv, DeskInv
<1>5. QED
  BY <1>3, <1>4 DEF OpenTicket

-----------------------------------------------------------------------------
(***************************************************************************)
(* What a verdict leads to.                                                *)
(***************************************************************************)
\* An issue that is filed is nobody's yet.
LEMMA FiledFits ==
    ASSUME IssuesFit, UNCHANGED staff, NEW n \in Nat, NEW p \in Guests,
           issues' = Append(issues, Issue(n, p))
    PROVE  /\ IssuesFit' /\ DOMAIN issues' = DOMAIN issues \union {Len(issues) + 1}
           /\ \A i \in DOMAIN issues : issues'[i] = issues[i]
           /\ issues'[Len(issues) + 1].ticket = n
<1> DEFINE id == Len(issues) + 1
           filed == Issue(n, p)
<1>1. /\ filed \in Issues /\ filed.escalated = 0 /\ filed.ticket = n
  BY DEF Issue, Issues
<1> HIDE DEF filed
<1>2. issues \in Seq(Issues) /\ DOMAIN issues = 1 .. Len(issues) /\ Len(issues) \in Nat
  BY DEF IssuesFit
<1>3. /\ issues' \in Seq(Issues) /\ Len(issues') = id /\ issues'[id] = filed
      /\ \A i \in 1 .. Len(issues) : issues'[i] = issues[i]
  <2>1. issues' = Append(issues, filed)
    BY DEF filed
  <2>2. QED
    BY <1>1, <1>2, <2>1
<1>4. DOMAIN issues' = DOMAIN issues \union {id}
  BY <1>2, <1>3
<1>5. \A i \in DOMAIN issues : issues'[i] = issues[i]
  BY <1>2, <1>3
<1>6. IssuesFit'
  BY <1>1, <1>3, <1>4, <1>5 DEF IssuesFit, Issues
<1>7. QED
  BY <1>1, <1>3, <1>4, <1>5, <1>6

\* A closed review is finished, and a mixed one becomes an issue.
LEMMA FinishFits ==
    ASSUME scene \in Scenes, UNCHANGED scene, ReviewsInv, DeskInv,
           NEW id \in DOMAIN tickets, FinishReview(id)
    PROVE  ReviewsInv' /\ DeskInv'
<1> DEFINE done == [tickets[id] EXCEPT !.outcome = "done"]
           punished == [tickets[id] EXCEPT !.outcome = "done", !.escalated = @ + 1]
<1>1. /\ TicketsFit /\ IndexFits /\ OfferFits /\ VotesFit /\ IssuesFit /\ SourcesFit
      /\ UNCHANGED <<holder, offer, votes, byPlayer, staff>> /\ tickets[id].outcome = "todo"
  BY DEF ReviewsInv, DeskInv, FinishReview
<1>2. Fits(tickets[id], votes'[id]) /\ tickets[id] \in Tickets
  BY <1>1 DEF TicketsFit, Fits
<1>3. /\ Fits(done, votes'[id]) /\ done.outcome = "done" /\ done.state = "closed" /\ done.escalated = 0
      /\ tickets[id].result \in {"bad", "horrible"} => Fits(punished, votes'[id])
  BY <1>1, <1>2, FinishedFits
<1>4. \/ tickets[id].result \in {"bad", "horrible"} /\ SetTicket(id, punished) /\ UNCHANGED issues
      \/ SetTicket(id, done) /\ issues' = Append(issues, Issue(id, tickets[id].reporter))
      \/ SetTicket(id, done) /\ UNCHANGED issues
  BY DEF FinishReview
<1> HIDE DEF done, punished
<1>5. ~IsOpen(id)
  BY <1>1, <1>2 DEF Fits, IsOpen
<1>6. byPlayer' \in [Guests -> Nat] /\ \A q \in Guests : byPlayer'[q] # 0 =>
               /\ byPlayer'[q] = byPlayer[q] /\ byPlayer[q] # id
  BY <1>1, <1>5 DEF IndexFits
<1>7. PICK t : SetTicket(id, t) /\ Fits(t, votes'[id]) /\ t \in {done, punished}
  BY <1>3, <1>4
<1>8. TicketsFit' /\ IndexFits'
  BY <1>1, <1>6, <1>7, TicketChanges
<1>9. OfferFits' /\ VotesFit'
  BY <1>1, OfferStays, VotesStay
<1>10. /\ DOMAIN tickets' = DOMAIN tickets /\ tickets'[id] = t
       /\ \A k \in DOMAIN tickets \ {id} : tickets'[k] = tickets[k]
  BY <1>7 DEF SetTicket
<1>11. \A i \in DOMAIN issues : issues[i].ticket # 0 =>
          /\ issues[i].ticket \in DOMAIN tickets'
          /\ tickets'[issues[i].ticket].outcome = "done" /\ tickets'[issues[i].ticket].escalated = 0
  BY <1>1, <1>10 DEF SourcesFit
<1>12. SUFFICES IssuesFit' /\ SourcesFit'
  BY <1>8, <1>9 DEF ReviewsInv, DeskInv
<1>13. CASE UNCHANGED issues
  <2>1. IssuesFit'
    BY <1>1, <1>13, IssuesStay DEF desk
  <2>2. SourcesFit'
    BY <1>11, <1>13 DEF SourcesFit
  <2>3. QED
    BY <2>1, <2>2
<1>14. CASE SetTicket(id, done) /\ issues' = Append(issues, Issue(id, tickets[id].reporter))
  <2>1. tickets'[id] = done
    BY <1>14 DEF SetTicket
  <2>2. id \in Nat \ {0} /\ tickets[id].reporter \in Guests
    BY <1>1, <1>2 DEF TicketsFit, Tickets
  <2>3. /\ IssuesFit' /\ DOMAIN issues' = DOMAIN issues \union {Len(issues) + 1}
        /\ \A i \in DOMAIN issues : issues'[i] = issues[i]
        /\ issues'[Len(issues) + 1].ticket = id
    BY <1>1, <1>14, <2>2, FiledFits
  <2>4. SourcesFit'
    BY <1>3, <1>10, <1>11, <2>1, <2>3 DEF SourcesFit
  <2>5. QED
    BY <2>3, <2>4
<1>15. QED
  BY <1>4, <1>13, <1>14

\* Issues change state, which says nothing of where they come from.
LEMMA SourcesKept ==
    ASSUME SourcesFit, UNCHANGED tickets, DOMAIN issues' = DOMAIN issues,
           \A i \in DOMAIN issues : issues'[i].ticket = issues[i].ticket
    PROVE  SourcesFit'
  BY DEF SourcesFit

\* What a moderator does to one issue that nobody is about to escalate.
LEMMA IssueChanges ==
    ASSUME DeskInv, UNCHANGED tickets, NEW i \in DOMAIN issues,
           issues[i].state \in {"open", "picked"},
           NEW issue \in Issues, issues' = [issues EXCEPT ![i] = issue],
           issue.ticket = issues[i].ticket, issue.escalated = issues[i].escalated,
           \/ UNCHANGED staff
           \/ /\ issue.state = "resolved"
              /\ \E m \in Staff : staff' = [staff EXCEPT ![m] = i]
    PROVE  DeskInv'
<1>1. IssuesFit /\ SourcesFit
  BY DEF DeskInv
<1>2. /\ issues \in Seq(Issues) /\ issues[i].escalated = 0 /\ \A m \in Staff : staff[m] # i \/ i = 0
  BY <1>1 DEF IssuesFit, Issues
<1>3. /\ issues' \in Seq(Issues) /\ DOMAIN issues' = DOMAIN issues /\ issues'[i] = issue
      /\ \A k \in DOMAIN issues \ {i} : issues'[k] = issues[k] /\ i # 0
  BY <1>2
<1>4. SourcesFit'
  BY <1>1, <1>3, SourcesKept
<1>5. CASE UNCHANGED staff
  <2>1. IssuesFit'
    BY <1>1, <1>2, <1>3, <1>5 DEF IssuesFit, Issues
  <2>2. QED
    BY <1>4, <2>1 DEF DeskInv
<1>6. ASSUME NEW m \in Staff, staff' = [staff EXCEPT ![m] = i], issue.state = "resolved"
      PROVE  DeskInv'
  <2>1. /\ staff' \in [Staff -> Nat] /\ staff'[m] = i
        /\ \A k \in Staff \ {m} : staff'[k] = staff[k] /\ staff[k] # i
    BY <1>1, <1>2, <1>3, <1>6 DEF IssuesFit
  <2>2. \A k \in Staff : staff'[k] # 0 =>
          /\ staff'[k] \in DOMAIN issues'
          /\ issues'[staff'[k]].state = "resolved" /\ issues'[staff'[k]].escalated = 0
          /\ \A l \in Staff : staff'[l] = staff'[k] => l = k
    BY <1>1, <1>2, <1>3, <1>6, <2>1 DEF IssuesFit
  <2>3. \A k \in DOMAIN issues' : issues'[k].escalated # 0 => issues'[k].state = "resolved"
    BY <1>1, <1>2, <1>3 DEF IssuesFit
  <2>4. Issues' = Issues
    BY DEF Issues
  <2>5. IssuesFit'
    BY <1>3, <2>1, <2>2, <2>3, <2>4 DEF IssuesFit
  <2>6. QED
    BY <1>4, <2>5 DEF DeskInv
<1>7. QED
  BY <1>5, <1>6

\* The queue of issues, by whoever works on it.
LEMMA QueueingFits == ASSUME ModerationInv, Queueing PROVE DeskInv'
<1>1. IssuesFit /\ SourcesFit /\ DeskInv /\ UNCHANGED tickets
  BY DEF ModerationInv, DeskInv, Queueing, reviews
<1>2. ASSUME NEW p \in Guests, Report(p) PROVE DeskInv'
  <2>1. /\ issues' = Append(issues, Issue(0, p)) /\ UNCHANGED staff
    BY <1>2 DEF Report
  <2>2. /\ IssuesFit' /\ DOMAIN issues' = DOMAIN issues \union {Len(issues) + 1}
        /\ \A i \in DOMAIN issues : issues'[i] = issues[i]
        /\ issues'[Len(issues) + 1].ticket = 0
    BY <1>1, <2>1, FiledFits
  <2>3. SourcesFit'
    BY <1>1, <2>2 DEF SourcesFit
  <2>4. QED
    BY <2>2, <2>3 DEF DeskInv
<1>3. ASSUME NEW p \in Guests, DeletePending(p) PROVE DeskInv'
  <2> DEFINE pending == {i \in DOMAIN issues : issues[i].reporter = p
               /\ issues[i].state \in {"open", "picked"}}
  <2>1. /\ UNCHANGED staff /\ DOMAIN issues' = DOMAIN issues
        /\ issues' = [i \in DOMAIN issues |-> issues'[i]]
        /\ \A i \in DOMAIN issues :
             issues'[i] = IF i \in pending THEN [issues[i] EXCEPT !.state = "deleted"] ELSE issues[i]
    BY <1>3 DEF DeletePending
  <2>2. ASSUME NEW i \in DOMAIN issues
        PROVE  /\ issues'[i] \in Issues /\ issues'[i].ticket = issues[i].ticket
               /\ issues'[i].escalated = issues[i].escalated
               /\ i \notin pending => issues'[i] = issues[i]
    <3>1. issues[i] \in Issues
      BY <1>1 DEF IssuesFit
    <3>2. QED
      BY <2>1, <3>1 DEF Issues
  <2>3. \A i \in pending : issues[i].escalated = 0 /\ i \in DOMAIN issues
          /\ \A m \in Staff : staff[m] = i => i = 0
    BY <1>1 DEF IssuesFit, Issues
  <2> HIDE DEF pending
  <2>4. issues' \in Seq(Issues)
    <3>1. PICK n \in Nat : DOMAIN issues = 1 .. n
      BY <1>1 DEF IssuesFit
    <3>2. issues' \in [1 .. n -> Issues]
      BY <2>1, <2>2, <3>1
    <3>3. QED
      BY <3>2, SeqDef
  <2>5. Issues' = Issues
    BY DEF Issues
  <2>6. IssuesFit'
    BY <1>1, <2>1, <2>2, <2>3, <2>4, <2>5 DEF IssuesFit
  <2>7. SourcesFit'
    BY <1>1, <2>1, <2>2, SourcesKept
  <2>8. QED
    BY <2>6, <2>7 DEF DeskInv
<1>4. ASSUME NEW m \in Staff, EscalateIssue(m) PROVE DeskInv'
  <2> DEFINE i == staff[m]
             n == issues[i].escalated + 1
             issue == [issues[i] EXCEPT !.escalated = n]
  <2>1. /\ i # 0 /\ i \in DOMAIN issues /\ issues[i] \in Issues
        /\ issues[i].state = "resolved" /\ issues[i].escalated = 0
        /\ \A k \in Staff : staff[k] = i => k = m
    BY <1>1, <1>4 DEF EscalateIssue, IssuesFit
  <2>2. n \in 0 .. 1
    BY <2>1
  <2> HIDE DEF n
  <2>3. issue \in Issues /\ issue.state = "resolved" /\ issue.ticket = issues[i].ticket
    BY <2>1, <2>2 DEF Issues
  <2>4. staff' = [staff EXCEPT ![m] = 0] /\ (issues' = [issues EXCEPT ![i] = issue] \/ UNCHANGED issues)
    BY <1>4 DEF EscalateIssue, n
  <2> HIDE DEF issue
  <2>5. staff' \in [Staff -> Nat] /\ \A k \in Staff : staff'[k] # 0
          => staff'[k] = staff[k] /\ staff[k] # i
    BY <1>1, <2>1, <2>4 DEF IssuesFit
  <2>6. /\ issues' \in Seq(Issues) /\ DOMAIN issues' = DOMAIN issues
        /\ \A k \in DOMAIN issues \ {i} : issues'[k] = issues[k]
        /\ issues'[i].state = "resolved" /\ issues'[i].ticket = issues[i].ticket
    BY <1>1, <2>1, <2>3, <2>4 DEF IssuesFit
  <2>7. Issues' = Issues
    BY DEF Issues
  <2>8. \A k \in Staff : staff'[k] # 0 =>
          /\ staff'[k] \in DOMAIN issues'
          /\ issues'[staff'[k]].state = "resolved" /\ issues'[staff'[k]].escalated = 0
          /\ \A l \in Staff : staff'[l] = staff'[k] => l = k
    BY <1>1, <2>5, <2>6 DEF IssuesFit
  <2>9. IssuesFit'
    BY <1>1, <2>5, <2>6, <2>7, <2>8 DEF IssuesFit
  <2>10. SourcesFit'
    BY <1>1, <2>6, SourcesKept
  <2>11. QED
    BY <2>9, <2>10 DEF DeskInv
<1>5. ASSUME NEW m \in Staff, NEW i \in DOMAIN issues,
             PickIssue(m, i) \/ ReleaseIssue(m, i) \/ CloseIssue(m, i)
      PROVE  DeskInv'
  <2> DEFINE picked == [issues[i] EXCEPT !.state = "picked", !.picker = m]
             released == [issues[i] EXCEPT !.state = "open", !.picker = Nobody]
             closed == [issues[i] EXCEPT !.state = "resolved"]
  <2>1. issues[i] \in Issues /\ issues[i].state \in {"open", "picked"}
    BY <1>1, <1>5 DEF IssuesFit, PickIssue, ReleaseIssue, CloseIssue, Closable
  <2>2. \A issue \in {picked, released, closed} :
          issue \in Issues /\ issue.ticket = issues[i].ticket /\ issue.escalated = issues[i].escalated
    BY <2>1 DEF Issues
  <2>3. closed.state = "resolved"
    BY <2>1 DEF Issues
  <2>4. \/ UNCHANGED staff
             /\ \E issue \in {picked, released, closed} : issues' = [issues EXCEPT ![i] = issue]
        \/ (\E k \in Staff : staff' = [staff EXCEPT ![k] = i])
             /\ issues' = [issues EXCEPT ![i] = closed]
    BY <1>5 DEF PickIssue, ReleaseIssue, CloseIssue
  <2> HIDE DEF picked, released, closed
  <2>5. CASE UNCHANGED staff
               /\ \E issue \in {picked, released, closed} : issues' = [issues EXCEPT ![i] = issue]
    BY <1>1, <2>1, <2>2, <2>5, IssueChanges
  <2>6. CASE (\E k \in Staff : staff' = [staff EXCEPT ![k] = i])
               /\ issues' = [issues EXCEPT ![i] = closed]
    BY <1>1, <2>1, <2>2, <2>3, <2>6, IssueChanges
  <2>7. QED
    BY <2>4, <2>5, <2>6
<1>6. QED
  BY <1>2, <1>3, <1>4, <1>5 DEF Queueing

\* Reviews and issues do not change while others act.
LEMMA CasesStay ==
    ASSUME ReviewsInv, DeskInv, UNCHANGED <<scene, reviews, desk>>
    PROVE  ReviewsInv' /\ DeskInv'
<1>1. /\ TicketsFit /\ IndexFits /\ OfferFits /\ VotesFit /\ IssuesFit /\ SourcesFit
      /\ UNCHANGED <<holder, offer, tickets, byPlayer, votes, issues>>
  BY DEF ReviewsInv, DeskInv, desk, reviews
<1>2. TicketsFit'
  BY <1>1, TicketsMoves, FitsMoves DEF TicketsFit
<1>3. IndexFits'
  BY <1>1 DEF IndexFits, IsOpen, Parties
<1>4. QED
  BY <1>1, <1>2, <1>3, SourcesStay, OfferStays, VotesStay, IssuesStay DEF ReviewsInv, DeskInv

\* There are no reviews and no issues at first.
LEMMA CasesInitFit == GuardiansInit => ReviewsInv /\ DeskInv
<1>1. SUFFICES ASSUME GuardiansInit PROVE ReviewsInv /\ DeskInv
  OBVIOUS
<1>2. /\ holder = Nobody /\ tickets = <<>> /\ votes = <<>> /\ issues = <<>>
      /\ byPlayer = [p \in Guests |-> 0] /\ staff = [m \in Staff |-> 0]
      /\ DOMAIN tickets = {} /\ DOMAIN votes = {} /\ DOMAIN issues = {}
  BY <1>1 DEF GuardiansInit
<1>3. TicketsFit /\ VotesFit /\ SourcesFit
  BY <1>2 DEF TicketsFit, VotesFit, SourcesFit
<1>4. IndexFits /\ OfferFits /\ IssuesFit
  BY <1>2 DEF IndexFits, OfferFits, IssuesFit
<1>5. QED
  BY <1>3, <1>4 DEF ReviewsInv, DeskInv

\* Every step keeps conversations, reviews and issues in order.
LEMMA ModerationNextFits == ASSUME ModerationInv, [GuardiansNext]_moderation PROVE ModerationInv'
<1>1. /\ GuidesInv' /\ GuidesInv /\ ReviewsInv /\ DeskInv /\ scene \in Scenes /\ GuideTypes
  BY GuidesNextFits DEF ModerationInv, GuidesInv, GuideTypes
<1>2. SUFFICES ReviewsInv' /\ DeskInv'
  BY <1>1 DEF ModerationInv
<1>3. CASE UNCHANGED moderation
  BY <1>1, <1>3, CasesStay DEF moderation, presence
<1>4. ASSUME GuardiansNext PROVE ReviewsInv' /\ DeskInv'
  <2>1. UNCHANGED scene
    BY <1>4 DEF GuardiansNext
  <2>2. CASE SessionSteps
    <3>1. PICK p \in Guests :
            \/ UNCHANGED <<reviews, desk>>
            \/ DisconnectedGuardian(p) /\ UNCHANGED <<guides, desk>>
      BY <2>2 DEF SessionSteps
    <3>2. CASE UNCHANGED <<reviews, desk>>
      BY <1>1, <2>1, <3>2, CasesStay
    <3>3. CASE DisconnectedGuardian(p) /\ UNCHANGED <<guides, desk>>
      BY <1>1, <2>1, <3>3, DetachFits DEF DisconnectedGuardian
    <3>4. QED
      BY <3>1, <3>2, <3>3
  <2>3. CASE Talking
    BY <1>1, <2>1, <2>3, CasesStay DEF Talking
  <2>4. CASE \E p \in Guests : ReviewBy(p)
    BY <1>1, <2>1, <2>4, FindFits, DecideFits, VoteFits, DetachFits DEF ReviewBy
  <2>5. CASE Ticker
    BY <1>1, <2>1, <2>5, TickFits, OpenFits, DeadlineFits DEF Ticker
  <2>6. CASE Queueing
    <3>1. DeskInv'
      BY <2>6, QueueingFits
    <3>2. UNCHANGED <<holder, offer, tickets, byPlayer, votes>>
      BY <2>6 DEF Queueing, reviews
    <3>3. TicketsFit' /\ IndexFits'
      <4>1. TicketsFit /\ IndexFits
        BY <1>1 DEF ReviewsInv
      <4>2. TicketsFit'
        BY <2>1, <3>2, <4>1, TicketsMoves, FitsMoves DEF TicketsFit
      <4>3. QED
        BY <3>2, <4>1, <4>2 DEF IndexFits, IsOpen, Parties
    <3>4. QED
      BY <1>1, <2>1, <3>1, <3>2, <3>3, OfferStays, VotesStay DEF ReviewsInv
  <2>7. CASE Finishing
    BY <1>1, <2>1, <2>7, FinishFits DEF Finishing
  <2>8. QED
    BY <1>4, <2>2, <2>3, <2>4, <2>5, <2>6, <2>7 DEF GuardiansNext
<1>5. QED
  BY <1>3, <1>4

\* The invariant is inductive.
THEOREM ModerationInductive == ReviewSpec => []ModerationInv
<1>1. GuardiansInit => ModerationInv
  BY GuidesInitFits, CasesInitFit DEF GuardiansInit, ModerationInv
<1>2. QED
  BY <1>1, ModerationNextFits, PTL DEF ReviewSpec

\* An index entry leads to an open ticket, whoever leaves a review and in whatever
\* order, and whatever the ticker closes: nobody is kept out of later reviews by one
\* that is over.
THEOREM NobodyIsKeptOut == ReviewSpec => []IndexLeadsToOpen
<1>1. ModerationInv => IndexLeadsToOpen
  BY DEF ModerationInv, ReviewsInv, IndexFits, IndexLeadsToOpen
<1>2. QED
  BY <1>1, ModerationInductive, PTL

\* Neither the reporter nor the reported player votes, every vote that counts is in
\* the database, and a punished player had the strict majority of the votes against
\* them, whatever reviewers accept, decline or leave.
THEOREM OthersJudge == ReviewSpec => []JudgedByOthers
<1>1. ASSUME ModerationInv, NEW id \in DOMAIN tickets, tickets[id].escalated > 0
      PROVE  2 * Cardinality(Of(tickets[id], {tickets[id].result}))
               > Cardinality(Of(tickets[id], scene.verdicts))
  <2> DEFINE n == Cardinality(Of(tickets[id], {tickets[id].result}))
             total == Cardinality(Of(tickets[id], scene.verdicts))
  <2>1. /\ scene \in Scenes /\ tickets[id] \in Tickets /\ tickets[id].result = Result(tickets[id])
        /\ tickets[id].result # "mixed"
    <3>1. scene \in Scenes /\ Fits(tickets[id], votes[id])
      BY <1>1 DEF ModerationInv, GuidesInv, GuideTypes, ReviewsInv, TicketsFit
    <3>2. tickets[id] \in Tickets /\ tickets[id].escalated # 0
      BY <1>1, <3>1 DEF Fits
    <3>3. QED
      BY <3>1, <3>2 DEF Fits
  <2>2. Majority(n, total)
    BY <2>1, ResultIs
  <2>3. IsFiniteSet(DOMAIN tickets[id].reviewers)
    BY <2>1, ReviewersType, GuidesAssumption, FS_Subset
  <2>4. n \in Nat /\ total \in Nat
    <3>1. \A statuses : Of(tickets[id], statuses) \subseteq DOMAIN tickets[id].reviewers
      BY DEF Of
    <3>2. QED
      BY <2>3, <3>1, FS_Subset, FS_CardinalityType
  <2> HIDE DEF n, total
  <2>5. n > total \div 2
    BY <2>2 DEF Majority
  <2>6. 2 * n > total
    BY <2>4, <2>5
  <2>7. QED
    BY <2>6 DEF n, total
<1>2. ASSUME ModerationInv PROVE JudgedByOthers
  <2>1. \A id \in DOMAIN tickets : Fits(tickets[id], votes[id])
    BY <1>2 DEF ModerationInv, ReviewsInv, TicketsFit
  <2>2. QED
    BY <1>1, <1>2, <2>1 DEF JudgedByOthers, Fits
<1>3. QED
  BY <1>2, ModerationInductive, PTL

\* One report is punished once at most, by the review or by whoever closes the issue it
\* became, however many moderators work on it, and never after it was withdrawn.
THEOREM OnePunishment == ReviewSpec => []PunishedOnce
<1>1. ASSUME ModerationInv PROVE PunishedOnce
  <2>1. \A id \in DOMAIN tickets : tickets[id].escalated \in 0 .. 1
    BY <1>1 DEF ModerationInv, ReviewsInv, TicketsFit, Fits, Tickets
  <2>2. \A i \in DOMAIN issues : issues[i].escalated \in 0 .. 1
    <3>1. \A i \in DOMAIN issues : issues[i] \in Issues
      BY <1>1 DEF ModerationInv, DeskInv, IssuesFit
    <3>2. QED
      BY <3>1 DEF Issues
  <2>3. \A i \in DOMAIN issues : issues[i].ticket # 0 => tickets[issues[i].ticket].escalated = 0
    BY <1>1 DEF ModerationInv, DeskInv, SourcesFit
  <2>4. \A i \in DOMAIN issues : issues[i].escalated # 0 => issues[i].state = "resolved"
    BY <1>1 DEF ModerationInv, DeskInv, IssuesFit
  <2>5. ASSUME NEW i \in DOMAIN issues
        PROVE  issues[i].escalated + (IF issues[i].ticket
                 = 0 THEN 0 ELSE tickets[issues[i].ticket].escalated) <= 1
    <3>1. CASE issues[i].ticket = 0
      BY <2>2, <3>1
    <3>2. CASE issues[i].ticket # 0
      BY <2>2, <2>3, <3>2
    <3>3. QED
      BY <3>1, <3>2
  <2>6. QED
    BY <2>1, <2>4, <2>5 DEF PunishedOnce
<1>2. QED
  BY <1>1, ModerationInductive, PTL
=============================================================================
