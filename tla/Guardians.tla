----------------------------- MODULE Guardians ------------------------------
(***************************************************************************)
(* Peer review of reported players (src/internal/realm/moderation/guardian)*)
(* by helpers on duty, and the queue of issues moderators work on.  The    *)
(* review manager has one mutex, held across the database and Redis; what  *)
(* a verdict leads to is done after it, by whoever's call closed the       *)
(* review.                                                                 *)
(***************************************************************************)
EXTENDS Guides, FiniteSetsExt

CONSTANT Staff  \* moderators

VARIABLES
    holder,    \* the player whose Create holds the manager's mutex, or Nobody
    offer,     \* the reviewers it has found, and whom it reports
    tickets,   \* reviews by id, closed ones included
    byPlayer,  \* index of reviewers and reporters, 0 for none
    votes,     \* guardian_votes by ticket
    issues,    \* moderation_issues by id
    staff      \* the issue each moderator has still to escalate, or 0

reviews == <<holder, offer, tickets, byPlayer, votes>>
desk == <<issues, staff>>
moderation == <<presence, guides, reviews, desk>>

\* Bounds: tickets, issues, who is reported and verdicts; configured: reviewers of a ticket.
ASSUME GuardiansAssumption ==
    \A s \in Scenes :
        /\ s.count \in Nat \ {0} /\ s.tickets \in Nat /\ s.issues \in Nat
        /\ s.verdicts \subseteq {"acceptable", "bad", "horrible"}

NoOffer == [by |-> {}, reported |-> Nobody]

GuardiansInit ==
    /\ GuidesInit
    /\ holder = Nobody /\ offer = NoOffer
    /\ tickets = <<>> /\ byPlayer = [p \in Guests |-> 0] /\ votes = <<>>
    /\ issues = <<>> /\ staff = [m \in Staff |-> 0]

(***************************************************************************)
(* Opening a review.                                                       *)
(***************************************************************************)
Unlocked == holder = Nobody
\* Guides.Guardians leaves out the reporter, eligible the reported player and who is
\* indexed or excluded: Redis excludes whom it likes, for offers ignored or by not
\* answering.
Oldest(n, places) == {i \in places : Cardinality({j \in places : j < i}) < n}
Shortlist(excludeID) == Oldest(4 * scene.count, IdleHelpers("guardian", excludeID))
Indexed(p) == byPlayer[p] # 0
Candidates(p, reported, excluded) ==
    {i \in Shortlist({p}) : since[i] # reported /\ ~Indexed(since[i]) /\ since[i] \notin excluded}

\* Manager.Create, up to the row of the ticket ...
FindReviewers(p) ==
    /\ Unlocked /\ p \in online /\ ~Indexed(p) /\ Len(tickets) < scene.tickets
    /\ \E reported \in scene.reported, excluded \in SUBSET Guests :
          LET found == Candidates(p, reported, excluded) IN
          /\ Cardinality(found) >= scene.count
          /\ offer' = [by |-> {since[i] : i \in Oldest(scene.count, found)}, reported |-> reported]
    /\ holder' = p
    /\ UNCHANGED <<tickets, byPlayer, votes>>

\* ... and from there, unless the row could not be inserted.
OpenTicket ==
    /\ ~Unlocked
    /\ \/ LET id == Len(tickets) + 1 IN
          /\ tickets' = Append(tickets,
                 [reporter |-> holder, reported |-> offer.reported, state |-> "offered",
                  due |-> FALSE, reviewers |-> [g \in offer.by |-> "asked"],
                  result |-> "none", outcome |-> "none", escalated |-> 0])
          /\ byPlayer' = [p \in Guests |-> IF p \in offer.by \union {holder} THEN id ELSE byPlayer[p]]
          /\ votes' = Append(votes, <<>>)
       \/ UNCHANGED <<tickets, byPlayer, votes>>
    /\ holder' = Nobody /\ offer' = NoOffer

(***************************************************************************)
(* Reviewing.                                                              *)
(***************************************************************************)
IsOpen(id) == id \in DOMAIN tickets /\ tickets[id].state # "closed"
\* ticketFor: only open tickets are in the manager's map.
Reviewing(p) == IsOpen(byPlayer[p])
Accepted(status) == status \in scene.verdicts \union {"accepted"}
Of(ticket, statuses) == {g \in DOMAIN ticket.reviewers : ticket.reviewers[g] \in statuses}

\* close: a verdict needs a strict majority of the votes.
HalfIsEnough(n, total) == 2 * n >= total
Majority(n, total) == n > total \div 2
Result(ticket) ==
    LET total == Cardinality(Of(ticket, scene.verdicts))
        won == {v \in scene.verdicts : Majority(Cardinality(Of(ticket, {v})), total)}
    IN  IF won = {} THEN "mixed" ELSE CHOOSE v \in won : TRUE
Closed(ticket, outcome) ==
    [ticket EXCEPT !.state = "closed", !.result = Result(ticket), !.outcome = outcome]
ReviewersOnly(ticket) == DOMAIN ticket.reviewers
Parties(ticket) == DOMAIN ticket.reviewers \union {ticket.reporter}
Unindexed(players) == [p \in Guests |-> IF p \in players THEN 0 ELSE byPlayer[p]]

SetTicket(id, ticket) == tickets' = [tickets EXCEPT ![id] = ticket]
Close(id, ticket, outcome) ==
    /\ SetTicket(id, Closed(ticket, outcome))
    /\ byPlayer' = Unindexed(Parties(ticket))

\* Once all have decided, voting starts with a new deadline; without anybody to vote
\* the ticket is closed, and nobody finishes it.
Decide(p) ==
    LET id == byPlayer[p] IN
    /\ Unlocked /\ p \in online /\ Reviewing(p)
    /\ tickets[id].state = "offered" /\ p \in DOMAIN tickets[id].reviewers
    /\ \E answer \in {"accepted", "declined"} :
          LET asked == [tickets[id] EXCEPT !.reviewers[p] = answer] IN
          IF Of(asked, {"asked"}) # {} THEN SetTicket(id, asked) /\ UNCHANGED byPlayer
          ELSE IF Of(asked, {"accepted"}) = {} THEN Close(id, asked, "dropped")
          ELSE SetTicket(id, [asked EXCEPT !.state = "voting", !.due = FALSE]) /\ UNCHANGED byPlayer
    /\ UNCHANGED <<holder, offer, votes>>

VotingComplete(ticket) == Of(ticket, {"accepted"}) = {}

\* The row of a vote replaces the player's earlier one.
SaveVote(saved, p, verdict) == [g \in DOMAIN saved \union {p} |-> IF g = p THEN verdict ELSE saved[g]]

\* A vote whose row cannot be saved is taken back, and an earlier one with it.
Unsaved == "accepted"
Vote(p) ==
    LET id == byPlayer[p] IN
    /\ Unlocked /\ p \in online /\ Reviewing(p)
    /\ tickets[id].state = "voting" /\ p \in DOMAIN tickets[id].reviewers
    /\ Accepted(tickets[id].reviewers[p])
    /\ \/ \E verdict \in scene.verdicts :
             LET voted == [tickets[id] EXCEPT !.reviewers[p] = verdict] IN
             /\ votes' = [votes EXCEPT ![id] = SaveVote(@, p, verdict)]
             /\ IF VotingComplete(voted) THEN Close(id, voted, "todo")
                ELSE SetTicket(id, voted) /\ UNCHANGED byPlayer
       \/ /\ SetTicket(id, [tickets[id] EXCEPT !.reviewers[p] = Unsaved])
          /\ UNCHANGED <<votes, byPlayer>>
    /\ UNCHANGED <<holder, offer>>

\* Detach, by packet or after a disconnection.
Left(ticket, p) ==
    [ticket EXCEPT !.reviewers = [g \in DOMAIN @ \ {p} |-> @[g]]]
Detach(p) ==
    LET id == byPlayer[p] IN
    /\ Unlocked
    /\ IF ~Reviewing(p) THEN UNCHANGED <<tickets, byPlayer>>
       ELSE LET left == Left(tickets[id], p) IN
            IF \/ DOMAIN left.reviewers = {}
               \/ left.state = "voting" /\ VotingComplete(left)
            THEN /\ SetTicket(id, Closed(left, "todo"))
                 /\ byPlayer' = Unindexed(Parties(left) \union {p})
            ELSE SetTicket(id, left) /\ byPlayer' = Unindexed({p})
    /\ UNCHANGED <<holder, offer, votes>>

\* Time passes for a ticket; the ticker closes what is due.
Deadline(id) ==
    /\ IsOpen(id) /\ ~tickets[id].due
    /\ tickets' = [tickets EXCEPT ![id].due = TRUE]
    /\ UNCHANGED <<holder, offer, byPlayer, votes>>

OpenlyDue == {id \in DOMAIN tickets : tickets[id].state = "offered" /\ tickets[id].due}
Due == {id \in DOMAIN tickets : IsOpen(id) /\ tickets[id].due}
Expired(ids) == UNION {Parties(tickets[id]) : id \in ids}
TickReviews ==
    /\ Unlocked /\ Due # {}
    /\ tickets' = [id \in DOMAIN tickets |->
           IF id \in Due THEN Closed(tickets[id], "todo") ELSE tickets[id]]
    /\ byPlayer' = Unindexed(Expired(Due))
    /\ UNCHANGED <<holder, offer, votes>>

(***************************************************************************)
(* What a verdict leads to.                                                *)
(***************************************************************************)
Issue(ticket, reporter) ==
    [ticket |-> ticket, reporter |-> reporter, state |-> "open", picker |-> Nobody, escalated |-> 0]

\* Finish, whose escalation or report may fail.
FinishReview(id) ==
    LET ticket == tickets[id] IN
    /\ ticket.outcome = "todo"
    /\ \/ /\ ticket.result \in {"bad", "horrible"}
          /\ SetTicket(id, [ticket EXCEPT !.outcome = "done", !.escalated = @ + 1])
          /\ UNCHANGED issues
       \/ /\ ticket.result = "mixed" /\ Len(issues) < scene.issues
          /\ SetTicket(id, [ticket EXCEPT !.outcome = "done"])
          /\ issues' = Append(issues, Issue(id, ticket.reporter))
       \/ SetTicket(id, [ticket EXCEPT !.outcome = "done"]) /\ UNCHANGED issues
    /\ UNCHANGED <<holder, offer, byPlayer, votes, staff>>

\* A call for help, or a guide's report.
Report(p) ==
    /\ p \in online /\ Len(issues) < scene.issues
    /\ issues' = Append(issues, Issue(0, p))
    /\ UNCHANGED staff

PickIssue(m, i) ==
    /\ staff[m] = 0 /\ issues[i].state = "open"
    /\ issues' = [issues EXCEPT ![i].state = "picked", ![i].picker = m]
    /\ UNCHANGED staff

ReleaseIssue(m, i) ==
    /\ staff[m] = 0 /\ issues[i].state = "picked" /\ issues[i].picker = m
    /\ issues' = [issues EXCEPT ![i].state = "open", ![i].picker = Nobody]
    /\ UNCHANGED staff

ClosableAgain(m, issue) == issue.picker \in {Nobody, m}
Closable(m, issue) == issue.state \in {"open", "picked"} /\ issue.picker \in {Nobody, m}
\* Close, and CloseWithDefault, which escalates afterwards.
CloseIssue(m, i) ==
    /\ staff[m] = 0 /\ Closable(m, issues[i])
    /\ issues' = [issues EXCEPT ![i].state = "resolved"]
    /\ \E default \in BOOLEAN : staff' = IF default THEN [staff EXCEPT ![m] = i] ELSE staff

EscalateIssue(m) ==
    /\ staff[m] # 0
    /\ \/ issues' = [issues EXCEPT ![staff[m]].escalated = @ + 1]
       \/ UNCHANGED issues
    /\ staff' = [staff EXCEPT ![m] = 0]

DeletePending(p) ==
    /\ p \in online
    /\ \E i \in DOMAIN issues : issues[i].reporter = p /\ issues[i].state \in {"open", "picked"}
    /\ issues' = [i \in DOMAIN issues |->
           IF issues[i].reporter = p /\ issues[i].state \in {"open", "picked"}
           THEN [issues[i] EXCEPT !.state = "deleted"] ELSE issues[i]]
    /\ UNCHANGED staff

(***************************************************************************)
(* The player.disconnected listener: first guides, then guardians, unless  *)
(* the packet for the partner of a conversation cannot be sent.            *)
(***************************************************************************)
DisconnectedGuide(p) ==
    /\ departing[p] = "guides" /\ RemovePlayer(p)
    /\ \/ departing' = [departing EXCEPT ![p] = "guardians"]
       \/ /\ TalkFor(p) # NoTalk /\ Freed(TalkFor(p)) \cap (online \ {p}) # {}
          /\ departing' = [departing EXCEPT ![p] = "none"]
    /\ UNCHANGED <<online, logins>>

DisconnectedGuardian(p) ==
    /\ departing[p] = "guardians" /\ Detach(p)
    /\ departing' = [departing EXCEPT ![p] = "none"]
    /\ UNCHANGED <<online, logins>>

SessionSteps ==
    \E p \in Guests :
        \/ (Connect(p) \/ (p # holder /\ Depart(p))) /\ UNCHANGED <<guides, reviews, desk>>
        \/ DisconnectedGuide(p) /\ UNCHANGED <<reviews, desk>>
        \/ DisconnectedGuardian(p) /\ UNCHANGED <<guides, desk>>

\* While Create runs, its player's goroutine does nothing else.
Talking == \E p \in Guests \ {holder} : GuidesOf(p) /\ UNCHANGED <<presence, reviews, desk>>

ReviewBy(p) ==
    /\ FindReviewers(p) \/ Decide(p) \/ Vote(p) \/ (p \in online /\ Reviewing(p) /\ Detach(p))
    /\ UNCHANGED <<presence, guides, desk>>
Ticker ==
    (TickReviews \/ OpenTicket \/ (\E id \in DOMAIN tickets : Deadline(id)))
    /\ UNCHANGED <<presence, guides, desk>>

Queueing ==
    /\ \/ \E p \in Guests \ {holder} : Report(p) \/ DeletePending(p)
       \/ \E m \in Staff : \/ EscalateIssue(m)
                           \/ \E i \in DOMAIN issues : PickIssue(m, i) \/ ReleaseIssue(m, i) \/ CloseIssue(m, i)
    /\ UNCHANGED <<presence, guides, reviews>>
Finishing == \E id \in DOMAIN tickets : FinishReview(id) /\ UNCHANGED <<presence, guides>>

GuardiansNext ==
    /\ UNCHANGED scene
    /\ \/ SessionSteps \/ Talking \/ (\E p \in Guests : ReviewBy(p))
       \/ Ticker \/ Queueing \/ Finishing

TicketIds == 1..Max({s.tickets : s \in Scenes})

\* Time passes, the ticker gets the mutex, and who has begun a handler goes on.
GuardiansFairness ==
    /\ SF_moderation(TickReviews /\ UNCHANGED <<presence, guides, desk>>)
    /\ WF_moderation(OpenTicket /\ UNCHANGED <<presence, guides, desk>>)
    /\ \A id \in TicketIds :
          /\ WF_moderation(Deadline(id) /\ UNCHANGED <<presence, guides, desk>>)
          /\ WF_moderation(id \in DOMAIN tickets /\ FinishReview(id) /\ UNCHANGED <<presence, guides>>)

(***************************************************************************)
(* Properties.                                                             *)
(***************************************************************************)
\* Nobody is kept out of reviews by one that is over: an index entry leads to an open
\* ticket (Create, Detach, close), whoever leaves it, in whatever order.
IndexLeadsToOpen == \A p \in Guests : byPlayer[p] # 0 => IsOpen(byPlayer[p])

\* Neither the reporter nor the reported player votes (Guardians, eligible), and a review
\* punishes only on the strict majority of the votes of reviewers who stayed, each of
\* which the database has (Vote, close, Finish).
JudgedByOthers ==
    \A id \in DOMAIN tickets :
        LET ticket == tickets[id] IN
        /\ {ticket.reporter, ticket.reported} \cap DOMAIN ticket.reviewers = {}
        /\ \A g \in Of(ticket, scene.verdicts) : g \in DOMAIN votes[id] /\ votes[id][g] = ticket.reviewers[g]
        /\ ticket.escalated > 0 =>
              2 * Cardinality(Of(ticket, {ticket.result})) > Cardinality(Of(ticket, scene.verdicts))

\* One report leads to one escalation at most, whether the review escalates or a moderator
\* who closes the issue it ended in, and to none once its reporter has withdrawn it.
PunishedOnce ==
    /\ \A i \in DOMAIN issues :
          issues[i].escalated + (IF issues[i].ticket = 0 THEN 0 ELSE tickets[issues[i].ticket].escalated) <= 1
    /\ \A id \in DOMAIN tickets : tickets[id].escalated <= 1
    /\ \A i \in DOMAIN issues : issues[i].state = "deleted" => issues[i].escalated = 0

\* A review ends, and whoever closed it acts on its result or fails to, whatever its
\* reviewers do or leave undone (Decide, Detach, Tick, Finish).
ReviewsEnd ==
    \A id \in TicketIds :
        id \in DOMAIN tickets ~>
            id \in DOMAIN tickets /\ ~IsOpen(id) /\ tickets[id].outcome # "todo"

============================================================================
