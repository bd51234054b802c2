----------------------------- MODULE MCPlatform ------------------------------
(***************************************************************************)
(* Four parts of the server that share no state, checked by one run: a     *)
(* connection (Socket), the world of a room (World), the permission caches *)
(* (Permissions) and peer reviews (Guardians).  Their steps are            *)
(* independent, and no property relates two of them, so a behaviour moves  *)
(* one of them, chosen at the start, and leaves the others in an initial   *)
(* state.                                                                  *)
(***************************************************************************)
EXTENDS Socket, World, Permissions, Guardians, TLC

VARIABLE part  \* the one that moves

CONSTANTS a, b, c, horse, g1, g2, m1, m2, r1, stranger
Line == {<<1, 2>>, <<2, 1>>, <<2, 3>>, <<3, 2>>}
Sorted == <<horse, a, b>>
Heaviest == <<g1, g2>>

\* A group that inherits an exact grant it denies with a wildcard, and one change
\* of it; and two groups that two administrators nest in each other.
Nested ==
    [parent |-> (g1 :> g2) @@ (g2 :> "none"), member |-> {g1},
     nodes |-> (g1 :> (1 :> FALSE)) @@ (g2 :> (2 :> TRUE)) @@ (a :> <<>>)]
Apart == [Nested EXCEPT !.parent = (g1 :> "none") @@ (g2 :> "none")]
Mutation(admins, kinds, lasting) ==
    [changes |-> IF admins = {m1} THEN 1 ELSE 2, admins |-> admins, kinds |-> kinds,
     lasting |-> lasting]
Tables ==
    {Nested @@ Mutation({m1}, {"node", "member", "update"}, {<<"nodes", g1>>, <<"groups", a>>}),
     Apart @@ Mutation({m1, m2}, {"update"}, {<<"group", g2>>})}

\* A review by two guardians, who may differ; and two reviews by one, whose parties may
\* be those of the other one too, where nobody leaves the game.
Panel ==
    [talks |-> 0, logins |-> 3, roles |-> {}, present |-> Guests, duty |-> {"guardian"},
     reported |-> {stranger}, count |-> 2, tickets |-> 1, issues |-> 0,
     verdicts |-> {"acceptable", "bad"}]
Overlapping == [Panel EXCEPT !.count = 1, !.tickets = 2, !.verdicts = {"bad"}]
Reviews == {Panel, Overlapping}
Played ==
    /\ scene = Panel => holder' \in {a, Nobody}
    /\ scene = Overlapping => online' = online

parts == <<part, socket, room, permissions, moderation>>

\* What does not move has one initial state; guests differ in nothing, so that
\* the order in which they went on duty does not matter, nor who reports where both of
\* the others review.
Init ==
    /\ part \in {"socket", "world", "permissions", "reviews"}
    /\ SocketInit /\ WorldInit /\ PermissionsInit /\ GuardiansInit
    /\ part # "world" => \A u \in Players \union Pets : world.unit[u].at = Door
    /\ part # "permissions" => bounds.lasting = {<<"group", g2>>}
    /\ part # "reviews" => scene = Panel
    /\ since = <<a, b, c>>

Next ==
    /\ UNCHANGED part
    /\ \/ part = "socket" /\ SocketNext /\ UNCHANGED <<room, permissions, moderation>>
       \/ part = "world" /\ WorldNext /\ UNCHANGED <<socket, permissions, moderation>>
       \/ part = "permissions" /\ PermissionsNext /\ UNCHANGED <<socket, room, moderation>>
       \/ part = "reviews" /\ GuardiansNext /\ Played /\ UNCHANGED <<socket, room, permissions>>

\* Nothing that must happen is enabled in an initial state, so the fairness of a part
\* asks nothing while another one moves.
Spec == Init /\ [][Next]_parts /\ SocketFairness /\ PermissionsFairness /\ GuardiansFairness

============================================================================
