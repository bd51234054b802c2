----------------------------- MODULE Permissions ------------------------------
(***************************************************************************)
(* Permission groups (src/internal/permission): their tables, the two      *)
(* layers of cache in front of them, goroutines that resolve one node for  *)
(* one player, and administrators who change grants, memberships and the   *)
(* inheritance of groups.  No transaction spans a mutation.                *)
(*                                                                         *)
(* A grant matches the node with one or two fixed segments.  Groups exist  *)
(* and keep their weight.  Redis may fail in any call.                     *)
(***************************************************************************)
EXTENDS Integers, Sequences, SequencesExt, Functions, FiniteSetsExt

CONSTANTS
    Groups,   \* the permission groups
    Weighted, \* Groups by descending weight
    Player,   \* the player whose permission is asked for
    Readers,  \* goroutines that resolve
    Admins,   \* goroutines that mutate
    Starts    \* contents of the tables when the server starts, each with its bounds

None == "none"
Holders == Groups \union {Player}
Segments == 1 .. 2
Grants == UNION {[S -> BOOLEAN] : S \in SUBSET Segments}

ASSUME PermissionsAssumption ==
    /\ Player \notin Groups /\ None \notin Groups
    /\ Weighted \in Seq(Groups) /\ Range(Weighted) = Groups
    /\ \A s \in Starts :
          /\ s.parent \in [Groups -> Groups \union {None}]
          /\ s.nodes \in [Holders -> Grants] /\ s.member \subseteq Groups
          /\ s.changes \in Nat /\ s.admins \subseteq Admins

VARIABLES
    sql,      \* the tables: parents and versions of groups, grants, memberships
    local,    \* Cache.local
    shared,   \* the entries in Redis
    reader,   \* what each resolving goroutine is doing
    admin,    \* what each mutating goroutine is doing
    bounds    \* the mutations that may begin, and the fragments that last

permissions == <<sql, local, shared, reader, admin, bounds>>

(***************************************************************************)
(* Fragments: grants of a holder, a group's record, the player's groups.   *)
(***************************************************************************)
Nodes(h) == <<"nodes", h>>
Record(g) == <<"group", g>>
Memberships == <<"groups", Player>>
Keys == {Nodes(h) : h \in Holders} \union {Record(g) : g \in Groups} \union {Memberships}

\* What the loader of a fragment reads.  A list of groups carries their records.
Stored(k) ==
    CASE k[1] = "nodes" -> sql.nodes[k[2]]
      [] k[1] = "group" -> sql.parent[k[2]]
      [] OTHER -> LET mine == SelectSeq(Weighted, LAMBDA g : g \in sql.member)
                  IN  [i \in DOMAIN mine |-> <<mine[i], sql.parent[mine[i]]>>]

\* An entry of a fragment that does not last expires as soon as it is stored.
Cached(f, k, v) ==
    IF k \in bounds.lasting THEN [x \in DOMAIN f \union {k} |-> IF x = k THEN v ELSE f[x]] ELSE f
Evicted(f, k) == Restrict(f, DOMAIN f \ {k})

Resting == [step |-> "rest"]
Nothing == <<>>

PermissionsInit ==
    /\ \E s \in Starts :
          /\ sql = [parent |-> s.parent, nodes |-> s.nodes, member |-> s.member,
                    version |-> [g \in Groups |-> 0]]
          /\ bounds = [changes |-> s.changes, kinds |-> s.kinds, admins |-> s.admins,
                       lasting |-> s.lasting]
    /\ local = <<>> /\ shared = <<>>
    /\ reader = [r \in Readers |-> Resting @@ [verdict |-> None]]
    /\ admin = [m \in Admins |-> Resting]

(***************************************************************************)
(* Resolution: what is decided with a fragment at hand.  A decision is     *)
(* Nothing or <<specificity, depth, allowed>>.                             *)
(***************************************************************************)
Preferable(a, b) ==
    IF a = Nothing \/ b = Nothing THEN IF a = Nothing THEN b ELSE a
    ELSE IF a[1] # b[1] THEN IF a[1] > b[1] THEN a ELSE b
    ELSE IF a[2] # b[2] THEN IF a[2] < b[2] THEN a ELSE b
    ELSE IF a[3] THEN b ELSE a
BestGrant(grants, depth) ==
    IF DOMAIN grants = {} THEN Nothing
    ELSE LET most == Max(DOMAIN grants) IN <<most, depth, grants[most]>>

Answer(verdict) == Resting @@ [verdict |-> verdict]
Verdict(decision) == IF decision[3] THEN "allow" ELSE "deny"
Look(x, k) == [x EXCEPT !.step = "local", !.key = k, !.value = None]

\* resolveGroup comes to a group, at its depth.
Visit(x, g, parent) ==
    IF g \in Range(x.visited) THEN Answer("cycle")
    ELSE Look([x EXCEPT !.visited = Append(@, g), !.parent = parent], Nodes(g))

\* The loop of resolve comes to the first of the groups that are left.
NextGroup(x) ==
    IF x.left = <<>> THEN Answer("deny")
    ELSE LET head == Head(x.left)
         IN  Visit([x EXCEPT !.left = Tail(@), !.visited = <<>>, !.best = Nothing],
                   head[1], head[2])

\* What a reader that has its fragment does until it needs the next one.
Continue(x, value) ==
    LET depth == Len(x.visited) - 1
        best == Preferable(x.best, BestGrant(value, depth))
    IN  CASE x.key = Nodes(Player) ->
                IF BestGrant(value, 0) = Nothing THEN Look(x, Memberships)
                ELSE Answer(Verdict(BestGrant(value, 0)))
          [] x.key = Memberships -> NextGroup([x EXCEPT !.left = value])
          [] x.key[1] = "group" -> Visit(x, x.key[2], value)
          [] OTHER ->
                IF x.parent # None THEN Look([x EXCEPT !.best = best], Record(x.parent))
                ELSE IF best = Nothing THEN NextGroup(x) ELSE Answer(Verdict(best))

(***************************************************************************)
(* HasPermission: every fragment is loaded through the cache.              *)
(***************************************************************************)
ReaderOnly == UNCHANGED <<sql, admin, bounds>>

Ask(r) ==
    /\ reader[r].step = "rest"
    /\ reader' = [reader EXCEPT ![r] =
          [step |-> "local", key |-> Nodes(Player), value |-> None, left |-> <<>>,
           visited |-> <<>>, parent |-> None, best |-> Nothing]]
    /\ ReaderOnly /\ UNCHANGED <<local, shared>>

FindLocal(r) ==
    LET x == reader[r] IN
    /\ x.step = "local"
    /\ reader' = [reader EXCEPT ![r] =
          IF x.key \in DOMAIN local THEN Continue(x, local[x.key])
          ELSE [x EXCEPT !.step = "shared"]]
    /\ ReaderOnly /\ UNCHANGED <<local, shared>>

FindShared(r) ==
    LET x == reader[r] IN
    /\ x.step = "shared"
    /\ \/ /\ x.key \in DOMAIN shared
          /\ reader' = [reader EXCEPT ![r] = [x EXCEPT !.step = "keep", !.value = shared[x.key]]]
       \/ reader' = [reader EXCEPT ![r] = [x EXCEPT !.step = "load"]]
    /\ ReaderOnly /\ UNCHANGED <<local, shared>>

\* storeLocal of a shared value.
Keep(r) ==
    LET x == reader[r] IN
    /\ x.step = "keep"
    /\ local' = Cached(local, x.key, x.value)
    /\ reader' = [reader EXCEPT ![r] = Continue(x, x.value)]
    /\ ReaderOnly /\ UNCHANGED shared

Load(r) ==
    LET x == reader[r] IN
    /\ x.step = "load"
    /\ reader' = [reader EXCEPT ![r] = [x EXCEPT !.step = "store", !.value = Stored(x.key)]]
    /\ ReaderOnly /\ UNCHANGED <<local, shared>>

\* store: both layers, one after the other.
Store(r) ==
    LET x == reader[r] IN
    /\ x.step = "store"
    /\ local' = Cached(local, x.key, x.value)
    /\ reader' = [reader EXCEPT ![r] = [x EXCEPT !.step = "set"]]
    /\ ReaderOnly /\ UNCHANGED shared

Set(r) ==
    LET x == reader[r] IN
    /\ x.step = "set"
    /\ shared' = Cached(shared, x.key, x.value) \/ UNCHANGED shared
    /\ reader' = [reader EXCEPT ![r] = Continue(x, x.value)]
    /\ ReaderOnly /\ UNCHANGED local

(***************************************************************************)
(* Expiration: of the local entries, and in Redis.                         *)
(***************************************************************************)
LastsForever(k) == FALSE
Expires(k) == k \in DOMAIN shared

ExpireLocal(k) ==
    /\ k \in DOMAIN local
    /\ local' = Evicted(local, k)
    /\ UNCHANGED <<sql, shared, reader, admin, bounds>>

ExpireShared(k) ==
    /\ Expires(k)
    /\ shared' = Evicted(shared, k)
    /\ UNCHANGED <<sql, local, reader, admin, bounds>>

(***************************************************************************)
(* Mutations.                                                              *)
(***************************************************************************)
Become(m, x) == admin' = [admin EXCEPT ![m] = x]
Begin(m, kind) ==
    /\ admin[m] = Resting /\ m \in bounds.admins
    /\ kind \in bounds.kinds /\ bounds.changes > 0
    /\ bounds' = [bounds EXCEPT !.changes = @ - 1]
    /\ UNCHANGED <<local, shared, reader>>
MutationOnly == UNCHANGED <<local, shared, reader, bounds>>

\* Cache.delete of these fragments.
Invalidating(keys) == [step |-> "local", keys |-> keys]
InvalidateGroup(g) == <<Record(g), Nodes(g)>>

\* Grant and Revoke, of a group's and of the player's nodes.
ChangeNode(m, h) ==
    /\ Begin(m, "node")
    /\ \E grants \in Grants, n \in Segments :
          /\ Evicted(grants, n) = Evicted(sql.nodes[h], n)
          /\ sql' = [sql EXCEPT !.nodes[h] = grants]
    /\ Become(m, Invalidating(IF h = Player THEN <<Nodes(Player)>> ELSE InvalidateGroup(h)))

\* AddPlayerToGroup and RemovePlayerFromGroup.
ChangeMembership(m, g) ==
    /\ Begin(m, "member")
    /\ \E members \in {sql.member \union {g}, sql.member \ {g}} : sql' = [sql EXCEPT !.member = members]
    /\ Become(m, Invalidating(<<Memberships>>))

\* UpdateGroup reads the record and validates the new parent, record by record.
UpdateGroup(m, g) ==
    /\ Begin(m, "update")
    /\ \E p \in Groups \union {None} :
          Become(m, [step |-> "validate", group |-> g, parent |-> p,
                     version |-> sql.version[g], at |-> p, visited |-> {g}])
    /\ UNCHANGED sql

Validate(m) ==
    LET x == admin[m] IN
    /\ x.step = "validate"
    /\ Become(m, CASE x.at = None -> [x EXCEPT !.step = "affected"]
                   [] x.at \in x.visited -> Resting
                   [] OTHER -> [x EXCEPT !.visited = @ \union {x.at}, !.at = sql.parent[x.at]])
    /\ MutationOnly /\ UNCHANGED sql

\* A group's descendants, itself included.  (In a cycle the recursive query of
\* affectedPlayersSQL does not end, and the mutation fails.)
Ancestors(g) ==
    LET up[n \in 0 .. Cardinality(Groups)] ==
            IF n = 0 THEN {g}
            ELSE up[n - 1] \union {sql.parent[d] : d \in up[n - 1] \ {None}}
    IN  up[Cardinality(Groups)]
InCycle(g) == \E d \in Ancestors(g) \ {None} : g \in Ancestors(d) /\ d # g
Affected(g) == \E d \in sql.member : g \in Ancestors(d)

ListAffected(m) ==
    LET x == admin[m] IN
    /\ x.step = "affected"
    /\ Become(m, IF InCycle(x.group) THEN Resting
                 ELSE [step |-> "update", group |-> x.group, parent |-> x.parent,
                       version |-> x.version, affected |-> Affected(x.group)])
    /\ MutationOnly /\ UNCHANGED sql

WriteGroup(m) ==
    LET x == admin[m] IN
    /\ x.step = "update"
    /\ IF sql.version[x.group] = x.version
       THEN /\ sql' = [sql EXCEPT !.parent[x.group] = x.parent, !.version[x.group] = @ + 1]
            /\ Become(m, Invalidating(InvalidateGroup(x.group) \o
                                      (IF x.affected THEN <<Memberships>> ELSE <<>>)))
       ELSE Become(m, Resting) /\ UNCHANGED sql
    /\ MutationOnly

RemoveLocal(m) ==
    LET x == admin[m] IN
    /\ x.step = "local"
    /\ local' = Evicted(local, Head(x.keys))
    /\ Become(m, [x EXCEPT !.step = "shared"])
    /\ UNCHANGED <<sql, shared, reader, bounds>>

RemoveShared(m) ==
    LET x == admin[m] IN
    /\ x.step = "shared"
    /\ shared' = Evicted(shared, Head(x.keys)) \/ UNCHANGED shared
    /\ Become(m, IF Len(x.keys) = 1 THEN Resting ELSE Invalidating(Tail(x.keys)))
    /\ UNCHANGED <<sql, local, reader, bounds>>

(***************************************************************************)
(* The specification.                                                      *)
(***************************************************************************)
Resolve(r) ==
    \/ Ask(r) \/ FindLocal(r) \/ FindShared(r) \/ Keep(r) \/ Load(r) \/ Store(r) \/ Set(r)
Mutate(m) ==
    \/ \E h \in Holders : ChangeNode(m, h)
    \/ \E g \in Groups : ChangeMembership(m, g) \/ UpdateGroup(m, g)
    \/ Validate(m) \/ ListAffected(m) \/ WriteGroup(m) \/ RemoveLocal(m) \/ RemoveShared(m)

PermissionsNext ==
    \/ \E r \in Readers : Resolve(r)
    \/ \E m \in Admins : Mutate(m)
    \/ \E k \in Keys : ExpireLocal(k) \/ ExpireShared(k)

\* Entries expire: on the process's clock, and on that of Redis.
PermissionsFairness ==
    \A k \in Keys : WF_permissions(ExpireLocal(k)) /\ WF_permissions(ExpireShared(k))

(***************************************************************************)
(* Properties.                                                             *)
(***************************************************************************)
\* The order of resolution as docs/wiki/USERS-PERMISSIONS.md tells it: a direct
\* grant, else the first group whose chain decides; in a chain the most specific
\* grant, and of those the nearest.
Chain(g) ==
    LET up[n \in 1 .. Cardinality(Groups) + 1] ==
            IF n = 1 THEN <<g>>
            ELSE IF sql.parent[Last(up[n - 1])] = None THEN up[n - 1]
            ELSE Append(up[n - 1], sql.parent[Last(up[n - 1])])
    IN  up[Cardinality(Groups) + 1]
Cyclic(g) == Len(Chain(g)) > Cardinality(Groups)
Matches(g) == {<<s, i>> \in Segments \X DOMAIN Chain(g) : s \in DOMAIN sql.nodes[Chain(g)[i]]}
Decided(g) ==
    LET best == CHOOSE a \in Matches(g) :
                    \A b \in Matches(g) : a[1] > b[1] \/ (a[1] = b[1] /\ a[2] <= b[2])
    IN  sql.nodes[Chain(g)[best[2]]][best[1]]
Documented ==
    LET direct == sql.nodes[Player]
        deciding == SelectSeq(Weighted, LAMBDA g :
                        g \in sql.member /\ (Cyclic(g) \/ Matches(g) # {}))
        allowed == IF DOMAIN direct # {} THEN direct[Max(DOMAIN direct)]
                   ELSE deciding # <<>> /\ Decided(Head(deciding))
    IN  CASE DOMAIN direct = {} /\ deciding # <<>> /\ Cyclic(Head(deciding)) -> "cycle"
          [] OTHER -> IF allowed THEN "allow" ELSE "deny"

\* Whatever loads overlapped the changes, whatever Redis failed to do, and although
\* one resolution may put together fragments of different ages: at last the caches
\* hold what the tables hold, and a resolution answers what they decide.
CachesConverge ==
    /\ <>[](\A k \in Keys : /\ k \in DOMAIN local => local[k] = Stored(k)
                            /\ k \in DOMAIN shared => shared[k] = Stored(k))
    /\ <>[][\A r \in Readers :
               reader[r].step # "rest" /\ reader'[r].step = "rest" =>
                   reader'[r].verdict = Documented]_permissions

============================================================================
