------------------------------ MODULE Database ------------------------------
(***************************************************************************)
(* Transactions as the repositories run them (src/pkg/postgres): a unit of *)
(* work is a sequence of SQL statements between begin and commit, and the  *)
(* isolation level is PostgreSQL's default, read committed.                *)
(*                                                                         *)
(* A process is a goroutine with at most one unit of work.  A statement    *)
(* sees committed rows and the rows its own transaction wrote.  A row that *)
(* a transaction wrote, or selected FOR UPDATE, is locked until it ends;   *)
(* a statement that writes or locks it waits.  An error of any statement   *)
(* rolls everything back (finishTx).                                       *)
(*                                                                         *)
(* A unit of work is a list of statements to do: what has to happen before *)
(* begin or after commit is in the list too.                               *)
(***************************************************************************)
EXTENDS Integers, Sequences, FiniteSets

CONSTANTS
    Players,   \* each has one goroutine, that of their connection
    Timer,     \* the goroutine of the marketplace's expiry ticker
    Admin,     \* one request of the administration API at a time
    None       \* nil

Procs == Players \union {Timer, Admin}

ASSUME ProcsAssumption ==
    /\ Timer \notin Players /\ Admin \notin Players
    /\ Timer # Admin
    /\ None \notin Procs

VARIABLES
    rows,    \* the committed rows
    writes,  \* the rows each open transaction wrote or locked, as it sees them
    todo,    \* the statements each process has still to run
    job      \* what it runs them for, None between jobs

db == <<rows, writes, todo, job>>

NoRows == [r \in {} |-> None]
One(r, value) == [x \in {r} |-> value]
Over(new, old) ==
    [r \in DOMAIN new \union DOMAIN old |-> IF r \in DOMAIN new THEN new[r] ELSE old[r]]

\* The row as a statement of p sees it: ExecutorFor picks the transaction.
Row(p, r) == IF r \in DOMAIN writes[p] THEN writes[p][r] ELSE rows[r]
Locks(p) == DOMAIN writes[p]
Unlocked(p, r) == \A q \in Procs \ {p} : r \notin Locks(q)

Idle(p) == todo[p] = <<>>
Doing(p, s) == todo[p] # <<>> /\ Head(todo[p]) = s

\* The unit of work j begins: the packet handler, the ticker or the request.
Begin(p, plan, j) ==
    /\ todo' = [todo EXCEPT ![p] = plan]
    /\ job' = [job EXCEPT ![p] = j]
    /\ UNCHANGED <<rows, writes>>

\* A statement of p succeeded, wrote `new`, and left j to remember.
Execute(p, new, j) ==
    /\ writes' = [writes EXCEPT ![p] = Over(new, @)]
    /\ todo' = [todo EXCEPT ![p] = Tail(@)]
    /\ job' = [job EXCEPT ![p] = j]
    /\ UNCHANGED rows

\* finishTx with an error, or the error of a check outside of the transaction.
Rollback(p) ==
    /\ writes' = [writes EXCEPT ![p] = NoRows]
    /\ todo' = [todo EXCEPT ![p] = <<>>]
    /\ job' = [job EXCEPT ![p] = None]
    /\ UNCHANGED rows

\* The statement s of p, which fails when ok is false.
Run(p, s, ok, new, j) ==
    /\ Doing(p, s)
    /\ IF ok THEN Execute(p, new, j) ELSE Rollback(p)

\* finishTx without one; what follows the commit is still to do.
Commit(p) ==
    /\ Doing(p, "commit")
    /\ rows' = [r \in DOMAIN rows |-> Row(p, r)]
    /\ writes' = [writes EXCEPT ![p] = NoRows]
    /\ todo' = [todo EXCEPT ![p] = Tail(@)]
    /\ job' = [job EXCEPT ![p] = IF Len(todo[p]) = 1 THEN None ELSE @]

\* Any statement may fail: a lost connection, a cancelled context.
Fail(p) == ~Idle(p) /\ Rollback(p)

============================================================================
