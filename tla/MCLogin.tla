------------------------------ MODULE MCLogin ------------------------------
(* Instances of Login for TLC: the tickets t1 and t2 are ann's, u is bob's. *)
EXTENDS Login, TLC

CONSTANTS c1, c2, c3, ann, bob, t1, t2, u

MCOwner == [t \in Tickets |-> IF t = u THEN bob ELSE ann]

\* Connections differ in nothing but their ids.
Interchangeable == Permutations(Conns)

============================================================================
