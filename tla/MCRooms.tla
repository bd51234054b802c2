------------------------------ MODULE MCRooms ------------------------------
(* Instances of Rooms for TLC: ann owns every room.                        *)
EXTENDS Rooms, TLC

CONSTANTS ann, bob, cat, sam, hall, attic, o1, o2, o3

MCOwner == [i \in RoomIds |-> ann]
MCAnswerers == [i \in RoomIds |-> {ann}]

\* Room objects differ in nothing but their identity.
Interchangeable == Permutations(Objects)

\* Bound: the behaviours in which goroutines take turns on each player.
TurnsSpec == Init /\ [][Next /\ overlapped' = {}]_vars

============================================================================
