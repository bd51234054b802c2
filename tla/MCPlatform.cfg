SPECIFICATION Spec
CONSTANTS
    a = a
    b = b
    c = c
    horse = horse
    g1 = g1
    g2 = g2
    m1 = m1
    m2 = m2
    r1 = r1
    stranger = stranger
    QueueSize = 2
    Pings = 1
    Broadcasts = 1
    Required = TRUE
    Tiles = {1, 2, 3}
    Adjacent <- Line
    Door = 1
    Players = {a, b}
    Pets = {horse}
    Order <- Sorted
    Commands = 3
    Changes = 1
    Kinds = {"walk", "kick", "enter", "leave", "decorate", "teleport", "control", "mount"}
    Groups = {g1, g2}
    Weighted <- Heaviest
    Player = a
    Readers = {r1}
    Admins = {m1, m2}
    Starts <- Tables
    Guests = {a, b, c}
    Nobody = Nobody
    Scenes <- Reviews
    Staff = {}
INVARIANTS SealedInOrder MountedTogether SittersSit
PROPERTIES EverybodyEnds StepsAreWalkable CachesConverge ReviewsEnd
CHECK_DEADLOCK FALSE
