SPECIFICATION Spec
CONSTANTS
    ann = ann
    p1 = p1
    p2 = p2
    p3 = p3
    stranger = stranger
    Players = {ann}
    Issuers = {i1, i2}
    Ladder <- Steps
    Kinds = {"warn", "trade_lock"}
    Rows = 2
    Sessions = 1
    Rebuilds = 1
    Guests = {p1, p2, p3}
    Nobody = Nobody
    Scenes <- Played
    Staff = {m1}
SYMMETRY Swaps
INVARIANTS
    SnapshotsExact
    TalksAgree
    IndexLeadsToOpen
    JudgedByOthers
    PunishedOnce
PROPERTIES
    Climbs
CHECK_DEADLOCK FALSE
