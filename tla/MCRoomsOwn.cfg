SPECIFICATION TurnsSpec
CONSTANTS
    ann = ann
    bob = bob
    cat = cat
    sam = sam
    hall = hall
    attic = attic
    o1 = o1
    o2 = o2
    o3 = o3
    None = None
    Players = {ann, bob}
    Staff = {ann}
    RoomIds = {hall, attic}
    Closable = {hall}
    Objects = {o1, o2, o3}
    MaxUsers = 1
    Bypassers = {bob}
    SpectatorEnabled = FALSE
    Doorbells = {attic}
    Owner <- MCOwner
    Answerers <- MCAnswerers
INVARIANTS
    OccupantsAreFound
SYMMETRY Interchangeable
