SPECIFICATION Spec
CONSTANTS
    ann = ann
    bob = bob
    cat = cat
    sam = sam
    hall = hall
    attic = attic
    o1 = o1
    o2 = o2
    o3 = o3
    None = None
    Players = {ann, bob}
    Staff = {ann}
    RoomIds = {hall}
    Closable = {hall}
    Objects = {o1, o2}
    MaxUsers = 1
    Bypassers = {}
    SpectatorEnabled = TRUE
    Doorbells = {}
    Owner <- MCOwner
    Answerers <- MCAnswerers
INVARIANTS
    ClosedRoomsAreEmpty
    LoopsAreReachable
    RegularsHaveUnits
    CapacityRespected
SYMMETRY Interchangeable
