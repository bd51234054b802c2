SPECIFICATION FairSpec
CONSTANTS
    ann = ann
    bob = bob
    cat = cat
    sam = sam
    hall = hall
    attic = attic
    o1 = o1
    o2 = o2
    o3 = o3
    None = None
    Players = {ann, bob}
    Staff = {}
    RoomIds = {hall}
    Closable = {hall}
    Objects = {o1, o2}
    MaxUsers = 1
    Bypassers = {}
    SpectatorEnabled = FALSE
    Doorbells = {hall}
    Owner <- MCOwner
    Answerers <- MCAnswerers
PROPERTIES
    RequestsEnd
