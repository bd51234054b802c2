SPECIFICATION Spec
CONSTANTS
    c1 = c1
    c2 = c2
    c3 = c3
    ann = ann
    bob = bob
    t1 = t1
    t2 = t2
    u = u
    None = None
    Conns = {c1, c2}
    Players = {ann}
    Tickets = {t1, t2}
    Owner <- MCOwner
    Sanctioned = {ann}
    Ringers = {}
PROPERTIES
    DisconnectRemovesOwnUnit
CHECK_DEADLOCK FALSE
