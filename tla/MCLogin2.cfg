SPECIFICATION FairSpec
CONSTANTS
    c1 = c1
    c2 = c2
    c3 = c3
    ann = ann
    bob = bob
    t1 = t1
    t2 = t2
    u = u
    None = None
    Conns = {c1, c2}
    Players = {ann, bob}
    Tickets = {t1, u}
    Owner <- MCOwner
    Sanctioned = {ann}
    Ringers = {bob}
PROPERTIES
    SessionsEnd
    BanEndsSession
CHECK_DEADLOCK FALSE
