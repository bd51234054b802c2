SPECIFICATION Spec
CONSTANTS
    a = a
    b = b
    chair = chair
    coin = coin
    s1 = s1
    s2 = s2
    None = None
    Players = {a, b}
    Items = {chair, coin}
    CreditItems = {coin}
    Sessions = {s1, s2}
    MaxItems = 1
    Leavers = {a}
    Usable = {}
INVARIANTS
    RegistryExact
    OneSettler
    SettlementOwnsSession
    AgreedTerms
