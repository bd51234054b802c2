SPECIFICATION Spec
CONSTANTS
    a = a
    b = b
    chair = chair
    coin = coin
    s1 = s1
    s2 = s2
    None = None
    Players = {a, b}
    Items = {chair, coin}
    CreditItems = {coin}
    Sessions = {s1}
    MaxItems = 2
    Leavers = {}
    Usable = {chair}
INVARIANTS
    ValueOnce
PROPERTIES
    OnlyOwnerWithdraws
    SettlementEnds
    SwapSpec
