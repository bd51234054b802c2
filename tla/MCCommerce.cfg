SPECIFICATION Spec
CONSTANTS
    ann = ann
    bob = bob
    cat = cat
    timer = timer
    admin = admin
    sofa = sofa
    lamp = lamp
    rare = rare
    dan = dan
    eve = eve
    rex = rex
    fay = fay
    kit = kit
    None = None
    Players = {ann, bob, cat}
    Timer = timer
    Admin = admin
    Infinite = {cat}
    Items = {sofa}
    Listings = {1, 2}
    Prices = {1}
    Commission = 1
    TokenCost = 1
    TokenPackageSize = 1
    Offers = {rare}
    MaxStack = 2
    Cost = 1
    VoucherCredits = 1
    VoucherOffer = rare
    RedemptionCap = 1
    Quota <- MCQuota
    Menus <- MCMenus
    Credits <- MCCredits
    Purses <- MCPurses
    Owned <- MCOwned
    OnSale <- MCOnSale
    Stacks <- MCStacks
    Breeders = {dan, eve}
    Parents = {rex, fay, kit}
    OwnerOf <- Owners
    Nests = {1, 2}
    Seasons <- MCSeasons
    Refreshes = 2
    Changes = 3
INVARIANTS
    ListedIsReserved
    UnitsCounted
    MarketOrdered
    OneEngagement
PROPERTIES
    BazaarSpec
    ParentsSpent
CHECK_DEADLOCK FALSE
