SPECIFICATION SanctionsSpec
CONSTANTS
    Players = {p1}
    Issuers = {m1}
    Ladder <- Steps
    Kinds = {"mute"}
    Rows = 2
    Sessions = 1
    Rebuilds = 1
INVARIANTS MutesShown
CHECK_DEADLOCK FALSE
