SPECIFICATION Spec
CONSTANTS
    radar = radar
    dock = dock
    bob = bob
    Pages <- MCPages
    Players <- MCPlayers
    MaxLog = 3
CHECK_DEADLOCK FALSE
INVARIANT RadarIsTrue
