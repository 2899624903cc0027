SPECIFICATION Spec
CONSTANTS
    a1 = a1
    a2 = a2
    h1 = h1
    h2 = h2
    NoOne = NoOne
    Avatars <- MCAvatars
    Hooks <- MCHooks
    Shows <- MCShows
    Calls <- MCCalls
    Threads = 2
    MaxActs = 3
    MaxFaults = 1
CHECK_DEADLOCK FALSE
INVARIANT TypeOK
INVARIANT SharedIsServed
INVARIANT ShowsItsOwn
PROPERTY AttemptsEnd
