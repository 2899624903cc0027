SPECIFICATION Spec
CONSTANTS
    chat = chat
    param = param
    NoCard = NoCard
    Cards <- MCCards
    Defaults <- MCDefaults
    Chatbox <- MCChatbox
    Interval <- MCInterval
    AutoLimit = 2
    MaxProfiles = 2
    MaxRuns = 2
    MaxActs = 4
INVARIANT TypeOK
INVARIANT NoTimerAdrift
PROPERTY StopIsHeard
PROPERTY AutoGoesOn
