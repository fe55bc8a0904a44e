SPECIFICATION FairSpec
CONSTANTS
    TickRange = 8
    Start = 5
    Warmup = 2
    Burst = 1
    Resume = 1
    Reasons = {"None", "Fullscreen"}
    Sources = {"Other"}
    Faults = {}
    MaxTrouble = 1
    Damages = {}
PROPERTIES WarmupIsShort
CHECK_DEADLOCK FALSE
