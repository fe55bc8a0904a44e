\* src/README.md 93-94, of a counter that stays unavailable.
SPECIFICATION Spec
CONSTANTS
    TickRange = 8
    RetryInterval = 2
    MaxGap = 4
    VisibleGap = 4
    WildcardArray = FALSE
PROPERTY UnavailableIsShown
