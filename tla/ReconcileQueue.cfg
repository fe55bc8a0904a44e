\* Two foreground messages under way, posts that fail.  The program may exit,
\* and is then at rest.
CONSTANTS
    MaxForeground = 2
    PostFails = TRUE
SPECIFICATION FairSpec
CHECK_DEADLOCK FALSE
INVARIANTS
    MarkIsTrue
    LatchIsTrue
    WaitingWorkIsAnnounced
PROPERTIES
    NoStabilizationUnderTaskView
    ImplementsPassService
    RequestsAreServed
    ProvidersAreInitialized
