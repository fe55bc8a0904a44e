\* Two handles and two processes: a new Explorer may get a new handle, or the
\* old handle under a new process.
CONSTANTS
    EnterDelay = 1
    ExitDelay = 1
    FastEnterDelay = 0
    FastExitDelay = 1
    SettleDelay = 2
    Handles = {1, 2}
    Pids = {3, 4}
    MaxTime = 6
    RetryInterval = 1
    MaxAttempts = 2
SPECIFICATION BindingSpec
INVARIANTS
    WorksOnlyOnTheCommitted
    OwnedByItsMaker
    VerifiedUntilConfirmed
    PatienceIsKept
PROPERTIES
    ImplementsStableDecision
