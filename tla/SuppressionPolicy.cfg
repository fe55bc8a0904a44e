\* One tick stands for 50 ms: 250, 500, 0 and 100 ms become 5, 10, 0 and 2;
\* the clock runs for 26 ticks, enough to enter, leave and enter again.
CONSTANTS
    EnterDelay = 5
    ExitDelay = 10
    FastEnterDelay = 0
    FastExitDelay = 2
    SettleDelay = 5
    MaxTime = 26
SPECIFICATION Spec
PROPERTIES
    CommitAfterDwell
    SlowReturnFromHiddenTaskbar
    ImplementsStableDecision
