\* A tick of three bits, and gaps that are longer than its range as long as the
\* provider may fail; two ticks at most once it works and the overlay is visible.
SPECIFICATION FairSpec
CONSTANTS
    TickRange = 8
    RetryInterval = 2
    MaxGap = 8
    VisibleGap = 2
    WildcardArray = TRUE
INVARIANTS NoQueryLeaks MeasuresOverAnInterval
PROPERTIES BackoffIsKept DueIsRetried Recovers
