\* Two keys for one slot, so that one of them may overflow; a cooldown that is
\* longer than the wait for another try to record a recovery.  Nobody repeats that
\* k2 works.
SPECIFICATION FairSpec
CONSTANTS
    Keys = {k1, k2}
    Repeated = {k1}
    Overflow = overflow
    Capacity = 1
    Interval = 3
    OverflowInterval = 2
    RetryInterval = 2
    MaxPending = 2
INVARIANTS CooldownIsKept RecordIsDueForReported NothingIsUncounted
PROPERTY TableDrains
\* At rest, with the table empty, nothing is left to do.
CHECK_DEADLOCK FALSE
