SPECIFICATION ClusterSpec
CONSTANTS
    Workers = {w1}
    Idle = Idle
    Totals <- MCTotals
    Balances <- MCBalances
    MinSplits = 2
    MaxSplits = 3
    MinDelay = 2
    MaxDelay = 3
    Dust = 2
    KeepPerSplit = 1
    MaxRandom = 1
    U64 = 64
    Grace = 1
    Lifetime = 6
    MaxTime = 9
    Owners = {alice, bob}
    Addresses = {a1, a2}
    Zero = zero
    FirstByte <- MCFirstByte
    Thresholds = {t1, t2}
    MAX_DESTINATIONS = 2
    MAX_SPLITS = 2
    MIN_DELAY_FLOOR = 1
    MAX_DELAY_CEILING = 2
    Counts = {0, 1, 2, 3}
    SplitCounts = {0, 1, 2, 3}
    Delays = {0, 1, 2, 3}
    Updates <- MCUpdates
    VersionModulus = 3
INVARIANTS
    RecordMatchesTransfers
    CompletedWhenAllExecuted
    NextSplitIsApproved
    PendingIsWhatIsNotPaid
    StaysValid
PROPERTIES
    CompletedIsFinal
    PlanCompletes
    HashChanges
\* A plan is carried out, and the clock has a bound.
CHECK_DEADLOCK FALSE
