\* Two tokens, every cutoff and every lag of the history indexer, errors,
\* process crashes and power losses.
SPECIFICATION FairSpec
CONSTANTS
    Koin = Koin
    Vhp = Vhp
    OldKoin = OldKoin
    OldVhp = OldVhp
    NoAddr = NoAddr
    NoBlock = NoBlock
    a = a
    b = b
    one = one
    two = two
    Extras = {one, two}
    Accounts = {a, b}
    LiveAccounts = {b}
    MigrationHeight = 3
    MaxSafeValue = 3
    MaxHeight = 3
    MaxSeq = 5
    Blocks = {}
    Histories <- MCHistories
    PageSize = 2
    Faults = {"rpc", "write", "crash", "power"}
    MaxFaults = 2
PROPERTIES
    EventuallyReady
INVARIANTS
    TypeOK
    ReplayedOnce
    RowsMatchProgress
    FirstSeenLowered
    ReadyMeansComplete
\* Once ready there is nothing left to do here: the block sync takes over.
CHECK_DEADLOCK FALSE
