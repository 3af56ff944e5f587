\* Restarts and a failing service; everything irreversible is indexed in the end.
SPECIFICATION FairSpec
CONSTANTS
    Koin = Koin
    Vhp = Vhp
    OldKoin = OldKoin
    OldVhp = OldVhp
    NoAddr = NoAddr
    NoBlock = NoBlock
    a = a
    b = b
    one = one
    two = two
    b1 = b1
    b2 = b2
    b3 = b3
    Extras = {one, two}
    Accounts = {a, b}
    MigrationHeight = 2
    MaxSafeValue = 3
    MaxHeight = 3
    MaxSeq = 3
    Blocks <- MCBlocks
    Body <- MCBody
    Chains <- MCChains
    GenesisLib = 1
    BatchSize = 2
    EmptyRetryLimit = 1
    PageSize = 2
    Faults = {"empty", "short", "rpc", "crash"}
    MaxFaults = 1
PROPERTIES
    CatchesUp
\* The chain is bounded: a synced indexer has nothing left to do.
CHECK_DEADLOCK FALSE
