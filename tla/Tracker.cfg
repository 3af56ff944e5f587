\* Two tokens registered in any order and at any height, restarts, power losses.
SPECIFICATION Spec
CONSTANTS
    Koin = Koin
    Vhp = Vhp
    OldKoin = OldKoin
    OldVhp = OldVhp
    NoAddr = NoAddr
    NoBlock = NoBlock
    a = a
    b = b
    one = one
    two = two
    b1 = b1
    b2 = b2
    b3 = b3
    Extras = {one, two}
    Accounts = {a, b}
    MigrationHeight = 2
    MaxSafeValue = 3
    MaxHeight = 3
    MaxSeq = 3
    Blocks <- MCBlocks
    Body <- MCBody
    Chains <- MCChains
    GenesisLib = 2
    BatchSize = 2
    EmptyRetryLimit = 1
    PageSize = 2
    Faults = {"rpc", "write", "crash", "power"}
    MaxFaults = 2
INVARIANTS
    TypeOK
    SyncWaitsForImport
    WholeHistoryOnce
    WholeTransfersOnce
\* The chain is bounded: a synced indexer has nothing left to do.
CHECK_DEADLOCK FALSE
