\* Batches of two blocks; RPC and SQL errors, process and machine
\* crashes, and answers without the last blocks of a sync.
SPECIFICATION TailSpec
CONSTANTS
    Koin = Koin
    Vhp = Vhp
    OldKoin = OldKoin
    OldVhp = OldVhp
    a = a
    b = b
    extra = extra
    NoAddr = NoAddr
    NoBlock = NoBlock
    b1 = b1
    b2 = b2
    b3 = b3
    b4 = b4
    fork = fork
    Extras = {extra}
    Accounts = {a, b}
    MigrationHeight = 3
    MaxSafeValue = 3
    MaxHeight = 4
    MaxSeq = 0
    Blocks <- MCBlocks
    Body <- MCBody
    Chains <- MCChains
    GenesisLib = 1
    BatchSize = 2
    EmptyRetryLimit = 1
    Faults = {"empty", "short", "rpc", "write", "crash", "power"}
    MaxFaults = 2
PROPERTIES
    ImplementsChainView
    CatchesUp
INVARIANTS
    TypeOK
    IndexedIsFinal
    NoGap
    BalancesExact
    VhpSinceMigration
    HistoryExact
    FirstSeenExact
\* The chain is bounded: a synced indexer has nothing left to do.
CHECK_DEADLOCK FALSE
