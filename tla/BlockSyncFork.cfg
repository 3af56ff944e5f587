\* A node that reports LIB 0 while it holds blocks.
SPECIFICATION Spec
CONSTANTS
    Koin = Koin
    Vhp = Vhp
    OldKoin = OldKoin
    OldVhp = OldVhp
    a = a
    b = b
    extra = extra
    NoAddr = NoAddr
    NoBlock = NoBlock
    b1 = b1
    b2 = b2
    b3 = b3
    b4 = b4
    fork = fork
    Extras = {extra}
    Accounts = {a, b}
    MigrationHeight = 3
    MaxSafeValue = 3
    MaxHeight = 4
    MaxSeq = 0
    Blocks <- MCBlocks
    Body <- MCBody
    Chains <- MCChains
    GenesisLib = 0
    BatchSize = 2
    EmptyRetryLimit = 1
    Faults = {}
    MaxFaults = 0
INVARIANTS
    IndexedIsFinal
\* The chain is bounded: a synced indexer has nothing left to do.
CHECK_DEADLOCK FALSE
