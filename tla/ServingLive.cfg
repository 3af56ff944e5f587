\* Writers and handlers that wait for the mutex and the one connection; failed
\* flushes, lost answers and full channels; a signal at any moment.
SPECIFICATION FairSpec
CONSTANTS
  Parts = {"store", "reconcile", "server"}
  \* StoreBatch
  Writers = {main, recon}
  Main = main
  Readers = {api}
  SideReaders = {side}
  None = none
  Handlers = {"blocks"}
  MaxBatches = 1
  MaxErrors = 1
  \* TransferQueries
  alice = alice
  bob = bob
  koin = koin
  Accounts = {alice, bob}
  NoAddr = noaddr
  Walkers = {alice}
  Tokens = {koin, other}
  Moves <- MCMoves
  CountCap = 2
  MaxLimit = 2
  MaxOffset = 2
  Window = 2
  MaxRows = 3
  MaxHeight = 4
  MaxRollbacks = 1
  \* ExplorerQueries
  Addresses = {1, 2, 3}
  NoSigner = 0
  Amounts = {0, 2, 3, 8}
  Radix = 3
  MaxHolders = 2
  MaxHolderOffset = 1
  ProducerWindow = 2
  NewestBlocks = 3
  Span = 2
  MaxBlock = 4
  \* Reconcile
  Total = 4
  Workers = {w1, w2}
  WorkCap = 1
  UpdateCap = 1
  WriteBatch = 2
  PageSize = 2
  MaxRetries = 2
  LastBlock = 1
  Chain <- MCChain
  Synced = 1
  MaxFailures = 2
  \* ApiServer
  Requests = {r1, r2}
  Queries = 2
PROPERTIES
  NobodyWaitsForEver
  RunReturns
  SignalEnds
\* The programs end.
CHECK_DEADLOCK FALSE
