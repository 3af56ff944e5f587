\* The reconciliation of three addresses, with failed calls.
SPECIFICATION Spec
CONSTANTS
  Parts = {"reconcile"}
  \* StoreBatch
  Writers = {main, recon}
  Main = main
  Readers = {api}
  SideReaders = {side}
  None = none
  Handlers = {"recent", "status", "tokens"}
  MaxBatches = 2
  MaxErrors = 1
  \* TransferQueries
  alice = alice
  bob = bob
  koin = koin
  Accounts = {alice, bob}
  NoAddr = noaddr
  Walkers = {alice}
  Tokens = {koin, other}
  Moves <- MCMoves
  CountCap = 2
  MaxLimit = 2
  MaxOffset = 2
  Window = 2
  MaxRows = 3
  MaxHeight = 4
  MaxRollbacks = 1
  \* ExplorerQueries; in radix 3, 2 has one digit, 3 and 8 two
  Addresses = {1, 2, 3}
  NoSigner = 0
  Amounts = {0, 2, 3, 8}
  Radix = 3
  MaxHolders = 2
  MaxHolderOffset = 1
  ProducerWindow = 2
  NewestBlocks = 3
  Span = 2
  MaxBlock = 4
  \* Reconcile
  Total = 3
  Workers = {w1, w2}
  WorkCap = 1
  UpdateCap = 1
  WriteBatch = 2
  PageSize = 2
  MaxRetries = 2
  LastBlock = 2
  Chain <- MCChain
  Synced = 1
  MaxFailures = 2
  \* ApiServer
  Requests = {r1, r2, r3}
  Queries = 2
INVARIANTS
  AuthoritativeValues
\* The programs end.
CHECK_DEADLOCK FALSE
