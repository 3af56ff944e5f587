\* Two transactions and a branch of two blocks above a trunk of two, where the
\* LIB has reached the cutoff; payloads of any length over one usual and one
\* odd address; a check of two holders on a chain that moves twice.
SPECIFICATION Spec
CONSTANTS
  \* EntryResolution
  Txs = {1, 2}
  Placements <- MCPlacements
  MaxHeight = 4
  ForkAt = 2
  StartLibs = {2}
  Cutoffs = {1, 2}
  Missing = {2}
  HasFallback = TRUE
  MaxFaults = 1
  \* EventDecoding
  Accounts = {acct}
  OddAddrs = {short}
  NoAddr = noaddr
  Values = {0, 1, 2, 3}
  MaxSafeValue = 2
  \* Verification
  Addresses = {a1, a2}
  MaxBalance = 1
  MaxRetries = 2
  MaxMoves = 2
  MaxSetbacks = 2
INVARIANTS
  TypeOK
  ReplayExact
  SameMove
PROPERTIES
  EveryEntryPlaced
  RecordIsTrue
\* A replay that ends, and a dry run, are over.
CHECK_DEADLOCK FALSE
