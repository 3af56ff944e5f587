---------------------------- MODULE TransferQueries ----------------------------
(***************************************************************************)
(* What GET /transfers answers (handlers.go and the queries of sqlite.go   *)
(* behind it) while the sync appends blocks, a history backfill inserts    *)
(* old transfers with new row ids, and batches are rolled back. A query    *)
(* sees the open transaction (StoreBatch).                                 *)
(*                                                                         *)
(* A client walks the pages of an address; its walk is a variable. All     *)
(* other answers are operators of the database, taken in every state.      *)
(***************************************************************************)
EXTENDS Naturals, Sequences, FiniteSets, SequencesExt

CONSTANTS
  Accounts,       \* addresses of transfers
  NoAddr,         \* the empty address of a mint or a burn
  Tokens,
  Moves,          \* what a transfer may be: [type, from, to]
  CountCap,       \* countCap
  MaxLimit,       \* the largest page
  MaxOffset,      \* maxOffset
  Window,         \* RecentFilterWindow
  Walkers,        \* the addresses whose pages a client walks
  MaxRows,        \* bound on the rows of transfers
  MaxHeight,      \* bound on the chain
  MaxRollbacks    \* bound on failed batches

Types == {"transfer", "mint", "burn"}
Move == [type : Types, from : Accounts \cup {NoAddr}, to : Accounts \cup {NoAddr}]

ASSUME TransferQueriesAssumption ==
  /\ NoAddr \notin Accounts
  /\ Walkers \subseteq Accounts
  /\ Moves \subseteq Move
  /\ {CountCap, MaxLimit} \subseteq Nat \ {0}
  /\ {MaxOffset, Window, MaxRows, MaxHeight, MaxRollbacks} \subseteq Nat

VARIABLES
  transfers,     \* the rows in the order of their ids, as a query sees them
  height,        \* sync_state, likewise
  saved,         \* rows and height that are committed
  rollbacks,
  walk           \* the client's walk through the pages of an address

transfersVars == <<transfers, height, saved, rollbacks, walk>>

Row == [height : 1 .. MaxHeight, token : Tokens, type : Types,
        from : Accounts \cup {NoAddr}, to : Accounts \cup {NoAddr}]

NoWalk == [on |-> FALSE, addr |-> NoAddr, limit |-> 0, offset |-> 0,
           present |-> {}, seen |-> {}, complete |-> FALSE, disturbed |-> FALSE]

TransfersInit ==
  /\ transfers = <<>> /\ height = 0
  /\ saved = [rows |-> 0, height |-> 0]
  /\ rollbacks = 0
  /\ walk = NoWalk

-----------------------------------------------------------------------------
(* The database changes *)

RowOf(h, token, move) ==
  [height |-> h, token |-> token, type |-> move.type, from |-> move.from, to |-> move.to]

\* The next block, with at most one transfer.
SyncBlock ==
  /\ height < MaxHeight
  /\ height' = height + 1
  /\ \/ UNCHANGED transfers
     \/ /\ Len(transfers) < MaxRows
        /\ \E token \in Tokens, move \in Moves :
             transfers' = Append(transfers, RowOf(height + 1, token, move))
  /\ UNCHANGED <<saved, rollbacks, walk>>

\* A backfill replays a transfer of a block already passed.
BackfillRow ==
  /\ Len(transfers) < MaxRows
  /\ \E h \in 1 .. height, token \in Tokens, move \in Moves :
       transfers' = Append(transfers, RowOf(h, token, move))
  /\ UNCHANGED <<height, saved, rollbacks, walk>>

Committed == [rows |-> Len(transfers), height |-> height]

Commit ==
  /\ saved # Committed
  /\ saved' = Committed
  /\ UNCHANGED <<transfers, height, rollbacks, walk>>

\* Mutant: the block after the failed one counts as done.
RollbackToNext ==
  /\ saved # Committed
  /\ rollbacks < MaxRollbacks
  /\ rollbacks' = rollbacks + 1
  /\ transfers' = SubSeq(transfers, 1, saved.rows)
  /\ saved' = [saved EXCEPT !.height = height + 1]
  /\ walk' = [walk EXCEPT !.disturbed = TRUE]
  /\ UNCHANGED height

\* The rows of the open batch vanish; their ids are given out again.
Rollback ==
  /\ saved # Committed
  /\ rollbacks < MaxRollbacks
  /\ rollbacks' = rollbacks + 1
  /\ transfers' = SubSeq(transfers, 1, saved.rows)
  /\ height' = saved.height
  /\ walk' = [walk EXCEPT !.disturbed = TRUE]
  /\ UNCHANGED saved

-----------------------------------------------------------------------------
(* Queries *)

Ids == DOMAIN transfers

\* ORDER BY height DESC, id DESC
Newer(i, j) ==
  \/ transfers[i].height > transfers[j].height
  \/ transfers[i].height = transfers[j].height /\ i > j

NewestFirst(ids) ==
  [k \in 1 .. Cardinality(ids) |->
     CHOOSE i \in ids : Cardinality({j \in ids : Newer(j, i)}) = k - 1]

\* Mutant: a later page begins one row too far down.
PageSkipsOne(rows, limit, offset) ==
  LET from == IF offset = 0 THEN 1 ELSE offset + 2
  IN SubSeq(rows, from, IF limit + offset < Len(rows) THEN limit + offset ELSE Len(rows))

\* LIMIT ? OFFSET ?
Page(rows, limit, offset) ==
  SubSeq(rows, offset + 1, IF limit + offset < Len(rows) THEN limit + offset ELSE Len(rows))

RowsFrom(a) == {i \in Ids : transfers[i].from = a}
RowsTo(a)   == {i \in Ids : transfers[i].to = a}

AtMost(n, cap) == IF n < cap THEN n ELSE cap
FromCount(a) == AtMost(Cardinality(RowsFrom(a)), CountCap)
ToCount(a)   == AtMost(Cardinality(RowsTo(a)), CountCap)
TotalCount(a) == FromCount(a) + ToCount(a)

\* Mutant: the comparison a cap that counts can never exceed.
CappedStrictly(a) == FromCount(a) > CountCap \/ ToCount(a) > CountCap

Capped(a) == FromCount(a) >= CountCap \/ ToCount(a) >= CountCap

\* Mutant: each side delivers only one page.
ByAddressPerLimit(a, limit, offset) ==
  LET side(ids) == ToSet(Page(NewestFirst(ids), limit, 0))
  IN Page(NewestFirst(side(RowsFrom(a)) \cup side(RowsTo(a))), limit, offset)

\* GetTransfersByAddress: the newest limit+offset rows of each side, merged.
ByAddress(a, limit, offset) ==
  LET side(ids) == ToSet(Page(NewestFirst(ids), limit + offset, 0))
  IN Page(NewestFirst(side(RowsFrom(a)) \cup side(RowsTo(a))), limit, offset)

\* Mutant: ORDER BY id DESC.
RecentById(limit) == Page(Reverse([i \in Ids |-> i]), limit, 0)

\* GetRecentTransfers
Recent(limit) == Page(NewestFirst(Ids), limit, 0)

\* Mutant: head - window wraps around below zero.
SinceWrapped == (height + 2 ^ 16 - Window) % 2 ^ 16

Since == IF height > Window THEN height - Window ELSE 0

\* GetRecentTransfersFiltered; AnyType stands for no type.
AnyType == "any"
RecentFiltered(token, type, limit) ==
  LET matches(i) == /\ transfers[i].token = token
                    /\ transfers[i].height >= Since
                    /\ type \in {AnyType, transfers[i].type}
  IN Page(NewestFirst({i \in Ids : matches(i)}), limit, 0)

\* handleTransfers: too large a limit or offset is cut, not refused.
CutLimit(limit) == AtMost(limit, MaxLimit)
CutOffset(offset) == AtMost(offset, MaxOffset)

-----------------------------------------------------------------------------
(* A client reads page after page of an address *)

StartWalk(a, limit) ==
  /\ ~walk.on
  /\ walk' = [NoWalk EXCEPT !.on = TRUE, !.addr = a, !.limit = CutLimit(limit),
                            !.present = RowsFrom(a) \cup RowsTo(a)]
  /\ UNCHANGED <<transfers, height, saved, rollbacks>>

\* The walk is over with a short page, or when the answer names another offset
\* than the request.
NextPage ==
  /\ walk.on
  /\ LET offset == CutOffset(walk.offset)
         page == ByAddress(walk.addr, walk.limit, offset)
     IN walk' = [walk EXCEPT !.seen = @ \cup ToSet(page),
                             !.offset = IF offset = @ THEN @ + walk.limit ELSE @,
                             !.complete = Len(page) < walk.limit,
                             !.on = Len(page) = walk.limit /\ offset = walk.offset]
  /\ UNCHANGED <<transfers, height, saved, rollbacks>>

TransfersNext ==
  \/ SyncBlock \/ BackfillRow \/ Commit \/ Rollback
  \/ \E a \in Walkers, limit \in 1 .. MaxLimit + 1 : StartWalk(a, limit)
  \/ NextPage

TransfersSpec == TransfersInit /\ [][TransfersNext]_transfersVars

-----------------------------------------------------------------------------
(* Properties *)

\* Every variable has its type; a walk knows only rows there are or were.
TransfersTypeOK ==
  /\ transfers \in Seq(Row) /\ Len(transfers) <= MaxRows
  /\ height \in 0 .. MaxHeight
  /\ saved \in [rows : 0 .. MaxRows, height : 0 .. MaxHeight]
  /\ saved.rows <= Len(transfers) /\ saved.height <= height
  /\ rollbacks \in 0 .. MaxRollbacks
  /\ walk.limit \in 0 .. MaxLimit
  /\ walk.present \cup walk.seen \subseteq 1 .. MaxRows

Pages == (1 .. MaxLimit) \X (0 .. MaxOffset)

\* Merging the newest limit+offset rows of the two sides gives the very page a
\* merge of all rows of the address would give, self-transfers once.
PageOfWhole ==
  \A a \in Accounts, p \in Pages :
    ByAddress(a, p[1], p[2]) = Page(NewestFirst(RowsFrom(a) \cup RowsTo(a)), p[1], p[2])

\* A client that walks the pages to a short one has seen every transfer that was
\* there when it began, although blocks and backfills insert rows above and
\* below meanwhile, unless a batch it had read from was rolled back.
WalkComplete ==
  (walk.complete /\ ~walk.disturbed) => walk.present \subseteq walk.seen

SelfTransfers(a) == RowsFrom(a) \cap RowsTo(a)

\* For an address without self-transfers the total is the number of its rows, or
\* is flagged as capped and not above it.
CountsExact ==
  \A a \in Accounts : SelfTransfers(a) = {} =>
    LET rows == Cardinality(RowsFrom(a) \cup RowsTo(a)) IN
    IF Capped(a) THEN TotalCount(a) <= rows ELSE TotalCount(a) = rows

\* The recent feed is newest by chain height: a transfer of an old block that a
\* backfill has just inserted never pushes out one of a newer block.
RecentByChain ==
  \A limit \in 0 .. MaxLimit :
    LET shown == ToSet(Recent(limit)) IN
    \A i \in shown, j \in Ids \ shown : transfers[j].height <= transfers[i].height

\* The filtered feed shows the newest rows of a token and a type within the window
\* below the head, in chain order, and leaves one out only where the page is full
\* of newer ones; also while the chain is shorter than the window.
FilteredIsRecent ==
  \A token \in Tokens, type \in Types \cup {AnyType}, limit \in 1 .. MaxLimit :
    LET feed  == RecentFiltered(token, type, limit)
        shown == ToSet(feed)
        wanted == {i \in Ids : /\ transfers[i].token = token
                               /\ type \in {AnyType, transfers[i].type}
                               /\ transfers[i].height + Window >= height}
    IN /\ \A m, n \in DOMAIN feed : m < n => Newer(feed[m], feed[n])
       /\ shown \subseteq wanted
       /\ \A j \in wanted \ shown : Len(feed) = limit /\ \A i \in shown : Newer(i, j)

\* GET /transfers, in each of its three forms, answers what a single query over
\* the whole table would: the pages and totals of an address, the recent feed and
\* the filtered one.
HistoryAnswersRight == PageOfWhole /\ CountsExact /\ RecentByChain /\ FilteredIsRecent
================================================================================
