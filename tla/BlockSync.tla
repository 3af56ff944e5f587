------------------------------ MODULE BlockSync ------------------------------
(***************************************************************************)
(* internal/sync: SyncToHead copies the blocks of a Koinos node into the   *)
(* store, batch by batch, up to the last irreversible block.               *)
(*                                                                         *)
(* The node (external) is `chain', the chain that ends up irreversible,    *)
(* with its head and LIB moving forward.  Above the LIB the node may still *)
(* hold, and hand out, any other block: a fork.                            *)
(*                                                                         *)
(* `db' is the committed database; `tx' is what the writer sees: the open  *)
(* batch, or the database itself when no batch is open.  One call of       *)
(* SyncToHead runs through pc:                                             *)
(*   idle    -> waiting for the ticker (or for the startup call)           *)
(*   fetch   -> at the head of the loop over batches                       *)
(*   block   -> a batch is open, items[pos] is next                        *)
(*   changes -> applying balance change k of that block                    *)
(*   history -> inserting transfer k of that block                         *)
(* Item i of an answer is the block at height cur + i - 1.                 *)
(*                                                                         *)
(* Faults names the kinds of fault a run may take, MaxFaults bounds them:  *)
(*   empty, short -> GetBlocksByHeight answers with no, or too few, blocks *)
(*   rpc, write   -> an RPC or an SQL statement returns an error           *)
(*   crash, power -> the process dies, or the machine loses power          *)
(***************************************************************************)
EXTENDS TokenStore, FiniteSetsExt

CONSTANTS
    Body,               \* the contents of each block
    Chains,             \* the chains a run may start from
    GenesisLib,         \* the LIB the node first reports
    BatchSize,          \* batchSize
    EmptyRetryLimit,    \* empty answers before head info is refreshed (5)
    Faults, MaxFaults

ASSUME SyncAssumption ==
    /\ Body \in [Blocks -> BlockBody]
    /\ Chains \subseteq [Heights -> Blocks]
    /\ GenesisLib \in 0 .. MaxHeight
    /\ BatchSize \in Nat \ {0}
    /\ EmptyRetryLimit \in Nat
    /\ Faults \subseteq {"empty", "short", "rpc", "write", "crash", "power"}
    /\ MaxFaults \in Nat

VARIABLES
    chain, head, lib,           \* the node
    db, tx, durable,            \* the store; durable: what a power loss keeps
    extras,                     \* cfg.ExtraTokens
    pc, cur, target, safe, items, pos, k, retries,  \* locals of SyncToHead
    faults                      \* faults taken so far

node   == <<chain, head, lib>>
store  == <<db, tx, durable>>
locals == <<cur, target, safe, items, pos, k, retries>>
vars   == <<node, store, extras, pc, locals, faults>>

Phases == {"idle", "fetch", "block", "changes", "history"}

TypeOK ==
    /\ chain \in [Heights -> Blocks]
    /\ head \in Heights /\ lib \in 0 .. MaxHeight
    /\ db \in Database /\ tx \in Database /\ durable \in Database
    /\ extras \subseteq Extras
    /\ pc \in Phases
    /\ cur \in Nat /\ target \in 0 .. MaxHeight /\ safe \in 0 .. MaxHeight
    /\ items \in Seq(Blocks) /\ pos \in Nat /\ k \in Nat
    /\ retries \in Nat
    /\ faults \in 0 .. MaxFaults

Init ==
    /\ chain \in Chains
    /\ lib = GenesisLib
    /\ head \in {h \in Heights : lib <= h}
    /\ db = EmptyDatabase /\ tx = EmptyDatabase /\ durable = EmptyDatabase
    /\ extras \in SUBSET Extras
    /\ pc = "idle"
    /\ cur = 0 /\ target = 0 /\ safe = 0 /\ items = << >>
    /\ pos = 0 /\ k = 0 /\ retries = 0
    /\ faults = 0

----------------------------------------------------------------------------
(* The node.                                                               *)

ProduceBlock ==
    /\ head < MaxHeight
    /\ head' = head + 1
    /\ UNCHANGED <<chain, lib, store, extras, pc, locals, faults>>

Finalize ==
    /\ lib < head
    /\ lib' = lib + 1
    /\ UNCHANGED <<chain, head, store, extras, pc, locals, faults>>

(* GetBlocksByHeight for n blocks from cur, on the chain of the head block *)
(* of the last GetHeadInfo.  What was irreversible then is the final chain *)
(* and above it the answer may come from any fork.                         *)
Answers(n) ==
    {s \in [1 .. n -> Blocks] :
        \A i \in 1 .. n : cur + i - 1 <= safe => s[i] = chain[cur + i - 1]}

----------------------------------------------------------------------------
(* SyncToHead.                                                             *)

(* Mutant: synchronise to the head of the node.                            *)
TargetIsHead == head

TargetHeight == IF lib = 0 THEN head ELSE lib

ResetLocals ==
    /\ cur' = 0 /\ target' = 0 /\ safe' = 0 /\ items' = << >>
    /\ pos' = 0 /\ k' = 0 /\ retries' = 0

(* The call returns: an open batch has been committed or rolled back.      *)
Return ==
    /\ pc' = "idle"
    /\ tx' = db
    /\ ResetLocals
    /\ UNCHANGED <<node, db, durable, extras>>

(* Mutant: the last block before the target does not start a sync.         *)
StartSyncLate ==
    /\ pc = "idle"
    /\ db.height + 1 < TargetHeight
    /\ pc' = "fetch"
    /\ cur' = db.height + 1
    /\ target' = TargetHeight
    /\ safe' = lib
    /\ UNCHANGED <<node, store, extras, items, pos, k, retries, faults>>

(* GetSyncState, GetHeadInfo; nothing to do when already at the target.    *)
StartSync ==
    /\ pc = "idle"
    /\ db.height + 1 <= TargetHeight
    /\ pc' = "fetch"
    /\ cur' = db.height + 1
    /\ target' = TargetHeight
    /\ safe' = lib
    /\ UNCHANGED <<node, store, extras, items, pos, k, retries, faults>>

Count == LET remaining == target - cur + 1
         IN  IF BatchSize > remaining THEN remaining ELSE BatchSize

(* A non-empty answer arrives and BeginBatch opens a transaction.  A node  *)
(* that returns fewer blocks than asked for is a fault.                    *)
ReceiveBlocks ==
    /\ pc = "fetch"
    /\ cur <= target
    /\ \E n \in 1 .. Count :
        /\ \/ n = Count /\ faults' = faults
           \/ n < Count /\ "short" \in Faults /\ faults < MaxFaults /\ faults' = faults + 1
        /\ items' \in Answers(n)
    /\ pc' = "block"
    /\ tx' = db
    /\ pos' = 1
    /\ retries' = 0
    /\ UNCHANGED <<node, db, durable, extras, cur, target, safe, k>>

(* An empty answer: after more than EmptyRetryLimit of them in a row the   *)
(* head info is refreshed, and the loop left when the new target is below. *)
(* `continue' runs the loop's post statement, so cur moves on in any case. *)
EmptyAnswer ==
    LET refresh == retries + 1 > EmptyRetryLimit
        goal    == IF refresh THEN TargetHeight ELSE target
    IN  /\ "empty" \in Faults /\ faults < MaxFaults
        /\ pc = "fetch"
        /\ cur <= target
        /\ faults' = faults + 1
        /\ IF cur > goal
           THEN Return
           ELSE /\ target' = goal
                /\ safe' = IF refresh THEN lib ELSE safe
                /\ retries' = IF refresh THEN 0 ELSE retries + 1
                /\ cur' = cur + BatchSize
                /\ UNCHANGED <<node, store, extras, pc, items, pos, k>>

LoopDone ==
    /\ pc = "fetch"
    /\ cur > target
    /\ Return
    /\ UNCHANGED faults

----------------------------------------------------------------------------
(* processAndStoreInternal, inside the batch.                              *)

Height == cur + pos - 1
Block  == Body[items[pos]]

(* The guard against processing a block twice; else the VHP reset at the   *)
(* migration height, and the addresses of the block.                       *)
BeginBlock ==
    /\ pc = "block"
    /\ pos <= Len(items)
    /\ IF Height <= tx.height
       THEN /\ pos' = pos + 1
            /\ UNCHANGED <<tx, pc, k>>
       ELSE LET s == IF Height = MigrationHeight THEN ResetTokenBalances(tx, Vhp) ELSE tx
            IN  /\ tx' = UpsertAddresses(s, BlockAddresses(extras, Block, Height), Height)
                /\ pc' = "changes"
                /\ k' = 1
                /\ UNCHANGED pos
    /\ UNCHANGED <<node, db, durable, extras, cur, target, safe, items, retries, faults>>

ApplyChange ==
    /\ pc = "changes"
    /\ k <= Len(Block.events)
    /\ LET e == Block.events[k]
       IN  tx' = IF ChangesBalance(extras, e, Height)
                 THEN MoveValue(tx, NormalizeToken(e.source), e)
                 ELSE tx
    /\ k' = k + 1
    /\ UNCHANGED <<node, db, durable, extras, pc, cur, target, safe, items, pos, retries, faults>>

ClearHistory ==
    /\ pc = "changes"
    /\ k > Len(Block.events)
    /\ tx' = DeleteTransfersAtHeight(tx, Height)
    /\ pc' = "history"
    /\ k' = 1
    /\ UNCHANGED <<node, db, durable, extras, cur, target, safe, items, pos, retries, faults>>

WriteTransfer ==
    /\ pc = "history"
    /\ k <= Len(Block.events)
    /\ LET e == Block.events[k]
       IN  tx' = IF Recorded(extras, e)
                 THEN RecordTransfer(tx, Height, NormalizeToken(e.source), e)
                 ELSE tx
    /\ k' = k + 1
    /\ UNCHANGED <<node, db, durable, extras, pc, cur, target, safe, items, pos, retries, faults>>

(* Mutant: the target of the sync is saved as its progress.                *)
FinishBlockAtTarget ==
    /\ pc = "history"
    /\ k > Len(Block.events)
    /\ tx' = SetSyncState(InsertBlock(tx, Height, items[pos]), target)
    /\ pc' = "block"
    /\ pos' = pos + 1
    /\ k' = 0
    /\ UNCHANGED <<node, db, durable, extras, cur, target, safe, items, retries, faults>>

FinishBlock ==
    /\ pc = "history"
    /\ k > Len(Block.events)
    /\ tx' = SetSyncState(InsertBlock(tx, Height, items[pos]), Height)
    /\ pc' = "block"
    /\ pos' = pos + 1
    /\ k' = 0
    /\ UNCHANGED <<node, db, durable, extras, cur, target, safe, items, retries, faults>>

(* CommitBatch, and the post statement of the loop.  With synchronous =    *)
(* NORMAL a commit reaches the disk at the next checkpoint, not before.    *)
Commit ==
    /\ pc = "block"
    /\ pos > Len(items)
    /\ db' = tx
    /\ durable' \in IF "power" \in Faults THEN {durable, tx} ELSE {tx}
    /\ pc' = "fetch"
    /\ cur' = cur + BatchSize
    /\ items' = << >>
    /\ pos' = 0
    /\ UNCHANGED <<node, tx, extras, target, safe, k, retries, faults>>

SyncStep ==
    \/ StartSync \/ ReceiveBlocks \/ LoopDone
    \/ BeginBlock \/ ApplyChange \/ ClearHistory \/ WriteTransfer
    \/ FinishBlock \/ Commit

----------------------------------------------------------------------------
(* Faults.                                                                 *)

Fail(kind) ==
    /\ kind \in Faults
    /\ faults < MaxFaults
    /\ faults' = faults + 1

(* GetBlocksByHeight, or the GetHeadInfo of a refresh, returns an error.   *)
RpcError == pc = "fetch" /\ Fail("rpc") /\ Return

(* Mutant: a failed block is skipped, and the batch goes on.               *)
WriteErrorSkipsBlock ==
    /\ pc \in {"changes", "history"}
    /\ Fail("write")
    /\ pc' = "block" /\ pos' = pos + 1 /\ k' = 0
    /\ UNCHANGED <<node, store, extras, cur, target, safe, items, retries>>

(* Mutant: the batch is committed although a statement failed.             *)
WriteErrorCommits ==
    /\ pc \in {"block", "changes", "history"}
    /\ Fail("write")
    /\ db' = tx /\ tx' = tx /\ durable' = tx
    /\ pc' = "idle"
    /\ ResetLocals
    /\ UNCHANGED <<node, extras>>

(* A statement of the batch, or its commit, fails: RollbackBatch.          *)
WriteError == pc \in {"block", "changes", "history"} /\ Fail("write") /\ Return

(* The process dies: SQLite rolls the open transaction back on reopening.  *)
Crash == pc # "idle" /\ Fail("crash") /\ Return

(* The machine dies: the commits since the last checkpoint are lost too.   *)
PowerLoss ==
    /\ Fail("power")
    /\ db' = durable /\ tx' = durable
    /\ pc' = "idle"
    /\ ResetLocals
    /\ UNCHANGED <<node, durable, extras>>

Next ==
    \/ ProduceBlock \/ Finalize
    \/ SyncStep
    \/ EmptyAnswer \/ RpcError \/ WriteError \/ Crash \/ PowerLoss

Spec == Init /\ [][Next]_vars

(* The ticker of main() calls SyncToHead every ten seconds and SyncToHead  *)
(* runs on until it returns.  Faults are bounded, so it is not for ever    *)
(* interrupted.                                                            *)
FairSpec == Spec /\ WF_vars(SyncStep)

----------------------------------------------------------------------------
(* Reference definitions: what the chain says, independently of the code.  *)

EventsAt(h) == Body[chain[h]].events

(* The contracts whose events make up the balances of token t at height h: *)
(* legacy KOIN was burned and minted anew, legacy VHP simply ended.        *)
Sources(t, h) ==
    CASE t = Koin -> {Koin, OldKoin}
      [] t = Vhp  -> IF h < MigrationHeight THEN {Vhp, OldVhp} ELSE {Vhp}
      [] OTHER    -> {t} \cap extras

(* The transfer, mint and burn events of blocks lo..hi that one of         *)
(* sources(height) emitted, as positions <<height, index>>.                *)
Positions(sources(_), lo, hi) ==
    UNION {{<<h, i>> : i \in {j \in DOMAIN EventsAt(h) :
                                 LET e == EventsAt(h)[j]
                                 IN  /\ e.source \in sources(h) /\ ~e.reverted
                                     /\ e.kind # "other" /\ e.value \in 1 .. MaxSafeValue}}
           : h \in lo .. hi}

At(p) == EventsAt(p[1])[p[2]]

(* What account a gained less what it spent in these events.               *)
Net(a, ps) ==
    LET gain(p)  == IF At(p).kind # "burn" /\ At(p).to = a THEN At(p).value ELSE 0
        spend(p) == IF At(p).kind # "mint" /\ At(p).from = a THEN At(p).value ELSE 0
    IN  MapThenSumSet(gain, ps) - MapThenSumSet(spend, ps)

(* VHP counts from the migration block on once that block is indexed.      *)
CountedFrom(t) == IF t = Vhp /\ MigrationHeight \in 1 .. db.height THEN MigrationHeight ELSE 1

HistorySources(t) ==
    CASE t = Koin -> {Koin, OldKoin} [] t = Vhp -> {Vhp, OldVhp} [] OTHER -> {t} \cap extras

----------------------------------------------------------------------------
(* Properties.                                                             *)

(* Fork safety: every indexed block is the irreversible block of its       *)
(* height, whatever forks the node held when it was fetched.               *)
IndexedIsFinal ==
    \A h \in Heights : db.blocks[h] # NoBlock => h <= lib /\ db.blocks[h] = chain[h]

(* The sync height speaks for every block at or below it and for none      *)
(* above: an interrupted or failed batch leaves neither a hole nor a tail. *)
NoGap ==
    \A h \in Heights : (db.blocks[h] # NoBlock) <=> (h <= db.height)

(* Balances are exactly what the indexed part of the chain adds up to:     *)
(* no event is lost or counted twice by retries, rollbacks, restarts or    *)
(* the way the blocks were cut into batches.                               *)
BalancesExact ==
    \A t \in Tokens \ {Vhp}, a \in Accounts :
        LET src(h) == Sources(t, h)
        IN  db.bal[t][a] = Net(a, Positions(src, 1, db.height))

(* VHP restarts from zero at the migration block, whichever batch that     *)
(* block falls into: from there on only events of the new contract count.  *)
VhpSinceMigration ==
    \A a \in Accounts :
        LET src(h) == Sources(Vhp, h)
        IN  db.bal[Vhp][a] = Net(a, Positions(src, CountedFrom(Vhp), db.height))

(* The transfer history is the events of the indexed blocks: one row per   *)
(* event, under the current contract's address, and in chain order by id.  *)
HistoryExact ==
    LET rowsOf(t)  == {r \in db.rows : r.token = t}
        src(t, h)  == HistorySources(t)
        ps(t)      == LET s(h) == src(t, h) IN Positions(s, 1, db.height)
        matches(r, p) == /\ r.height = p[1] /\ r.kind = At(p).kind /\ r.value = At(p).value
                         /\ r.from = IF r.kind = "mint" THEN NoAddr ELSE At(p).from
                         /\ r.to   = IF r.kind = "burn" THEN NoAddr ELSE At(p).to
        before(p, q) == p[1] < q[1] \/ (p[1] = q[1] /\ p[2] < q[2])
    IN  \A t \in Tokens :
            /\ Cardinality(rowsOf(t)) = Cardinality(ps(t))
            /\ \A r \in rowsOf(t) : \E p \in ps(t) :
                  /\ matches(r, p)
                  /\ Cardinality({q \in ps(t) : before(q, p)})
                       = Cardinality({s \in rowsOf(t) : s.id < r.id})

(* An address is first seen at the lowest indexed block that mentions it.  *)
FirstSeenExact ==
    \A a \in Addresses :
        LET mentions == {h \in 1 .. db.height :
                            a \in BlockAddresses(extras, Body[chain[h]], h)}
        IN  db.seen[a] = IF mentions = {} THEN NotSeen ELSE Min(mentions)

(* The abstract promise: whatever the batches, faults and restarts, the    *)
(* committed blocks are a growing prefix of the irreversible chain.        *)
View == INSTANCE ChainView WITH
            final   <- [h \in 1 .. lib |-> chain[h]],
            indexed <- [h \in 1 .. db.height |-> db.blocks[h]]

ImplementsChainView == View!Spec

(* Whatever becomes irreversible is indexed in the end.                    *)
CatchesUp ==
    \A n \in Heights : lib >= n ~> db.height >= n

(* README: "Old VHP events are stored for transfer history only": no event *)
(* of the legacy VHP contract moves a VHP balance.                         *)
OldVhpIsHistoryOnly ==
    \A a \in Accounts :
        LET src(h) == {Vhp}
        IN  db.bal[Vhp][a] = Net(a, Positions(src, CountedFrom(Vhp), db.height))

(* handlers.go: "holders and transfers are complete" for an indexed token: *)
(* every transfer, mint or burn of an indexed block has its row.           *)
EveryTransferRecorded ==
    \A t \in Tokens, h \in 1 .. db.height :
        Cardinality({r \in db.rows : r.token = t /\ r.height = h}) =
        Cardinality({i \in DOMAIN EventsAt(h) :
                       LET e == EventsAt(h)[i]
                       IN  /\ e.source \in HistorySources(t) /\ ~e.reverted
                           /\ e.kind # "other" /\ e.value > 0})
=============================================================================
