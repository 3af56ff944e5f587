--------------------------- MODULE BlockSyncProofs ---------------------------
(***************************************************************************)
(* Theorems about BlockSync, for every chain, batch size, fault budget and *)
(* set of tokens: type correctness, fork safety, the absence of gaps, the  *)
(* refinement of ChainView, and that balances, history and first-seen      *)
(* heights are those of the indexed blocks.                                *)
(***************************************************************************)
EXTENDS BlockSync, TokenStoreProofs

InBatch == pc \in {"block", "changes", "history"}

----------------------------------------------------------------------------
(* Type correctness.  TypeOK alone is not inductive: the height written to *)
(* the tables is in range only because an open batch stays below target.   *)

Progress ==
    /\ pc # "idle" => cur \in Nat \ {0}
    /\ InBatch => pos \in 1 .. Len(items) + 1 /\ cur + Len(items) - 1 <= target
    /\ pc \in {"changes", "history"} => pos <= Len(items) /\ k \in Nat \ {0}

TypeInv == TypeOK /\ Progress

(* The block under work lies within the chain, and its body is known.      *)
LEMMA CurrentBlock ==
  ASSUME TypeInv, InBatch, pos <= Len(items)
  PROVE  /\ Height \in Heights
         /\ items[pos] \in Blocks
         /\ Block \in BlockBody
         /\ Len(Block.events) \in Nat
         /\ \A i \in 1 .. Len(Block.events) : Block.events[i] \in Event
PROOF
  <1>1. /\ pos \in 1 .. Len(items) /\ cur \in Nat \ {0} /\ target \in 0 .. MaxHeight
        /\ cur + Len(items) - 1 <= target /\ items \in Seq(Blocks) /\ Len(items) \in Nat
    BY DEF TypeInv, TypeOK, Progress, InBatch
  <1>2. Height \in Heights
    BY <1>1, StoreAssumption DEF Height, Heights
  <1>3. items[pos] \in Blocks
    BY <1>1
  <1>4. Block \in BlockBody
    BY <1>3, SyncAssumption DEF Block
  <1>5. Block.events \in Seq(Event)
    BY <1>4 DEF BlockBody
  <1> QED
    BY <1>2, <1>3, <1>4, <1>5

LEMMA ReturnType ==
  ASSUME TypeInv, Return, faults' \in 0 .. MaxFaults
  PROVE  TypeInv'
PROOF
  <1>1. /\ pc' = "idle" /\ tx' = db /\ db' = db /\ durable' = durable
        /\ chain' = chain /\ head' = head /\ lib' = lib /\ extras' = extras
        /\ cur' = 0 /\ target' = 0 /\ safe' = 0 /\ items' = << >>
        /\ pos' = 0 /\ k' = 0 /\ retries' = 0
    BY DEF Return, ResetLocals, node
  <1>2. Progress'
    BY <1>1 DEF Progress, InBatch
  <1>3. items' \in Seq(Blocks) /\ target' \in 0 .. MaxHeight /\ safe' \in 0 .. MaxHeight
    BY <1>1, StoreAssumption
  <1>4. TypeOK'
    BY <1>1, <1>3 DEF TypeInv, TypeOK, Phases
  <1> QED
    BY <1>2, <1>4 DEF TypeInv

LEMMA TypeInit == Init => TypeInv
  BY EmptyDatabaseType, SyncAssumption, StoreAssumption
  DEF Init, TypeInv, TypeOK, Progress, InBatch, Phases, Heights

LEMMA TypeStep == TypeInv /\ [Next]_vars => TypeInv'
PROOF
  <1> SUFFICES ASSUME TypeInv, [Next]_vars PROVE TypeInv'
    OBVIOUS
  <1> USE DEF TypeInv
  <1>1. CASE ProduceBlock
    BY <1>1, StoreAssumption
    DEF ProduceBlock, TypeOK, Progress, InBatch, store, locals, Heights
  <1>2. CASE Finalize
    <2>1. lib' \in 0 .. MaxHeight
      BY <1>2, StoreAssumption DEF Finalize, TypeOK, Heights
    <2> QED
      BY <1>2, <2>1 DEF Finalize, TypeOK, Progress, InBatch, store, locals
  <1>3. CASE StartSync
    <2>1. TargetHeight \in 0 .. MaxHeight /\ db.height \in 0 .. MaxHeight
      BY DEF TypeOK, TargetHeight, Heights, Database
    <2> QED
      BY <1>3, <2>1 DEF StartSync, TypeOK, Progress, InBatch, Phases, node, store
  <1>4. CASE ReceiveBlocks
    <2>1. PICK n \in 1 .. Count :
              /\ faults' = faults \/ (faults < MaxFaults /\ faults' = faults + 1)
              /\ items' \in Answers(n)
      BY <1>4 DEF ReceiveBlocks
    <2>2. cur \in Nat \ {0} /\ target \in 0 .. MaxHeight /\ cur <= target
      BY <1>4 DEF ReceiveBlocks, TypeOK, Progress
    <2>3. n \in Nat /\ cur + n - 1 <= target
      BY <2>2, SyncAssumption DEF Count
    <2>4. items' \in Seq(Blocks) /\ Len(items') = n
      BY <2>1, <2>3 DEF Answers
    <2>5. faults' \in 0 .. MaxFaults
      BY <2>1, SyncAssumption DEF TypeOK
    <2> QED
      BY <1>4, <2>2, <2>3, <2>4, <2>5
      DEF ReceiveBlocks, TypeOK, Progress, InBatch, Phases, node
  <1>5. CASE LoopDone
    BY <1>5, ReturnType DEF LoopDone, TypeOK
  <1>6. CASE BeginBlock
    <2>1. Height \in Heights
      BY <1>6, CurrentBlock DEF BeginBlock, InBatch
    <2>2. Vhp \in Tokens /\ tx \in Database
      BY DEF Tokens, TypeOK
    <2>3. ResetTokenBalances(tx, Vhp) \in Database
      BY <2>2, ResetTokenBalancesType
    <2>4. tx' \in Database
      <3>1. CASE Height <= tx.height
        BY <1>6, <2>2, <3>1 DEF BeginBlock
      <3>2. CASE ~(Height <= tx.height)
        <4> DEFINE s == IF Height = MigrationHeight THEN ResetTokenBalances(tx, Vhp) ELSE tx
        <4>1. s \in Database
          BY <2>2, <2>3
        <4>2. tx' = UpsertAddresses(s, BlockAddresses(extras, Block, Height), Height)
          BY <1>6, <3>2 DEF BeginBlock
        <4> QED
          BY <2>1, <4>1, <4>2, UpsertAddressesType
      <3> QED
        BY <3>1, <3>2
    <2>5. /\ pos' \in Nat /\ k' \in Nat /\ pc' \in {"block", "changes"}
          /\ pos' \in 1 .. Len(items) + 1
          /\ pc' = "changes" => pos' <= Len(items) /\ k' = 1
      BY <1>6 DEF BeginBlock, TypeOK, Progress, InBatch
    <2> QED
      BY <1>6, <2>4, <2>5 DEF BeginBlock, TypeOK, Progress, InBatch, Phases, node
  <1>7. CASE ApplyChange
    <2>1. tx \in Database /\ extras \in SUBSET Extras
      BY DEF TypeOK
    <2>2. k \in 1 .. Len(Block.events) /\ Block.events[k] \in Event
      BY <1>7, CurrentBlock DEF ApplyChange, InBatch, Progress
    <2>3. tx' \in Database
      <3> DEFINE e == Block.events[k]
      <3>1. CASE ChangesBalance(extras, e, Height)
        <4>1. NormalizeToken(e.source) \in Tokens
          BY <2>1, <3>1, NormalizeTokenType DEF ChangesBalance, Recorded
        <4>2. tx' = MoveValue(tx, NormalizeToken(e.source), e)
          BY <1>7, <3>1 DEF ApplyChange
        <4> QED
          BY <2>1, <2>2, <4>1, <4>2, MoveValueType
      <3>2. CASE ~ChangesBalance(extras, e, Height)
        BY <1>7, <2>1, <3>2 DEF ApplyChange
      <3> QED
        BY <3>1, <3>2
    <2> QED
      BY <1>7, <2>3 DEF ApplyChange, TypeOK, Progress, InBatch, node
  <1>8. CASE ClearHistory
    <2>1. tx' \in Database
      BY <1>8, DeleteTransfersType DEF ClearHistory, TypeOK
    <2> QED
      BY <1>8, <2>1 DEF ClearHistory, TypeOK, Progress, InBatch, Phases, node
  <1>9. CASE WriteTransfer
    <2>1. tx \in Database /\ extras \in SUBSET Extras
      BY DEF TypeOK
    <2>2. /\ k \in 1 .. Len(Block.events) /\ Block.events[k] \in Event
          /\ Height \in Heights
      BY <1>9, CurrentBlock DEF WriteTransfer, InBatch, Progress
    <2>3. tx' \in Database
      <3> DEFINE e == Block.events[k]
      <3>1. CASE Recorded(extras, e)
        <4>1. NormalizeToken(e.source) \in Tokens /\ e.kind \in TransferKinds
          BY <2>1, <3>1, NormalizeTokenType DEF Recorded
        <4>2. tx' = RecordTransfer(tx, Height, NormalizeToken(e.source), e)
          BY <1>9, <3>1 DEF WriteTransfer
        <4> QED
          BY <2>1, <2>2, <4>1, <4>2, RecordTransferType
      <3>2. CASE ~Recorded(extras, e)
        BY <1>9, <2>1, <3>2 DEF WriteTransfer
      <3> QED
        BY <3>1, <3>2
    <2> QED
      BY <1>9, <2>3 DEF WriteTransfer, TypeOK, Progress, InBatch, node
  <1>10. CASE FinishBlock
    <2>1. Height \in Heights /\ Height \in 0 .. MaxHeight /\ items[pos] \in Blocks
      BY <1>10, CurrentBlock, StoreAssumption DEF FinishBlock, InBatch, Progress, Heights
    <2>2. tx' \in Database
      BY <1>10, <2>1, InsertBlockType, SetSyncStateType DEF FinishBlock, TypeOK
    <2> QED
      BY <1>10, <2>2 DEF FinishBlock, TypeOK, Progress, InBatch, Phases, node
  <1>11. CASE Commit
    <2>1. durable' \in Database /\ tx \in Database
      BY <1>11 DEF Commit, TypeOK
    <2>2. cur' \in Nat \ {0}
      BY <1>11, SyncAssumption DEF Commit, Progress, TypeOK
    <2> QED
      BY <1>11, <2>1, <2>2 DEF Commit, TypeOK, Progress, InBatch, Phases, node
  <1>12. CASE EmptyAnswer
    <2>1. faults' \in 0 .. MaxFaults
      BY <1>12, SyncAssumption DEF EmptyAnswer, TypeOK
    <2>2. CASE Return
      BY <2>1, <2>2, ReturnType
    <2>3. CASE ~Return
      <3>1. TargetHeight \in 0 .. MaxHeight
        BY DEF TypeOK, TargetHeight, Heights
      <3>2. /\ target' \in 0 .. MaxHeight /\ safe' \in 0 .. MaxHeight
            /\ retries' \in Nat /\ cur' = cur + BatchSize
            /\ UNCHANGED <<node, store, extras, pc, items, pos, k>>
        BY <1>12, <2>3, <3>1 DEF EmptyAnswer, TypeOK
      <3>3. pc = "fetch" /\ cur' \in Nat \ {0}
        BY <1>12, <3>2, SyncAssumption DEF EmptyAnswer, TypeOK, Progress
      <3> QED
        BY <2>1, <3>2, <3>3 DEF TypeOK, Progress, InBatch, node, store
    <2> QED
      BY <2>2, <2>3
  <1>13. CASE RpcError \/ WriteError \/ Crash
    <2>1. Return /\ faults < MaxFaults /\ faults' = faults + 1
      BY <1>13 DEF RpcError, WriteError, Crash, Fail
    <2>2. faults' \in 0 .. MaxFaults
      BY <2>1, SyncAssumption DEF TypeOK
    <2> QED
      BY <2>1, <2>2, ReturnType
  <1>14. CASE PowerLoss
    <2>1. /\ pc' = "idle" /\ tx' = durable /\ db' = durable /\ durable' = durable
          /\ chain' = chain /\ head' = head /\ lib' = lib /\ extras' = extras
          /\ cur' = 0 /\ target' = 0 /\ safe' = 0 /\ items' = << >>
          /\ pos' = 0 /\ k' = 0 /\ retries' = 0
          /\ faults < MaxFaults /\ faults' = faults + 1
      BY <1>14 DEF PowerLoss, Fail, ResetLocals, node
    <2>2. Progress'
      BY <2>1 DEF Progress, InBatch
    <2>3. /\ faults' \in 0 .. MaxFaults /\ items' \in Seq(Blocks)
          /\ target' \in 0 .. MaxHeight /\ safe' \in 0 .. MaxHeight
      BY <2>1, StoreAssumption, SyncAssumption DEF TypeOK
    <2>4. TypeOK'
      BY <2>1, <2>3 DEF TypeOK, Phases
    <2> QED
      BY <2>2, <2>4
  <1>15. CASE UNCHANGED vars
    BY <1>15 DEF vars, node, store, locals, TypeOK, Progress, InBatch
  <1> QED
    BY <1>1, <1>2, <1>3, <1>4, <1>5, <1>6, <1>7, <1>8, <1>9, <1>10,
       <1>11, <1>12, <1>13, <1>14, <1>15 DEF Next, SyncStep

(* Every reachable state is well typed: no statement writes a height, a    *)
(* token or an address outside the tables' domains, and balances stay      *)
(* natural numbers under any event.                                        *)
THEOREM TypeCorrect == Spec => []TypeOK
PROOF
  <1>1. TypeInv => TypeOK
    BY DEF TypeInv
  <1> QED
    BY TypeInit, TypeStep, <1>1, PTL DEF Spec

----------------------------------------------------------------------------
(* Fork safety.  IndexedIsFinal is strengthened to every copy of the       *)
(* tables, and to the answer in hand: its blocks lie at or below the LIB   *)
(* that was known when they were asked for.                                *)

Final(s) == \A h \in Heights : s.blocks[h] # NoBlock => h <= lib /\ s.blocks[h] = chain[h]

ForkInv ==
    /\ lib >= 1
    /\ Final(db) /\ Final(tx) /\ Final(durable)
    /\ pc # "idle" => target <= safe /\ safe <= lib
    /\ InBatch => \A i \in 1 .. Len(items) : items[i] = chain[cur + i - 1]

LEMMA MoveValueBlocks ==
  ASSUME NEW s \in Database, NEW t, NEW e
  PROVE  MoveValue(s, t, e).blocks = s.blocks /\ MoveValue(s, t, e).height = s.height
PROOF
  <1> DEFINE r == AdjustBalance(s, t, Debited(e), -e.value)
  <1>1. r.blocks = s.blocks /\ r.height = s.height
    BY DEF AdjustBalance, Database
  <1>2. /\ AdjustBalance(r, t, Credited(e), e.value).blocks = r.blocks
        /\ AdjustBalance(r, t, Credited(e), e.value).height = r.height
    <2>1. \/ r = s
          \/ \E f : r = [s EXCEPT !.bal = f]
      BY DEF AdjustBalance
    <2> HIDE DEF r
    <2> QED
      BY <2>1 DEF AdjustBalance, Database
  <1> QED
    BY <1>1, <1>2 DEF MoveValue

(* Until FinishBlock, work on a block leaves the blocks table and the sync *)
(* height of the batch alone.                                              *)
LEMMA BlocksUntouched ==
  ASSUME TypeInv, BeginBlock \/ ApplyChange \/ ClearHistory \/ WriteTransfer
  PROVE  /\ tx'.blocks = tx.blocks /\ tx'.height = tx.height
         /\ db' = db /\ durable' = durable /\ UNCHANGED node
         /\ UNCHANGED <<cur, target, safe, items>>
         /\ pc # "idle" /\ InBatch /\ InBatch'
PROOF
  <1>1. tx \in Database
    BY DEF TypeInv, TypeOK
  <1>2. CASE BeginBlock
    <2>1. /\ ResetTokenBalances(tx, Vhp).blocks = tx.blocks
          /\ ResetTokenBalances(tx, Vhp).height = tx.height
          /\ ResetTokenBalances(tx, Vhp) \in Database
      BY <1>1, ResetTokenBalancesType DEF ResetTokenBalances, Database, Tokens
    <2>2. ASSUME NEW s \in Database, NEW A, NEW h
          PROVE  /\ UpsertAddresses(s, A, h).blocks = s.blocks
                 /\ UpsertAddresses(s, A, h).height = s.height
      BY <2>2 DEF UpsertAddresses, Database
    <2>3. tx'.blocks = tx.blocks /\ tx'.height = tx.height
      BY <1>1, <1>2, <2>1, <2>2 DEF BeginBlock
    <2> QED
      BY <1>2, <2>3 DEF BeginBlock, InBatch
  <1>3. CASE ApplyChange
    <2>1. tx'.blocks = tx.blocks /\ tx'.height = tx.height
      BY <1>1, <1>3, MoveValueBlocks DEF ApplyChange
    <2> QED
      BY <1>3, <2>1 DEF ApplyChange, InBatch
  <1>4. CASE ClearHistory
    <2>1. tx'.blocks = tx.blocks /\ tx'.height = tx.height
      BY <1>1, <1>4 DEF ClearHistory, DeleteTransfersAtHeight, Database
    <2> QED
      BY <1>4, <2>1 DEF ClearHistory, InBatch
  <1>5. CASE WriteTransfer
    <2>1. ASSUME NEW h, NEW t, NEW e
          PROVE  /\ RecordTransfer(tx, h, t, e).blocks = tx.blocks
                 /\ RecordTransfer(tx, h, t, e).height = tx.height
      BY <1>1 DEF RecordTransfer, InsertTransfer, Database
    <2>2. tx'.blocks = tx.blocks /\ tx'.height = tx.height
      BY <1>5, <2>1 DEF WriteTransfer
    <2> QED
      BY <1>5, <2>2 DEF WriteTransfer, InBatch
  <1> QED
    BY <1>2, <1>3, <1>4, <1>5

(* The one step that writes the blocks table.                              *)
LEMMA FinishBlockEffect ==
  ASSUME TypeInv, FinishBlock
  PROVE  /\ Height \in Heights /\ items[pos] \in Blocks
         /\ tx'.height = Height
         /\ tx'.blocks = [tx.blocks EXCEPT ![Height] = items[pos]]
         /\ tx.blocks \in [Heights -> Blocks \cup {NoBlock}]
         /\ db' = db /\ durable' = durable /\ UNCHANGED node
         /\ UNCHANGED <<cur, target, safe, items>>
         /\ pos' = pos + 1 /\ pc # "idle" /\ InBatch /\ pc' = "block"
         /\ pos \in 1 .. Len(items) /\ Len(items) \in Nat
PROOF
  <1>1. tx \in Database /\ items \in Seq(Blocks)
    BY DEF TypeInv, TypeOK
  <1>2. pc = "history" /\ InBatch /\ pos \in 1 .. Len(items)
    BY DEF FinishBlock, InBatch, TypeInv, TypeOK, Progress
  <1>3. Height \in Heights /\ items[pos] \in Blocks
    BY <1>2, CurrentBlock
  <1>4. tx' = SetSyncState(InsertBlock(tx, Height, items[pos]), Height)
    BY DEF FinishBlock
  <1>5. /\ tx'.height = Height
        /\ tx'.blocks = [tx.blocks EXCEPT ![Height] = items[pos]]
        /\ tx.blocks \in [Heights -> Blocks \cup {NoBlock}]
    BY <1>1, <1>4 DEF SetSyncState, InsertBlock, Database
  <1> QED
    BY <1>1, <1>2, <1>3, <1>5 DEF FinishBlock

LEMMA ForkInit == GenesisLib >= 1 /\ Init => ForkInv
  BY SyncAssumption DEF Init, ForkInv, Final, EmptyDatabase, InBatch

LEMMA ForkStep ==
  TypeInv /\ TypeInv' /\ ForkInv /\ [Next]_vars => ForkInv'
PROOF
  <1> SUFFICES ASSUME TypeInv, TypeInv', ForkInv, [Next]_vars
               PROVE  ForkInv'
    OBVIOUS
  <1>a. /\ lib \in Nat /\ safe \in Nat /\ target \in Nat /\ cur \in Nat
        /\ Len(items) \in Nat /\ MaxHeight \in Nat
    BY StoreAssumption DEF TypeInv, TypeOK
  <1>1. CASE ProduceBlock
    BY <1>1 DEF ProduceBlock, ForkInv, Final, InBatch, store, locals
  <1>2. CASE Finalize
    <2>1. /\ lib' = lib + 1 /\ chain' = chain /\ db' = db /\ tx' = tx
          /\ durable' = durable /\ pc' = pc
          /\ cur' = cur /\ target' = target /\ safe' = safe /\ items' = items
      BY <1>2 DEF Finalize, store, locals
    <2>2. \A h \in Heights : h <= lib => h <= lib'
      BY <2>1, <1>a DEF Heights
    <2> QED
      BY <2>1, <2>2, <1>a DEF ForkInv, Final, InBatch
  <1>3. CASE StartSync
    <2>1. TargetHeight = lib
      BY <1>a DEF TargetHeight, ForkInv
    <2> QED
      BY <1>3, <2>1, <1>a DEF StartSync, ForkInv, Final, InBatch, node, store
  <1>4. CASE ReceiveBlocks
    <2>1. PICK n \in 1 .. Count : items' \in Answers(n)
      BY <1>4 DEF ReceiveBlocks
    <2>2. cur \in Nat \ {0} /\ cur <= target /\ target <= safe
      BY <1>4 DEF ReceiveBlocks, TypeInv, Progress, ForkInv
    <2>3. n \in Nat /\ cur + n - 1 <= target
      BY <2>2, <1>a, SyncAssumption DEF Count
    <2>4. items' \in [1 .. n -> Blocks] /\ Len(items') = n
      BY <2>1, <2>3 DEF Answers
    <2>5. ASSUME NEW i \in 1 .. n PROVE items'[i] = chain[cur + i - 1]
      <3>1. cur + i - 1 <= safe
        BY <2>2, <2>3, <1>a
      <3> QED
        BY <2>1, <3>1 DEF Answers
    <2> QED
      BY <1>4, <2>4, <2>5 DEF ReceiveBlocks, ForkInv, Final, InBatch, node
  <1>5. CASE Return
    BY <1>5 DEF Return, ForkInv, Final, InBatch, node
  <1>6. CASE BeginBlock \/ ApplyChange \/ ClearHistory \/ WriteTransfer
    BY <1>6, BlocksUntouched DEF ForkInv, Final, node
  <1>7. CASE FinishBlock
    <2>1. Height <= lib /\ items[pos] = chain[Height]
      <3>1. /\ InBatch /\ pc # "idle" /\ pos \in 1 .. Len(items)
            /\ cur + Len(items) - 1 <= target
        BY <1>7, FinishBlockEffect DEF TypeInv, Progress
      <3>2. cur + pos - 1 <= lib /\ items[pos] = chain[cur + pos - 1]
        BY <3>1, <1>a DEF ForkInv
      <3> QED
        BY <3>2 DEF Height
    <2>2. /\ Final(tx) /\ lib' = lib /\ chain' = chain
          /\ tx'.blocks = [tx.blocks EXCEPT ![Height] = items[pos]]
          /\ tx.blocks \in [Heights -> Blocks \cup {NoBlock}]
      BY <1>7, FinishBlockEffect DEF ForkInv, node
    <2>3. Final(tx)'
      <3> SUFFICES ASSUME NEW h \in Heights, tx'.blocks[h] # NoBlock
                   PROVE  h <= lib' /\ tx'.blocks[h] = chain'[h]
        BY DEF Final
      <3>1. CASE h = Height
        BY <2>1, <2>2, <3>1
      <3>2. CASE h # Height
        BY <2>2, <3>2 DEF Final
      <3> QED
        BY <3>1, <3>2
    <2> QED
      BY <2>3, <1>7, FinishBlockEffect DEF ForkInv, Final, InBatch, node
  <1>8. CASE Commit
    BY <1>8 DEF Commit, ForkInv, Final, InBatch, node
  <1>9. CASE EmptyAnswer /\ ~Return
    <2>1. /\ \/ target' = target /\ safe' = safe
             \/ target' = TargetHeight /\ safe' = lib
          /\ UNCHANGED <<node, store, pc>>
          /\ pc = "fetch"
      BY <1>9 DEF EmptyAnswer
    <2>2. TargetHeight = lib
      BY <1>a DEF TargetHeight, ForkInv
    <2> QED
      BY <2>1, <2>2, <1>a DEF ForkInv, Final, InBatch, node, store
  <1>10. CASE PowerLoss
    BY <1>10 DEF PowerLoss, ForkInv, Final, InBatch, node
  <1>11. CASE UNCHANGED vars
    BY <1>11 DEF vars, node, store, locals, ForkInv, Final, InBatch
  <1> QED
    BY <1>1, <1>2, <1>3, <1>4, <1>5, <1>6, <1>7, <1>8, <1>9, <1>10, <1>11
    DEF Next, SyncStep, LoopDone, RpcError, WriteError, Crash

(* Fork safety: against a node that has an irreversible block to report,   *)
(* only irreversible blocks are ever indexed, under every fault.           *)
THEOREM ForkSafe ==
  ASSUME GenesisLib >= 1
  PROVE  Spec => []IndexedIsFinal
PROOF
  <1>1. Init => TypeInv /\ ForkInv
    BY TypeInit, ForkInit
  <1>2. TypeInv /\ ForkInv /\ [Next]_vars => TypeInv' /\ ForkInv'
    BY TypeStep, ForkStep
  <1>3. ForkInv => IndexedIsFinal
    BY DEF ForkInv, Final, IndexedIsFinal
  <1> QED
    BY <1>1, <1>2, <1>3, PTL DEF Spec

----------------------------------------------------------------------------
(* No gaps.  The loop counter and the sync height move together as long as *)
(* the node answers a request in full; the copy a power loss falls back to *)
(* is never ahead of the committed one.                                    *)

Gapless(s) == \A h \in Heights : (s.blocks[h] # NoBlock) <=> h <= s.height

GapInv ==
    /\ Gapless(db) /\ Gapless(tx) /\ Gapless(durable)
    /\ durable.height <= db.height /\ db.height <= tx.height
    /\ pc = "fetch" => cur = db.height + 1 \/ cur > target
    /\ InBatch => /\ Len(items) = Count /\ cur <= target
                  /\ cur + pos - 1 = tx.height + 1

FullAnswers == Faults \cap {"empty", "short"} = {}

LEMMA GapInit == Init => GapInv
  BY StoreAssumption DEF Init, GapInv, Gapless, EmptyDatabase, InBatch, Heights

LEMMA GapStep ==
  FullAnswers /\ TypeInv /\ TypeInv' /\ GapInv /\ [Next]_vars => GapInv'
PROOF
  <1> SUFFICES ASSUME FullAnswers, TypeInv, TypeInv', GapInv, [Next]_vars
               PROVE  GapInv'
    OBVIOUS
  <1>a. /\ target \in Nat /\ cur \in Nat /\ pos \in Nat /\ Len(items) \in Nat
        /\ MaxHeight \in Nat /\ BatchSize \in Nat \ {0}
        /\ db.height \in Nat /\ tx.height \in Nat /\ durable.height \in Nat
    BY StoreAssumption, SyncAssumption DEF TypeInv, TypeOK, Database
  <1>1. CASE ProduceBlock \/ Finalize
    BY <1>1 DEF ProduceBlock, Finalize, GapInv, Gapless, InBatch, Count, store, locals
  <1>2. CASE StartSync
    BY <1>2 DEF StartSync, GapInv, Gapless, InBatch, store
  <1>3. CASE ReceiveBlocks
    <2>1. PICK n \in 1 .. Count : n = Count /\ items' \in Answers(n)
      BY <1>3 DEF ReceiveBlocks, FullAnswers
    <2>2. cur <= target /\ cur = db.height + 1
      BY <1>3, <1>a DEF ReceiveBlocks, GapInv
    <2>3. Count \in Nat /\ Count' = Count
      <3>1. Count \in Nat
        BY <2>2, <1>a DEF Count
      <3>2. cur' = cur /\ target' = target
        BY <1>3 DEF ReceiveBlocks
      <3>3. Count' = Count
        BY <3>2 DEF Count
      <3> QED
        BY <3>1, <3>3
    <2>4. Len(items') = Count
      BY <2>1, <2>3 DEF Answers
    <2>5. /\ tx' = db /\ db' = db /\ durable' = durable /\ pc' = "block"
          /\ pos' = 1 /\ cur' = cur /\ target' = target
      BY <1>3 DEF ReceiveBlocks
    <2> QED
      BY <2>2, <2>3, <2>4, <2>5, <1>a DEF GapInv, Gapless, InBatch
  <1>4. CASE Return
    <2>1. db' = db /\ tx' = db /\ durable' = durable /\ pc' = "idle"
      BY <1>4 DEF Return
    <2> QED
      BY <2>1, <1>a DEF GapInv, Gapless, InBatch
  <1>5. CASE BeginBlock
    <2>1. ~(Height <= tx.height)
      BY <1>5, <1>a DEF BeginBlock, GapInv, InBatch, Height
    <2>2. pos' = pos
      BY <1>5, <2>1 DEF BeginBlock
    <2> QED
      BY <1>5, <2>2, BlocksUntouched DEF GapInv, Gapless, InBatch, Count
  <1>6. CASE ApplyChange \/ ClearHistory \/ WriteTransfer
    <2>1. pos' = pos
      BY <1>6 DEF ApplyChange, ClearHistory, WriteTransfer
    <2> QED
      BY <1>6, <2>1, BlocksUntouched DEF GapInv, Gapless, InBatch, Count
  <1>7. CASE FinishBlock
    <2>1. Height = tx.height + 1 /\ Height = cur + pos - 1
      BY <1>7, FinishBlockEffect DEF GapInv, Height
    <2>2. /\ Gapless(tx) /\ tx'.height = Height /\ items[pos] \in Blocks
          /\ tx'.blocks = [tx.blocks EXCEPT ![Height] = items[pos]]
          /\ tx.blocks \in [Heights -> Blocks \cup {NoBlock}]
      BY <1>7, FinishBlockEffect DEF GapInv
    <2>3. Gapless(tx)'
      <3> SUFFICES ASSUME NEW h \in Heights
                   PROVE  (tx'.blocks[h] # NoBlock) <=> h <= tx'.height
        BY DEF Gapless
      <3>1. CASE h = Height
        BY <2>1, <2>2, <3>1, <1>a, StoreAssumption DEF Heights
      <3>2. CASE h # Height
        <4>1. tx'.blocks[h] = tx.blocks[h]
          BY <2>2, <3>2
        <4>2. h <= tx.height <=> h <= tx'.height
          BY <2>1, <2>2, <3>2, <1>a DEF Heights
        <4> QED
          BY <2>2, <4>1, <4>2 DEF Gapless
      <3> QED
        BY <3>1, <3>2
    <2> QED
      BY <2>1, <2>3, <1>7, <1>a, FinishBlockEffect DEF GapInv, Gapless, InBatch, Count
  <1>8. CASE Commit
    <2>1. /\ pc = "block" /\ pos > Len(items) /\ db' = tx /\ tx' = tx
          /\ durable' \in {durable, tx} /\ pc' = "fetch"
          /\ cur' = cur + BatchSize /\ target' = target
      BY <1>8 DEF Commit
    <2>2. pos = Len(items) + 1 /\ Len(items) = Count /\ cur <= target
      BY <2>1, <1>a DEF GapInv, InBatch, TypeInv, Progress
    <2>3. cur + Count = tx.height + 1
      BY <2>1, <2>2, <1>a DEF GapInv, InBatch
    <2>4. cur' = tx.height + 1 \/ cur' > target
      BY <2>1, <2>2, <2>3, <1>a DEF Count
    <2> QED
      BY <2>1, <2>4, <1>a DEF GapInv, Gapless, InBatch
  <1>9. CASE PowerLoss
    BY <1>9, <1>a DEF PowerLoss, GapInv, Gapless, InBatch
  <1>10. CASE EmptyAnswer
    BY <1>10 DEF EmptyAnswer, FullAnswers
  <1>11. CASE UNCHANGED vars
    BY <1>11 DEF vars, node, store, locals, GapInv, Gapless, InBatch, Count
  <1> QED
    BY <1>1, <1>2, <1>3, <1>4, <1>5, <1>6, <1>7, <1>8, <1>9, <1>10, <1>11
    DEF Next, SyncStep, LoopDone, RpcError, WriteError, Crash

(* No gaps: when the node answers every request in full, the sync height   *)
(* speaks for exactly the blocks at or below it, whatever errors, crashes  *)
(* and power losses interrupt the sync.                                    *)
THEOREM Contiguous ==
  ASSUME FullAnswers
  PROVE  Spec => []NoGap
PROOF
  <1>1. Init => TypeInv /\ GapInv
    BY TypeInit, GapInit
  <1>2. TypeInv /\ GapInv /\ [Next]_vars => TypeInv' /\ GapInv'
    BY TypeStep, GapStep
  <1>3. GapInv => NoGap
    BY DEF GapInv, Gapless, NoGap
  <1> QED
    BY <1>1, <1>2, <1>3, PTL DEF Spec

----------------------------------------------------------------------------
(* Refinement of ChainView.                                                *)

FinalView    == [h \in 1 .. lib |-> chain[h]]
IndexedView  == [h \in 1 .. db.height |-> db.blocks[h]]
PrefixView(n) == [h \in 1 .. n |-> chain[h]]

LEMMA LengthOfFunction ==
  ASSUME NEW S, NEW n \in Nat, NEW f \in [1 .. n -> S]
  PROVE  f \in Seq(S) /\ Len(f) = n
  OBVIOUS

(* Every copy of the tables shows a prefix of the irreversible chain.      *)
LEMMA TablesArePrefix ==
  ASSUME TypeInv, NEW s \in Database, Final(s), Gapless(s), lib >= 1
  PROVE  /\ s.height \in 0 .. lib
         /\ [h \in 1 .. s.height |-> s.blocks[h]] = PrefixView(s.height)
PROOF
  <1>1. s.height \in 0 .. MaxHeight /\ lib \in 0 .. MaxHeight
    BY DEF TypeInv, TypeOK, Database
  <1>2. \A h \in 1 .. s.height : h \in Heights /\ h <= lib /\ s.blocks[h] = chain[h]
    BY <1>1, StoreAssumption DEF Final, Gapless, Heights
  <1>3. s.height \in 0 .. lib
    BY <1>1, <1>2
  <1> QED
    BY <1>2, <1>3 DEF PrefixView

LEMMA ViewInit ==
  ASSUME TypeInv, Init
  PROVE  View!Init
PROOF
  <1>1. lib \in 0 .. MaxHeight /\ lib \in Nat /\ chain \in [1 .. MaxHeight -> Blocks]
    BY StoreAssumption DEF TypeInv, TypeOK, Heights
  <1>2. FinalView \in [1 .. lib -> Blocks]
    BY <1>1, StoreAssumption DEF FinalView
  <1>3. db.height = 0
    BY DEF Init, EmptyDatabase
  <1>4. IndexedView = << >>
    BY <1>3 DEF IndexedView
  <1> QED
    BY <1>1, <1>2, <1>4 DEF View!Init, FinalView, IndexedView

LEMMA ViewStep ==
  ASSUME TypeInv, TypeInv', ForkInv, ForkInv', GapInv, GapInv', [Next]_vars
  PROVE  [View!Next]_<<FinalView, IndexedView>>
PROOF
  <1>1. /\ db \in Database /\ durable \in Database /\ tx \in Database
        /\ lib \in 0 .. MaxHeight /\ chain \in [1 .. MaxHeight -> Blocks]
        /\ lib >= 1 /\ lib \in Nat /\ MaxHeight \in Nat
    BY StoreAssumption DEF TypeInv, TypeOK, ForkInv, Heights
  <1>2. /\ db.height \in 0 .. lib /\ IndexedView = PrefixView(db.height)
        /\ [h \in 1 .. tx.height |-> tx.blocks[h]] = PrefixView(tx.height)
        /\ tx.height \in 0 .. lib
        /\ [h \in 1 .. durable.height |-> durable.blocks[h]] = PrefixView(durable.height)
        /\ durable.height \in 0 .. lib
        /\ durable.height <= db.height /\ db.height <= tx.height
    BY <1>1, TablesArePrefix DEF ForkInv, GapInv, IndexedView
  <1>3. FinalView \in [1 .. lib -> Blocks]
    BY <1>1 DEF FinalView
  <1>4. FinalView \in Seq(Blocks) /\ Len(FinalView) = lib
    BY <1>1, <1>3, LengthOfFunction
  <1>5. IndexedView \in [1 .. db.height -> Blocks]
    BY <1>1, <1>2 DEF PrefixView
  <1>6. Len(IndexedView) = db.height
    BY <1>2, <1>5, LengthOfFunction
  <1>7. \A n \in 0 .. lib : PrefixView(n) = [h \in 1 .. n |-> FinalView[h]]
    BY <1>1 DEF PrefixView, FinalView
  <1>8. CASE Finalize
    <2>1. lib' = lib + 1 /\ chain' = chain /\ db' = db /\ lib' \in 0 .. MaxHeight
      BY <1>8 DEF Finalize, store, TypeInv, TypeOK
    <2>2. chain[lib + 1] \in Blocks
      BY <1>1, <2>1
    <2>3. FinalView' = [h \in 1 .. lib + 1 |-> chain[h]]
      BY <2>1 DEF FinalView
    <2>4. Append(FinalView, chain[lib + 1]) =
            [h \in 1 .. lib + 1 |-> IF h = lib + 1 THEN chain[lib + 1] ELSE FinalView[h]]
      BY <1>4
    <2>5. FinalView' = Append(FinalView, chain[lib + 1])
      <3>1. ASSUME NEW h \in 1 .. lib + 1
            PROVE  chain[h] = IF h = lib + 1 THEN chain[lib + 1] ELSE FinalView[h]
        BY <1>1 DEF FinalView
      <3> QED
        BY <2>3, <2>4, <3>1
    <2>6. IndexedView' = IndexedView
      BY <2>1 DEF IndexedView
    <2>7. View!Finalize
      BY <2>2, <2>5, <2>6 DEF View!Finalize, FinalView, IndexedView
    <2> QED
      BY <2>7 DEF View!Next
  <1>9. CASE Commit
    <2>1. db' = tx /\ lib' = lib /\ chain' = chain
      BY <1>9 DEF Commit, node
    <2>2. FinalView' = FinalView /\ IndexedView' = PrefixView(tx.height)
      BY <1>2, <2>1 DEF FinalView, IndexedView
    <2>3. CASE tx.height = db.height
      BY <1>2, <2>2, <2>3
    <2>4. CASE tx.height # db.height
      <3>1. tx.height \in Len(IndexedView) + 1 .. Len(FinalView)
        BY <1>1, <1>2, <1>4, <1>6, <2>4
      <3>2. IndexedView' = View!Prefix(tx.height)
        BY <1>2, <1>7, <2>2 DEF View!Prefix, FinalView
      <3>3. View!Publish
        BY <2>2, <3>1, <3>2 DEF View!Publish, FinalView, IndexedView
      <3> QED
        BY <3>3 DEF View!Next
    <2> QED
      BY <2>3, <2>4
  <1>10. CASE PowerLoss
    <2>1. db' = durable /\ lib' = lib /\ chain' = chain
      BY <1>10 DEF PowerLoss, node
    <2>2. FinalView' = FinalView /\ IndexedView' = PrefixView(durable.height)
      BY <1>2, <2>1 DEF FinalView, IndexedView
    <2>3. durable.height \in 0 .. Len(IndexedView)
      BY <1>1, <1>2, <1>6
    <2>4. IndexedView' = View!Prefix(durable.height)
      BY <1>2, <1>7, <2>2 DEF View!Prefix, FinalView
    <2>5. View!Lose
      BY <2>2, <2>3, <2>4 DEF View!Lose, FinalView, IndexedView
    <2> QED
      BY <2>5 DEF View!Next
  <1>11. ASSUME lib' = lib, chain' = chain, db' = db
         PROVE  UNCHANGED <<FinalView, IndexedView>>
    BY <1>11 DEF FinalView, IndexedView
  <1>12. CASE ~(Finalize \/ Commit \/ PowerLoss)
    <2>1. lib' = lib /\ chain' = chain /\ db' = db
      BY <1>12
      DEF Next, SyncStep, ProduceBlock, StartSync, ReceiveBlocks, LoopDone, BeginBlock,
          ApplyChange, ClearHistory, WriteTransfer, FinishBlock, EmptyAnswer, RpcError,
          WriteError, Crash, Return, vars, node, store
    <2> QED
      BY <1>11, <2>1
  <1> QED
    BY <1>8, <1>9, <1>10, <1>12

(* SyncToHead implements ChainView: batches, retries and faults only ever  *)
(* show as one step that publishes, or loses, irreversible blocks.         *)
THEOREM Refinement ==
  ASSUME FullAnswers, GenesisLib >= 1
  PROVE  Spec => ImplementsChainView
PROOF
  <1>1. Init => TypeInv /\ ForkInv /\ GapInv /\ View!Init
    BY TypeInit, ForkInit, GapInit, ViewInit
  <1>2. TypeInv /\ ForkInv /\ GapInv /\ [Next]_vars
          => TypeInv' /\ ForkInv' /\ GapInv'
    BY TypeStep, ForkStep, GapStep
  <1>3. TypeInv /\ TypeInv' /\ ForkInv /\ ForkInv' /\ GapInv /\ GapInv' /\ [Next]_vars
          => [View!Next]_<<FinalView, IndexedView>>
    BY ViewStep
  <1>4. [View!Next]_<<FinalView, IndexedView>>
          => [View!Next]_<<[h \in 1 .. lib |-> chain[h]],
                           [h \in 1 .. db.height |-> db.blocks[h]]>>
    BY DEF FinalView, IndexedView
  <1> QED
    BY <1>1, <1>2, <1>3, <1>4, PTL DEF Spec, View!Spec, ImplementsChainView

----------------------------------------------------------------------------
(* Positions of events on the final chain.                                 *)

AllPositions == UNION {{<<h, i>> : i \in DOMAIN EventsAt(h)} : h \in Heights}

Before(p, n, m) == p[1] < n \/ (p[1] = n /\ p[2] < m)

LEMMA ChainFacts ==
  ASSUME TypeInv, NEW h \in Heights
  PROVE  /\ chain[h] \in Blocks /\ Body[chain[h]] \in BlockBody
         /\ EventsAt(h) \in Seq(Event) /\ Len(EventsAt(h)) \in Nat
         /\ DOMAIN EventsAt(h) = 1 .. Len(EventsAt(h))
         /\ \A i \in DOMAIN EventsAt(h) : EventsAt(h)[i] \in Event
PROOF
  <1>1. chain[h] \in Blocks
    BY DEF TypeInv, TypeOK
  <1>2. Body[chain[h]] \in BlockBody
    BY <1>1, SyncAssumption
  <1>3. EventsAt(h) \in Seq(Event)
    BY <1>2 DEF EventsAt, BlockBody
  <1> QED
    BY <1>1, <1>2, <1>3

LEMMA PositionFacts ==
  ASSUME TypeInv
  PROVE  /\ IsFiniteSet(AllPositions)
         /\ \A p \in AllPositions :
               /\ p = <<p[1], p[2]>> /\ p[1] \in Heights /\ p[1] \in Nat /\ p[2] \in Nat \ {0}
               /\ p[2] \in DOMAIN EventsAt(p[1]) /\ At(p) \in Event
         /\ \A h \in Heights : \A i \in DOMAIN EventsAt(h) : <<h, i>> \in AllPositions
PROOF
  <1> DEFINE Of(h) == {<<h, i>> : i \in DOMAIN EventsAt(h)}
             All == {Of(h) : h \in Heights}
  <1>1. AllPositions = UNION All
    BY DEF AllPositions
  <1>2. \A h \in Heights :
           /\ Len(EventsAt(h)) \in Nat /\ DOMAIN EventsAt(h) = 1 .. Len(EventsAt(h))
           /\ \A i \in DOMAIN EventsAt(h) : EventsAt(h)[i] \in Event
    BY ChainFacts
  <1>3. ASSUME NEW h \in Heights
        PROVE  IsFiniteSet(Of(h))
    <2>1. IsFiniteSet(DOMAIN EventsAt(h))
      BY <1>2, FS_Interval
    <2> DEFINE f == [i \in DOMAIN EventsAt(h) |-> <<h, i>>]
    <2>2. Of(h) = {f[i] : i \in DOMAIN EventsAt(h)}
      OBVIOUS
    <2> HIDE DEF f
    <2>3. IsFiniteSet({f[i] : i \in DOMAIN EventsAt(h)})
      BY <2>1, FiniteImage
    <2> QED
      BY <2>2, <2>3
  <1>4. IsFiniteSet(UNION All)
    <2>1. IsFiniteSet(Heights)
      BY StoreAssumption, FS_Interval DEF Heights
    <2> DEFINE f == [h \in Heights |-> Of(h)]
    <2>2. All = {f[h] : h \in Heights}
      OBVIOUS
    <2> HIDE DEF f, All
    <2>3. IsFiniteSet(All)
      BY <2>1, <2>2, FiniteImage
    <2>4. \A X \in All : IsFiniteSet(X)
      BY <1>3 DEF All
    <2> QED
      BY <2>3, <2>4, FS_UNION
  <1>5. ASSUME NEW p \in AllPositions
        PROVE  /\ p = <<p[1], p[2]>> /\ p[1] \in Heights /\ p[1] \in Nat /\ p[2] \in Nat \ {0}
               /\ p[2] \in DOMAIN EventsAt(p[1]) /\ At(p) \in Event
    <2>1. PICK h \in Heights : p \in Of(h)
      BY <1>1
    <2>2. PICK i \in DOMAIN EventsAt(h) : p = <<h, i>>
      BY <2>1
    <2>3. h \in Nat /\ i \in Nat \ {0}
      BY <1>2, StoreAssumption DEF Heights
    <2> QED
      BY <1>2, <2>2, <2>3 DEF At
  <1>6. \A h \in Heights : \A i \in DOMAIN EventsAt(h) : <<h, i>> \in AllPositions
    BY <1>1
  <1> QED
    BY <1>1, <1>4, <1>5, <1>6

(* The events that count for the balances of t, and those of its history:  *)
(* what the code decides event by event, and what Sources and              *)
(* HistorySources say of them.                                             *)

MovesOf(t) ==
    {p \in AllPositions : /\ ChangesBalance(extras, At(p), p[1])
                          /\ NormalizeToken(At(p).source) = t}

RecordsOf(t) ==
    {p \in AllPositions : Recorded(extras, At(p)) /\ NormalizeToken(At(p).source) = t}

(* The height from which the balances of t count when block h has begun.   *)
Since(t, h) == IF t = Vhp /\ MigrationHeight \in 1 .. h THEN MigrationHeight ELSE 1

MovesBefore(t, h, n, m) == {p \in MovesOf(t) : Since(t, h) <= p[1] /\ Before(p, n, m)}

RecordsBefore(t, n, m) == {p \in RecordsOf(t) : Before(p, n, m)}

LEMMA SourcesDecide ==
  ASSUME extras \subseteq Extras, NEW e \in Event, NEW h \in Heights, NEW t \in Tokens
  PROVE  LET live == ~e.reverted /\ e.kind # "other" /\ e.value \in 1 .. MaxSafeValue
         IN  /\ ChangesBalance(extras, e, h) /\ NormalizeToken(e.source) = t
                <=> e.source \in Sources(t, h) /\ live
             /\ Recorded(extras, e) /\ NormalizeToken(e.source) = t
                <=> e.source \in HistorySources(t) /\ live
PROOF
  <1> DEFINE live == ~e.reverted /\ e.kind # "other" /\ e.value \in 1 .. MaxSafeValue
             src  == e.source
  <1>1. Recorded(extras, e) <=> IsTokenEvent(extras, src) /\ live
    BY DEF Recorded, Event, TransferKinds
  <1>2. src \in Contracts
    BY DEF Event
  <1> HIDE DEF live, src
  <1>3. \A x \in Extras : x \notin BaseContracts
    BY ContractsAssumption
  <1>4. IsTokenEvent(extras, src) /\ NormalizeToken(src) = t <=> src \in HistorySources(t)
    <2>1. CASE t = Koin
      BY <1>2, <1>3, <2>1, ContractsAssumption
      DEF IsTokenEvent, NormalizeToken, HistorySources, BaseContracts
    <2>2. CASE t = Vhp
      BY <1>2, <1>3, <2>2, ContractsAssumption
      DEF IsTokenEvent, NormalizeToken, HistorySources, BaseContracts
    <2>3. CASE t \in Extras
      BY <1>2, <1>3, <2>3, ContractsAssumption
      DEF IsTokenEvent, NormalizeToken, HistorySources, BaseContracts
    <2> QED
      BY <2>1, <2>2, <2>3 DEF Tokens
  <1>5. IsTokenEvent(extras, src) /\ AffectsBalance(extras, src, h) /\ NormalizeToken(src) = t
          <=> src \in Sources(t, h)
    <2>1. CASE t = Koin
      BY <1>2, <1>3, <2>1, ContractsAssumption
      DEF IsTokenEvent, AffectsBalance, NormalizeToken, Sources, BaseContracts
    <2>2. CASE t = Vhp
      BY <1>2, <1>3, <2>2, ContractsAssumption
      DEF IsTokenEvent, AffectsBalance, NormalizeToken, Sources, BaseContracts
    <2>3. CASE t \in Extras
      BY <1>2, <1>3, <2>3, ContractsAssumption
      DEF IsTokenEvent, AffectsBalance, NormalizeToken, Sources, BaseContracts
    <2> QED
      BY <2>1, <2>2, <2>3 DEF Tokens
  <1> QED
    BY <1>1, <1>4, <1>5 DEF ChangesBalance, live, src

----------------------------------------------------------------------------
(* Net as a difference of two sums.                                        *)

Gains(x) ==
    [p \in AllPositions |-> IF At(p).kind # "burn" /\ At(p).to = x THEN At(p).value ELSE 0]

Spends(x) ==
    [p \in AllPositions |-> IF At(p).kind # "mint" /\ At(p).from = x THEN At(p).value ELSE 0]

LEMMA GainsSum ==
  ASSUME NEW x, NEW P \in SUBSET AllPositions, IsFiniteSet(P)
  PROVE  LET gain(p) == IF At(p).kind # "burn" /\ At(p).to = x THEN At(p).value ELSE 0
         IN  MapThenSumSet(gain, P) = SumOver(Gains(x), P)
PROOF
  <1> DEFINE gain(p) == IF At(p).kind # "burn" /\ At(p).to = x THEN At(p).value ELSE 0
             f == Gains(x)
             Folds(g) == g = [s \in SUBSET P |-> IF s = {} THEN 0
                                                 ELSE gain(Picked(s)) + g[s \ {Picked(s)}]]
             it == CHOOSE g : Folds(g)
  <1>1. MapThenSumSet(gain, P) = it[P]
    BY DEF MapThenSumSet, MapThenFoldSet, Picked
  <1>2. \A s \in SUBSET P : s # {} => f[Picked(s)] = gain(Picked(s))
    BY PickedIn DEF Gains
  <1> HIDE DEF f, gain
  <1>3. \A g : Folds(g) <=> SumsUp(g, f, P)
    <2> SUFFICES ASSUME NEW g PROVE Folds(g) <=> SumsUp(g, f, P)
      OBVIOUS
    <2>1. \A s \in SUBSET P :
             (IF s = {} THEN 0 ELSE gain(Picked(s)) + g[s \ {Picked(s)}])
               = IF s = {} THEN 0 ELSE f[Picked(s)] + g[s \ {Picked(s)}]
      BY <1>2
    <2>2. [s \in SUBSET P |-> IF s = {} THEN 0 ELSE gain(Picked(s)) + g[s \ {Picked(s)}]]
            = [s \in SUBSET P |-> IF s = {} THEN 0 ELSE f[Picked(s)] + g[s \ {Picked(s)}]]
      BY <2>1
    <2> QED
      BY <2>2 DEF SumsUp
  <1>4. SumsUp(it, f, P)
    <2>1. PICK g : SumsUp(g, f, P)
      BY SumsExist
    <2>2. Folds(g)
      BY <1>3, <2>1
    <2> HIDE DEF Folds
    <2>3. Folds(it)
      BY <2>2
    <2> QED
      BY <1>3, <2>3
  <1>5. PICK g : SumsUp(g, f, P) /\ SumOver(f, P) = g[P]
    BY SumChosen
  <1> HIDE DEF it
  <1>6. it[P] = g[P]
    BY <1>4, <1>5, SumsAgree
  <1> QED
    BY <1>1, <1>5, <1>6 DEF f, gain

LEMMA SpendsSum ==
  ASSUME NEW x, NEW P \in SUBSET AllPositions, IsFiniteSet(P)
  PROVE  LET spend(p) == IF At(p).kind # "mint" /\ At(p).from = x THEN At(p).value ELSE 0
         IN  MapThenSumSet(spend, P) = SumOver(Spends(x), P)
PROOF
  <1> DEFINE spend(p) == IF At(p).kind # "mint" /\ At(p).from = x THEN At(p).value ELSE 0
             f == Spends(x)
             Folds(g) == g = [s \in SUBSET P |-> IF s = {} THEN 0
                                                 ELSE spend(Picked(s)) + g[s \ {Picked(s)}]]
             it == CHOOSE g : Folds(g)
  <1>1. MapThenSumSet(spend, P) = it[P]
    BY DEF MapThenSumSet, MapThenFoldSet, Picked
  <1>2. \A s \in SUBSET P : s # {} => f[Picked(s)] = spend(Picked(s))
    BY PickedIn DEF Spends
  <1> HIDE DEF f, spend
  <1>3. \A g : Folds(g) <=> SumsUp(g, f, P)
    <2> SUFFICES ASSUME NEW g PROVE Folds(g) <=> SumsUp(g, f, P)
      OBVIOUS
    <2>1. \A s \in SUBSET P :
             (IF s = {} THEN 0 ELSE spend(Picked(s)) + g[s \ {Picked(s)}])
               = IF s = {} THEN 0 ELSE f[Picked(s)] + g[s \ {Picked(s)}]
      BY <1>2
    <2>2. [s \in SUBSET P |-> IF s = {} THEN 0 ELSE spend(Picked(s)) + g[s \ {Picked(s)}]]
            = [s \in SUBSET P |-> IF s = {} THEN 0 ELSE f[Picked(s)] + g[s \ {Picked(s)}]]
      BY <2>1
    <2> QED
      BY <2>2 DEF SumsUp
  <1>4. SumsUp(it, f, P)
    <2>1. PICK g : SumsUp(g, f, P)
      BY SumsExist
    <2>2. Folds(g)
      BY <1>3, <2>1
    <2> HIDE DEF Folds
    <2>3. Folds(it)
      BY <2>2
    <2> QED
      BY <1>3, <2>3
  <1>5. PICK g : SumsUp(g, f, P) /\ SumOver(f, P) = g[P]
    BY SumChosen
  <1> HIDE DEF it
  <1>6. it[P] = g[P]
    BY <1>4, <1>5, SumsAgree
  <1> QED
    BY <1>1, <1>5, <1>6 DEF f, spend

LEMMA NetIsSum ==
  ASSUME NEW x, NEW P \in SUBSET AllPositions, IsFiniteSet(P)
  PROVE  Net(x, P) = SumOver(Gains(x), P) - SumOver(Spends(x), P)
  BY GainsSum, SpendsSum DEF Net

LEMMA NetOfNone ==
  ASSUME NEW x
  PROVE  Net(x, {}) = 0
PROOF
  <1>1. {} \in SUBSET AllPositions /\ IsFiniteSet({})
    BY FS_EmptySet
  <1>2. Summable(Gains(x), {}) /\ Summable(Spends(x), {})
    BY DEF Summable
  <1>3. SumOver(Gains(x), {}) = 0 /\ SumOver(Spends(x), {}) = 0
    BY <1>1, <1>2, SumFacts
  <1> QED
    BY <1>1, <1>3, NetIsSum

LEMMA NetGrows ==
  ASSUME TypeInv, NEW x \in Accounts, NEW P \in SUBSET AllPositions,
         NEW p \in AllPositions, p \notin P, At(p).kind \in TransferKinds
  PROVE  /\ Net(x, P) \in Int
         /\ Net(x, P \cup {p}) =
              Net(x, P) + (IF x = Credited(At(p)) THEN At(p).value ELSE 0)
                        - (IF x = Debited(At(p)) THEN At(p).value ELSE 0)
PROOF
  <1> DEFINE f == Gains(x)
             g == Spends(x)
  <1>1. IsFiniteSet(AllPositions) /\ \A q \in AllPositions : At(q) \in Event
    BY PositionFacts
  <1>2. /\ P \in SUBSET AllPositions /\ P \cup {p} \in SUBSET AllPositions
        /\ IsFiniteSet(P) /\ IsFiniteSet(P \cup {p})
    BY <1>1, FS_Subset
  <1>3. \A q \in AllPositions : f[q] \in Int /\ g[q] \in Int
    BY <1>1 DEF Gains, Spends, Event
  <1>4. /\ f[p] = IF x = Credited(At(p)) THEN At(p).value ELSE 0
        /\ g[p] = IF x = Debited(At(p)) THEN At(p).value ELSE 0
    <2>1. x # NoAddr
      BY ContractsAssumption DEF Addresses
    <2> QED
      BY <2>1 DEF Gains, Spends, Credited, Debited, TransferKinds
  <1> HIDE DEF f, g
  <1>5. /\ Summable(f, P) /\ Summable(f, P \cup {p})
        /\ Summable(g, P) /\ Summable(g, P \cup {p})
    BY <1>2, <1>3 DEF Summable
  <1>6. SumOver(f, P) \in Int /\ SumOver(g, P) \in Int
    BY <1>2, <1>5, SumFacts
  <1>7. /\ SumOver(f, P \cup {p}) = SumOver(f, P) + f[p]
        /\ SumOver(g, P \cup {p}) = SumOver(g, P) + g[p]
    BY <1>2, <1>5, SumAdd
  <1>8. /\ Net(x, P) = SumOver(f, P) - SumOver(g, P)
        /\ Net(x, P \cup {p}) = SumOver(f, P \cup {p}) - SumOver(g, P \cup {p})
    BY <1>2, NetIsSum DEF f, g
  <1>9. f[p] \in Int /\ g[p] \in Int
    BY <1>3
  <1>10. Net(x, P \cup {p}) = Net(x, P) + f[p] - g[p]
    BY <1>6, <1>7, <1>8, <1>9
  <1> QED
    BY <1>4, <1>6, <1>8, <1>10

----------------------------------------------------------------------------
(* What a copy of the tables shows: the addresses that blocks up to h      *)
(* mention, the rows of the events before event m of block n, and the      *)
(* balances that the events before event m of block n add up to.           *)

Mentions(x, h) == {g \in 1 .. h : x \in BlockAddresses(extras, Body[chain[g]], g)}

SeenShow(s, h) ==
    \A x \in Addresses :
        IF Mentions(x, h) = {} THEN s.seen[x] = NotSeen
        ELSE s.seen[x] \in Mentions(x, h) /\ \A g \in Mentions(x, h) : s.seen[x] <= g

RowsIn(s, t) == {r \in s.rows : r.token = t}

Shows(r, p) ==
    /\ r.height = p[1] /\ r.kind = At(p).kind /\ r.value = At(p).value
    /\ r.from = Debited(At(p)) /\ r.to = Credited(At(p))

(* Row r is at the place in the table that p has on the chain.             *)
InPlace(s, t, P, r, p) ==
    Cardinality({q \in P : Before(q, p[1], p[2])}) =
    Cardinality({o \in RowsIn(s, t) : o.id < r.id})

RowsOfShow(s, t, P) ==
    /\ IsFiniteSet(RowsIn(s, t))
    /\ Cardinality(RowsIn(s, t)) = Cardinality(P)
    /\ \A r \in RowsIn(s, t) : \E p \in P : Shows(r, p) /\ InPlace(s, t, P, r, p)

IdsBelow(s) == \A r \in s.rows : r.id <= s.lastId

RowsShow(s, n, m) ==
    /\ IdsBelow(s)
    /\ \A t \in Tokens : RowsOfShow(s, t, RecordsBefore(t, n, m))

Balanced(s, h, n, m) ==
    \A t \in Tokens, x \in Accounts : s.bal[t][x] = Net(x, MovesBefore(t, h, n, m))

(* No event of a token debits more than what the events before it left:    *)
(* what a token contract has to see to.  The code cuts a balance off at    *)
(* zero otherwise, and it is a sum no more.                                *)
Covered ==
    \A t \in Tokens : \A p \in MovesOf(t) :
        Debited(At(p)) \in Accounts =>
            Net(Debited(At(p)), MovesBefore(t, p[1], p[1], p[2])) >= At(p).value

Exact(s) ==
    /\ SeenShow(s, s.height)
    /\ RowsShow(s, s.height + 1, 1)
    /\ Covered => Balanced(s, s.height, s.height + 1, 1)

DataInv ==
    /\ Exact(db) /\ Exact(durable)
    /\ pc = "block" => Exact(tx)
    /\ pc = "changes" => /\ SeenShow(tx, Height) /\ RowsShow(tx, Height, 1)
                         /\ Covered => Balanced(tx, Height, Height, k)
    /\ pc = "history" => /\ SeenShow(tx, Height) /\ RowsShow(tx, Height, k)
                         /\ Covered => Balanced(tx, Height, Height + 1, 1)

LEMMA SameChain ==
  ASSUME chain' = chain, extras' = extras
  PROVE  /\ \A s, h : SeenShow(s, h)' <=> SeenShow(s, h)
         /\ \A s, n, m : RowsShow(s, n, m)' <=> RowsShow(s, n, m)
         /\ \A s, h, n, m : Balanced(s, h, n, m)' <=> Balanced(s, h, n, m)
         /\ \A s : Exact(s)' <=> Exact(s)
         /\ Covered' <=> Covered
PROOF
  <1>1. \A h : EventsAt(h)' = EventsAt(h)
    BY DEF EventsAt
  <1>2. AllPositions' = AllPositions
    BY <1>1 DEF AllPositions
  <1>3. \A p : At(p)' = At(p)
    BY DEF At, EventsAt
  <1>4. \A t : MovesOf(t)' = MovesOf(t) /\ RecordsOf(t)' = RecordsOf(t)
    BY <1>2, <1>3 DEF MovesOf, RecordsOf
  <1>5. /\ \A t, h, n, m : MovesBefore(t, h, n, m)' = MovesBefore(t, h, n, m)
        /\ \A t, n, m : RecordsBefore(t, n, m)' = RecordsBefore(t, n, m)
    BY <1>4 DEF MovesBefore, RecordsBefore, Since, Before
  <1>6. \A x, P : Net(x, P)' = Net(x, P)
    BY DEF Net, At, EventsAt, MapThenSumSet, MapThenFoldSet
  <1>7. \A s, h, n, m : Balanced(s, h, n, m)' <=> Balanced(s, h, n, m)
    BY <1>5, <1>6 DEF Balanced
  <1>8. Covered' <=> Covered
    BY <1>3, <1>4, <1>5, <1>6 DEF Covered
  <1>9. \A s, t, P : RowsOfShow(s, t, P)' <=> RowsOfShow(s, t, P)
    BY <1>3 DEF RowsOfShow, RowsIn, Shows, InPlace, Before
  <1>10. \A s, n, m : RowsShow(s, n, m)' <=> RowsShow(s, n, m)
    BY <1>5, <1>9 DEF RowsShow, IdsBelow
  <1>11. \A x, h : Mentions(x, h)' = Mentions(x, h)
    BY DEF Mentions
  <1>12. \A s, h : SeenShow(s, h)' <=> SeenShow(s, h)
    BY <1>11 DEF SeenShow
  <1> QED
    BY <1>7, <1>8, <1>10, <1>12 DEF Exact

----------------------------------------------------------------------------
(* One event more, one block more.                                         *)

LEMMA BeforeSteps ==
  ASSUME TypeInv, NEW h \in Heights, NEW i \in Nat, NEW p \in AllPositions
  PROVE  /\ Before(p, h, i + 1) <=> Before(p, h, i) \/ p = <<h, i>>
         /\ ~Before(<<h, i>>, h, i)
         /\ i > Len(EventsAt(h)) => (Before(p, h, i) <=> Before(p, h + 1, 1))
         /\ Before(p, h, 1) <=> p[1] < h
PROOF
  <1>1. /\ p = <<p[1], p[2]>> /\ p[1] \in Heights /\ p[1] \in Nat /\ p[2] \in Nat \ {0}
        /\ p[2] \in DOMAIN EventsAt(p[1])
    BY PositionFacts
  <1>2. h \in Nat
    BY StoreAssumption DEF Heights
  <1>3. Before(p, h, i + 1) <=> Before(p, h, i) \/ p = <<h, i>>
    <2>1. p = <<h, i>> <=> p[1] = h /\ p[2] = i
      BY <1>1
    <2> QED
      BY <1>1, <1>2, <2>1 DEF Before
  <1>4. ~Before(<<h, i>>, h, i)
    BY <1>2 DEF Before
  <1>5. ASSUME i > Len(EventsAt(h))
        PROVE  Before(p, h, i) <=> Before(p, h + 1, 1)
    <2>1. p[1] = h => p[2] < i
      <3>1. Len(EventsAt(h)) \in Nat /\ DOMAIN EventsAt(h) = 1 .. Len(EventsAt(h))
        BY ChainFacts
      <3> QED
        BY <1>1, <1>5, <3>1
    <2> QED
      BY <1>1, <1>2, <2>1 DEF Before
  <1>6. Before(p, h, 1) <=> p[1] < h
    BY <1>1, <1>2 DEF Before
  <1> QED
    BY <1>3, <1>4, <1>5, <1>6

LEMMA MovesNext ==
  ASSUME TypeInv, NEW h \in Heights, NEW i \in Nat, NEW t \in Tokens
  PROVE  /\ MovesBefore(t, h, h, i + 1) = MovesBefore(t, h, h, i) \cup ({<<h, i>>} \cap MovesOf(t))
         /\ <<h, i>> \notin MovesBefore(t, h, h, i)
PROOF
  <1>1. \A p \in AllPositions : Before(p, h, i + 1) <=> Before(p, h, i) \/ p = <<h, i>>
    BY BeforeSteps
  <1>2. MovesOf(t) \subseteq AllPositions
    BY DEF MovesOf
  <1>3. Since(t, h) <= h
    BY StoreAssumption, LimitsAssumption DEF Since, Heights
  <1>4. <<h, i>> \notin MovesBefore(t, h, h, i)
    <2>1. ~Before(<<h, i>>, h, i)
      BY StoreAssumption DEF Before, Heights
    <2> QED
      BY <2>1 DEF MovesBefore
  <1>5. MovesBefore(t, h, h, i + 1) = MovesBefore(t, h, h, i) \cup ({<<h, i>>} \cap MovesOf(t))
    BY <1>1, <1>2, <1>3 DEF MovesBefore
  <1> QED
    BY <1>4, <1>5

LEMMA MovesWrap ==
  ASSUME TypeInv, NEW h \in Heights, NEW i \in Nat, i > Len(EventsAt(h)), NEW t
  PROVE  MovesBefore(t, h, h, i) = MovesBefore(t, h, h + 1, 1)
PROOF
  <1>1. \A p \in MovesOf(t) : Before(p, h, i) <=> Before(p, h + 1, 1)
    BY BeforeSteps DEF MovesOf
  <1> QED
    BY <1>1 DEF MovesBefore

LEMMA RecordsNext ==
  ASSUME TypeInv, NEW h \in Heights, NEW i \in Nat, NEW t \in Tokens
  PROVE  /\ RecordsBefore(t, h, i + 1) = RecordsBefore(t, h, i) \cup ({<<h, i>>} \cap RecordsOf(t))
         /\ <<h, i>> \notin RecordsBefore(t, h, i)
         /\ i > Len(EventsAt(h)) => RecordsBefore(t, h, i) = RecordsBefore(t, h + 1, 1)
         /\ \A p \in RecordsBefore(t, h, i) : Before(p, h, i) /\ ~Before(<<h, i>>, p[1], p[2])
PROOF
  <1>1. \A p \in AllPositions :
           /\ Before(p, h, i + 1) <=> Before(p, h, i) \/ p = <<h, i>>
           /\ i > Len(EventsAt(h)) => (Before(p, h, i) <=> Before(p, h + 1, 1))
    BY BeforeSteps
  <1>2. RecordsOf(t) \subseteq AllPositions
    BY DEF RecordsOf
  <1>3. h \in Nat
    BY StoreAssumption DEF Heights
  <1>4. <<h, i>> \notin RecordsBefore(t, h, i)
    <2>1. ~Before(<<h, i>>, h, i)
      BY <1>3 DEF Before
    <2> QED
      BY <2>1 DEF RecordsBefore
  <1>5. RecordsBefore(t, h, i + 1) = RecordsBefore(t, h, i) \cup ({<<h, i>>} \cap RecordsOf(t))
    BY <1>1, <1>2 DEF RecordsBefore
  <1>6. i > Len(EventsAt(h)) => RecordsBefore(t, h, i) = RecordsBefore(t, h + 1, 1)
    BY <1>1, <1>2 DEF RecordsBefore
  <1>7. ASSUME NEW p \in RecordsBefore(t, h, i)
        PROVE  Before(p, h, i) /\ ~Before(<<h, i>>, p[1], p[2])
    <2>1. p \in AllPositions /\ Before(p, h, i)
      BY <1>2 DEF RecordsBefore
    <2>2. p[1] \in Nat /\ p[2] \in Nat
      BY <2>1, PositionFacts
    <2> QED
      BY <1>3, <2>1, <2>2 DEF Before
  <1> QED
    BY <1>4, <1>5, <1>6, <1>7

(* A new block leaves the sets as they are, but the migration block empties *)
(* the one of VHP.                                                         *)
LEMMA MovesOfNewBlock ==
  ASSUME TypeInv, NEW h \in Heights, NEW t \in Tokens
  PROVE  MovesBefore(t, h, h, 1) = IF t = Vhp /\ h = MigrationHeight THEN {}
                                   ELSE MovesBefore(t, h - 1, h, 1)
PROOF
  <1>1. h \in Nat \ {0} /\ MigrationHeight \in Nat
    BY StoreAssumption, LimitsAssumption DEF Heights
  <1>2. CASE t = Vhp /\ h = MigrationHeight
    <2>1. Since(t, h) = h
      BY <1>1, <1>2 DEF Since
    <2>2. \A p \in MovesOf(t) : Before(p, h, 1) => p[1] < h /\ p[1] \in Nat
      BY BeforeSteps, PositionFacts DEF MovesOf
    <2>3. \A p \in MovesOf(t) : ~(h <= p[1] /\ Before(p, h, 1))
      BY <1>1, <2>2
    <2> QED
      BY <1>2, <2>1, <2>3 DEF MovesBefore
  <1>3. CASE ~(t = Vhp /\ h = MigrationHeight)
    <2>1. Since(t, h) = Since(t, h - 1)
      BY <1>1, <1>3 DEF Since
    <2> QED
      BY <1>3, <2>1 DEF MovesBefore
  <1> QED
    BY <1>2, <1>3

(* The block under work is the final block above the height of the batch.  *)
LEMMA BlockIsFinal ==
  ASSUME TypeInv, ForkInv, GapInv, InBatch, pos <= Len(items)
  PROVE  /\ Height \in Heights /\ Height = tx.height + 1 /\ tx.height \in Nat
         /\ Block = Body[chain[Height]] /\ Block.events = EventsAt(Height)
PROOF
  <1>1. Height \in Heights
    BY CurrentBlock
  <1>2. Height = tx.height + 1 /\ tx.height \in Nat
    BY DEF GapInv, Height, TypeInv, TypeOK, Database
  <1>3. pos \in 1 .. Len(items)
    BY DEF TypeInv, TypeOK, Progress, InBatch
  <1>4. items[pos] = chain[Height]
    BY <1>3 DEF ForkInv, Height
  <1> QED
    BY <1>1, <1>2, <1>4 DEF Block, EventsAt

----------------------------------------------------------------------------
(* What each statement adds to what the tables show.                       *)

LEMMA ShowsAlike ==
  ASSUME NEW s, NEW r
  PROVE  /\ r.seen = s.seen => \A h : SeenShow(s, h) => SeenShow(r, h)
         /\ r.rows = s.rows /\ r.lastId = s.lastId =>
               \A n, m : RowsShow(s, n, m) => RowsShow(r, n, m)
         /\ r.bal = s.bal => \A h, n, m : Balanced(s, h, n, m) => Balanced(r, h, n, m)
PROOF
  <1>1. r.seen = s.seen => \A h : SeenShow(s, h) => SeenShow(r, h)
    BY DEF SeenShow
  <1>2. ASSUME r.rows = s.rows, r.lastId = s.lastId, NEW n, NEW m, RowsShow(s, n, m)
        PROVE  RowsShow(r, n, m)
    <2>1. \A t : RowsIn(r, t) = RowsIn(s, t)
      BY <1>2 DEF RowsIn
    <2>2. \A t, P : RowsOfShow(s, t, P) => RowsOfShow(r, t, P)
      BY <2>1 DEF RowsOfShow, InPlace
    <2> QED
      BY <1>2, <2>2 DEF RowsShow, IdsBelow
  <1>3. r.bal = s.bal => \A h, n, m : Balanced(s, h, n, m) => Balanced(r, h, n, m)
    BY DEF Balanced
  <1> QED
    BY <1>1, <1>2, <1>3

LEMMA SeenGrows ==
  ASSUME TypeInv, NEW s \in Database, NEW h \in Heights, NEW A, SeenShow(s, h - 1),
         A = BlockAddresses(extras, Body[chain[h]], h)
  PROVE  SeenShow(UpsertAddresses(s, A, h), h)
PROOF
  <1> DEFINE r == UpsertAddresses(s, A, h)
  <1>1. /\ \A x \in Addresses : r.seen[x] = IF x \in A /\ s.seen[x] = NotSeen THEN h ELSE s.seen[x]
        /\ \A x \in Addresses : s.seen[x] \in 1 .. NotSeen
    BY DEF UpsertAddresses, Database
  <1>2. h \in Nat \ {0} /\ h < NotSeen /\ NotSeen \in Nat
    BY StoreAssumption DEF Heights, NotSeen
  <1> HIDE DEF r
  <1> SUFFICES ASSUME NEW x \in Addresses
               PROVE  IF Mentions(x, h) = {} THEN r.seen[x] = NotSeen
                      ELSE r.seen[x] \in Mentions(x, h) /\ \A g \in Mentions(x, h) : r.seen[x] <= g
    BY DEF SeenShow, r
  <1>3. Mentions(x, h) = Mentions(x, h - 1) \cup (IF x \in A THEN {h} ELSE {})
    <2>1. 1 .. h = (1 .. h - 1) \cup {h}
      BY <1>2
    <2> QED
      BY <2>1 DEF Mentions
  <1>4. \A g \in Mentions(x, h - 1) : g \in Nat /\ g < h
    BY <1>2 DEF Mentions
  <1>5. IF Mentions(x, h - 1) = {} THEN s.seen[x] = NotSeen
        ELSE s.seen[x] \in Mentions(x, h - 1) /\ \A g \in Mentions(x, h - 1) : s.seen[x] <= g
    BY DEF SeenShow
  <1>6. CASE Mentions(x, h - 1) = {}
    BY <1>1, <1>2, <1>3, <1>5, <1>6
  <1>7. CASE Mentions(x, h - 1) # {}
    <2>1. s.seen[x] # NotSeen /\ s.seen[x] < h /\ s.seen[x] \in Nat
      BY <1>2, <1>4, <1>5, <1>7
    <2>2. r.seen[x] = s.seen[x]
      BY <1>1, <2>1
    <2> QED
      BY <1>2, <1>3, <1>4, <1>5, <1>7, <2>1, <2>2
  <1> QED
    BY <1>6, <1>7

NewRow(s, h, t, e) ==
    [id |-> s.lastId + 1, height |-> h, token |-> t, kind |-> e.kind,
     from |-> Debited(e), to |-> Credited(e), value |-> e.value]

LEMMA RowsOfGrow ==
  ASSUME TypeInv, NEW s \in Database, NEW r, NEW t, NEW n \in Heights, NEW i \in Nat,
         NEW P, NEW p, p = <<n, i>>, p \notin P, IsFiniteSet(P),
         \A q \in P : Before(q, n, i) /\ ~Before(p, q[1], q[2]),
         IdsBelow(s), r.rows = s.rows \cup {NewRow(s, n, t, At(p))},
         RowsOfShow(s, t, P)
  PROVE  RowsOfShow(r, t, P \cup {p})
PROOF
  <1> DEFINE new == NewRow(s, n, t, At(p))
  <1>1. s.rows \in SUBSET Transfer /\ s.lastId \in Nat
    BY DEF Database
  <1>2. \A q \in s.rows : q.id \in Nat /\ q.id <= s.lastId
    BY <1>1 DEF Transfer, IdsBelow
  <1>3. new.id = s.lastId + 1 /\ new.token = t /\ Shows(new, p) /\ p[1] = n /\ p[2] = i
    BY DEF NewRow, Shows
  <1> HIDE DEF new
  <1>4. new \notin s.rows /\ \A q \in s.rows : q.id < new.id /\ ~(new.id < q.id)
    BY <1>1, <1>2, <1>3
  <1>5. RowsIn(r, t) = RowsIn(s, t) \cup {new} /\ new \notin RowsIn(s, t)
    BY <1>3, <1>4 DEF RowsIn, new
  <1>6. /\ IsFiniteSet(RowsIn(s, t)) /\ Cardinality(RowsIn(s, t)) = Cardinality(P)
        /\ \A q \in RowsIn(s, t) : \E o \in P : Shows(q, o) /\ InPlace(s, t, P, q, o)
    BY DEF RowsOfShow
  <1>7. /\ IsFiniteSet(RowsIn(r, t))
        /\ Cardinality(RowsIn(r, t)) = Cardinality(RowsIn(s, t)) + 1
        /\ Cardinality(P \cup {p}) = Cardinality(P) + 1
    <2>1. /\ IsFiniteSet(RowsIn(s, t) \cup {new})
          /\ Cardinality(RowsIn(s, t) \cup {new}) = Cardinality(RowsIn(s, t)) + 1
      BY <1>5, <1>6, FS_AddElement
    <2>2. Cardinality(P \cup {p}) = Cardinality(P) + 1
      BY FS_AddElement
    <2> QED
      BY <1>5, <2>1, <2>2
  <1>8. ~Before(p, n, i)
    BY StoreAssumption DEF Before, Heights
  <1>9. InPlace(r, t, P \cup {p}, new, p)
    <2>1. {q \in P \cup {p} : Before(q, p[1], p[2])} = P
      BY <1>3, <1>8
    <2>2. {o \in RowsIn(r, t) : o.id < new.id} = RowsIn(s, t)
      <3>1. ~(new.id < new.id)
        BY <1>1, <1>3
      <3>2. \A o \in RowsIn(s, t) : o.id < new.id
        BY <1>4 DEF RowsIn
      <3> QED
        BY <1>5, <3>1, <3>2
    <2> QED
      BY <1>6, <2>1, <2>2 DEF InPlace
  <1>10. ASSUME NEW q \in RowsIn(s, t), NEW o \in P, InPlace(s, t, P, q, o)
         PROVE  InPlace(r, t, P \cup {p}, q, o)
    <2>1. {u \in P \cup {p} : Before(u, o[1], o[2])} = {u \in P : Before(u, o[1], o[2])}
      OBVIOUS
    <2>2. {u \in RowsIn(r, t) : u.id < q.id} = {u \in RowsIn(s, t) : u.id < q.id}
      <3>1. ~(new.id < q.id)
        BY <1>4 DEF RowsIn
      <3> QED
        BY <1>5, <3>1
    <2> QED
      BY <1>10, <2>1, <2>2 DEF InPlace
  <1>11. \A q \in RowsIn(r, t) : \E o \in P \cup {p} : Shows(q, o) /\ InPlace(r, t, P \cup {p}, q, o)
    <2>1. ASSUME NEW q \in RowsIn(s, t)
          PROVE  \E o \in P \cup {p} : Shows(q, o) /\ InPlace(r, t, P \cup {p}, q, o)
      <3>1. PICK o \in P : Shows(q, o) /\ InPlace(s, t, P, q, o)
        BY <1>6
      <3> QED
        BY <1>10, <3>1
    <2>2. \E o \in P \cup {p} : Shows(new, o) /\ InPlace(r, t, P \cup {p}, new, o)
      BY <1>3, <1>9
    <2> QED
      BY <1>5, <2>1, <2>2
  <1> QED
    BY <1>6, <1>7, <1>11 DEF RowsOfShow

LEMMA OtherRowsKept ==
  ASSUME NEW s, NEW r, NEW t, NEW n, NEW e,
         r.rows = s.rows \cup {NewRow(s, n, t, e)}
  PROVE  \A u, P : u # t /\ RowsOfShow(s, u, P) => RowsOfShow(r, u, P)
PROOF
  <1>1. NewRow(s, n, t, e).token = t
    BY DEF NewRow
  <1>2. \A u : u # t => RowsIn(r, u) = RowsIn(s, u)
    BY <1>1 DEF RowsIn
  <1> QED
    BY <1>2 DEF RowsOfShow, InPlace

LEMMA BalancesGrow ==
  ASSUME TypeInv, NEW s \in Database, NEW h \in Heights, NEW i \in DOMAIN EventsAt(h),
         NEW t \in Tokens, <<h, i>> \in MovesOf(t), Covered, Balanced(s, h, h, i)
  PROVE  Balanced(MoveValue(s, t, EventsAt(h)[i]), h, h, i + 1)
PROOF
  <1> DEFINE p == <<h, i>>
             e == EventsAt(h)[i]
             r == MoveValue(s, t, e)
  <1>1. At(p) = e /\ p[1] = h /\ p[2] = i
    BY DEF At
  <1>2. e \in Event /\ i \in Nat
    BY ChainFacts
  <1>3. e.kind \in TransferKinds
    BY <1>1 DEF MovesOf, ChangesBalance, Recorded
  <1> HIDE DEF p, e
  <1>4. /\ \A u \in Tokens : u # t => MovesBefore(u, h, h, i + 1) = MovesBefore(u, h, h, i)
        /\ MovesBefore(t, h, h, i + 1) = MovesBefore(t, h, h, i) \cup {p}
        /\ p \notin MovesBefore(t, h, h, i)
    <2>1. \A u \in Tokens : u # t => p \notin MovesOf(u)
      BY DEF MovesOf, p
    <2>2. \A u \in Tokens :
             /\ MovesBefore(u, h, h, i + 1) = MovesBefore(u, h, h, i) \cup ({p} \cap MovesOf(u))
             /\ p \notin MovesBefore(u, h, h, i)
      BY <1>2, MovesNext DEF p
    <2>3. p \in MovesOf(t)
      BY DEF p
    <2> QED
      BY <2>1, <2>2, <2>3
  <1>5. MovesBefore(t, h, h, i) \in SUBSET AllPositions /\ p \in AllPositions
    BY DEF MovesBefore, MovesOf, p
  <1>6. \A x \in Accounts :
           Net(x, MovesBefore(t, h, h, i + 1)) =
             Net(x, MovesBefore(t, h, h, i)) + (IF x = Credited(e) THEN e.value ELSE 0)
                                             - (IF x = Debited(e) THEN e.value ELSE 0)
    BY <1>1, <1>3, <1>4, <1>5, NetGrows
  <1>7. \A x \in Accounts : s.bal[t][x] = Net(x, MovesBefore(t, h, h, i))
    BY DEF Balanced
  <1>8. Debited(e) \in Accounts => s.bal[t][Debited(e)] >= e.value
    <2>1. Debited(e) \in Accounts => Net(Debited(e), MovesBefore(t, h, h, i)) >= e.value
      BY <1>1 DEF Covered, p
    <2> QED
      BY <1>7, <2>1
  <1>9. /\ \A u \in Tokens \ {t}, x \in Accounts : r.bal[u][x] = s.bal[u][x]
        /\ \A x \in Accounts :
              r.bal[t][x] = s.bal[t][x] + (IF x = Credited(e) THEN e.value ELSE 0)
                                        - (IF x = Debited(e) THEN e.value ELSE 0)
    BY <1>2, <1>8, MoveValueEffect
  <1> HIDE DEF r
  <1>10. \A x \in Accounts : r.bal[t][x] = Net(x, MovesBefore(t, h, h, i + 1))
    BY <1>6, <1>7, <1>9
  <1>11. \A u \in Tokens, x \in Accounts : r.bal[u][x] = Net(x, MovesBefore(u, h, h, i + 1))
    <2>1. ASSUME NEW u \in Tokens, u # t, NEW x \in Accounts
          PROVE  r.bal[u][x] = Net(x, MovesBefore(u, h, h, i + 1))
      BY <1>4, <1>9, <2>1 DEF Balanced
    <2> QED
      BY <1>10, <2>1
  <1> QED
    BY <1>11 DEF Balanced, r, e

(* BeginBlock.                                                             *)
LEMMA BlockBegins ==
  ASSUME TypeInv, ForkInv, GapInv, DataInv, BeginBlock
  PROVE  /\ pc' = "changes" /\ k' = 1 /\ Height' = Height
         /\ SeenShow(tx', Height) /\ RowsShow(tx', Height, 1)
         /\ Covered => Balanced(tx', Height, Height, 1)
PROOF
  <1> DEFINE A == BlockAddresses(extras, Block, Height)
             s == IF Height = MigrationHeight THEN ResetTokenBalances(tx, Vhp) ELSE tx
             r == UpsertAddresses(s, A, Height)
  <1>1. /\ Height \in Heights /\ Height = tx.height + 1 /\ tx.height \in Nat
        /\ Block = Body[chain[Height]]
    BY BlockIsFinal DEF BeginBlock, InBatch
  <1>2. pc = "block" /\ Exact(tx) /\ tx \in Database
    BY DEF BeginBlock, DataInv, TypeInv, TypeOK
  <1>3. ~(Height <= tx.height)
    BY <1>1
  <1>4. tx' = r /\ pc' = "changes" /\ k' = 1 /\ pos' = pos /\ cur' = cur
    BY <1>3 DEF BeginBlock
  <1>5. Height' = Height
    BY <1>4 DEF Height
  <1>6. SeenShow(tx, Height - 1) /\ RowsShow(tx, Height, 1)
        /\ (Covered => Balanced(tx, Height - 1, Height, 1))
    <2>1. Height - 1 = tx.height
      BY <1>1
    <2> QED
      BY <1>1, <1>2, <2>1 DEF Exact
  <1>7. /\ s \in Database /\ s.seen = tx.seen /\ s.rows = tx.rows /\ s.lastId = tx.lastId
        /\ Height # MigrationHeight => s = tx
        /\ Height = MigrationHeight =>
              \A u \in Tokens, x \in Accounts :
                 s.bal[u][x] = IF u = Vhp THEN 0 ELSE tx.bal[u][x]
    <2>1. Vhp \in Tokens
      BY DEF Tokens
    <2>2. ResetTokenBalances(tx, Vhp) \in Database
      BY <1>2, <2>1, ResetTokenBalancesType
    <2>3. /\ ResetTokenBalances(tx, Vhp).seen = tx.seen
          /\ ResetTokenBalances(tx, Vhp).rows = tx.rows
          /\ ResetTokenBalances(tx, Vhp).lastId = tx.lastId
          /\ \A u \in Tokens, x \in Accounts :
                ResetTokenBalances(tx, Vhp).bal[u][x] = IF u = Vhp THEN 0 ELSE tx.bal[u][x]
      BY <1>2, <2>1 DEF ResetTokenBalances, Database
    <2> QED
      BY <1>2, <2>2, <2>3
  <1>8. SeenShow(s, Height - 1) /\ RowsShow(s, Height, 1)
    BY <1>6, <1>7, ShowsAlike
  <1>9. Covered => Balanced(s, Height, Height, 1)
    <2> SUFFICES ASSUME Covered, NEW u \in Tokens, NEW x \in Accounts
                 PROVE  s.bal[u][x] = Net(x, MovesBefore(u, Height, Height, 1))
      BY DEF Balanced
    <2>1. MovesBefore(u, Height, Height, 1) =
            IF u = Vhp /\ Height = MigrationHeight THEN {}
            ELSE MovesBefore(u, Height - 1, Height, 1)
      BY <1>1, MovesOfNewBlock
    <2>2. tx.bal[u][x] = Net(x, MovesBefore(u, Height - 1, Height, 1))
      BY <1>6 DEF Balanced
    <2>3. Net(x, {}) = 0
      BY NetOfNone
    <2> HIDE DEF s
    <2> QED
      BY <1>7, <2>1, <2>2, <2>3
  <1> HIDE DEF s
  <1>10. r.rows = s.rows /\ r.lastId = s.lastId /\ r.bal = s.bal
    BY <1>7 DEF UpsertAddresses, Database
  <1>11. SeenShow(r, Height)
    BY <1>1, <1>7, <1>8, SeenGrows
  <1>12. RowsShow(r, Height, 1) /\ (Covered => Balanced(r, Height, Height, 1))
    BY <1>8, <1>9, <1>10, ShowsAlike
  <1> QED
    BY <1>4, <1>5, <1>11, <1>12

(* ApplyChange.                                                            *)
LEMMA ChangeApplied ==
  ASSUME TypeInv, ForkInv, GapInv, DataInv, ApplyChange
  PROVE  /\ SeenShow(tx', Height) /\ RowsShow(tx', Height, 1)
         /\ Covered => Balanced(tx', Height, Height, k + 1)
PROOF
  <1> DEFINE h == Height
             e == Block.events[k]
             t == NormalizeToken(e.source)
  <1>1. /\ pc = "changes" /\ k <= Len(Block.events) /\ InBatch /\ pos <= Len(items)
        /\ tx \in Database /\ extras \in SUBSET Extras /\ k \in Nat \ {0}
        /\ tx' = IF ChangesBalance(extras, e, h) THEN MoveValue(tx, t, e) ELSE tx
    BY DEF ApplyChange, InBatch, TypeInv, TypeOK, Progress
  <1>2. h \in Heights /\ Block.events = EventsAt(h)
    BY <1>1, BlockIsFinal
  <1>3. /\ SeenShow(tx, h) /\ RowsShow(tx, h, 1)
        /\ (Covered => Balanced(tx, h, h, k))
    BY <1>1 DEF DataInv
  <1> HIDE DEF h
  <1>4. k \in DOMAIN EventsAt(h) /\ e \in Event /\ e = EventsAt(h)[k]
    BY <1>1, <1>2, ChainFacts
  <1>5. At(<<h, k>>) = e /\ <<h, k>> \in AllPositions
    BY <1>2, <1>4, PositionFacts DEF At
  <1> HIDE DEF e, t
  <1>6. \A u : <<h, k>> \in MovesOf(u) <=> ChangesBalance(extras, e, h) /\ t = u
    BY <1>5 DEF MovesOf, t
  <1>7. CASE ~ChangesBalance(extras, e, h)
    <2>1. tx' = tx
      BY <1>1, <1>7
    <2>2. \A u \in Tokens : MovesBefore(u, h, h, k + 1) = MovesBefore(u, h, h, k)
      <3>1. k \in Nat
        BY <1>1
      <3>2. \A u \in Tokens :
               MovesBefore(u, h, h, k + 1) = MovesBefore(u, h, h, k) \cup ({<<h, k>>} \cap MovesOf(u))
        BY <1>2, <3>1, MovesNext
      <3>3. \A u \in Tokens : {<<h, k>>} \cap MovesOf(u) = {}
        BY <1>6, <1>7
      <3> QED
        BY <3>2, <3>3
    <2>3. Balanced(tx, h, h, k) => Balanced(tx, h, h, k + 1)
      BY <2>2 DEF Balanced
    <2> QED
      BY <1>3, <2>1, <2>3 DEF h
  <1>8. CASE ChangesBalance(extras, e, h)
    <2>1. tx' = MoveValue(tx, t, e)
      BY <1>1, <1>8
    <2>2. t \in Tokens
      BY <1>1, <1>8, NormalizeTokenType DEF ChangesBalance, Recorded, t
    <2>3. OnlyBalances(tx, tx')
      BY <1>1, <1>4, <2>1, <2>2, MoveValueEffect
    <2>4. SeenShow(tx', h) /\ RowsShow(tx', h, 1)
      BY <1>3, <2>3, ShowsAlike DEF OnlyBalances
    <2>5. Covered => Balanced(tx', h, h, k + 1)
      BY <1>1, <1>2, <1>3, <1>4, <1>6, <1>8, <2>1, <2>2, BalancesGrow
    <2> QED
      BY <2>4, <2>5 DEF h
  <1> QED
    BY <1>7, <1>8

(* ClearHistory: nothing was recorded at this height before.               *)
LEMMA HistoryCleared ==
  ASSUME TypeInv, ForkInv, GapInv, DataInv, ClearHistory
  PROVE  /\ SeenShow(tx', Height) /\ RowsShow(tx', Height, 1)
         /\ Covered => Balanced(tx', Height, Height + 1, 1)
PROOF
  <1> DEFINE h == Height
  <1>1. /\ pc = "changes" /\ k > Len(Block.events) /\ InBatch /\ pos <= Len(items)
        /\ tx \in Database /\ k \in Nat /\ tx' = DeleteTransfersAtHeight(tx, h)
    BY DEF ClearHistory, InBatch, TypeInv, TypeOK, Progress
  <1>2. h \in Heights /\ Block.events = EventsAt(h)
    BY <1>1, BlockIsFinal
  <1>3. /\ SeenShow(tx, h) /\ RowsShow(tx, h, 1)
        /\ (Covered => Balanced(tx, h, h, k))
    BY <1>1 DEF DataInv
  <1> HIDE DEF h
  <1>4. \A r \in tx.rows : r.height # h
    <2> SUFFICES ASSUME NEW r \in tx.rows PROVE r.height # h
      OBVIOUS
    <2>1. r.token \in Tokens
      BY <1>1 DEF Database, Transfer
    <2>2. r \in RowsIn(tx, r.token)
      BY DEF RowsIn
    <2>3. PICK p \in RecordsBefore(r.token, h, 1) : Shows(r, p)
      BY <1>3, <2>1, <2>2 DEF RowsShow, RowsOfShow
    <2>4. p \in AllPositions /\ Before(p, h, 1)
      BY DEF RecordsBefore, RecordsOf
    <2>5. p[1] < h /\ p[1] \in Nat /\ h \in Nat
      BY <1>2, <2>4, PositionFacts, StoreAssumption DEF Heights, Before
    <2> QED
      BY <2>3, <2>5 DEF Shows
  <1>5. tx'.rows = tx.rows /\ tx'.seen = tx.seen /\ tx'.lastId = tx.lastId /\ tx'.bal = tx.bal
    <2>1. {r \in tx.rows : r.height # h} = tx.rows
      BY <1>4
    <2> QED
      BY <1>1, <2>1 DEF DeleteTransfersAtHeight, Database
  <1>6. \A t \in Tokens : MovesBefore(t, h, h, k) = MovesBefore(t, h, h + 1, 1)
    BY <1>1, <1>2, MovesWrap
  <1>7. Balanced(tx, h, h, k) => Balanced(tx, h, h + 1, 1)
    BY <1>6 DEF Balanced
  <1> QED
    BY <1>3, <1>5, <1>7, ShowsAlike DEF h

(* WriteTransfer.                                                          *)
LEMMA TransferWritten ==
  ASSUME TypeInv, ForkInv, GapInv, DataInv, WriteTransfer
  PROVE  /\ SeenShow(tx', Height) /\ RowsShow(tx', Height, k + 1)
         /\ Covered => Balanced(tx', Height, Height + 1, 1)
PROOF
  <1> DEFINE h == Height
             e == Block.events[k]
             t == NormalizeToken(e.source)
             p == <<h, k>>
  <1>1. /\ pc = "history" /\ k <= Len(Block.events) /\ InBatch /\ pos <= Len(items)
        /\ tx \in Database /\ extras \in SUBSET Extras /\ k \in Nat \ {0}
        /\ tx' = IF Recorded(extras, e) THEN RecordTransfer(tx, h, t, e) ELSE tx
    BY DEF WriteTransfer, InBatch, TypeInv, TypeOK, Progress
  <1>2. h \in Heights /\ Block.events = EventsAt(h)
    BY <1>1, BlockIsFinal
  <1>3. /\ SeenShow(tx, h) /\ RowsShow(tx, h, k)
        /\ (Covered => Balanced(tx, h, h + 1, 1))
    BY <1>1 DEF DataInv
  <1> HIDE DEF h
  <1>4. k \in DOMAIN EventsAt(h) /\ e \in Event /\ e = EventsAt(h)[k] /\ k \in Nat
    BY <1>1, <1>2, ChainFacts
  <1>5. At(p) = e /\ p \in AllPositions
    BY <1>2, <1>4, PositionFacts DEF At
  <1> HIDE DEF e, t
  <1>6. \A u : p \in RecordsOf(u) <=> Recorded(extras, e) /\ t = u
    BY <1>5 DEF RecordsOf, t
  <1>7. \A u \in Tokens :
           /\ RecordsBefore(u, h, k + 1) = RecordsBefore(u, h, k) \cup ({p} \cap RecordsOf(u))
           /\ p \notin RecordsBefore(u, h, k)
           /\ \A q \in RecordsBefore(u, h, k) : Before(q, h, k) /\ ~Before(p, q[1], q[2])
    BY <1>2, <1>4, RecordsNext
  <1>8. CASE ~Recorded(extras, e)
    <2>1. tx' = tx
      BY <1>1, <1>8
    <2>2. \A u \in Tokens : RecordsBefore(u, h, k + 1) = RecordsBefore(u, h, k)
      BY <1>6, <1>7, <1>8
    <2>3. RowsShow(tx, h, k + 1)
      BY <1>3, <2>2 DEF RowsShow
    <2> QED
      BY <1>3, <2>1, <2>3 DEF h
  <1>9. CASE Recorded(extras, e)
    <2>1. t \in Tokens
      BY <1>1, <1>9, NormalizeTokenType DEF Recorded, t
    <2>2. /\ tx'.seen = tx.seen /\ tx'.bal = tx.bal /\ tx'.lastId = tx.lastId + 1
          /\ tx'.rows = tx.rows \cup {NewRow(tx, h, t, At(p))}
      BY <1>1, <1>5, <1>9 DEF RecordTransfer, InsertTransfer, NewRow, Database
    <2>3. IdsBelow(tx) /\ \A u \in Tokens : RowsOfShow(tx, u, RecordsBefore(u, h, k))
      BY <1>3 DEF RowsShow
    <2>4. IdsBelow(tx')
      <3>1. \A q \in tx.rows : q.id \in Nat /\ q.id <= tx.lastId
        BY <1>1, <2>3 DEF Database, Transfer, IdsBelow
      <3>2. tx.lastId \in Nat
        BY <1>1 DEF Database
      <3> QED
        BY <2>2, <3>1, <3>2 DEF IdsBelow, NewRow
    <2>5. RowsOfShow(tx', t, RecordsBefore(t, h, k + 1))
      <3> DEFINE P == RecordsBefore(t, h, k)
      <3>1. p \notin P /\ \A q \in P : Before(q, h, k) /\ ~Before(p, q[1], q[2])
        BY <1>7, <2>1
      <3>2. IsFiniteSet(P)
        BY PositionFacts, FS_Subset DEF RecordsBefore, RecordsOf
      <3>3. RecordsBefore(t, h, k + 1) = P \cup {p}
        BY <1>6, <1>7, <1>9, <2>1
      <3>4. RowsOfShow(tx, t, P)
        BY <2>1, <2>3
      <3> HIDE DEF P
      <3>5. RowsOfShow(tx', t, P \cup {p})
        <4> DEFINE r == tx'
        <4>1. r.rows = tx.rows \cup {NewRow(tx, h, t, At(p))}
          BY <2>2
        <4> HIDE DEF r, p
        <4>2. RowsOfShow(r, t, P \cup {p})
          <5>1. p = <<h, k>>
            BY DEF p
          <5> QED
            BY <1>1, <1>2, <1>4, <2>3, <3>1, <3>2, <3>4, <4>1, <5>1, RowsOfGrow
        <4> QED
          BY <4>2 DEF r
      <3> QED
        BY <3>3, <3>5
    <2>6. ASSUME NEW u \in Tokens, u # t
          PROVE  RowsOfShow(tx', u, RecordsBefore(u, h, k + 1))
      <3>1. RecordsBefore(u, h, k + 1) = RecordsBefore(u, h, k)
        BY <1>6, <1>7, <2>6
      <3>2. \A P : u # t /\ RowsOfShow(tx, u, P) => RowsOfShow(tx', u, P)
        BY <2>2, OtherRowsKept
      <3> QED
        BY <2>3, <2>6, <3>1, <3>2
    <2>7. RowsShow(tx', h, k + 1)
      BY <2>4, <2>5, <2>6 DEF RowsShow
    <2>8. SeenShow(tx', h) /\ (Covered => Balanced(tx', h, h + 1, 1))
      BY <1>3, <2>2, ShowsAlike
    <2> QED
      BY <2>7, <2>8 DEF h
  <1> QED
    BY <1>8, <1>9

(* FinishBlock.                                                            *)
LEMMA BlockFinished ==
  ASSUME TypeInv, ForkInv, GapInv, DataInv, FinishBlock
  PROVE  Exact(tx')
PROOF
  <1> DEFINE h == Height
  <1>1. /\ pc = "history" /\ k > Len(Block.events) /\ InBatch /\ pos <= Len(items)
        /\ tx \in Database /\ k \in Nat
        /\ tx' = SetSyncState(InsertBlock(tx, h, items[pos]), h)
    BY DEF FinishBlock, InBatch, TypeInv, TypeOK, Progress
  <1>2. h \in Heights /\ Block.events = EventsAt(h)
    BY <1>1, BlockIsFinal
  <1>3. /\ SeenShow(tx, h) /\ RowsShow(tx, h, k)
        /\ (Covered => Balanced(tx, h, h + 1, 1))
    BY <1>1 DEF DataInv
  <1> HIDE DEF h
  <1>4. /\ tx'.rows = tx.rows /\ tx'.seen = tx.seen /\ tx'.lastId = tx.lastId
        /\ tx'.bal = tx.bal /\ tx'.height = h
    BY <1>1 DEF SetSyncState, InsertBlock, Database
  <1>5. \A t \in Tokens : RecordsBefore(t, h, k) = RecordsBefore(t, h + 1, 1)
    BY <1>1, <1>2, RecordsNext
  <1>6. RowsShow(tx, h + 1, 1)
    BY <1>3, <1>5 DEF RowsShow
  <1>7. SeenShow(tx', h) /\ RowsShow(tx', h + 1, 1) /\ (Covered => Balanced(tx', h, h + 1, 1))
    BY <1>3, <1>4, <1>6, ShowsAlike
  <1> QED
    BY <1>4, <1>7 DEF Exact

----------------------------------------------------------------------------
(* The invariant of the data is inductive.                                 *)

LEMMA DataInit ==
  ASSUME TypeInv, Init
  PROVE  DataInv
PROOF
  <1> DEFINE s == EmptyDatabase
  <1>1. /\ s.height = 0 /\ s.rows = {} /\ \A x \in Addresses : s.seen[x] = NotSeen
        /\ \A t \in Tokens, x \in Accounts : s.bal[t][x] = 0
    BY DEF EmptyDatabase
  <1>2. db = s /\ durable = s /\ pc = "idle"
    BY DEF Init
  <1> HIDE DEF s
  <1>3. \A p \in AllPositions : ~Before(p, 1, 1)
    BY PositionFacts, StoreAssumption DEF Before, Heights
  <1>4. /\ \A t : RecordsBefore(t, 1, 1) = {} /\ MovesBefore(t, 0, 1, 1) = {}
        /\ \A x : Mentions(x, 0) = {}
    BY <1>3 DEF RecordsBefore, MovesBefore, RecordsOf, MovesOf, Mentions
  <1>5. SeenShow(s, 0)
    BY <1>1, <1>4 DEF SeenShow
  <1>6. RowsShow(s, 1, 1)
    <2>1. \A t : RowsIn(s, t) = {}
      BY <1>1 DEF RowsIn
    <2>2. \A t : RowsOfShow(s, t, {})
      BY <2>1, FS_EmptySet DEF RowsOfShow
    <2> QED
      BY <1>1, <1>4, <2>2 DEF RowsShow, IdsBelow
  <1>7. Balanced(s, 0, 1, 1)
    BY <1>1, <1>4, NetOfNone DEF Balanced
  <1>8. s.height + 1 = 1
    BY <1>1
  <1>9. Exact(s)
    BY <1>1, <1>5, <1>6, <1>7, <1>8 DEF Exact
  <1> QED
    BY <1>2, <1>9 DEF DataInv

LEMMA ChainFixed == [Next]_vars => chain' = chain /\ extras' = extras
  BY DEF Next, SyncStep, ProduceBlock, Finalize, StartSync, ReceiveBlocks, LoopDone, BeginBlock,
         ApplyChange, ClearHistory, WriteTransfer, FinishBlock, Commit, EmptyAnswer, RpcError,
         WriteError, Crash, PowerLoss, Return, vars, node

LEMMA DataStep ==
  ASSUME FullAnswers, TypeInv, ForkInv, GapInv, DataInv, [Next]_vars
  PROVE  DataInv'
PROOF
  <1>a. /\ \A s, h : SeenShow(s, h)' <=> SeenShow(s, h)
        /\ \A s, n, m : RowsShow(s, n, m)' <=> RowsShow(s, n, m)
        /\ \A s, h, n, m : Balanced(s, h, n, m)' <=> Balanced(s, h, n, m)
        /\ \A s : Exact(s)' <=> Exact(s)
        /\ Covered' <=> Covered
    BY ChainFixed, SameChain
  <1>b. ASSUME Exact(db'), Exact(durable'),
               pc' = "block" => Exact(tx'),
               pc' = "changes" => /\ SeenShow(tx', Height') /\ RowsShow(tx', Height', 1)
                                  /\ Covered => Balanced(tx', Height', Height', k'),
               pc' = "history" => /\ SeenShow(tx', Height') /\ RowsShow(tx', Height', k')
                                  /\ Covered => Balanced(tx', Height', Height' + 1, 1)
        PROVE  DataInv'
    BY <1>a, <1>b DEF DataInv
  <1>c. Exact(db) /\ Exact(durable)
    BY DEF DataInv
  <1>d. ASSUME db' = db, durable' = durable, pc' \in {"idle", "fetch"}
        PROVE  DataInv'
    BY <1>b, <1>c, <1>d
  <1>e. ASSUME UNCHANGED <<store, pc, cur, pos, k>>
        PROVE  DataInv'
    <2>1. Height' = Height /\ UNCHANGED <<db, tx, durable, pc, k>>
      BY <1>e DEF Height, store
    <2> QED
      BY <1>b, <2>1 DEF DataInv
  <1>1. CASE ProduceBlock \/ Finalize
    BY <1>1, <1>e DEF ProduceBlock, Finalize, locals
  <1>2. CASE StartSync
    BY <1>2, <1>d DEF StartSync, store
  <1>3. CASE ReceiveBlocks
    BY <1>3, <1>b, <1>c DEF ReceiveBlocks
  <1>4. CASE Return
    BY <1>4, <1>d DEF Return
  <1>5. CASE BeginBlock
    <2>1. db' = db /\ durable' = durable
      BY <1>5 DEF BeginBlock
    <2> QED
      BY <1>5, <1>b, <1>c, <2>1, BlockBegins
  <1>6. CASE ApplyChange
    <2>1. db' = db /\ durable' = durable /\ pc' = "changes" /\ k' = k + 1 /\ Height' = Height
      BY <1>6 DEF ApplyChange, Height
    <2> QED
      BY <1>6, <1>b, <1>c, <2>1, ChangeApplied
  <1>7. CASE ClearHistory
    <2>1. db' = db /\ durable' = durable /\ pc' = "history" /\ k' = 1 /\ Height' = Height
      BY <1>7 DEF ClearHistory, Height
    <2> QED
      BY <1>7, <1>b, <1>c, <2>1, HistoryCleared
  <1>8. CASE WriteTransfer
    <2>1. db' = db /\ durable' = durable /\ pc' = "history" /\ k' = k + 1 /\ Height' = Height
      BY <1>8 DEF WriteTransfer, Height
    <2> QED
      BY <1>8, <1>b, <1>c, <2>1, TransferWritten
  <1>9. CASE FinishBlock
    <2>1. db' = db /\ durable' = durable /\ pc' = "block"
      BY <1>9 DEF FinishBlock
    <2> QED
      BY <1>9, <1>b, <1>c, <2>1, BlockFinished
  <1>10. CASE Commit
    <2>1. pc = "block" /\ db' = tx /\ durable' \in {durable, tx} /\ pc' = "fetch"
      BY <1>10 DEF Commit
    <2>2. Exact(tx)
      BY <2>1 DEF DataInv
    <2> QED
      BY <1>b, <1>c, <2>1, <2>2
  <1>11. CASE EmptyAnswer
    BY <1>11 DEF EmptyAnswer, FullAnswers
  <1>12. CASE PowerLoss
    BY <1>12, <1>b, <1>c DEF PowerLoss
  <1>13. CASE UNCHANGED vars
    BY <1>13, <1>e DEF vars, locals
  <1> QED
    BY <1>1, <1>2, <1>3, <1>4, <1>5, <1>6, <1>7, <1>8, <1>9, <1>10, <1>11, <1>12, <1>13
    DEF Next, SyncStep, LoopDone, RpcError, WriteError, Crash

SyncInv == TypeInv /\ ForkInv /\ GapInv /\ DataInv

LEMMA SyncInductive ==
  ASSUME FullAnswers, GenesisLib >= 1
  PROVE  Spec => []SyncInv
PROOF
  <1>1. Init => SyncInv
    BY TypeInit, ForkInit, GapInit, DataInit DEF SyncInv
  <1>2. SyncInv /\ [Next]_vars => SyncInv'
    BY TypeStep, ForkStep, GapStep, DataStep DEF SyncInv
  <1> QED
    BY <1>1, <1>2, PTL DEF Spec

----------------------------------------------------------------------------
(* What the committed database shows.                                      *)

LEMMA SeenIsFirst == SyncInv => FirstSeenExact
PROOF
  <1> SUFFICES ASSUME SyncInv, NEW x \in Addresses
               PROVE  db.seen[x] = IF Mentions(x, db.height) = {} THEN NotSeen
                                   ELSE Min(Mentions(x, db.height))
    BY DEF FirstSeenExact, Mentions
  <1> DEFINE M == Mentions(x, db.height)
  <1>1. IF M = {} THEN db.seen[x] = NotSeen
        ELSE db.seen[x] \in M /\ \A g \in M : db.seen[x] <= g
    BY DEF SyncInv, DataInv, Exact, SeenShow
  <1>2. M \in SUBSET Nat
    BY DEF Mentions
  <1> HIDE DEF M
  <1>3. M # {} => Min(M) \in M /\ \A g \in M : Min(M) <= g
    BY <1>2, MinFacts
  <1>4. M # {} => db.seen[x] = Min(M)
    <2> DEFINE m == Min(M)
               v == db.seen[x]
    <2> SUFFICES ASSUME M # {} PROVE v = m
      OBVIOUS
    <2>1. m \in M /\ \A g \in M : m <= g
      BY <1>3
    <2>2. v \in M /\ \A g \in M : v <= g
      BY <1>1
    <2> HIDE DEF m, v
    <2>3. m <= v /\ v <= m /\ m \in Nat /\ v \in Nat
      BY <1>2, <2>1, <2>2
    <2> QED
      BY <2>3
  <1> QED
    BY <1>1, <1>4 DEF M

(* First-seen heights are those of the lowest mention on the irreversible  *)
(* chain: retries, rollbacks and restarts neither move one nor leave the   *)
(* trace of a block that was not indexed.                                  *)
THEOREM SeenFromFirstMention ==
  ASSUME FullAnswers, GenesisLib >= 1
  PROVE  Spec => []FirstSeenExact
  BY SyncInductive, SeenIsFirst, PTL

(* The reference sets, by the sources of an event, are the sets of the     *)
(* invariant, by what the code decides.                                    *)
LEMMA MovesAreCounted ==
  ASSUME TypeInv, NEW t \in Tokens, NEW lo \in Nat \ {0}, NEW h \in 0 .. MaxHeight
  PROVE  LET src(g) == Sources(t, g)
         IN  Positions(src, lo, h) = {p \in MovesOf(t) : lo <= p[1] /\ Before(p, h + 1, 1)}
PROOF
  <1> DEFINE Counts(g, i) == /\ EventsAt(g)[i].source \in Sources(t, g)
                             /\ ~EventsAt(g)[i].reverted /\ EventsAt(g)[i].kind # "other"
                             /\ EventsAt(g)[i].value \in 1 .. MaxSafeValue
             Of(g) == {<<g, i>> : i \in {j \in DOMAIN EventsAt(g) : Counts(g, j)}}
             P == {p \in MovesOf(t) : lo <= p[1] /\ Before(p, h + 1, 1)}
             src(g) == Sources(t, g)
  <1>1. Positions(src, lo, h) = UNION {Of(g) : g \in lo .. h}
    BY DEF Positions
  <1>2. ASSUME NEW g \in Heights, NEW i \in DOMAIN EventsAt(g)
        PROVE  Counts(g, i) <=> <<g, i>> \in MovesOf(t)
    <2>1. EventsAt(g)[i] \in Event /\ extras \subseteq Extras
      BY ChainFacts DEF TypeInv, TypeOK
    <2>2. <<g, i>> \in AllPositions /\ At(<<g, i>>) = EventsAt(g)[i]
      BY PositionFacts DEF At
    <2> QED
      BY <2>1, <2>2, SourcesDecide DEF MovesOf
  <1>3. \A g \in lo .. h : g \in Heights /\ g \in Nat
    BY StoreAssumption DEF Heights
  <1>4. ASSUME NEW p \in UNION {Of(g) : g \in lo .. h}
        PROVE  p \in P
    <2>1. PICK g \in lo .. h : p \in Of(g)
      OBVIOUS
    <2>2. PICK i \in DOMAIN EventsAt(g) : p = <<g, i>> /\ Counts(g, i)
      BY <2>1
    <2>3. p \in MovesOf(t) /\ p[1] = g /\ p[2] = i
      BY <1>2, <1>3, <2>2
    <2> QED
      BY <1>3, <2>3 DEF Before
  <1>5. ASSUME NEW p \in P
        PROVE  p \in UNION {Of(g) : g \in lo .. h}
    <2>1. /\ p = <<p[1], p[2]>> /\ p[1] \in Heights /\ p[1] \in Nat /\ p[2] \in Nat \ {0}
          /\ p[2] \in DOMAIN EventsAt(p[1])
      BY PositionFacts DEF MovesOf
    <2>2. Counts(p[1], p[2])
      BY <1>2, <2>1
    <2>3. p[1] \in lo .. h
      BY <2>1 DEF Before
    <2>4. p \in Of(p[1])
      <3> HIDE DEF Counts
      <3> QED BY <2>1, <2>2
    <2> QED
      BY <2>3, <2>4
  <1> QED
    BY <1>1, <1>4, <1>5

LEMMA RecordsAreCounted ==
  ASSUME TypeInv, NEW t \in Tokens, NEW h \in 0 .. MaxHeight
  PROVE  LET src(g) == HistorySources(t)
         IN  Positions(src, 1, h) = RecordsBefore(t, h + 1, 1)
PROOF
  <1> DEFINE Counts(g, i) == /\ EventsAt(g)[i].source \in HistorySources(t)
                             /\ ~EventsAt(g)[i].reverted /\ EventsAt(g)[i].kind # "other"
                             /\ EventsAt(g)[i].value \in 1 .. MaxSafeValue
             Of(g) == {<<g, i>> : i \in {j \in DOMAIN EventsAt(g) : Counts(g, j)}}
             P == RecordsBefore(t, h + 1, 1)
             src(g) == HistorySources(t)
  <1>1. Positions(src, 1, h) = UNION {Of(g) : g \in 1 .. h}
    BY DEF Positions
  <1>2. ASSUME NEW g \in Heights, NEW i \in DOMAIN EventsAt(g)
        PROVE  Counts(g, i) <=> <<g, i>> \in RecordsOf(t)
    <2>1. EventsAt(g)[i] \in Event /\ extras \subseteq Extras
      BY ChainFacts DEF TypeInv, TypeOK
    <2>2. <<g, i>> \in AllPositions /\ At(<<g, i>>) = EventsAt(g)[i]
      BY PositionFacts DEF At
    <2> QED
      BY <2>1, <2>2, SourcesDecide DEF RecordsOf
  <1>3. \A g \in 1 .. h : g \in Heights /\ g \in Nat
    BY StoreAssumption DEF Heights
  <1>4. ASSUME NEW p \in UNION {Of(g) : g \in 1 .. h}
        PROVE  p \in P
    <2>1. PICK g \in 1 .. h : p \in Of(g)
      OBVIOUS
    <2>2. PICK i \in DOMAIN EventsAt(g) : p = <<g, i>> /\ Counts(g, i)
      BY <2>1
    <2>3. p \in RecordsOf(t) /\ p[1] = g /\ p[2] = i
      BY <1>2, <1>3, <2>2
    <2> QED
      BY <1>3, <2>3 DEF Before, RecordsBefore
  <1>5. ASSUME NEW p \in P
        PROVE  p \in UNION {Of(g) : g \in 1 .. h}
    <2>0. p \in RecordsOf(t) /\ Before(p, h + 1, 1)
      BY DEF RecordsBefore
    <2>1. /\ p = <<p[1], p[2]>> /\ p[1] \in Heights /\ p[1] \in Nat /\ p[2] \in Nat \ {0}
          /\ p[2] \in DOMAIN EventsAt(p[1])
      BY <2>0, PositionFacts DEF RecordsOf
    <2>2. Counts(p[1], p[2])
      BY <1>2, <2>0, <2>1
    <2>3. p[1] \in 1 .. h
      BY <2>0, <2>1, StoreAssumption DEF Before, Heights
    <2>4. p \in Of(p[1])
      <3> HIDE DEF Counts
      <3> QED BY <2>1, <2>2
    <2> QED
      BY <2>3, <2>4
  <1> QED
    BY <1>1, <1>4, <1>5

LEMMA BalancesAreSums == SyncInv /\ Covered => BalancesExact /\ VhpSinceMigration
PROOF
  <1> SUFFICES ASSUME SyncInv, Covered PROVE BalancesExact /\ VhpSinceMigration
    OBVIOUS
  <1>1. TypeInv /\ db.height \in 0 .. MaxHeight
    BY DEF SyncInv, TypeInv, TypeOK, Database
  <1>2. \A t \in Tokens, x \in Accounts :
           db.bal[t][x] = Net(x, MovesBefore(t, db.height, db.height + 1, 1))
    BY DEF SyncInv, DataInv, Exact, Balanced
  <1>3. ASSUME NEW t \in Tokens, NEW x \in Accounts
        PROVE  LET src(h) == Sources(t, h)
               IN  db.bal[t][x] = Net(x, Positions(src, Since(t, db.height), db.height))
    <2>1. Since(t, db.height) \in Nat \ {0}
      BY <1>1 DEF Since
    <2> DEFINE src(h) == Sources(t, h)
               lo == Since(t, db.height)
    <2>2. Positions(src, lo, db.height) =
            {p \in MovesOf(t) : lo <= p[1] /\ Before(p, db.height + 1, 1)}
      <3> HIDE DEF lo
      <3> QED BY <1>1, <2>1, MovesAreCounted DEF lo
    <2>3. Positions(src, lo, db.height) = MovesBefore(t, db.height, db.height + 1, 1)
      BY <2>2 DEF MovesBefore
    <2> QED
      BY <1>2, <2>3
  <1>4. BalancesExact
    <2> SUFFICES ASSUME NEW t \in Tokens \ {Vhp}, NEW x \in Accounts
                 PROVE  LET src(h) == Sources(t, h)
                        IN  db.bal[t][x] = Net(x, Positions(src, 1, db.height))
      BY DEF BalancesExact
    <2>1. Since(t, db.height) = 1
      BY DEF Since
    <2> QED
      BY <1>3, <2>1
  <1>5. VhpSinceMigration
    <2> SUFFICES ASSUME NEW x \in Accounts
                 PROVE  LET src(h) == Sources(Vhp, h)
                        IN  db.bal[Vhp][x] = Net(x, Positions(src, CountedFrom(Vhp), db.height))
      BY DEF VhpSinceMigration
    <2>1. Since(Vhp, db.height) = CountedFrom(Vhp) /\ Vhp \in Tokens
      BY DEF Since, CountedFrom, Tokens
    <2> QED
      BY <1>3, <2>1
  <1> QED
    BY <1>4, <1>5

LEMMA CoveredKept == [Next]_vars => (Covered => Covered')
  BY ChainFixed, SameChain

(* No event is lost or counted twice: the committed balances are the sums  *)
(* of the moves of the indexed blocks, if no event debits more than the    *)
(* events before it left.                                                  *)
THEOREM BalancesAddUp ==
  ASSUME FullAnswers, GenesisLib >= 1
  PROVE  Spec /\ Covered => []BalancesExact
PROOF
  <1>1. Covered /\ [Next]_vars => Covered'
    BY CoveredKept
  <1>2. Spec => []SyncInv
    BY SyncInductive
  <1> QED
    BY <1>1, <1>2, BalancesAreSums, PTL DEF Spec

(* Balances of VHP are the sums from the migration block on, whichever     *)
(* batch holds it, whichever restart meets it, under the same condition.   *)
THEOREM VhpStartsAnew ==
  ASSUME FullAnswers, GenesisLib >= 1
  PROVE  Spec /\ Covered => []VhpSinceMigration
PROOF
  <1>1. Covered /\ [Next]_vars => Covered'
    BY CoveredKept
  <1>2. Spec => []SyncInv
    BY SyncInductive
  <1> QED
    BY <1>1, <1>2, BalancesAreSums, PTL DEF Spec

LEMMA RowsAreRecords == SyncInv => HistoryExact
PROOF
  <1> SUFFICES ASSUME SyncInv PROVE HistoryExact
    OBVIOUS
  <1>1. TypeInv /\ db.height \in 0 .. MaxHeight
    BY DEF SyncInv, TypeInv, TypeOK, Database
  <1> DEFINE n == db.height + 1
             rowsOf(t) == {r \in db.rows : r.token = t}
             src(t, h) == HistorySources(t)
             ps(t) == LET s(h) == src(t, h) IN Positions(s, 1, db.height)
             before(p, q) == p[1] < q[1] \/ (p[1] = q[1] /\ p[2] < q[2])
             matches(r, p) == /\ r.height = p[1] /\ r.kind = At(p).kind /\ r.value = At(p).value
                              /\ r.from = IF r.kind = "mint" THEN NoAddr ELSE At(p).from
                              /\ r.to   = IF r.kind = "burn" THEN NoAddr ELSE At(p).to
  <1>2. ASSUME NEW t \in Tokens
        PROVE  RowsOfShow(db, t, RecordsBefore(t, n, 1))
    BY DEF SyncInv, DataInv, Exact, RowsShow
  <1>3. \A t \in Tokens : ps(t) = RecordsBefore(t, n, 1)
    BY <1>1, RecordsAreCounted
  <1>4. \A t : rowsOf(t) = RowsIn(db, t)
    BY DEF RowsIn
  <1>5. \A p, q : before(p, q) <=> Before(p, q[1], q[2])
    BY DEF Before
  <1>6. ASSUME NEW t \in Tokens, NEW p \in RecordsBefore(t, n, 1), NEW r, Shows(r, p)
        PROVE  matches(r, p)
    <2>1. At(p).kind \in TransferKinds
      BY DEF RecordsBefore, RecordsOf, Recorded
    <2> QED
      BY <1>6, <2>1 DEF Shows, Debited, Credited, TransferKinds
  <1> HIDE DEF ps, rowsOf, before, matches
  <1>7. ASSUME NEW t \in Tokens
        PROVE  /\ Cardinality(rowsOf(t)) = Cardinality(ps(t))
               /\ \A r \in rowsOf(t) : \E p \in ps(t) :
                     /\ matches(r, p)
                     /\ Cardinality({q \in ps(t) : before(q, p)})
                          = Cardinality({s \in rowsOf(t) : s.id < r.id})
    <2> DEFINE P == RecordsBefore(t, n, 1)
    <2>1. ps(t) = P /\ rowsOf(t) = RowsIn(db, t)
      BY <1>3, <1>4
    <2>2. /\ Cardinality(RowsIn(db, t)) = Cardinality(P)
          /\ \A r \in RowsIn(db, t) : \E p \in P : Shows(r, p) /\ InPlace(db, t, P, r, p)
      BY <1>2 DEF RowsOfShow
    <2>3. ASSUME NEW r \in rowsOf(t)
          PROVE  \E p \in ps(t) :
                    /\ matches(r, p)
                    /\ Cardinality({q \in ps(t) : before(q, p)})
                         = Cardinality({s \in rowsOf(t) : s.id < r.id})
      <3>1. PICK p \in P : Shows(r, p) /\ InPlace(db, t, P, r, p)
        BY <2>1, <2>2
      <3>2. matches(r, p)
        BY <1>6, <3>1
      <3>3. {q \in ps(t) : before(q, p)} = {q \in P : Before(q, p[1], p[2])}
        BY <1>5, <2>1
      <3>4. Cardinality({q \in ps(t) : before(q, p)})
              = Cardinality({s \in rowsOf(t) : s.id < r.id})
        BY <2>1, <3>1, <3>3 DEF InPlace
      <3> QED
        BY <2>1, <3>1, <3>2, <3>4
    <2> QED
      BY <2>1, <2>2, <2>3
  <1> QED
    BY <1>7 DEF HistoryExact, ps, rowsOf, before, matches

(* The transfer history is that of the indexed blocks of the irreversible  *)
(* chain, one row per event and in its order, after whatever errors,       *)
(* crashes and power losses.                                               *)
THEOREM HistoryInOrder ==
  ASSUME FullAnswers, GenesisLib >= 1
  PROVE  Spec => []HistoryExact
  BY SyncInductive, RowsAreRecords, PTL
=============================================================================
