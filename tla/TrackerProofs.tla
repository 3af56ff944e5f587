---------------------------- MODULE TrackerProofs ----------------------------
(***************************************************************************)
(* Theorems about Tracker, for every chain, set of tokens and placing of   *)
(* restarts, errors and power losses: type correctness of the two          *)
(* components on one store; the block sync waits for the imports; and a    *)
(* token once indexed has each of its transfers, and the sum of all its    *)
(* events, exactly once, whichever of the two brought them in.             *)
(*                                                                         *)
(* A step of the process is a step of BlockSync, one of HistoryBackfill or *)
(* one of main()'s own.  What the proofs of the components say of their    *)
(* steps is cited from them (SP, IP); here it is shown that the steps of   *)
(* each leave alone what the other relies on.                              *)
(***************************************************************************)
EXTENDS Tracker, FiniteSetTheorems, TLAPS

SP == INSTANCE BlockSyncProofs
IP == INSTANCE HistoryBackfillProofs WITH
          hist <- History, k <- op,
          Histories <- {HistoryOn(c) : c \in Chains}, LiveAccounts <- {}

(* The fields the argument reads: a database has a height, and a record    *)
(* with a cutoff for every token.                                          *)
Fields(s) ==
    /\ {"height", "bf"} \subseteq DOMAIN s
    /\ DOMAIN s.bf = Extras
    /\ \A t \in Extras : {"known", "cutoff", "done"} \subseteq DOMAIN s.bf[t]

(* s2 differs from s1 in tables other than sync_state and token_backfill.  *)
KeepsProgress(s1, s2) == Fields(s2) /\ s2.bf = s1.bf /\ s2.height = s1.height

(* The tokens whose import is not done, and what SyncWaitsForImport says   *)
(* of any of the three databases.                                          *)
Pending(s) == {t \in Extras : s.bf[t].known /\ ~s.bf[t].done}

Waits(s) == \A t \in Pending(s) : s.bf[t].cutoff = s.height

----------------------------------------------------------------------------
(* The statements of a block and of a replayed event.  Both instances hold *)
(* definitions of their own for them, with the same meaning.               *)

LEMMA SameStatements ==
  ASSUME NEW s, NEW t, NEW e, NEW h, NEW addrs
  PROVE  /\ Import!MoveValue(s, t, e) = MoveValue(s, t, e)
         /\ Import!RecordTransfer(s, h, t, e) = RecordTransfer(s, h, t, e)
         /\ Import!LowerFirstSeen(s, addrs, h) = LowerFirstSeen(s, addrs, h)
         /\ Import!Debited(e) = Debited(e) /\ Import!Credited(e) = Credited(e)
         /\ Sync!MoveValue(s, t, e) = MoveValue(s, t, e)
         /\ Sync!RecordTransfer(s, h, t, e) = RecordTransfer(s, h, t, e)
         /\ Sync!UpsertAddresses(s, addrs, h) = UpsertAddresses(s, addrs, h)
         /\ Sync!ResetTokenBalances(s, t) = ResetTokenBalances(s, t)
         /\ Sync!DeleteTransfersAtHeight(s, h) = DeleteTransfersAtHeight(s, h)
PROOF
  <1>1. /\ Import!Debited(e) = Debited(e) /\ Import!Credited(e) = Credited(e)
        /\ Sync!Debited(e) = Debited(e) /\ Sync!Credited(e) = Credited(e)
    BY DEF Import!Debited, Debited, Import!Credited, Credited, Sync!Debited, Sync!Credited
  <1>3. /\ Import!MoveValue(s, t, e) = MoveValue(s, t, e)
        /\ Sync!MoveValue(s, t, e) = MoveValue(s, t, e)
    BY Zenon
    DEF Import!MoveValue, MoveValue, Sync!MoveValue,
        Import!AdjustBalance, AdjustBalance, Sync!AdjustBalance,
        Import!Debited, Debited, Import!Credited, Credited, Sync!Debited, Sync!Credited
  <1>4. /\ Import!RecordTransfer(s, h, t, e) = RecordTransfer(s, h, t, e)
        /\ Sync!RecordTransfer(s, h, t, e) = RecordTransfer(s, h, t, e)
    BY <1>1, Zenon DEF Import!RecordTransfer, RecordTransfer, Sync!RecordTransfer,
                 Import!InsertTransfer, InsertTransfer, Sync!InsertTransfer
  <1> QED
    BY <1>1, <1>3, <1>4, Zenon
    DEF Import!LowerFirstSeen, LowerFirstSeen, Import!Addresses, Addresses,
        Import!Contracts, Contracts, Import!BaseContracts, BaseContracts,
        Sync!UpsertAddresses, UpsertAddresses, Sync!Addresses, Sync!Contracts,
        Sync!BaseContracts, Sync!NotSeen, NotSeen,
        Sync!ResetTokenBalances, ResetTokenBalances,
        Sync!DeleteTransfersAtHeight, DeleteTransfersAtHeight

LEMMA AdjustKeeps ==
  ASSUME NEW s, Fields(s), NEW t, NEW x, NEW delta
  PROVE  KeepsProgress(s, AdjustBalance(s, t, x, delta))
  BY DEF AdjustBalance, KeepsProgress, Fields

LEMMA MoveKeeps ==
  ASSUME NEW s, Fields(s), NEW t, NEW e
  PROVE  KeepsProgress(s, MoveValue(s, t, e))
PROOF
  <1> DEFINE mid == AdjustBalance(s, t, Debited(e), -e.value)
  <1>1. KeepsProgress(s, mid)
    BY AdjustKeeps
  <1>2. KeepsProgress(mid, AdjustBalance(mid, t, Credited(e), e.value))
    <2> HIDE DEF mid
    <2> QED BY <1>1, AdjustKeeps DEF KeepsProgress
  <1> QED
    BY <1>1, <1>2 DEF KeepsProgress, MoveValue

LEMMA RecordKeeps ==
  ASSUME NEW s, Fields(s), NEW h, NEW t, NEW e
  PROVE  KeepsProgress(s, RecordTransfer(s, h, t, e))
  BY DEF RecordTransfer, InsertTransfer, KeepsProgress, Fields

LEMMA AddressesKeep ==
  ASSUME NEW s, Fields(s), NEW addrs, NEW h
  PROVE  /\ KeepsProgress(s, UpsertAddresses(s, addrs, h))
         /\ KeepsProgress(s, LowerFirstSeen(s, addrs, h))
  BY DEF UpsertAddresses, LowerFirstSeen, KeepsProgress, Fields

LEMMA ClearingKeeps ==
  ASSUME NEW s, Fields(s), NEW t, NEW h
  PROVE  /\ KeepsProgress(s, ResetTokenBalances(s, t))
         /\ KeepsProgress(s, DeleteTransfersAtHeight(s, h))
  BY DEF ResetTokenBalances, DeleteTransfersAtHeight, KeepsProgress, Fields

LEMMA ReplayKeeps ==
  ASSUME NEW s, Fields(s), NEW h, NEW t, NEW e
  PROVE  KeepsProgress(s, Import!Replay(s, h, t, e))
PROOF
  <1> DEFINE seen  == LowerFirstSeen(s, {Debited(e), Credited(e)} \ {NoAddr}, h)
             moved == MoveValue(seen, t, e)
  <1>1. KeepsProgress(s, seen)
    BY AddressesKeep
  <1>2. KeepsProgress(seen, moved)
    <2> HIDE DEF seen
    <2> QED BY <1>1, MoveKeeps DEF KeepsProgress
  <1>3. KeepsProgress(moved, RecordTransfer(moved, h, t, e))
    <2> HIDE DEF moved
    <2> QED BY <1>2, RecordKeeps DEF KeepsProgress
  <1>4. Import!Replay(s, h, t, e) = RecordTransfer(moved, h, t, e)
    <2>1. Import!LowerFirstSeen(s, {Import!Debited(e), Import!Credited(e)} \ {NoAddr}, h) = seen
      BY SameStatements
    <2>2. Import!MoveValue(seen, t, e) = moved
      BY SameStatements
    <2>3. Import!RecordTransfer(moved, h, t, e) = RecordTransfer(moved, h, t, e)
      BY SameStatements
    <2> HIDE DEF seen, moved
    <2> QED
      BY <2>1, <2>2, <2>3, Zenon DEF Import!Replay
  <1> QED
    <2> HIDE DEF seen, moved
    <2> QED BY <1>1, <1>2, <1>3, <1>4 DEF KeepsProgress

LEMMA UpsertBackfillFields ==
  ASSUME NEW s, Fields(s), NEW t \in Extras, NEW rec,
         {"known", "cutoff", "done"} \subseteq DOMAIN rec
  PROVE  LET s2 == UpsertBackfill(s, t, rec)
         IN  Fields(s2) /\ s2.height = s.height /\ s2.bf = [s.bf EXCEPT ![t] = rec]
  BY DEF UpsertBackfill, Fields

(* A record whose token is not pending on account of the change, or keeps  *)
(* its cutoff, does no harm.                                               *)
LEMMA UpsertBackfillWaits ==
  ASSUME NEW s, Fields(s), Waits(s), NEW t \in Extras, NEW rec,
         {"known", "cutoff", "done"} \subseteq DOMAIN rec,
         rec.known /\ ~rec.done => rec.cutoff = s.height
  PROVE  Waits(UpsertBackfill(s, t, rec))
PROOF
  <1> DEFINE s2 == UpsertBackfill(s, t, rec)
  <1>1. Fields(s2) /\ s2.height = s.height /\ s2.bf = [s.bf EXCEPT ![t] = rec]
    BY UpsertBackfillFields
  <1>2. ASSUME NEW u \in Pending(s2)
        PROVE  s2.bf[u].cutoff = s2.height
    <2>1. u \in Extras /\ s2.bf[u].known /\ ~s2.bf[u].done
      BY DEF Pending
    <2> HIDE DEF s2
    <2>2. CASE u = t
      BY <1>1, <2>1, <2>2 DEF Fields
    <2>3. CASE u # t
      <3>1. s2.bf[u] = s.bf[u]
        BY <1>1, <2>1, <2>3 DEF Fields
      <3>2. u \in Pending(s)
        BY <2>1, <3>1 DEF Pending
      <3> QED
        BY <1>1, <3>1, <3>2 DEF Waits
    <2> QED
      BY <2>2, <2>3
  <1> QED
    BY <1>2 DEF Waits

----------------------------------------------------------------------------
(* The invariant.  While a token is pending, main() is before the startup  *)
(* sync: during the import it is among those still to be taken, or the one *)
(* being replayed, and the height of the database does not move.  A power  *)
(* loss brings back an earlier database, for which the same held.          *)

StoreInv ==
    /\ Fields(db) /\ Fields(tx) /\ Fields(durable)
    /\ Waits(db) /\ Waits(durable)
    /\ tx.bf = db.bf

Replaying == stage \in {"collect", "coverage", "apply"}

ImportInv ==
    /\ tx.height = db.height
    /\ stage \in {"next", "verify"} => todo \subseteq Extras /\ Pending(db) \subseteq todo
    /\ Replaying => /\ todo \subseteq Extras /\ token \in Extras
                    /\ ~db.bf[token].done
                    /\ Pending(db) \subseteq todo \cup {token}
    /\ stage = "verify" => token \in Extras
    /\ stage = "ready" => Pending(db) = {}

WaitInv ==
    /\ StoreInv
    /\ phase \in {"down", "register"} => stage = "paused" /\ tx.height = db.height
    /\ phase = "backfill" => ImportInv
    /\ phase \in {"startup", "live"} => Pending(db) = {}

LEMMA WaitInit == Init => WaitInv
  BY DEF Init, Sync!Init, Sync!EmptyDatabase, Sync!NotRegistered, WaitInv, StoreInv,
         Fields, Waits, Pending

----------------------------------------------------------------------------
(* The import.                                                             *)

LEMMA WriteRecord ==
  ASSUME StoreInv, NEW s, s = tx \/ s = db, s.height = db.height, NEW t \in Extras, NEW rec,
         {"known", "cutoff", "done"} \subseteq DOMAIN rec,
         rec.known /\ ~rec.done => rec.cutoff = db.height,
         Import!Write(Import!UpsertBackfill(s, t, rec))
  PROVE  /\ StoreInv' /\ tx'.height = db'.height
         /\ db'.bf = [db.bf EXCEPT ![t] = rec]
PROOF
  <1> DEFINE s2 == UpsertBackfill(s, t, rec)
  <1>1. Fields(s) /\ Waits(s) /\ s.bf = db.bf
    BY DEF StoreInv, Waits, Pending
  <1>2. db' = s2 /\ tx' = s2 /\ durable' \in {durable, s2}
    BY DEF Import!Write, Import!UpsertBackfill, UpsertBackfill
  <1>3. Fields(s2) /\ s2.bf = [s.bf EXCEPT ![t] = rec]
    BY <1>1, UpsertBackfillFields
  <1>4. Waits(s2)
    BY <1>1, UpsertBackfillWaits
  <1> HIDE DEF s2
  <1>5. Waits(db')
    BY <1>2, <1>4
  <1>6. Fields(durable') /\ Waits(durable')
    BY <1>2, <1>3, <1>4 DEF StoreInv
  <1>7. Fields(db') /\ Fields(tx') /\ tx'.bf = db'.bf
    BY <1>2, <1>3
  <1>8. StoreInv'
    BY <1>5, <1>6, <1>7 DEF StoreInv, Waits, Pending, Fields
  <1> QED
    BY <1>1, <1>2, <1>3, <1>8

LEMMA SameStore ==
  ASSUME StoreInv, UNCHANGED <<db, durable>>, tx' = tx \/ tx' = db
  PROVE  StoreInv'
  BY DEF StoreInv, Waits, Pending, Fields

LEMMA PauseStep ==
  ASSUME StoreInv, Import!Pause
  PROVE  StoreInv' /\ ImportInv'
PROOF
  <1>1. stage' = "paused" /\ tx' = db /\ db' = db /\ durable' = durable
    BY DEF Import!Pause
  <1>2. StoreInv'
    BY <1>1, SameStore
  <1> QED
    BY <1>1, <1>2 DEF ImportInv, Replaying

LEMMA ImportStep ==
  ASSUME StoreInv, ImportInv,
         Import!BackfillStep \/ Import!HttpError \/ Import!WriteError
  PROVE  StoreInv' /\ ImportInv'
PROOF
  <1>1. CASE Import!ListPending
    <2>1. /\ stage' = "next" /\ db' = db /\ tx' = tx /\ durable' = durable
          /\ todo' \subseteq Extras /\ Pending(db) \subseteq todo'
      BY <1>1 DEF Import!ListPending, Import!store, Pending
    <2>2. StoreInv'
      BY <2>1, SameStore
    <2> QED
      BY <2>1, <2>2 DEF ImportInv, Replaying, Pending
  <1>2. CASE Import!TakeToken
    <2>1. /\ stage = "next" /\ db' = db /\ tx' = tx /\ durable' = durable
          /\ token' \in todo /\ todo' = todo \ {token'}
          /\ stage' = IF db.bf[token'].done THEN "verify" ELSE "collect"
      BY <1>2 DEF Import!TakeToken, Import!store
    <2>2. StoreInv'
      BY <2>1, SameStore
    <2>3. todo \subseteq Extras /\ Pending(db) \subseteq todo
      BY <2>1 DEF ImportInv
    <2>4. Pending(db') = Pending(db)
      BY <2>1 DEF Pending
    <2>5. CASE db.bf[token'].done
      <3>1. token' \notin Pending(db) /\ stage' = "verify"
        BY <2>1, <2>5 DEF Pending
      <3> QED
        BY <2>1, <2>2, <2>3, <2>4, <3>1 DEF ImportInv, Replaying
    <2>6. CASE ~db.bf[token'].done
      <3>1. stage' = "collect"
        BY <2>1, <2>6
      <3> QED
        BY <2>1, <2>2, <2>3, <2>4, <2>6, <3>1 DEF ImportInv, Replaying
    <2> QED
      BY <2>5, <2>6
  <1>3. CASE Import!AllDone
    <2>1. /\ stage = "next" /\ todo = {} /\ stage' = "ready"
          /\ db' = db /\ tx' = tx /\ durable' = durable
      BY <1>3 DEF Import!AllDone, Import!store
    <2>2. StoreInv'
      BY <2>1, SameStore
    <2> QED
      BY <2>1, <2>2 DEF ImportInv, Replaying, Pending
  <1>4. CASE Import!CollectPage
    <2>1. CASE Import!Pause
      BY <2>1, PauseStep
    <2>2. CASE ~Import!Pause
      <3>1. /\ stage = "collect" /\ stage' \in {"coverage", "apply"}
            /\ tx' = db /\ db' = db /\ durable' = durable
            /\ todo' = todo /\ token' = token
        BY <1>4, <2>2 DEF Import!CollectPage
      <3>2. StoreInv'
        BY <3>1, SameStore
      <3> QED
        BY <3>1, <3>2 DEF ImportInv, Replaying, Pending
    <2> QED
      BY <2>1, <2>2
  <1>5. CASE Import!CheckCoverage
    <2>1. /\ stage = "coverage" /\ stage' = "apply"
          /\ db' = db /\ tx' = tx /\ durable' = durable /\ todo' = todo /\ token' = token
      BY <1>5 DEF Import!CheckCoverage, Import!store
    <2>2. StoreInv'
      BY <2>1, SameStore
    <2> QED
      BY <2>1, <2>2 DEF ImportInv, Replaying, Pending
  <1>6. CASE Import!ApplyOp
    <2>1. /\ stage = "apply" /\ stage' = "apply"
          /\ db' = db /\ durable' = durable /\ todo' = todo /\ token' = token
      BY <1>6 DEF Import!ApplyOp
    <2>2. \/ tx' = tx
          \/ \E h, t, e : tx' = Import!Replay(tx, h, t, e)
      BY <1>6 DEF Import!ApplyOp
    <2>3. KeepsProgress(tx, tx')
      BY <2>2, ReplayKeeps DEF KeepsProgress, StoreInv
    <2>4. StoreInv'
      BY <2>1, <2>3 DEF StoreInv, KeepsProgress, Fields, Waits, Pending
    <2> QED
      BY <2>1, <2>3, <2>4 DEF ImportInv, Replaying, Pending, KeepsProgress
  <1>7. CASE Import!CommitPage
    <2> DEFINE rec == [db.bf[token] EXCEPT !.next = Import!NextSeq, !.done = (outcome = "last")]
    <2>1. /\ stage = "apply" /\ token \in Extras /\ ~db.bf[token].done
          /\ todo \subseteq Extras /\ Pending(db) \subseteq todo \cup {token}
          /\ tx.height = db.height
      BY <1>7 DEF Import!CommitPage, ImportInv, Replaying
    <2>2. Import!Write(Import!UpsertBackfill(tx, token, rec))
      BY <1>7 DEF Import!CommitPage
    <2>3. {"known", "cutoff", "done"} \subseteq DOMAIN rec
      BY <2>1 DEF StoreInv, Fields
    <2>4. /\ rec.known = db.bf[token].known /\ rec.cutoff = db.bf[token].cutoff
          /\ rec.done = (outcome = "last")
      BY <2>1 DEF StoreInv, Fields
    <2>5. rec.known /\ ~rec.done => rec.cutoff = db.height
      <3>1. db.bf[token].known => token \in Pending(db)
        BY <2>1 DEF Pending
      <3> HIDE DEF rec
      <3> QED BY <2>4, <3>1 DEF StoreInv, Waits
    <2> HIDE DEF rec
    <2>6. /\ StoreInv' /\ tx'.height = db'.height
          /\ db'.bf = [db.bf EXCEPT ![token] = rec]
      BY <2>1, <2>2, <2>3, <2>5, WriteRecord
    <2>7. /\ db'.bf[token] = rec
          /\ \A t \in Extras : t # token => db'.bf[t] = db.bf[t]
      BY <2>1, <2>6 DEF StoreInv, Fields
    <2>8. Pending(db') \subseteq todo \cup {token}
      BY <2>1, <2>7 DEF Pending
    <2>9. CASE outcome = "lag"
      <3>1. stage' = "paused"
        BY <1>7, <2>9 DEF Import!CommitPage
      <3> QED
        BY <2>6, <3>1 DEF ImportInv, Replaying
    <2>10. CASE outcome = "last"
      <3>1. stage' = "verify" /\ todo' = todo /\ token' = token
        BY <1>7, <2>10 DEF Import!CommitPage
      <3>2. token \notin Pending(db')
        BY <2>4, <2>7, <2>10 DEF Pending
      <3> QED
        BY <2>1, <2>6, <2>8, <3>1, <3>2 DEF ImportInv, Replaying
    <2>11. CASE outcome \notin {"lag", "last"}
      <3>1. stage' = "collect" /\ todo' = todo /\ token' = token
        BY <1>7, <2>11 DEF Import!CommitPage
      <3>2. ~db'.bf[token].done
        BY <2>4, <2>7, <2>11
      <3> QED
        BY <2>1, <2>6, <2>8, <3>1, <3>2 DEF ImportInv, Replaying
    <2> QED
      BY <2>9, <2>10, <2>11
  <1>8. CASE Import!Verify
    <2>1. /\ stage = "verify" /\ stage' = "next" /\ todo' = todo
          /\ token \in Extras /\ todo \subseteq Extras /\ Pending(db) \subseteq todo
          /\ tx.height = db.height
      BY <1>8 DEF Import!Verify, ImportInv
    <2>2. CASE UNCHANGED <<db, tx, durable>>
      <3>1. StoreInv'
        BY <2>2, SameStore
      <3> QED
        BY <2>1, <2>2, <3>1 DEF ImportInv, Replaying, Pending
    <2>3. ASSUME NEW v \in BOOLEAN,
                 Import!Write(Import!UpsertBackfill(db, token, [db.bf[token] EXCEPT !.verified = v]))
          PROVE  StoreInv' /\ ImportInv'
      <3> DEFINE rec == [db.bf[token] EXCEPT !.verified = v]
      <3>1. /\ {"known", "cutoff", "done"} \subseteq DOMAIN rec
            /\ rec.known = db.bf[token].known /\ rec.cutoff = db.bf[token].cutoff
            /\ rec.done = db.bf[token].done
        BY <2>1 DEF StoreInv, Fields
      <3>2. Import!Write(Import!UpsertBackfill(db, token, rec))
        BY <2>3
      <3> HIDE DEF rec
      <3>3. rec.known /\ ~rec.done => rec.cutoff = db.height
        BY <2>1, <3>1 DEF StoreInv, Waits, Pending
      <3>4. /\ StoreInv' /\ tx'.height = db'.height
            /\ db'.bf = [db.bf EXCEPT ![token] = rec]
        BY <2>1, <3>1, <3>2, <3>3, WriteRecord
      <3>5. /\ db'.bf[token] = rec
            /\ \A t \in Extras : t # token => db'.bf[t] = db.bf[t]
        BY <2>1, <3>4 DEF StoreInv, Fields
      <3>6. Pending(db') = Pending(db)
        BY <3>1, <3>5 DEF Pending
      <3> QED
        BY <2>1, <3>4, <3>6 DEF ImportInv, Replaying
    <2> QED
      BY <1>8, <2>2, <2>3 DEF Import!Verify, Import!store
  <1>9. CASE Import!HttpError \/ Import!WriteError
    BY <1>9, PauseStep DEF Import!HttpError, Import!WriteError
  <1> QED
    BY <1>1, <1>2, <1>3, <1>4, <1>5, <1>6, <1>7, <1>8, <1>9 DEF Import!BackfillStep

----------------------------------------------------------------------------
(* The block sync writes heights, but no progress record.                  *)

LEMMA BatchOnly ==
  ASSUME StoreInv, UNCHANGED <<db, durable>>, Fields(tx'), tx'.bf = tx.bf
  PROVE  StoreInv' /\ Pending(db') = Pending(db)
  BY DEF StoreInv, Waits, Pending, Fields

LEMMA SyncStepKeeps ==
  ASSUME StoreInv, Pending(db) = {},
         \/ Sync!SyncStep \/ Sync!EmptyAnswer \/ Sync!RpcError \/ Sync!WriteError
  PROVE  StoreInv' /\ Pending(db') = {}
PROOF
  <1>0. Fields(tx) /\ Fields(db) /\ tx.bf = db.bf
    BY DEF StoreInv
  <1>1. CASE UNCHANGED <<db, durable>> /\ (tx' = tx \/ tx' = db)
    BY <1>0, <1>1, BatchOnly
  <1>2. CASE Sync!StartSync \/ Sync!ReceiveBlocks
    BY <1>1, <1>2 DEF Sync!StartSync, Sync!ReceiveBlocks, Sync!store
  <1>3. CASE Sync!Return
    BY <1>1, <1>3 DEF Sync!Return
  <1>4. CASE Sync!LoopDone \/ Sync!RpcError \/ Sync!WriteError
    BY <1>3, <1>4 DEF Sync!LoopDone, Sync!RpcError, Sync!WriteError
  <1>5. CASE Sync!EmptyAnswer
    <2>1. Sync!Return \/ UNCHANGED Sync!store
      BY <1>5 DEF Sync!EmptyAnswer
    <2> QED
      BY <1>1, <1>3, <2>1 DEF Sync!store
  <1>6. CASE Sync!BeginBlock
    <2>1. UNCHANGED <<db, durable>>
      BY <1>6 DEF Sync!BeginBlock
    <2>2. \/ tx' = tx
          \/ \E s, addrs, h : /\ s = tx \/ \E t : s = ResetTokenBalances(tx, t)
                            /\ tx' = UpsertAddresses(s, addrs, h)
      <3>1. CASE Sync!Height <= tx.height
        BY <1>6, <3>1 DEF Sync!BeginBlock
      <3>2. CASE ~(Sync!Height <= tx.height)
        <4> DEFINE s == IF Sync!Height = MigrationHeight
                        THEN ResetTokenBalances(tx, Vhp) ELSE tx
        <4>1. tx' = UpsertAddresses(s, Sync!BlockAddresses(extras, Sync!Block, Sync!Height),
                                    Sync!Height)
          BY <1>6, <3>2, SameStatements DEF Sync!BeginBlock
        <4> QED
          BY <4>1
      <3> QED
        BY <3>1, <3>2
    <2>3. Fields(tx') /\ tx'.bf = tx.bf
      <3>1. ASSUME NEW s, NEW addrs, NEW h, NEW t, s = tx \/ s = ResetTokenBalances(tx, t),
                   tx' = UpsertAddresses(s, addrs, h)
            PROVE  Fields(tx') /\ tx'.bf = tx.bf
        <4>1. Fields(s) /\ s.bf = tx.bf
          BY <1>0, <3>1, ClearingKeeps DEF KeepsProgress
        <4> QED
          BY <3>1, <4>1, AddressesKeep DEF KeepsProgress
      <3> QED
        BY <1>0, <2>2, <3>1
    <2> QED
      BY <2>1, <2>3, BatchOnly
  <1>7. CASE Sync!ApplyChange
    <2>1. UNCHANGED <<db, durable>>
      BY <1>7 DEF Sync!ApplyChange
    <2>2. tx' = tx \/ \E t, e : tx' = MoveValue(tx, t, e)
      BY <1>7, SameStatements DEF Sync!ApplyChange
    <2>3. Fields(tx') /\ tx'.bf = tx.bf
      BY <1>0, <2>2, MoveKeeps DEF KeepsProgress
    <2> QED
      BY <2>1, <2>3, BatchOnly
  <1>8. CASE Sync!ClearHistory
    <2>1. /\ UNCHANGED <<db, durable>>
          /\ tx' = DeleteTransfersAtHeight(tx, Sync!Height)
      BY <1>8, SameStatements DEF Sync!ClearHistory
    <2>2. Fields(tx') /\ tx'.bf = tx.bf
      BY <1>0, <2>1, ClearingKeeps DEF KeepsProgress
    <2> QED
      BY <2>1, <2>2, BatchOnly
  <1>9. CASE Sync!WriteTransfer
    <2>1. UNCHANGED <<db, durable>>
      BY <1>9 DEF Sync!WriteTransfer
    <2>2. tx' = tx \/ \E h, t, e : tx' = RecordTransfer(tx, h, t, e)
      BY <1>9, SameStatements DEF Sync!WriteTransfer
    <2>3. Fields(tx') /\ tx'.bf = tx.bf
      BY <1>0, <2>2, RecordKeeps DEF KeepsProgress
    <2> QED
      BY <2>1, <2>3, BatchOnly
  <1>10. CASE Sync!FinishBlock
    <2>1. /\ UNCHANGED <<db, durable>>
          /\ tx' = Sync!SetSyncState(Sync!InsertBlock(tx, Sync!Height, items[pos]), Sync!Height)
      BY <1>10 DEF Sync!FinishBlock
    <2>2. Fields(tx') /\ tx'.bf = tx.bf
      BY <1>0, <2>1 DEF Sync!SetSyncState, Sync!InsertBlock, Fields
    <2> QED
      BY <2>1, <2>2, BatchOnly
  <1>11. CASE Sync!Commit
    <2>1. db' = tx /\ tx' = tx /\ durable' \in {durable, tx}
      BY <1>11 DEF Sync!Commit
    <2>2. Pending(tx) = {}
      BY <1>0 DEF Pending
    <2> QED
      BY <1>0, <2>1, <2>2 DEF StoreInv, Waits, Pending, Fields
  <1> QED
    BY <1>2, <1>4, <1>5, <1>6, <1>7, <1>8, <1>9, <1>10, <1>11 DEF Sync!SyncStep

----------------------------------------------------------------------------
(* main() and its environment.                                             *)

LEMMA WaitStep == WaitInv /\ [Next]_vars => WaitInv'
PROOF
  <1> SUFFICES ASSUME WaitInv, [Next]_vars PROVE WaitInv'
    OBVIOUS
  <1>0. StoreInv
    BY DEF WaitInv
  <1>1. CASE UNCHANGED <<db, tx, durable, phase, stage, todo, token>>
    BY <1>1 DEF WaitInv, StoreInv, ImportInv, Replaying, Fields, Waits, Pending
  <1>2. CASE Environment
    BY <1>1, <1>2
    DEF Environment, Sync!ProduceBlock, Sync!Finalize, Sync!store, store, importer
  <1>3. CASE Start
    BY <1>3 DEF Start, store, importer, WaitInv, StoreInv, Fields, Waits, Pending
  <1>4. CASE RegisterToken
    <2>1. /\ phase = "register" /\ phase' = "register" /\ stage = "paused" /\ stage' = "paused"
          /\ tx.height = db.height
      BY <1>4 DEF RegisterToken, WaitInv, importer
    <2>2. PICK t \in flags : IF db.bf[t].known
                             THEN UNCHANGED store
                             ELSE Write(UpsertBackfill(UpsertToken(db, t), t,
                                    [NotRegistered EXCEPT !.known = TRUE, !.cutoff = db.height]))
      BY <1>4 DEF RegisterToken
    <2>3. CASE db.bf[t].known
      BY <1>0, <2>1, <2>2, <2>3, SameStore DEF WaitInv, store
    <2>4. CASE ~db.bf[t].known
      <3> DEFINE rec == [NotRegistered EXCEPT !.known = TRUE, !.cutoff = db.height]
                 named == UpsertToken(db, t)
                 s2 == UpsertBackfill(named, t, rec)
      <3>1. /\ Fields(named) /\ Waits(named) /\ named.height = db.height
        BY <1>0 DEF UpsertToken, Fields, Waits, Pending, StoreInv
      <3>2. {"known", "cutoff", "done"} \subseteq DOMAIN rec /\ rec.cutoff = db.height
        BY DEF NotRegistered
      <3> HIDE DEF rec, named
      <3>3. t \in Extras => Fields(s2) /\ Waits(s2) /\ s2.height = named.height
        <4> SUFFICES ASSUME t \in Extras
                     PROVE  Fields(s2) /\ Waits(s2) /\ s2.height = named.height
          OBVIOUS
        <4>1. Fields(s2) /\ s2.height = named.height
          BY <3>1, <3>2 DEF UpsertBackfill, Fields
        <4>2. rec.known /\ ~rec.done => rec.cutoff = named.height
          BY <3>1, <3>2
        <4>3. Waits(s2)
          BY <3>1, <3>2, <4>2, UpsertBackfillWaits
        <4> QED
          BY <4>1, <4>3
      <3>4. t \notin Extras => Fields(s2) /\ Waits(s2) /\ s2.height = named.height
        BY <3>1 DEF UpsertBackfill, Fields, Waits, Pending
      <3> HIDE DEF s2
      <3>5. db' = s2 /\ tx' = s2 /\ durable' \in {durable, s2}
        BY <2>2, <2>4 DEF Write, s2, named, rec
      <3>6. StoreInv'
        BY <1>0, <3>3, <3>4, <3>5 DEF StoreInv, Fields, Waits, Pending
      <3> QED
        BY <2>1, <3>5, <3>6 DEF WaitInv
    <2> QED
      BY <2>3, <2>4
  <1>5. CASE LoadExtraTokens
    <2>1. /\ stage' = "paused" /\ phase' = "backfill" /\ tx'.height = db'.height
          /\ UNCHANGED <<db, tx, durable>>
      BY <1>5 DEF LoadExtraTokens, WaitInv, store, importer
    <2> QED
      BY <1>0, <2>1, SameStore DEF WaitInv, ImportInv, Replaying
  <1>6. CASE Backfill
    <2>1. StoreInv' /\ ImportInv'
      BY <1>0, <1>6, ImportStep DEF Backfill, WaitInv
    <2>2. phase' = IF stage' = "ready" THEN "startup" ELSE "backfill"
      BY <1>6 DEF Backfill
    <2> QED
      BY <2>1, <2>2 DEF WaitInv, ImportInv
  <1>7. CASE SyncToHead
    <2>1. phase \in {"startup", "live"} /\ phase' \in {"startup", "live"}
      BY <1>7 DEF SyncToHead
    <2>2. StoreInv' /\ Pending(db') = {}
      BY <1>0, <1>7, <2>1, SyncStepKeeps DEF SyncToHead, WaitInv
    <2> QED
      BY <2>1, <2>2 DEF WaitInv, Pending
  <1>8. CASE NothingToSync
    <2>1. UNCHANGED <<db, tx, durable>> /\ phase = "startup" /\ phase' = "live"
      BY <1>8 DEF NothingToSync, store
    <2> QED
      BY <1>0, <2>1, SameStore DEF WaitInv, Pending
  <1>9. CASE Crash
    <2>1. /\ phase' = "down" /\ stage' = "paused"
          /\ tx' = db /\ UNCHANGED <<db, durable>>
      BY <1>9 DEF Crash, Stopped
    <2> QED
      BY <1>0, <2>1, SameStore DEF WaitInv
  <1>10. CASE PowerLoss
    <2>1. /\ phase' = "down" /\ stage' = "paused"
          /\ db' = durable /\ tx' = durable /\ durable' = durable
      BY <1>10 DEF PowerLoss, Stopped
    <2> QED
      BY <1>0, <2>1 DEF WaitInv, StoreInv, Fields, Waits, Pending
  <1>11. CASE UNCHANGED vars
    BY <1>1, <1>11 DEF vars, store, importer
  <1> QED
    BY <1>2, <1>3, <1>4, <1>5, <1>6, <1>7, <1>8, <1>9, <1>10, <1>11 DEF Next, MainStep

(* A pending token's cutoff is the height of the database.                 *)
LEMMA WaitSafe == WaitInv => SyncWaitsForImport
  BY DEF WaitInv, StoreInv, Waits, Pending, SyncWaitsForImport, Registered

(* Import before sync: as long as the history of a registered token is not *)
(* imported, no block above its cutoff is indexed, whatever was registered *)
(* when, and wherever main() failed, was stopped or lost power.            *)
THEOREM ImportBeforeSync == Spec => []SyncWaitsForImport
PROOF
  <1>1. Spec => []WaitInv
    BY WaitInit, WaitStep, PTL DEF Spec
  <1> QED
    BY <1>1, WaitSafe, PTL

(* The number of a height in a set of heights.                             *)
Rank(S, h) == Cardinality({g \in S : g <= h})

LEMMA RankFacts ==
  ASSUME NEW S \in SUBSET Heights
  PROVE  /\ IsFiniteSet(S) /\ Cardinality(S) \in Nat /\ Cardinality(S) <= MaxHeight
         /\ \A h \in S : Rank(S, h) \in 1 .. Cardinality(S)
         /\ \A g, h \in S : g < h <=> Rank(S, g) < Rank(S, h)
         /\ \A n \in 1 .. Cardinality(S) : \E h \in S : Rank(S, h) = n
PROOF
  <1>1. IsFiniteSet(S) /\ Cardinality(S) \in Nat /\ Cardinality(S) <= MaxHeight
    <2>1. IsFiniteSet(Heights) /\ Cardinality(Heights) = MaxHeight
      BY FS_Interval, StoreAssumption DEF Heights
    <2> QED
      BY <2>1, FS_Subset, FS_CardinalityType
  <1>2. S \subseteq Nat
    BY DEF Heights
  <1>3. \A h \in S : /\ IsFiniteSet({g \in S : g <= h}) /\ Rank(S, h) \in Nat
                     /\ Rank(S, h) <= Cardinality(S)
    BY <1>1, FS_Subset, FS_CardinalityType DEF Rank
  <1>4. ASSUME NEW h \in S PROVE Rank(S, h) # 0
    <2>1. h \in {g \in S : g <= h}
      BY <1>2
    <2> QED
      BY <1>3, <2>1, FS_EmptySet DEF Rank
  <1>5. ASSUME NEW h \in S PROVE Rank(S, h) \in 1 .. Cardinality(S)
    <2>1. Rank(S, h) \in Nat /\ Rank(S, h) # 0 /\ Rank(S, h) <= Cardinality(S)
      BY <1>3, <1>4
    <2> QED
      BY <1>1, <2>1
  <1>6. ASSUME NEW g \in S, NEW h \in S, g < h PROVE Rank(S, g) < Rank(S, h)
    <2> DEFINE G == {x \in S : x <= g}
               H == {x \in S : x <= h}
    <2>1. G \subseteq H /\ h \in H /\ h \notin G
      <3>1. g \in Nat /\ h \in Nat /\ \A x \in S : x \in Nat
        BY <1>2
      <3>2. \A x \in S : x <= g => x <= h
        BY <1>6, <3>1
      <3>3. h <= h /\ ~(h <= g)
        BY <1>6, <3>1
      <3> QED
        BY <3>2, <3>3
    <2>2. IsFiniteSet(G) /\ IsFiniteSet(H) /\ Cardinality(G) \in Nat /\ Cardinality(H) \in Nat
      BY <1>3 DEF Rank
    <2>3. /\ Cardinality(G) <= Cardinality(H)
          /\ Cardinality(G) = Cardinality(H) => G = H
      BY <2>1, <2>2, FS_Subset
    <2> QED
      BY <2>1, <2>2, <2>3 DEF Rank
  <1>7. ASSUME NEW g \in S, NEW h \in S PROVE g < h <=> Rank(S, g) < Rank(S, h)
    <2>1. g \in Nat /\ h \in Nat /\ Rank(S, g) \in Nat /\ Rank(S, h) \in Nat
      BY <1>2, <1>3
    <2> QED
      BY <1>6, <2>1
  <1>8. ASSUME NEW n \in 1 .. Cardinality(S) PROVE \E h \in S : Rank(S, h) = n
    <2> DEFINE N == Cardinality(S)
               f == [h \in S |-> Rank(S, h)]
    <2>1. IsFiniteSet(1 .. N) /\ Cardinality(1 .. N) = N
      BY <1>1, FS_Interval
    <2>2. f \in [S -> 1 .. N]
      BY <1>5
    <2>3. \A g, h \in S : f[g] = f[h] => g = h
      <3> SUFFICES ASSUME NEW g \in S, NEW h \in S, Rank(S, g) = Rank(S, h) PROVE g = h
        OBVIOUS
      <3> QED
        BY <1>2, <1>3, <1>7
    <2>4. f \in Injection(S, 1 .. N)
      BY <2>2, <2>3 DEF Injection, IsInjective
    <2>5. f \in Surjection(S, 1 .. N)
      BY <1>1, <2>1, <2>4, FS_Injection
    <2> QED
      BY <2>5 DEF Surjection
  <1> QED
    BY <1>1, <1>5, <1>7, <1>8

(* Entry i of the history of t on chain c is that of the i-th block that   *)
(* holds an event of t.                                                    *)
LEMMA HistoryOfChain ==
  ASSUME NEW c \in Chains, NEW t \in Extras
  PROVE  LET es == HistoryOn(c)[t]
         IN  /\ es \in Seq(IP!Entry) /\ Len(es) <= MaxSeq
             /\ Len(es) \in Nat /\ DOMAIN es = 1 .. Len(es)
             /\ \A i \in DOMAIN es : /\ es[i].height \in EventHeights(c, t)
                                     /\ es[i].events = Body[c[es[i].height]].events
             /\ \A i, j \in DOMAIN es : i < j <=> es[i].height < es[j].height
             /\ \A h \in EventHeights(c, t) : \E i \in DOMAIN es : es[i].height = h
PROOF
  <1> DEFINE S == EventHeights(c, t)
             nth(i) == CHOOSE h \in S : Rank(S, h) = i
             es == [i \in 1 .. Cardinality(S) |->
                      [height |-> nth(i), events |-> Body[c[nth(i)]].events]]
  <1>1. HistoryOn(c)[t] = es
    BY DEF HistoryOn, Rank
  <1>2. S \in SUBSET Heights
    BY DEF EventHeights
  <1>3. \A i \in 1 .. Cardinality(S) : nth(i) \in S /\ Rank(S, nth(i)) = i
    <2> HIDE DEF S
    <2> QED BY <1>2, RankFacts
  <1>4. Cardinality(S) \in Nat /\ Cardinality(S) <= MaxHeight
    BY <1>2, RankFacts
  <1>5. \A h \in S : h \in Heights /\ Body[c[h]].events \in Seq(IP!Event)
    <2>1. \A h \in S : Body[c[h]] \in BlockBody
      BY <1>2, TrackerAssumption
    <2>2. IP!Event = Event
      BY DEF IP!Event, Event, IP!Contracts, Contracts, IP!BaseContracts, BaseContracts,
             IP!TransferKinds, TransferKinds
    <2> HIDE DEF S
    <2> QED BY <1>2, <2>1, <2>2 DEF BlockBody
  <1>6. \A i \in 1 .. Cardinality(S) : es[i] \in IP!Entry
    <2> HIDE DEF S
    <2>1. \A i \in 1 .. Cardinality(S) :
             [height |-> nth(i), events |-> Body[c[nth(i)]].events] \in IP!Entry
      <3> SUFFICES ASSUME NEW i \in 1 .. Cardinality(S)
                   PROVE  [height |-> nth(i), events |-> Body[c[nth(i)]].events] \in IP!Entry
        OBVIOUS
      <3>1. nth(i) \in Heights /\ Body[c[nth(i)]].events \in Seq(IP!Event)
        BY <1>3, <1>5
      <3> HIDE DEF nth
      <3> QED BY <3>1 DEF IP!Entry, IP!Heights, Heights
    <2> QED BY <2>1
  <1>7. es \in Seq(IP!Entry) /\ Len(es) = Cardinality(S) /\ DOMAIN es = 1 .. Cardinality(S)
    <2> HIDE DEF S, nth
    <2>1. es \in [1 .. Cardinality(S) -> IP!Entry]
      BY <1>6
    <2> HIDE DEF es
    <2> QED BY <1>4, <2>1
  <1>8. \A i \in 1 .. Cardinality(S) :
           es[i].height = nth(i) /\ es[i].events = Body[c[nth(i)]].events
    <2> HIDE DEF S, nth
    <2> QED OBVIOUS
  <1> HIDE DEF es
  <1>9. \A i \in DOMAIN es : es[i].height \in S /\ es[i].events = Body[c[es[i].height]].events
    <2> HIDE DEF S, nth
    <2> QED BY <1>3, <1>7, <1>8
  <1>10. \A i, j \in DOMAIN es : i < j <=> es[i].height < es[j].height
    <2> SUFFICES ASSUME NEW i \in DOMAIN es, NEW j \in DOMAIN es
                 PROVE  i < j <=> es[i].height < es[j].height
      OBVIOUS
    <2>1. /\ es[i].height \in S /\ Rank(S, es[i].height) = i
          /\ es[j].height \in S /\ Rank(S, es[j].height) = j
      <3> HIDE DEF S, nth
      <3> QED BY <1>3, <1>7, <1>8
    <2> HIDE DEF S, nth
    <2> QED
      BY <1>2, <2>1, RankFacts
  <1>11. \A h \in S : \E i \in DOMAIN es : es[i].height = h
    <2> SUFFICES ASSUME NEW h \in S PROVE \E i \in DOMAIN es : es[i].height = h
      OBVIOUS
    <2> HIDE DEF S
    <2> DEFINE i == Rank(S, h)
    <2>1. i \in 1 .. Cardinality(S)
      BY <1>2, RankFacts
    <2>2. nth(i) \in S /\ Rank(S, nth(i)) = Rank(S, h)
      BY <1>3, <2>1
    <2> HIDE DEF nth, i
    <2>3. nth(i) \in Heights /\ h \in Heights /\ ~(nth(i) < h) /\ ~(h < nth(i))
      <3>1. Rank(S, h) \in Nat
        BY <1>2, RankFacts
      <3>2. ~(Rank(S, nth(i)) < Rank(S, h)) /\ ~(Rank(S, h) < Rank(S, nth(i)))
        BY <2>2, <3>1
      <3> QED BY <1>2, <2>2, <3>2, RankFacts
    <2>4. nth(i) = h
      BY <2>3 DEF Heights
    <2> QED
      BY <1>7, <1>8, <2>1, <2>4
  <1> HIDE DEF S
  <1> QED
    BY <1>1, <1>4, <1>7, <1>9, <1>10, <1>11, StoreAssumption, TrackerAssumption DEF S

(* The assumptions of the two components.                                  *)
LEMMA SameTypes ==
  /\ SP!Database = Database /\ IP!Database = Database
  /\ SP!Event = Event /\ IP!Event = Event /\ SP!BlockBody = BlockBody
  /\ SP!Heights = Heights /\ IP!Heights = Heights
  /\ SP!Tokens = Tokens /\ IP!Tokens = Tokens
  /\ SP!TransferKinds = TransferKinds /\ IP!TransferKinds = TransferKinds
  /\ SP!BackfillRecord = BackfillRecord /\ IP!BackfillRecord = BackfillRecord
PROOF
  <1>1. /\ SP!TransferKinds = TransferKinds /\ IP!TransferKinds = TransferKinds
        /\ SP!Heights = Heights /\ IP!Heights = Heights
        /\ SP!Tokens = Tokens /\ IP!Tokens = Tokens
        /\ SP!Contracts = Contracts /\ IP!Contracts = Contracts
        /\ SP!BackfillRecord = BackfillRecord /\ IP!BackfillRecord = BackfillRecord
    BY DEF SP!TransferKinds, TransferKinds, IP!TransferKinds, SP!Heights, Heights, IP!Heights,
           SP!Tokens, Tokens, IP!Tokens, SP!Contracts, Contracts, IP!Contracts,
           SP!BaseContracts, BaseContracts, IP!BaseContracts,
           SP!BackfillRecord, BackfillRecord, IP!BackfillRecord
  <1>2. SP!Event = Event /\ IP!Event = Event
    BY <1>1, Zenon DEF SP!Event, Event, IP!Event
  <1>3. SP!BlockBody = BlockBody
    BY <1>2, Zenon DEF SP!BlockBody, BlockBody
  <1>4. SP!Transfer = Transfer /\ IP!Transfer = Transfer
    BY <1>1, Zenon DEF SP!Transfer, Transfer, IP!Transfer
  <1>5. SP!Addresses = Addresses /\ IP!Addresses = Addresses
    BY <1>1, Zenon DEF SP!Addresses, Addresses, IP!Addresses
  <1>6. SP!Database = Database /\ IP!Database = Database
    BY <1>1, <1>4, <1>5, Zenon
    DEF SP!Database, Database, IP!Database, SP!NotSeen, NotSeen, IP!NotSeen
  <1> QED
    BY <1>1, <1>2, <1>3, <1>6

LEMMA SyncConstants ==
  /\ SP!SyncAssumption /\ SP!StoreAssumption /\ SP!ContractsAssumption /\ SP!LimitsAssumption
PROOF
  <1>1. SP!SyncAssumption
    BY SameTypes, TrackerAssumption DEF SP!SyncAssumption
  <1>2. SP!StoreAssumption /\ SP!LimitsAssumption
    BY StoreAssumption, LimitsAssumption DEF SP!StoreAssumption, SP!LimitsAssumption
  <1>3. SP!ContractsAssumption
    BY ContractsAssumption, Zenon
    DEF SP!ContractsAssumption, SP!BaseContracts, BaseContracts, SP!Addresses, Addresses,
        SP!Contracts, Contracts
  <1> QED
    BY <1>1, <1>2, <1>3

LEMMA ImportConstants ==
  /\ IP!BackfillAssumption /\ IP!StoreAssumption
  /\ IP!ContractsAssumption /\ IP!LimitsAssumption
PROOF
  <1> DEFINE Hs == {HistoryOn(c) : c \in Chains}
  <1>1. ASSUME NEW hs \in Hs, NEW t \in Extras
        PROVE  /\ hs[t] \in Seq(IP!Entry) /\ Len(hs[t]) <= MaxSeq
               /\ \A i, j \in DOMAIN hs[t] : i < j => hs[t][i].height <= hs[t][j].height
    <2>1. PICK c \in Chains : hs = HistoryOn(c)
      OBVIOUS
    <2>2. /\ hs[t] \in Seq(IP!Entry) /\ Len(hs[t]) <= MaxSeq
          /\ \A i \in DOMAIN hs[t] : hs[t][i].height \in EventHeights(c, t)
          /\ \A i, j \in DOMAIN hs[t] : i < j <=> hs[t][i].height < hs[t][j].height
      BY <2>1, HistoryOfChain
    <2>3. \A h \in EventHeights(c, t) : h \in Nat
      BY DEF EventHeights, Heights
    <2> QED
      BY <2>2, <2>3
  <1>2. ASSUME NEW hs \in Hs PROVE hs \in [Extras -> Seq(IP!Entry)]
    <2>1. hs = [t \in Extras |-> hs[t]]
      BY DEF HistoryOn
    <2> HIDE DEF Hs
    <2> QED
      BY <1>1, <2>1
  <1> HIDE DEF Hs
  <1>3. /\ Hs \subseteq [Extras -> Seq(IP!Entry)]
        /\ \A hs \in Hs, t \in Extras :
              /\ Len(hs[t]) <= MaxSeq
              /\ \A i, j \in DOMAIN hs[t] : i < j => hs[t][i].height <= hs[t][j].height
    BY <1>1, <1>2
  <1>4. IP!BackfillAssumption
    BY <1>3, TrackerAssumption, Zenon DEF IP!BackfillAssumption, Hs
  <1>5. IP!StoreAssumption /\ IP!LimitsAssumption
    BY StoreAssumption, TrackerAssumption, LimitsAssumption
    DEF IP!StoreAssumption, IP!LimitsAssumption
  <1>6. IP!ContractsAssumption
    BY ContractsAssumption, Zenon
    DEF IP!ContractsAssumption, IP!BaseContracts, BaseContracts, IP!Addresses, Addresses,
        IP!Contracts, Contracts
  <1> QED
    BY <1>4, <1>5, <1>6

(* The operators of the libraries, of which every instance has a copy.     *)
LEMMA SameLibrary ==
  ASSUME NEW S
  PROVE  /\ Import!Cardinality(S) = Cardinality(S) /\ IP!Cardinality(S) = Cardinality(S)
         /\ Sync!Cardinality(S) = Cardinality(S) /\ SP!Cardinality(S) = Cardinality(S)
         /\ (SP!IsFiniteSet(S) <=> IsFiniteSet(S)) /\ (IP!IsFiniteSet(S) <=> IsFiniteSet(S))
         /\ Import!Min(S) = IP!Min(S)
PROOF
  <1>1. /\ Import!Cardinality(S) = Cardinality(S) /\ IP!Cardinality(S) = Cardinality(S)
        /\ Sync!Cardinality(S) = Cardinality(S) /\ SP!Cardinality(S) = Cardinality(S)
    BY DEF Import!Cardinality, Cardinality, IP!Cardinality, Sync!Cardinality, SP!Cardinality
  <1>2. (SP!IsFiniteSet(S) <=> IsFiniteSet(S)) /\ (IP!IsFiniteSet(S) <=> IsFiniteSet(S))
    BY Zenon DEF SP!IsFiniteSet, IP!IsFiniteSet, IsFiniteSet
  <1>3. Import!Min(S) = IP!Min(S)
    BY Zenon DEF Import!Min, IP!Min
  <1> QED
    BY <1>1, <1>2, <1>3

LEMMA SameNet ==
  ASSUME NEW x, NEW P
  PROVE  Sync!Net(x, P) = SP!Net(x, P)
  BY Zenon DEF Sync!Net, SP!Net, Sync!At, SP!At, Sync!EventsAt, SP!EventsAt,
     Sync!MapThenSumSet, SP!MapThenSumSet, Sync!MapThenFoldSet, SP!MapThenFoldSet

(* The steps of the components are those of the modules proved about.      *)
LEMMA SyncSteps ==
  /\ Sync!SyncStep => SP!SyncStep
  /\ Sync!EmptyAnswer => SP!EmptyAnswer
  /\ Sync!RpcError \/ Sync!WriteError => SP!RpcError \/ SP!WriteError
  /\ Sync!ProduceBlock \/ Sync!Finalize => SP!ProduceBlock \/ SP!Finalize
PROOF
  <1>1. Sync!Return <=> SP!Return
    BY Zenon DEF Sync!Return, SP!Return, Sync!ResetLocals, SP!ResetLocals, Sync!node, SP!node
  <1>2. Sync!StartSync => SP!StartSync
    BY Zenon DEF Sync!StartSync, SP!StartSync, Sync!TargetHeight, SP!TargetHeight,
                 Sync!node, SP!node, Sync!store, SP!store
  <1>3. Sync!ReceiveBlocks => SP!ReceiveBlocks
    BY Zenon DEF Sync!ReceiveBlocks, SP!ReceiveBlocks, Sync!Answers, SP!Answers,
                 Sync!Count, SP!Count, Sync!node, SP!node
  <1>4. Sync!LoopDone => SP!LoopDone
    BY <1>1, Zenon DEF Sync!LoopDone, SP!LoopDone
  <1>5. Sync!BeginBlock => SP!BeginBlock
    BY Zenon
    DEF Sync!BeginBlock, SP!BeginBlock, Sync!Height, SP!Height, Sync!Block, SP!Block,
        Sync!node, SP!node, Sync!ResetTokenBalances, SP!ResetTokenBalances,
        Sync!UpsertAddresses, SP!UpsertAddresses, Sync!BlockAddresses, SP!BlockAddresses,
        Sync!Addresses, SP!Addresses, Sync!Contracts, SP!Contracts,
        Sync!BaseContracts, SP!BaseContracts, Sync!NotSeen, SP!NotSeen,
        Sync!Debited, SP!Debited, Sync!Credited, SP!Credited,
        Sync!ChangesBalance, SP!ChangesBalance, Sync!Recorded, SP!Recorded,
        Sync!IsTokenEvent, SP!IsTokenEvent, Sync!AffectsBalance, SP!AffectsBalance,
        Sync!TransferKinds, SP!TransferKinds
  <1>6. Sync!ApplyChange => SP!ApplyChange
    BY Zenon
    DEF Sync!ApplyChange, SP!ApplyChange, Sync!Height, SP!Height, Sync!Block, SP!Block,
        Sync!node, SP!node, Sync!MoveValue, SP!MoveValue, Sync!AdjustBalance, SP!AdjustBalance,
        Sync!NormalizeToken, SP!NormalizeToken, Sync!Debited, SP!Debited,
        Sync!Credited, SP!Credited, Sync!ChangesBalance, SP!ChangesBalance,
        Sync!Recorded, SP!Recorded, Sync!IsTokenEvent, SP!IsTokenEvent,
        Sync!AffectsBalance, SP!AffectsBalance, Sync!TransferKinds, SP!TransferKinds,
        Sync!BaseContracts, SP!BaseContracts
  <1>7. Sync!ClearHistory => SP!ClearHistory
    BY Zenon
    DEF Sync!ClearHistory, SP!ClearHistory, Sync!Height, SP!Height, Sync!Block, SP!Block,
        Sync!node, SP!node, Sync!DeleteTransfersAtHeight, SP!DeleteTransfersAtHeight
  <1>8. Sync!WriteTransfer => SP!WriteTransfer
    BY Zenon
    DEF Sync!WriteTransfer, SP!WriteTransfer, Sync!Height, SP!Height, Sync!Block, SP!Block,
        Sync!node, SP!node, Sync!RecordTransfer, SP!RecordTransfer,
        Sync!InsertTransfer, SP!InsertTransfer, Sync!NormalizeToken, SP!NormalizeToken,
        Sync!Debited, SP!Debited, Sync!Credited, SP!Credited,
        Sync!Recorded, SP!Recorded, Sync!IsTokenEvent, SP!IsTokenEvent,
        Sync!TransferKinds, SP!TransferKinds, Sync!BaseContracts, SP!BaseContracts
  <1>9. Sync!FinishBlock => SP!FinishBlock
    BY Zenon
    DEF Sync!FinishBlock, SP!FinishBlock, Sync!Height, SP!Height, Sync!Block, SP!Block,
        Sync!node, SP!node, Sync!SetSyncState, SP!SetSyncState, Sync!InsertBlock, SP!InsertBlock
  <1>10. Sync!Commit => SP!Commit
    BY Zenon DEF Sync!Commit, SP!Commit, Sync!node, SP!node
  <1>11. Sync!SyncStep => SP!SyncStep
    BY <1>2, <1>3, <1>4, <1>5, <1>6, <1>7, <1>8, <1>9, <1>10, Zenon
    DEF Sync!SyncStep, SP!SyncStep
  <1>12. Sync!EmptyAnswer => SP!EmptyAnswer
    BY <1>1, Zenon DEF Sync!EmptyAnswer, SP!EmptyAnswer, Sync!TargetHeight, SP!TargetHeight,
                       Sync!node, SP!node, Sync!store, SP!store
  <1>13. Sync!RpcError \/ Sync!WriteError => SP!RpcError \/ SP!WriteError
    BY <1>1, Zenon DEF Sync!RpcError, SP!RpcError, Sync!WriteError, SP!WriteError,
                       Sync!Fail, SP!Fail
  <1>14. Sync!ProduceBlock \/ Sync!Finalize => SP!ProduceBlock \/ SP!Finalize
    BY Zenon DEF Sync!ProduceBlock, SP!ProduceBlock, Sync!Finalize, SP!Finalize,
                 Sync!store, SP!store, Sync!locals, SP!locals
  <1> QED
    BY <1>11, <1>12, <1>13, <1>14

LEMMA ImportSteps ==
  /\ Import!BackfillStep => IP!BackfillStep
  /\ Import!HttpError \/ Import!WriteError => IP!HttpError \/ IP!WriteError
PROOF
  <1>1. Import!Pause <=> IP!Pause
    BY Zenon DEF Import!Pause, IP!Pause, Import!ResetLocals, IP!ResetLocals,
                 Import!service, IP!service, Import!NoPage, IP!NoPage
  <1>2. /\ Import!ListPending => IP!ListPending
        /\ Import!TakeToken => IP!TakeToken
        /\ Import!AllDone => IP!AllDone
    BY Zenon DEF Import!ListPending, IP!ListPending, Import!TakeToken, IP!TakeToken,
                 Import!AllDone, IP!AllDone, Import!ResetLocals, IP!ResetLocals,
                 Import!service, IP!service, Import!store, IP!store, Import!NoPage, IP!NoPage
  <1>3. Import!CollectPage => IP!CollectPage
    <2>1. Import!Visible(token) = IP!Visible(token)
      BY SameLibrary, Zenon DEF Import!Visible, IP!Visible
    <2>2. \A e : Import!Unusable(token, e) <=> IP!Unusable(token, e)
      BY Zenon DEF Import!Unusable, IP!Unusable, Import!Recognised, IP!Recognised,
                   Import!TransferKinds, IP!TransferKinds
    <2> SUFFICES ASSUME Import!CollectPage PROVE IP!CollectPage
      OBVIOUS
    <2> DEFINE entries == History[token]
               left    == IP!Visible(token) - seq
               fetched == IF left > PageSize THEN PageSize ELSE left
               above   == {i \in 1 .. fetched : entries[seq + i].height > db.bf[token].cutoff}
               kept    == IF above = {} THEN fetched ELSE IP!Min(above) - 1
               end     == fetched < PageSize /\ above = {}
               stuck   == \E i \in 1 .. kept : \E j \in DOMAIN entries[seq + i].events :
                             IP!Unusable(token, entries[seq + i].events[j])
               went    == /\ page' = [fetched |-> fetched, kept |-> kept]
                          /\ outcome' = IF above # {} \/ (end /\ covered) THEN "last" ELSE "more"
                          /\ stage' = IF end /\ ~covered THEN "coverage" ELSE "apply"
                          /\ tx' = db
                          /\ at' = 1 /\ op' = 1
                          /\ UNCHANGED <<IP!service, db, durable, todo, token, seq, covered>>
    <2> DEFINE left0    == Import!Visible(token) - seq
               fetched0 == IF left0 > PageSize THEN PageSize ELSE left0
               above0   == {i \in 1 .. fetched0 : entries[seq + i].height > db.bf[token].cutoff}
               kept0    == IF above0 = {} THEN fetched0 ELSE Import!Min(above0) - 1
               end0     == fetched0 < PageSize /\ above0 = {}
               stuck0   == \E i \in 1 .. kept0 : \E j \in DOMAIN entries[seq + i].events :
                             Import!Unusable(token, entries[seq + i].events[j])
    <2>3. /\ stage = "collect" /\ faults' = faults
          /\ IF stuck0
             THEN Import!Pause
             ELSE /\ page' = [fetched |-> fetched0, kept |-> kept0]
                  /\ outcome' = IF above0 # {} \/ (end0 /\ covered) THEN "last" ELSE "more"
                  /\ stage' = IF end0 /\ ~covered THEN "coverage" ELSE "apply"
                  /\ tx' = db
                  /\ at' = 1 /\ op' = 1
                  /\ UNCHANGED <<Import!service, db, durable, todo, token, seq, covered>>
      BY Zenon DEF Import!CollectPage
    <2>4. fetched0 = fetched
      BY <2>1
    <2>5. above0 = above
      <3> HIDE DEF fetched0, fetched, entries
      <3> QED BY <2>4
    <2>6. kept0 = kept /\ (end0 <=> end)
      <3>1. Import!Min(above) = IP!Min(above)
        BY SameLibrary
      <3> HIDE DEF fetched0, fetched, above0, above
      <3> QED BY <2>4, <2>5, <3>1
    <2>7. stuck0 <=> stuck
      <3> HIDE DEF kept0, kept, entries
      <3> QED BY <2>2, <2>6
    <2>8. /\ stage = "collect" /\ faults' = faults
          /\ IF stuck THEN IP!Pause ELSE went
      <3>1. Import!service = IP!service /\ Import!service' = IP!service'
        BY DEF Import!service, IP!service
      <3> HIDE DEF fetched0, fetched, above0, above, kept0, kept, end0, end, stuck0, stuck, entries
      <3> QED BY <1>1, <2>3, <2>4, <2>5, <2>6, <2>7, <3>1
    <2> QED
      BY <2>8, Zenon DEF IP!CollectPage
  <1>4. Import!CheckCoverage => IP!CheckCoverage
    BY Zenon DEF Import!CheckCoverage, IP!CheckCoverage, Import!service, IP!service,
                 Import!store, IP!store
  <1>5. Import!ApplyOp => IP!ApplyOp
    BY Zenon
    DEF Import!ApplyOp, IP!ApplyOp, Import!Replayed, IP!Replayed,
        Import!Recognised, IP!Recognised, Import!TransferKinds, IP!TransferKinds,
        Import!Replay, IP!Replay, Import!RecordTransfer, IP!RecordTransfer,
        Import!InsertTransfer, IP!InsertTransfer, Import!MoveValue, IP!MoveValue,
        Import!AdjustBalance, IP!AdjustBalance, Import!Debited, IP!Debited,
        Import!Credited, IP!Credited, Import!LowerFirstSeen, IP!LowerFirstSeen,
        Import!Addresses, IP!Addresses, Import!Contracts, IP!Contracts,
        Import!BaseContracts, IP!BaseContracts, Import!service, IP!service
  <1>6. \A s : Import!Write(s) <=> IP!Write(s)
    BY Zenon DEF Import!Write, IP!Write
  <1>7. \A s, t, rec : Import!UpsertBackfill(s, t, rec) = IP!UpsertBackfill(s, t, rec)
    BY Zenon DEF Import!UpsertBackfill, IP!UpsertBackfill
  <1>8. Import!CommitPage => IP!CommitPage
    BY <1>6, <1>7, Zenon
    DEF Import!CommitPage, IP!CommitPage, Import!NextSeq, IP!NextSeq,
        Import!ResetLocals, IP!ResetLocals, Import!NoPage, IP!NoPage,
        Import!service, IP!service
  <1>9. Import!Verify => IP!Verify
    BY <1>6, <1>7, Zenon
    DEF Import!Verify, IP!Verify, Import!service, IP!service, Import!store, IP!store
  <1>10. Import!BackfillStep => IP!BackfillStep
    BY <1>2, <1>3, <1>4, <1>5, <1>8, <1>9, Zenon DEF Import!BackfillStep, IP!BackfillStep
  <1>11. Import!HttpError \/ Import!WriteError => IP!HttpError \/ IP!WriteError
    BY <1>1, Zenon DEF Import!HttpError, IP!HttpError, Import!WriteError, IP!WriteError,
                       Import!Fail, IP!Fail
  <1> QED
    BY <1>10, <1>11

----------------------------------------------------------------------------
(* A step of the process is one of a component, that leaves the other      *)
(* alone, or one of main()'s own.                                          *)

SyncMove ==
    /\ \/ /\ phase \in {"startup", "live"} /\ phase' \in {"startup", "live"}
          /\ SP!SyncStep \/ SP!EmptyAnswer \/ SP!RpcError \/ SP!WriteError
       \/ phase' = phase /\ (SP!ProduceBlock \/ SP!Finalize)
    /\ UNCHANGED <<indexed, importer, flags>>

ImportMove ==
    /\ \/ /\ phase = "backfill" /\ phase' = IF stage' = "ready" THEN "startup" ELSE "backfill"
          /\ IP!BackfillStep \/ IP!HttpError \/ IP!WriteError
          /\ indexed' = indexed
       \/ phase' = phase /\ IP!AdvanceIndexer /\ indexed < lib
    /\ UNCHANGED <<node, extras, syncer, flags>>

Registration(t) ==
    /\ phase = "register" /\ phase' = phase /\ t \in Extras /\ ~db.bf[t].known
    /\ Write(UpsertBackfill(UpsertToken(db, t), t,
             [NotRegistered EXCEPT !.known = TRUE, !.cutoff = db.height]))
    /\ flags' \subseteq flags
    /\ UNCHANGED <<node, indexed, extras, syncer, importer, faults>>

QuietMove ==
    /\ UNCHANGED <<node, indexed, store, syncer, importer, faults>>
    /\ flags' \subseteq Extras
    /\ \/ /\ extras' = extras
          /\ \/ phase' = phase
             \/ phase = "down" /\ phase' = "register"
             \/ phase = "startup" /\ phase' = "live" /\ pc = "idle"
       \/ extras' = db.tokens \ {Koin, Vhp} /\ phase = "register" /\ phase' = "backfill"

Stop ==
    /\ db' \in {db, durable} /\ tx' = db' /\ durable' = durable
    /\ phase' = "down" /\ flags' = {} /\ extras' = {}
    /\ pc' = "idle" /\ SP!ResetLocals
    /\ stage' = "paused" /\ IP!ResetLocals
    /\ faults' \in 0 .. MaxFaults
    /\ UNCHANGED <<node, indexed>>

SyncNext   == SyncMove /\ [SP!Next]_SP!vars
ImportNext == ImportMove /\ [IP!Next]_IP!vars

LEMMA StepKinds ==
  ASSUME SP!TypeInv, IP!TypeInv, flags \subseteq Extras, phase \in Phases, [Next]_vars
  PROVE  \/ SyncNext \/ ImportNext \/ QuietMove \/ Stop
         \/ \E t \in Extras : Registration(t)
PROOF
  <1>1. CASE Environment
    <2>1. CASE (Sync!ProduceBlock \/ Sync!Finalize) /\ indexed' = indexed
      <3>1. SP!ProduceBlock \/ SP!Finalize
        BY <2>1, SyncSteps
      <3>2. UNCHANGED <<importer, flags>> /\ indexed' = indexed
        BY <1>1, <2>1 DEF Environment
      <3> QED
        BY <1>1, <3>1, <3>2, Zenon DEF Environment, SyncNext, SyncMove, SP!Next
    <2>2. CASE indexed < lib /\ indexed' = indexed + 1
               /\ UNCHANGED <<node, store, extras, syncer, faults>>
      <3>1. IP!AdvanceIndexer
        <4>1. indexed < MaxHeight
          BY <2>2, StoreAssumption DEF SP!TypeInv, SP!TypeOK, IP!TypeInv, IP!TypeOK
        <4>2. History' = History
          BY <2>2, Zenon DEF node, History
        <4> QED
          BY <1>1, <2>2, <4>1, <4>2, Zenon
          DEF Environment, IP!AdvanceIndexer, store, IP!store, importer, IP!locals
      <3> QED
        BY <1>1, <2>2, <3>1, Zenon DEF Environment, ImportNext, ImportMove, IP!Next
    <2> QED
      BY <1>1, <2>1, <2>2 DEF Environment
  <1>2. CASE Start
    BY <1>2, Zenon DEF Start, QuietMove
  <1>3. CASE RegisterToken
    <2>1. PICK t \in flags :
             /\ flags' = flags \ {t}
             /\ IF db.bf[t].known
                THEN UNCHANGED store
                ELSE Write(UpsertBackfill(UpsertToken(db, t), t,
                         [NotRegistered EXCEPT !.known = TRUE, !.cutoff = db.height]))
      BY <1>3 DEF RegisterToken
    <2>2. /\ phase = "register" /\ phase' = phase
          /\ UNCHANGED <<node, indexed, extras, syncer, importer, faults>>
      BY <1>3 DEF RegisterToken
    <2>3. CASE db.bf[t].known
      BY <2>1, <2>2, <2>3, Zenon DEF QuietMove
    <2>4. CASE ~db.bf[t].known
      <3>1. flags' \subseteq flags
        BY <2>1
      <3> QED
        BY <2>1, <2>2, <2>4, <3>1, Zenon DEF Registration
    <2> QED
      BY <2>3, <2>4
  <1>4. CASE LoadExtraTokens
    BY <1>4, Zenon DEF LoadExtraTokens, QuietMove
  <1>5. CASE Backfill
    <2>1. IP!BackfillStep \/ IP!HttpError \/ IP!WriteError
      BY <1>5, ImportSteps DEF Backfill
    <2> QED
      BY <1>5, <2>1, Zenon DEF Backfill, ImportNext, ImportMove, IP!Next
  <1>6. CASE SyncToHead
    <2>1. SP!SyncStep \/ SP!EmptyAnswer \/ SP!RpcError \/ SP!WriteError
      BY <1>6, SyncSteps DEF SyncToHead
    <2> QED
      BY <1>6, <2>1, Zenon DEF SyncToHead, SyncNext, SyncMove, SP!Next
  <1>7. CASE NothingToSync
    BY <1>7, Zenon DEF NothingToSync, QuietMove
  <1>8. CASE Crash \/ PowerLoss
    <2>1. /\ faults < MaxFaults /\ faults' = faults + 1 /\ Stopped
          /\ db' \in {db, durable} /\ tx' = db' /\ durable' = durable
      BY <1>8 DEF Crash, PowerLoss, Sync!Fail
    <2>2. faults' \in 0 .. MaxFaults
      BY <2>1, TrackerAssumption DEF SP!TypeInv, SP!TypeOK
    <2> QED
      BY <2>1, <2>2, Zenon
      DEF Stopped, Stop, Sync!ResetLocals, SP!ResetLocals, Import!ResetLocals, IP!ResetLocals,
          Import!NoPage, IP!NoPage
  <1>9. CASE UNCHANGED vars
    BY <1>9, Zenon DEF vars, QuietMove
  <1> QED
    BY <1>1, <1>2, <1>3, <1>4, <1>5, <1>6, <1>7, <1>8, <1>9 DEF Next, MainStep

----------------------------------------------------------------------------
(* Types.                                                                  *)

(* Tables that the statements of a block do not write.                     *)
SameRegister(s, r) == r.bf = s.bf /\ r.tokens = s.tokens

LEMMA RegisterKept ==
  ASSUME NEW s \in SP!Database
  PROVE  /\ \A t : SameRegister(s, SP!ResetTokenBalances(s, t))
         /\ \A A, h : SameRegister(s, SP!UpsertAddresses(s, A, h))
         /\ \A t, e : SameRegister(s, SP!MoveValue(s, t, e))
         /\ \A h : SameRegister(s, SP!DeleteTransfersAtHeight(s, h))
         /\ \A h, t, e : SameRegister(s, SP!RecordTransfer(s, h, t, e))
         /\ \A h, g, blk : SameRegister(s, SP!SetSyncState(SP!InsertBlock(s, h, blk), g))
PROOF
  <1>1. {"bf", "tokens"} \subseteq DOMAIN s
    BY DEF SP!Database
  <1>2. ASSUME NEW r, {"bf", "tokens"} \subseteq DOMAIN r, NEW t, NEW x, NEW delta
        PROVE  /\ SameRegister(r, SP!AdjustBalance(r, t, x, delta))
               /\ {"bf", "tokens"} \subseteq DOMAIN SP!AdjustBalance(r, t, x, delta)
    BY <1>2 DEF SP!AdjustBalance, SameRegister
  <1>3. ASSUME NEW t, NEW e PROVE SameRegister(s, SP!MoveValue(s, t, e))
    <2> DEFINE mid == SP!AdjustBalance(s, t, SP!Debited(e), -e.value)
    <2>1. SameRegister(s, mid) /\ {"bf", "tokens"} \subseteq DOMAIN mid
      BY <1>1, <1>2
    <2>2. SameRegister(mid, SP!AdjustBalance(mid, t, SP!Credited(e), e.value))
      <3> HIDE DEF mid
      <3> QED BY <1>2, <2>1
    <2> QED
      BY <2>1, <2>2 DEF SameRegister, SP!MoveValue
  <1> QED
    BY <1>1, <1>3
    DEF SameRegister, SP!ResetTokenBalances, SP!UpsertAddresses, SP!DeleteTransfersAtHeight,
        SP!RecordTransfer, SP!InsertTransfer, SP!SetSyncState, SP!InsertBlock

(* What a step of the block sync can do to the store.                      *)
LEMMA SyncStore ==
  ASSUME SP!TypeInv, SyncMove
  PROVE  /\ chain' = chain /\ extras' = extras
         /\ \/ db' = db /\ durable' = durable /\ (tx' \in {tx, db} \/ SameRegister(tx, tx'))
            \/ db' = tx /\ tx' = tx /\ durable' \in {durable, tx}
PROOF
  <1>1. tx \in SP!Database
    BY DEF SP!TypeInv, SP!TypeOK
  <1>2. CASE SP!ProduceBlock \/ SP!Finalize
    BY <1>2 DEF SP!ProduceBlock, SP!Finalize, SP!store
  <1>3. CASE SP!Return
    BY <1>3 DEF SP!Return, SP!node
  <1>4. CASE SP!RpcError \/ SP!WriteError \/ SP!LoopDone
    BY <1>3, <1>4 DEF SP!RpcError, SP!WriteError, SP!LoopDone
  <1>5. CASE SP!EmptyAnswer
    <2>1. SP!Return \/ UNCHANGED <<SP!node, SP!store, extras>>
      BY <1>5 DEF SP!EmptyAnswer
    <2> QED
      BY <1>3, <2>1 DEF SP!node, SP!store
  <1>6. CASE SP!StartSync \/ SP!ReceiveBlocks
    BY <1>6 DEF SP!StartSync, SP!ReceiveBlocks, SP!node, SP!store
  <1>7. CASE SP!BeginBlock
    <2>1. ASSUME NEW s, s = tx \/ s = SP!ResetTokenBalances(tx, Vhp), NEW A, NEW h
          PROVE  SameRegister(tx, SP!UpsertAddresses(s, A, h))
      <3>1. s \in SP!Database /\ SameRegister(tx, s)
        BY <1>1, <2>1, RegisterKept, SP!ResetTokenBalancesType, SyncConstants
        DEF SameRegister, SP!Tokens
      <3> QED
        BY <3>1, RegisterKept DEF SameRegister
    <2>2. tx' = tx \/ SameRegister(tx, tx')
      BY <1>7, <2>1 DEF SP!BeginBlock
    <2> QED
      BY <1>7, <2>2 DEF SP!BeginBlock, SP!node
  <1>8. CASE SP!ApplyChange
    <2>1. tx' = tx \/ SameRegister(tx, tx')
      BY <1>1, <1>8, RegisterKept DEF SP!ApplyChange
    <2> QED
      BY <1>8, <2>1 DEF SP!ApplyChange, SP!node
  <1>9. CASE SP!ClearHistory
    BY <1>1, <1>9, RegisterKept DEF SP!ClearHistory, SP!node
  <1>10. CASE SP!WriteTransfer
    <2>1. tx' = tx \/ SameRegister(tx, tx')
      BY <1>1, <1>10, RegisterKept DEF SP!WriteTransfer
    <2> QED
      BY <1>10, <2>1 DEF SP!WriteTransfer, SP!node
  <1>11. CASE SP!FinishBlock
    BY <1>1, <1>11, RegisterKept DEF SP!FinishBlock, SP!node
  <1>12. CASE SP!Commit
    BY <1>12 DEF SP!Commit, SP!node
  <1> QED
    BY <1>2, <1>4, <1>5, <1>6, <1>7, <1>8, <1>9, <1>10, <1>11, <1>12 DEF SyncMove, SP!SyncStep

Typed == SP!TypeInv /\ IP!TypeInv /\ phase \in Phases /\ flags \subseteq Extras

LEMMA InitOfParts == Init => SP!Init /\ IP!Init
PROOF
  <1> SUFFICES ASSUME Init PROVE SP!Init /\ IP!Init
    OBVIOUS
  <1>1. SP!Init
    BY Zenon DEF Init, Sync!Init, SP!Init, Sync!EmptyDatabase, SP!EmptyDatabase,
                 Sync!Heights, SP!Heights, Sync!Addresses, SP!Addresses, Sync!Contracts,
                 SP!Contracts, Sync!BaseContracts, SP!BaseContracts, Sync!NotSeen, SP!NotSeen,
                 Sync!Tokens, SP!Tokens, Sync!NotRegistered, SP!NotRegistered
  <1>2. db = IP!RegisteredAt(0, {}) /\ tx = db /\ durable = db
    <2>1. SP!EmptyDatabase = IP!EmptyDatabase
      BY Zenon DEF SP!EmptyDatabase, IP!EmptyDatabase,
                 IP!Heights, SP!Heights, IP!Addresses, SP!Addresses, IP!Contracts,
                 SP!Contracts, IP!BaseContracts, SP!BaseContracts, IP!NotSeen, SP!NotSeen,
                 IP!Tokens, SP!Tokens, IP!NotRegistered, SP!NotRegistered
    <2>2. IP!LiveSeen(0) = [x \in IP!Addresses |-> IP!NotSeen]
      BY DEF IP!LiveSeen
    <2>3. IP!RegisteredAt(0, {}) = IP!EmptyDatabase
      <3>1. [t \in Extras |-> IF t \in {}
                 THEN [IP!NotRegistered EXCEPT !.known = TRUE, !.cutoff = 0]
                 ELSE IP!NotRegistered] = [t \in Extras |-> IP!NotRegistered]
        OBVIOUS
      <3>2. {Koin, Vhp} \cup {} = {Koin, Vhp}
        OBVIOUS
      <3>3. ASSUME NEW r, r = [x \in DOMAIN r |-> r[x]], r.height = 0
            PROVE  [r EXCEPT !.height = 0, !.seen = r.seen, !.tokens = r.tokens, !.bf = r.bf] = r
        BY <3>3
      <3> DEFINE r == IP!EmptyDatabase
      <3>4. /\ r = [x \in DOMAIN r |-> r[x]] /\ r.height = 0 /\ r.tokens = {Koin, Vhp}
            /\ r.seen = [x \in IP!Addresses |-> IP!NotSeen]
            /\ r.bf = [t \in Extras |-> IP!NotRegistered]
        BY DEF IP!EmptyDatabase
      <3>5. IP!RegisteredAt(0, {}) =
              [r EXCEPT !.height = 0, !.seen = [x \in IP!Addresses |-> IP!NotSeen],
                        !.tokens = r.tokens \cup {}, !.bf = [t \in Extras |-> IP!NotRegistered]]
        BY <2>2, <3>1 DEF IP!RegisteredAt
      <3>6. IP!RegisteredAt(0, {}) =
              [r EXCEPT !.height = 0, !.seen = r.seen, !.tokens = r.tokens, !.bf = r.bf]
        <4>1. r.tokens \cup {} = r.tokens
          BY <3>2, <3>4
        <4> HIDE DEF r
        <4> QED BY <3>4, <3>5, <4>1
      <3>7. IP!EmptyDatabase = r
        OBVIOUS
      <3> HIDE DEF r
      <3> QED
        BY <3>3, <3>4, <3>6, <3>7
    <2> QED
      BY <1>1, <2>1, <2>3 DEF SP!Init
  <1>3. IP!Init
    <2>1. History \in {HistoryOn(c) : c \in Chains}
      BY <1>1 DEF SP!Init, History
    <2>2. /\ stage = "paused" /\ todo = {} /\ token = NoAddr /\ seq = 0 /\ covered = FALSE
          /\ page = IP!NoPage /\ outcome = "more" /\ at = 0 /\ op = 0 /\ faults = 0
          /\ indexed \in 0 .. MaxHeight
      <3>1. Import!NoPage = IP!NoPage
        BY DEF Import!NoPage, IP!NoPage
      <3> QED
        BY <1>1, <3>1, StoreAssumption DEF Init, SP!Init
    <2>3. 0 \in 0 .. MaxHeight
      BY StoreAssumption
    <2>4. \E h \in 0 .. MaxHeight, regs \in SUBSET Extras :
             /\ db = IP!RegisteredAt(h, regs)
             /\ tx = db /\ durable = db
      BY <1>2, <2>3
    <2> QED
      BY <2>1, <2>2, <2>4, Zenon DEF IP!Init
  <1> QED
    BY <1>1, <1>3

LEMMA TypedInit == Init => Typed
PROOF
  <1> SUFFICES ASSUME Init PROVE Typed
    OBVIOUS
  <1>1. SP!TypeInv
    BY InitOfParts, SP!TypeInit, SyncConstants, Zenon
  <1>2. IP!TypeInv
    BY InitOfParts, IP!TypeInit, ImportConstants, Zenon
  <1> QED
    BY <1>1, <1>2 DEF Typed, Init, Phases

(* The progress records of the store stay as they are in a sync.           *)
LEMMA SyncKeepsImport ==
  ASSUME Typed, SyncMove, SP!TypeInv'
  PROVE  IP!TypeInv'
PROOF
  <1>1. /\ chain' = chain /\ History' = History
        /\ UNCHANGED <<indexed, stage, todo, token, seq, covered, page, outcome, at, op>>
        /\ db'.bf = db.bf /\ durable'.bf \in {durable.bf, db.bf} /\ tx'.bf = db'.bf
    <2>1. chain' = chain /\ tx.bf = db.bf
      BY SyncStore DEF Typed, IP!TypeInv, IP!CursorInv
    <2>2. UNCHANGED <<indexed, stage, todo, token, seq, covered, page, outcome, at, op>>
      BY DEF SyncMove, importer
    <2>3. db'.bf = db.bf /\ durable'.bf \in {durable.bf, db.bf} /\ tx'.bf = db'.bf
      BY <2>1, SyncStore DEF SameRegister, Typed
    <2>4. History' = History
      BY <2>1, Zenon DEF History
    <2> QED
      BY <2>1, <2>2, <2>3, <2>4
  <1>2. IP!TypeOK'
    <2>1. /\ db' \in IP!Database /\ tx' \in IP!Database /\ durable' \in IP!Database
          /\ faults' \in 0 .. MaxFaults
      BY SameTypes DEF SP!TypeInv, SP!TypeOK
    <2> QED
      BY <1>1, <2>1, Zenon DEF Typed, IP!TypeInv, IP!TypeOK
  <1>3. IP!CursorInv'
    <2>1. \A t : IP!Visible(t)' = IP!Visible(t)
      BY <1>1, Zenon DEF IP!Visible
    <2>2. IP!CursorInv
      BY DEF Typed, IP!TypeInv
    <2>3. (History \in {HistoryOn(c) : c \in Chains})'
      BY <1>1, <2>2, Zenon DEF IP!CursorInv
    <2>4. \A t \in Extras : /\ db'.bf[t].next <= IP!Visible(t)'
                            /\ durable'.bf[t].next <= IP!Visible(t)'
      BY <1>1, <2>1, <2>2 DEF IP!CursorInv
    <2> QED
      BY <1>1, <2>1, <2>2, <2>3, <2>4 DEF IP!CursorInv
  <1> QED
    BY <1>2, <1>3 DEF IP!TypeInv

LEMMA ImportKeepsSync ==
  ASSUME Typed, ImportMove, IP!TypeInv'
  PROVE  SP!TypeInv'
PROOF
  <1>1. /\ db' \in SP!Database /\ tx' \in SP!Database /\ durable' \in SP!Database
        /\ faults' \in 0 .. MaxFaults
    BY SameTypes DEF IP!TypeInv, IP!TypeOK
  <1>2. UNCHANGED <<chain, head, lib, extras, pc, cur, target, safe, items, pos, k, retries>>
    BY DEF ImportMove, node, syncer
  <1>3. SP!TypeOK'
    BY <1>1, <1>2, Zenon DEF Typed, SP!TypeInv, SP!TypeOK
  <1>4. SP!Progress'
    BY <1>2, Zenon DEF Typed, SP!TypeInv, SP!Progress, SP!InBatch
  <1> QED
    BY <1>3, <1>4 DEF SP!TypeInv

(* What a registration writes.                                             *)
NewlyRegistered == [NotRegistered EXCEPT !.known = TRUE, !.cutoff = db.height]

LEMMA RegistrationStore ==
  ASSUME Typed, NEW t \in Extras, Registration(t)
  PROVE  /\ db' \in Database /\ tx' = db' /\ durable' \in {durable, db'}
         /\ db'.bf[t] = NewlyRegistered /\ \A u \in Extras \ {t} : db'.bf[u] = db.bf[u]
         /\ db'.tokens = db.tokens \cup {t} /\ ~db.bf[t].known
         /\ NewlyRegistered.known /\ ~NewlyRegistered.done
         /\ NewlyRegistered.next = 0 /\ NewlyRegistered.cutoff = db.height
         /\ db'.height = db.height /\ db'.rows = db.rows /\ db'.lastId = db.lastId
         /\ db'.bal = db.bal /\ db'.blocks = db.blocks
PROOF
  <1> DEFINE rec == NewlyRegistered
             s   == UpsertBackfill(UpsertToken(db, t), t, rec)
  <1>1. db \in Database /\ t \in Tokens
    BY SameTypes DEF Typed, SP!TypeInv, SP!TypeOK, Tokens
  <1>2. /\ rec.known = TRUE /\ rec.done = FALSE /\ rec.next = 0 /\ rec.cutoff = db.height
        /\ rec \in BackfillRecord
    <2>1. db.height \in 0 .. MaxHeight /\ 0 \in 0 .. MaxSeq
      BY <1>1, StoreAssumption DEF Database
    <2> QED
      BY <2>1 DEF NewlyRegistered, NotRegistered, BackfillRecord
  <1>3. UpsertToken(db, t) \in Database
    BY <1>1 DEF UpsertToken, Database
  <1>4. s \in Database
    <2> HIDE DEF rec
    <2> QED BY <1>2, <1>3 DEF UpsertBackfill, Database
  <1>5. /\ s.bf[t] = rec /\ \A u \in Extras \ {t} : s.bf[u] = db.bf[u]
        /\ s.tokens = db.tokens \cup {t}
        /\ s.height = db.height /\ s.rows = db.rows /\ s.lastId = db.lastId
        /\ s.bal = db.bal /\ s.blocks = db.blocks
    <2> HIDE DEF rec
    <2> QED BY <1>1 DEF UpsertBackfill, UpsertToken, Database
  <1>6. db' = s /\ tx' = s /\ durable' \in {durable, s} /\ ~db.bf[t].known
    BY Zenon DEF Registration, Write, NewlyRegistered
  <1> HIDE DEF rec, s
  <1> QED
    BY <1>2, <1>4, <1>5, <1>6 DEF rec

LEMMA TypedRegistration ==
  ASSUME Typed, NEW t \in Extras, Registration(t)
  PROVE  Typed'
PROOF
  <1>1. db' \in Database /\ tx' \in Database /\ durable' \in Database
    BY RegistrationStore, SameTypes DEF Typed, SP!TypeInv, SP!TypeOK
  <1>2. /\ UNCHANGED <<chain, head, lib, extras, pc, cur, target, safe, items, pos, k, retries>>
        /\ UNCHANGED <<indexed, stage, todo, token, seq, covered, page, outcome, at, op, faults>>
        /\ flags' \subseteq flags /\ phase' = phase
    BY DEF Registration, node, syncer, importer
  <1>3. SP!TypeInv'
    BY <1>1, <1>2, SameTypes, Zenon
    DEF Typed, SP!TypeInv, SP!TypeOK, SP!Progress, SP!InBatch
  <1>4. History' = History
    BY <1>2, Zenon DEF History
  <1>5. IP!TypeOK'
    BY <1>1, <1>2, <1>4, SameTypes, Zenon DEF Typed, IP!TypeInv, IP!TypeOK
  <1>6. IP!CursorInv'
    <2>1. \A u : IP!Visible(u)' = IP!Visible(u)
      BY <1>2, <1>4, Zenon DEF IP!Visible
    <2>2. IP!CursorInv
      BY DEF Typed, IP!TypeInv
    <2>3. (History \in {HistoryOn(c) : c \in Chains})'
      BY <1>4, <2>2, Zenon DEF IP!CursorInv
    <2>4. \A u \in Extras : db'.bf[u].next <= IP!Visible(u)
      <3>1. 0 <= IP!Visible(t)
        <4>1. IP!Visible(t) \in Nat
          BY <2>2, IP!VisibleFacts, ImportConstants, Zenon DEF IP!CursorInv
        <4> QED
          BY <4>1
      <3> QED
        BY <2>2, <3>1, RegistrationStore DEF IP!CursorInv
    <2>5. \A u \in Extras : durable'.bf[u].next <= IP!Visible(u)
      BY <2>2, <2>4, RegistrationStore DEF IP!CursorInv
    <2>6. tx'.bf = db'.bf
      BY RegistrationStore
    <2> QED
      BY <1>2, <2>1, <2>2, <2>3, <2>4, <2>5, <2>6 DEF IP!CursorInv
  <1> QED
    BY <1>2, <1>3, <1>5, <1>6 DEF Typed, IP!TypeInv

LEMMA TypedStep == Typed /\ [Next]_vars => Typed'
PROOF
  <1> SUFFICES ASSUME Typed, [Next]_vars PROVE Typed'
    OBVIOUS
  <1>1. CASE SyncNext
    <2>1. SP!TypeInv'
      BY <1>1, SP!TypeStep, SyncConstants, Zenon DEF Typed, SyncNext
    <2>2. IP!TypeInv'
      BY <1>1, <2>1, SyncKeepsImport DEF SyncNext
    <2>3. flags' \subseteq Extras
      BY <1>1 DEF SyncNext, SyncMove, Typed
    <2> QED
      BY <1>1, <2>1, <2>2, <2>3 DEF Typed, SyncNext, SyncMove, Phases
  <1>2. CASE ImportNext
    <2>1. IP!TypeInv'
      BY <1>2, IP!TypeStep, ImportConstants, Zenon DEF Typed, ImportNext
    <2>2. SP!TypeInv'
      BY <1>2, <2>1, ImportKeepsSync DEF ImportNext
    <2>3. flags' \subseteq Extras
      BY <1>2 DEF ImportNext, ImportMove, Typed
    <2> QED
      BY <1>2, <2>1, <2>2, <2>3 DEF Typed, ImportNext, ImportMove, Phases
  <1>3. CASE QuietMove
    <2>1. /\ UNCHANGED <<chain, head, lib, pc, cur, target, safe, items, pos, k, retries>>
          /\ UNCHANGED <<indexed, stage, todo, token, seq, covered, page, outcome, at, op, faults>>
          /\ UNCHANGED <<db, tx, durable>>
      BY <1>3 DEF QuietMove, node, syncer, importer, store
    <2>2. extras' \subseteq Extras
      <3>1. db.tokens \subseteq Tokens
        BY SameTypes DEF Typed, SP!TypeInv, SP!TypeOK, Database
      <3> QED
        BY <1>3, <3>1 DEF QuietMove, Tokens, Typed, SP!TypeInv, SP!TypeOK
    <2>3. SP!TypeInv'
      BY <2>1, <2>2, Zenon DEF Typed, SP!TypeInv, SP!TypeOK, SP!Progress, SP!InBatch
    <2>4. History' = History
      BY <2>1, Zenon DEF History
    <2>5. IP!TypeInv'
      BY <2>1, <2>4, Zenon DEF Typed, IP!TypeInv, IP!TypeOK, IP!CursorInv, IP!Visible
    <2> QED
      BY <1>3, <2>3, <2>5 DEF QuietMove, Typed, Phases
  <1>4. CASE Stop
    <2>1. /\ db' \in Database /\ tx' \in Database /\ durable' \in Database
          /\ UNCHANGED <<chain, head, lib, indexed>> /\ faults' \in 0 .. MaxFaults
          /\ db'.bf \in {db.bf, durable.bf} /\ tx'.bf = db'.bf /\ durable'.bf = durable.bf
      BY <1>4, SameTypes DEF Stop, node, Typed, SP!TypeInv, SP!TypeOK
    <2>2. SP!TypeInv'
      <3>1. /\ cur' = 0 /\ target' = 0 /\ safe' = 0 /\ items' = << >> /\ pos' = 0 /\ k' = 0
            /\ retries' = 0 /\ pc' = "idle" /\ extras' = {}
        BY <1>4 DEF Stop, SP!ResetLocals
      <3>2. 0 \in Nat /\ 0 \in 0 .. MaxHeight /\ << >> \in Seq(Blocks)
        BY StoreAssumption
      <3>3. SP!TypeOK'
        BY <2>1, <3>1, <3>2, SameTypes DEF SP!TypeOK, SP!Phases, Typed, SP!TypeInv
      <3>4. SP!Progress'
        BY <3>1 DEF SP!Progress, SP!InBatch
      <3> QED
        BY <3>3, <3>4 DEF SP!TypeInv
    <2>3. History' = History
      BY <2>1, Zenon DEF History
    <2>4. IP!TypeInv'
      <3>1. /\ stage' = "paused" /\ todo' = {} /\ token' = NoAddr /\ seq' = 0 /\ covered' = FALSE
            /\ page' = IP!NoPage /\ outcome' = "more" /\ at' = 0 /\ op' = 0
        BY <1>4 DEF Stop, IP!ResetLocals
      <3>2. IP!TypeOK'
        <4>1. IP!NoPage \in IP!Page /\ 0 \in 0 .. MaxSeq /\ 0 \in Nat
          BY StoreAssumption, TrackerAssumption DEF IP!NoPage, IP!Page
        <4> QED
          BY <2>1, <2>3, <3>1, <4>1, SameTypes
          DEF IP!TypeOK, IP!Stages, IP!Outcomes, Typed, IP!TypeInv
      <3>3. IP!CursorInv'
        <4>1. \A u : IP!Visible(u)' = IP!Visible(u)
          BY <2>1, <2>3, Zenon DEF IP!Visible
        <4>2. IP!CursorInv
          BY DEF Typed, IP!TypeInv
        <4>3. (History \in {HistoryOn(c) : c \in Chains})'
          BY <2>3, <4>2, Zenon DEF IP!CursorInv
        <4> QED
          BY <2>1, <3>1, <4>1, <4>2, <4>3 DEF IP!CursorInv
      <3> QED
        BY <3>2, <3>3 DEF IP!TypeInv
    <2> QED
      BY <1>4, <2>2, <2>4 DEF Stop, Phases, Typed
  <1>5. ASSUME NEW t \in Extras, Registration(t) PROVE Typed'
    BY <1>5, TypedRegistration
  <1> QED
    BY <1>1, <1>2, <1>3, <1>4, <1>5, StepKinds DEF Typed

LEMMA TypedIsTypeOK == Typed => TypeOK
PROOF
  <1>1. /\ Sync!Database = Database /\ Import!Database = Database
        /\ Sync!Heights = SP!Heights /\ Sync!Phases = SP!Phases
        /\ Import!Heights = IP!Heights /\ Import!Stages = IP!Stages
        /\ Import!Outcomes = IP!Outcomes /\ Import!Page = IP!Page /\ Import!Entry = IP!Entry
    <2>1. /\ Sync!Heights = Heights /\ Import!Heights = Heights /\ Sync!NotSeen = NotSeen
          /\ Import!NotSeen = NotSeen /\ Sync!Tokens = Tokens /\ Import!Tokens = Tokens
          /\ Sync!Contracts = Contracts /\ Import!Contracts = Contracts
          /\ Sync!TransferKinds = TransferKinds /\ Import!TransferKinds = TransferKinds
          /\ Sync!BackfillRecord = BackfillRecord /\ Import!BackfillRecord = BackfillRecord
      BY DEF Sync!Heights, Import!Heights, Heights, Sync!NotSeen, Import!NotSeen, NotSeen,
             Sync!Tokens, Import!Tokens, Tokens, Sync!Contracts, Import!Contracts, Contracts,
             Sync!BaseContracts, Import!BaseContracts, BaseContracts,
             Sync!TransferKinds, Import!TransferKinds, TransferKinds,
             Sync!BackfillRecord, Import!BackfillRecord, BackfillRecord
    <2>2. /\ Sync!Transfer = Transfer /\ Import!Transfer = Transfer
          /\ Sync!Addresses = Addresses /\ Import!Addresses = Addresses
          /\ Import!Event = Event
      BY <2>1, Zenon DEF Sync!Transfer, Import!Transfer, Transfer, Sync!Addresses,
                         Import!Addresses, Addresses, Import!Event, Event
    <2>3. Sync!Database = Database /\ Import!Database = Database
      BY <2>1, <2>2, Zenon DEF Sync!Database, Import!Database, Database
    <2>4. Import!Entry = IP!Entry
      BY <2>1, <2>2, SameTypes, Zenon DEF Import!Entry, IP!Entry
    <2> QED
      BY <2>1, <2>3, <2>4, SameTypes, Zenon
      DEF Sync!Phases, SP!Phases, Import!Stages, IP!Stages, Import!Outcomes, IP!Outcomes,
          Import!Page, IP!Page
  <1>2. Typed => Sync!TypeOK
    BY <1>1, SameTypes, Zenon DEF Typed, SP!TypeInv, SP!TypeOK, Sync!TypeOK
  <1>3. Typed => Import!TypeOK
    BY <1>1, SameTypes, Zenon DEF Typed, IP!TypeInv, IP!TypeOK, Import!TypeOK
  <1> QED
    BY <1>2, <1>3 DEF Typed, TypeOK

(* Type correctness of the whole process: the two components, taking turns *)
(* on one store, never leave a height, a cursor, a page or a table outside *)
(* its range, whichever step an error, a crash or a power loss interrupts. *)
THEOREM TrackerTypes == Spec => []TypeOK
PROOF
  <1>1. Spec => []Typed
    BY TypedInit, TypedStep, PTL DEF Spec
  <1> QED
    BY <1>1, TypedIsTypeOK, PTL

----------------------------------------------------------------------------
(* Where the process stands, and what is registered.                       *)

KnownIn(s) == {t \in Extras : s.bf[t].known}

Listed(s) == s.tokens = {Koin, Vhp} \cup KnownIn(s)

Control ==
    /\ WaitInv
    /\ chain \in Chains /\ indexed <= lib
    /\ Listed(db) /\ Listed(tx) /\ Listed(durable)
    /\ phase \notin {"startup", "live"} => pc = "idle"
    /\ phase \in {"startup", "live"} => stage = "ready"
    /\ phase \notin {"down", "register"} => extras = KnownIn(db)

(* Tables that a replayed event does not write.                            *)
SameProgress(s, r) ==
    SameRegister(s, r) /\ r.height = s.height /\ r.blocks = s.blocks

LEMMA ReplayLeaves ==
  ASSUME NEW s \in IP!Database, NEW h, NEW t, NEW e
  PROVE  SameProgress(s, IP!Replay(s, h, t, e))
PROOF
  <1> DEFINE F == {"bf", "tokens", "height", "blocks"}
  <1>1. F \subseteq DOMAIN s
    BY DEF IP!Database
  <1>2. ASSUME NEW r, F \subseteq DOMAIN r, NEW x, NEW delta
        PROVE  /\ SameProgress(r, IP!AdjustBalance(r, t, x, delta))
               /\ F \subseteq DOMAIN IP!AdjustBalance(r, t, x, delta)
    BY <1>2 DEF IP!AdjustBalance, SameProgress, SameRegister
  <1>3. ASSUME NEW r, F \subseteq DOMAIN r
        PROVE  /\ SameProgress(r, IP!MoveValue(r, t, e))
               /\ F \subseteq DOMAIN IP!MoveValue(r, t, e)
    <2> DEFINE mid == IP!AdjustBalance(r, t, IP!Debited(e), -e.value)
    <2>1. SameProgress(r, mid) /\ F \subseteq DOMAIN mid
      BY <1>2, <1>3
    <2>2. /\ SameProgress(mid, IP!AdjustBalance(mid, t, IP!Credited(e), e.value))
          /\ F \subseteq DOMAIN IP!AdjustBalance(mid, t, IP!Credited(e), e.value)
      <3> HIDE DEF mid, F
      <3> QED BY <1>2, <2>1
    <2> QED
      BY <2>1, <2>2 DEF SameProgress, SameRegister, IP!MoveValue
  <1>4. ASSUME NEW r, F \subseteq DOMAIN r
        PROVE  SameProgress(r, IP!RecordTransfer(r, h, t, e))
    BY <1>4 DEF IP!RecordTransfer, IP!InsertTransfer, SameProgress, SameRegister
  <1>5. ASSUME NEW A
        PROVE  /\ SameProgress(s, IP!LowerFirstSeen(s, A, h))
               /\ F \subseteq DOMAIN IP!LowerFirstSeen(s, A, h)
    BY <1>1 DEF IP!LowerFirstSeen, SameProgress, SameRegister
  <1> HIDE DEF F
  <1> QED
    BY <1>3, <1>4, <1>5 DEF IP!Replay, SameProgress, SameRegister

(* What a step of the import can do to the store.                          *)
LEMMA ImportStore ==
  ASSUME Typed, ImportMove
  PROVE  /\ chain' = chain /\ extras' = extras
         /\ \/ db' = db /\ durable' = durable /\ tx' \in {tx, db}
            \/ IP!ApplyOp /\ db' = db /\ durable' = durable /\ SameProgress(tx, tx')
            \/ /\ IP!CommitPage /\ stage = "apply"
               /\ IP!Write(IP!UpsertBackfill(tx, token, IP!NewRecord))
            \/ /\ IP!Verify /\ stage = "verify"
               /\ \E v \in BOOLEAN :
                     IP!Write(IP!UpsertBackfill(db, token, IP!CheckedRecord(v)))
PROOF
  <1>1. tx \in IP!Database
    BY DEF Typed, IP!TypeInv, IP!TypeOK
  <1>2. chain' = chain /\ extras' = extras
    BY DEF ImportMove, node
  <1>3. CASE IP!AdvanceIndexer \/ IP!ListPending \/ IP!TakeToken \/ IP!AllDone \/ IP!CheckCoverage
    BY <1>2, <1>3 DEF IP!AdvanceIndexer, IP!ListPending, IP!TakeToken, IP!AllDone,
                      IP!CheckCoverage, IP!store
  <1>4. CASE IP!CollectPage \/ IP!HttpError \/ IP!WriteError
    BY <1>2, <1>4 DEF IP!CollectPage, IP!HttpError, IP!WriteError, IP!Pause
  <1>5. CASE IP!ApplyOp
    <2>1. tx' = tx \/ \E h, t, e : tx' = IP!Replay(tx, h, t, e)
      BY <1>5 DEF IP!ApplyOp
    <2>2. tx' = tx \/ SameProgress(tx, tx')
      BY <1>1, <2>1, ReplayLeaves
    <2>3. SameProgress(tx, tx')
      BY <2>2 DEF SameProgress, SameRegister
    <2> QED
      BY <1>2, <1>5, <2>3 DEF IP!ApplyOp
  <1>6. CASE IP!CommitPage
    BY <1>2, <1>6 DEF IP!CommitPage, IP!NewRecord
  <1>7. CASE IP!Verify
    BY <1>2, <1>7 DEF IP!Verify, IP!store, IP!CheckedRecord
  <1> QED
    BY <1>3, <1>4, <1>5, <1>6, <1>7 DEF ImportMove, IP!BackfillStep

(* What a record written by the import leaves alone.                       *)
LEMMA RecordStore ==
  ASSUME Typed, NEW s \in {tx, db}, NEW rec \in IP!BackfillRecord, token \in Extras,
         rec.known = db.bf[token].known, IP!Write(IP!UpsertBackfill(s, token, rec))
  PROVE  /\ tx' = db' /\ durable' \in {durable, db'}
         /\ db'.height = s.height /\ db'.blocks = s.blocks /\ db'.tokens = s.tokens
         /\ db'.rows = s.rows /\ db'.lastId = s.lastId /\ db'.bal = s.bal
         /\ KnownIn(db') = KnownIn(db)
         /\ db'.bf[token] = rec /\ \A t \in Extras \ {token} : db'.bf[t] = db.bf[t]
PROOF
  <1>1. s \in IP!Database /\ s.bf = db.bf
    BY DEF Typed, IP!TypeInv, IP!TypeOK, IP!CursorInv
  <1>2. db' = IP!UpsertBackfill(s, token, rec) /\ tx' = db' /\ durable' \in {durable, db'}
    BY DEF IP!Write
  <1>3. /\ db'.height = s.height /\ db'.blocks = s.blocks /\ db'.tokens = s.tokens
        /\ db'.rows = s.rows /\ db'.lastId = s.lastId /\ db'.bal = s.bal
        /\ db'.bf[token] = rec /\ \A t \in Extras \ {token} : db'.bf[t] = s.bf[t]
    BY <1>1, <1>2 DEF IP!UpsertBackfill, IP!Database
  <1>4. KnownIn(db') = KnownIn(db)
    BY <1>1, <1>3 DEF KnownIn
  <1> QED
    BY <1>1, <1>2, <1>3, <1>4

LEMMA ControlInit == Init => Control
PROOF
  <1> SUFFICES ASSUME Init PROVE Control
    OBVIOUS
  <1>1. WaitInv
    BY WaitInit
  <1>2. SP!Init
    BY InitOfParts
  <1>3. /\ chain \in Chains /\ indexed <= lib /\ pc = "idle" /\ phase = "down"
        /\ db = SP!EmptyDatabase /\ tx = SP!EmptyDatabase /\ durable = SP!EmptyDatabase
    BY <1>2, TrackerAssumption DEF SP!Init, Init
  <1>4. Listed(SP!EmptyDatabase)
    BY DEF Listed, KnownIn, SP!EmptyDatabase, SP!NotRegistered
  <1> QED
    BY <1>1, <1>3, <1>4 DEF Control

(* What is registered, through each kind of step.                          *)
LEMMA ListedStep ==
  ASSUME Typed, Control, SyncMove \/ ImportMove
  PROVE  /\ Listed(db)' /\ Listed(tx)' /\ Listed(durable)'
         /\ KnownIn(db)' = KnownIn(db) /\ chain' = chain /\ extras' = extras
PROOF
  <1>0. /\ Listed(db) /\ Listed(tx) /\ Listed(durable) /\ tx.bf = db.bf
    BY DEF Control, Typed, IP!TypeInv, IP!CursorInv
  <1>1. ASSUME NEW s, NEW r, SameRegister(s, r)
        PROVE  KnownIn(r) = KnownIn(s) /\ (Listed(s) => Listed(r))
    BY <1>1 DEF SameRegister, Listed, KnownIn
  <1>2. KnownIn(tx) = KnownIn(db)
    BY <1>0 DEF KnownIn
  <1>3. CASE SyncMove
    <2>1. /\ chain' = chain /\ extras' = extras
          /\ \/ db' = db /\ durable' = durable /\ (tx' \in {tx, db} \/ SameRegister(tx, tx'))
             \/ db' = tx /\ tx' = tx /\ durable' \in {durable, tx}
      BY <1>3, SyncStore DEF Typed
    <2>2. Listed(db') /\ Listed(tx') /\ Listed(durable') /\ KnownIn(db') = KnownIn(db)
      BY <1>0, <1>1, <1>2, <2>1
    <2> QED
      BY <2>1, <2>2 DEF Listed, KnownIn
  <1>4. CASE ImportMove
    <2>0. chain' = chain /\ extras' = extras
      BY <1>4, ImportStore
    <2>1. CASE db' = db /\ durable' = durable /\ (tx' \in {tx, db} \/ SameProgress(tx, tx'))
      <3>1. Listed(db') /\ Listed(tx') /\ Listed(durable') /\ KnownIn(db') = KnownIn(db)
        BY <1>0, <1>1, <1>2, <2>1 DEF SameProgress
      <3> QED
        BY <2>0, <3>1 DEF Listed, KnownIn
    <2>2. ASSUME NEW s \in {tx, db}, NEW rec \in IP!BackfillRecord, token \in Extras,
                 rec.known = db.bf[token].known, IP!Write(IP!UpsertBackfill(s, token, rec))
          PROVE  Listed(db)' /\ Listed(tx)' /\ Listed(durable)' /\ KnownIn(db)' = KnownIn(db)
      <3>1. /\ tx' = db' /\ durable' \in {durable, db'} /\ db'.tokens = s.tokens
            /\ KnownIn(db') = KnownIn(db)
        BY <2>2, RecordStore
      <3>2. s.tokens = {Koin, Vhp} \cup KnownIn(db)
        BY <1>0, <1>2 DEF Listed
      <3>3. Listed(db')
        BY <3>1, <3>2 DEF Listed
      <3>4. Listed(tx') /\ Listed(durable')
        BY <1>0, <3>1, <3>3
      <3> QED
        BY <3>1, <3>3, <3>4 DEF Listed, KnownIn
    <2>3. CASE stage = "apply" /\ IP!Write(IP!UpsertBackfill(tx, token, IP!NewRecord))
      <3>1. /\ token \in Extras /\ IP!NewRecord \in IP!BackfillRecord
            /\ IP!NewRecord.known = db.bf[token].known
        BY <2>3, IP!NewRecordFacts, ImportConstants DEF Typed, IP!TypeInv, IP!CursorInv
      <3> QED
        BY <2>0, <2>2, <2>3, <3>1
    <2>4. ASSUME stage = "verify", NEW v \in BOOLEAN,
                 IP!Write(IP!UpsertBackfill(db, token, IP!CheckedRecord(v)))
          PROVE  Listed(db)' /\ Listed(tx)' /\ Listed(durable)' /\ KnownIn(db)' = KnownIn(db)
      <3>1. /\ token \in Extras /\ IP!CheckedRecord(v) \in IP!BackfillRecord
            /\ IP!CheckedRecord(v).known = db.bf[token].known
        BY <2>4, IP!CheckedRecordFacts, ImportConstants DEF Typed, IP!TypeInv, IP!CursorInv
      <3> QED
        BY <2>2, <2>4, <3>1
    <2> QED
      BY <1>4, <2>0, <2>1, <2>3, <2>4, ImportStore
  <1> QED
    BY <1>3, <1>4

LEMMA ControlStep == Typed /\ Control /\ [Next]_vars => Control'
PROOF
  <1> SUFFICES ASSUME Typed, Control, [Next]_vars PROVE Control'
    OBVIOUS
  <1>0. WaitInv'
    BY WaitStep DEF Control
  <1>1. CASE SyncNext
    <2>1. SyncMove
      BY <1>1 DEF SyncNext
    <2>2. /\ indexed' = indexed /\ stage' = stage
          /\ phase \in {"startup", "live"} <=> phase' \in {"startup", "live"}
          /\ phase' \notin {"down", "register"} => phase \notin {"down", "register"}
          /\ phase' \notin {"startup", "live"} => pc' = pc
      <3>1. SP!ProduceBlock \/ SP!Finalize => pc' = pc
        BY DEF SP!ProduceBlock, SP!Finalize
      <3> QED
        BY <2>1, <3>1 DEF SyncMove, importer
    <2>3. indexed' <= lib'
      <3>1. lib' \in {lib, lib + 1}
        <4>1. SP!node' = SP!node \/ SP!ProduceBlock \/ SP!Finalize
          BY <2>1, Zenon
          DEF SyncMove, SP!SyncStep, SP!StartSync, SP!ReceiveBlocks, SP!LoopDone, SP!Return,
              SP!BeginBlock, SP!ApplyChange, SP!ClearHistory, SP!WriteTransfer, SP!FinishBlock,
              SP!Commit, SP!EmptyAnswer, SP!RpcError, SP!WriteError
        <4> QED
          BY <4>1 DEF SP!node, SP!ProduceBlock, SP!Finalize
      <3> QED
        BY <2>2, <3>1 DEF Control, Typed, SP!TypeInv, SP!TypeOK, IP!TypeInv, IP!TypeOK
    <2> QED
      BY <1>0, <2>1, <2>2, <2>3, ListedStep DEF Control
  <1>2. CASE ImportNext
    <2>1. ImportMove
      BY <1>2 DEF ImportNext
    <2>2. pc' = pc /\ lib' = lib
      BY <2>1 DEF ImportMove, syncer, node
    <2>3. CASE /\ phase = "backfill"
               /\ phase' = IF stage' = "ready" THEN "startup" ELSE "backfill"
               /\ indexed' = indexed
      BY <1>0, <2>1, <2>2, <2>3, ListedStep DEF Control
    <2>4. CASE phase' = phase /\ IP!AdvanceIndexer /\ indexed < lib
      <3>1. stage' = stage /\ indexed' = indexed + 1
        BY <2>4 DEF IP!AdvanceIndexer
      <3>2. indexed' <= lib'
        BY <2>2, <2>4, <3>1 DEF Typed, SP!TypeInv, SP!TypeOK, IP!TypeInv, IP!TypeOK
      <3> QED
        BY <1>0, <2>1, <2>2, <2>4, <3>1, <3>2, ListedStep DEF Control
    <2> QED
      BY <2>1, <2>3, <2>4 DEF ImportMove
  <1>3. CASE QuietMove
    <2>1. UNCHANGED <<chain, lib, indexed, db, tx, durable, pc, stage>>
      BY <1>3 DEF QuietMove, node, store, syncer, importer
    <2>2. /\ Listed(db)' /\ Listed(tx)' /\ Listed(durable)' /\ KnownIn(db)' = KnownIn(db)
      BY <2>1 DEF Control, Listed, KnownIn
    <2>3. db.tokens \ {Koin, Vhp} = KnownIn(db)
      BY ContractsAssumption DEF Control, Listed, KnownIn, BaseContracts
    <2> QED
      BY <1>0, <1>3, <2>1, <2>2, <2>3 DEF QuietMove, Control
  <1>4. CASE Stop
    <2>1. /\ chain' = chain /\ lib' = lib /\ indexed' = indexed /\ pc' = "idle" /\ phase' = "down"
      BY <1>4 DEF Stop, node
    <2>2. Listed(db)' /\ Listed(tx)' /\ Listed(durable)'
      BY <1>4 DEF Stop, Control, Listed, KnownIn
    <2> QED
      BY <1>0, <2>1, <2>2 DEF Control
  <1>5. ASSUME NEW t \in Extras, Registration(t) PROVE Control'
    <2>1. /\ chain' = chain /\ lib' = lib /\ indexed' = indexed /\ pc' = pc
          /\ phase' = "register" /\ phase = "register"
      BY <1>5 DEF Registration, node, syncer
    <2>2. /\ tx' = db' /\ durable' \in {durable, db'}
          /\ db'.bf[t].known /\ (\A u \in Extras \ {t} : db'.bf[u] = db.bf[u])
          /\ db'.tokens = db.tokens \cup {t}
      BY <1>5, RegistrationStore
    <2>3. Listed(db')
      BY <2>2 DEF Control, Listed, KnownIn
    <2>4. Listed(db)' /\ Listed(tx)' /\ Listed(durable)'
      BY <2>2, <2>3 DEF Control, Listed, KnownIn
    <2> QED
      BY <1>0, <2>1, <2>4 DEF Control
  <1> QED
    BY <1>1, <1>2, <1>3, <1>4, <1>5, StepKinds DEF Typed

----------------------------------------------------------------------------
(* Blocks and cursors: the invariants of the components hold of the store  *)
(* they share, because either leaves the tables of the other alone.        *)

Placed == SP!ForkInv /\ SP!GapInv /\ IP!ReplayInv

LEMMA PlacedInit == GenesisLib >= 1 /\ Init => Placed
PROOF
  <1>1. GenesisLib >= 1 /\ Init => SP!ForkInv
    BY InitOfParts, SP!ForkInit, SyncConstants, Zenon
  <1>2. Init => SP!GapInv
    BY InitOfParts, SP!GapInit, SyncConstants, Zenon
  <1>3. Init => IP!PlaceInv
    BY InitOfParts, IP!PlaceInit, ImportConstants, Zenon
  <1> QED
    BY <1>1, <1>2, <1>3 DEF Placed, IP!PlaceInv

LEMMA ReplayUnchanged ==
  ASSUME IP!ReplayInv, UNCHANGED <<chain, importer, indexed>>,
         db'.bf = db.bf, durable'.bf \in {durable.bf, db.bf}
  PROVE  IP!ReplayInv'
PROOF
  <1>1. /\ History' = History
        /\ UNCHANGED <<indexed, stage, todo, token, seq, covered, page, outcome, at, op>>
    <2>1. History' = History
      BY Zenon DEF History
    <2> QED
      BY <2>1 DEF importer
  <1>2. IP!NotBeyond(db)' /\ IP!NotBeyond(durable)'
    BY <1>1 DEF IP!ReplayInv, IP!NotBeyond
  <1>3. IP!Position' /\ IP!Pending'
    BY <1>1 DEF IP!ReplayInv, IP!Position, IP!Pending, IP!RegisteredIn
  <1>4. IP!PageRead'
    <2>1. \A u, e : IP!Unusable(u, e)' <=> IP!Unusable(u, e)
      BY DEF IP!Unusable, IP!Recognised
    <2>2. IP!PageHolds(token, seq, page, outcome)' <=> IP!PageHolds(token, seq, page, outcome)
      BY <1>1, <2>1, Zenon DEF IP!PageHolds
    <2> QED
      BY <1>1, <2>2, Zenon DEF IP!ReplayInv, IP!PageRead
  <1> QED
    BY <1>2, <1>3, <1>4 DEF IP!ReplayInv

LEMMA SyncKeepsReplay ==
  ASSUME Typed, IP!ReplayInv, SyncMove
  PROVE  IP!ReplayInv'
PROOF
  <1>1. chain' = chain /\ tx.bf = db.bf
    BY SyncStore DEF Typed, IP!TypeInv, IP!CursorInv
  <1>2. UNCHANGED <<importer, indexed>>
    BY DEF SyncMove
  <1>3. db'.bf = db.bf /\ durable'.bf \in {durable.bf, db.bf}
    BY <1>1, SyncStore DEF SameRegister, Typed
  <1> QED
    BY <1>1, <1>2, <1>3, ReplayUnchanged

(* What the import does to blocks and heights: nothing.                    *)
LEMMA ImportBlocks ==
  ASSUME Typed, Control, ImportMove, phase = "backfill"
  PROVE
            /\ db'.height = db.height /\ tx'.height = db.height
            /\ db'.blocks \in {db.blocks, tx.blocks} /\ tx'.blocks \in {db.blocks, tx.blocks}
            /\ durable' \in {durable, db'}
PROOF
  <1>1. tx.height = db.height
    BY DEF Control, WaitInv, ImportInv
  <1>2. ASSUME NEW s \in {tx, db}, NEW rec \in IP!BackfillRecord, token \in Extras,
               rec.known = db.bf[token].known, IP!Write(IP!UpsertBackfill(s, token, rec))
        PROVE  /\ db'.height = db.height /\ tx'.height = db.height
               /\ db'.blocks = s.blocks /\ tx'.blocks = s.blocks /\ durable' \in {durable, db'}
    BY <1>1, <1>2, RecordStore
  <1>3. CASE stage = "apply" /\ IP!Write(IP!UpsertBackfill(tx, token, IP!NewRecord))
    <2>1. /\ token \in Extras /\ IP!NewRecord \in IP!BackfillRecord
          /\ IP!NewRecord.known = db.bf[token].known
      BY <1>3, IP!NewRecordFacts, ImportConstants DEF Typed, IP!TypeInv, IP!CursorInv
    <2> QED
      BY <1>2, <1>3, <2>1
  <1>4. ASSUME stage = "verify", NEW v \in BOOLEAN,
               IP!Write(IP!UpsertBackfill(db, token, IP!CheckedRecord(v)))
        PROVE  /\ db'.height = db.height /\ tx'.height = db.height
               /\ db'.blocks = db.blocks /\ tx'.blocks = db.blocks /\ durable' \in {durable, db'}
    <2>1. /\ token \in Extras /\ IP!CheckedRecord(v) \in IP!BackfillRecord
          /\ IP!CheckedRecord(v).known = db.bf[token].known
      BY <1>4, IP!CheckedRecordFacts, ImportConstants DEF Typed, IP!TypeInv, IP!CursorInv
    <2> QED
      BY <1>2, <1>4, <2>1
  <1> QED
    BY <1>1, <1>3, <1>4, ImportStore DEF SameProgress

LEMMA PlacedStep ==
  ASSUME SP!FullAnswers, Typed, Control, Placed, [Next]_vars
  PROVE  Placed'
PROOF
  <1>0. Typed' /\ Control'
    BY TypedStep, ControlStep
  <1>1. CASE SyncNext
    <2>1. SP!ForkInv' /\ SP!GapInv'
      BY <1>0, <1>1, SP!ForkStep, SP!GapStep, SyncConstants, Zenon DEF Typed, Placed, SyncNext
    <2>2. IP!ReplayInv'
      BY <1>1, SyncKeepsReplay DEF Placed, SyncNext
    <2> QED
      BY <2>1, <2>2 DEF Placed
  <1>2. CASE ImportNext
    <2>1. IP!ReplayInv'
      BY <1>2, IP!ReplayStep, ImportConstants, Zenon DEF Typed, Placed, ImportNext
    <2>2. UNCHANGED <<chain, lib, pc, cur, target, safe, items, pos, k>>
      BY <1>2 DEF ImportNext, ImportMove, node, syncer
    <2>3. CASE IP!AdvanceIndexer
      <3>1. UNCHANGED <<db, tx, durable>>
        BY <2>3 DEF IP!AdvanceIndexer, IP!store
      <3>2. SP!ForkInv' /\ SP!GapInv'
        BY <2>2, <3>1, Zenon
        DEF Placed, SP!ForkInv, SP!GapInv, SP!Final, SP!Gapless, SP!InBatch, SP!Count
      <3> QED
        BY <2>1, <3>2 DEF Placed
    <2>4. CASE phase = "backfill"
      <3>1. /\ db'.height = db.height /\ tx'.height = db.height
            /\ db'.blocks \in {db.blocks, tx.blocks} /\ tx'.blocks \in {db.blocks, tx.blocks}
            /\ durable' \in {durable, db'}
        BY <1>2, <2>4, ImportBlocks DEF ImportNext
      <3>2. pc = "idle" /\ tx.height = db.height /\ db.height \in Nat /\ durable.height \in Nat
        BY <2>4, StoreAssumption
        DEF Control, WaitInv, ImportInv, Typed, SP!TypeInv, SP!TypeOK, SP!Database
      <3>3. ASSUME NEW s, NEW r, r.blocks = s.blocks
            PROVE  SP!Final(s) /\ UNCHANGED <<chain, lib>> => SP!Final(r)
        BY <3>3 DEF SP!Final
      <3>4. SP!Final(db') /\ SP!Final(tx') /\ SP!Final(durable')
        BY <2>2, <3>1, <3>3 DEF Placed, SP!ForkInv, SP!Final
      <3>5. SP!ForkInv'
        BY <2>2, <3>2, <3>4 DEF Placed, SP!ForkInv, SP!Final, SP!InBatch
      <3>6. SP!Gapless(db') /\ SP!Gapless(tx') /\ SP!Gapless(durable')
        BY <3>1, <3>2 DEF Placed, SP!GapInv, SP!Gapless
      <3>7. SP!GapInv'
        BY <2>2, <3>1, <3>2, <3>6 DEF Placed, SP!GapInv, SP!Gapless, SP!InBatch
      <3> QED
        BY <2>1, <3>5, <3>7 DEF Placed
    <2> QED
      BY <1>2, <2>3, <2>4 DEF ImportNext, ImportMove
  <1>3. CASE QuietMove
    <2>1. /\ UNCHANGED <<chain, lib, pc, cur, target, safe, items, pos, k>>
          /\ UNCHANGED <<indexed, stage, todo, token, seq, covered, page, outcome, at, op, faults>>
          /\ UNCHANGED <<db, tx, durable>>
      BY <1>3 DEF QuietMove, node, syncer, importer, store
    <2>2. History' = History
      BY <2>1, Zenon DEF History
    <2>3. SP!ForkInv' /\ SP!GapInv'
      BY <2>1, Zenon
      DEF Placed, SP!ForkInv, SP!GapInv, SP!Final, SP!Gapless, SP!InBatch, SP!Count
    <2>4. IP!ReplayInv'
      BY <1>3, <2>1, ReplayUnchanged DEF QuietMove, Placed
    <2> QED
      BY <2>3, <2>4 DEF Placed
  <1>4. CASE Stop
    <2>1. /\ chain' = chain /\ lib' = lib /\ pc' = "idle" /\ stage' = "paused" /\ todo' = {}
          /\ db' \in {db, durable} /\ tx' = db' /\ durable' = durable
      BY <1>4 DEF Stop, node, IP!ResetLocals
    <2>2. SP!ForkInv' /\ SP!GapInv'
      <3>1. db.height \in Nat /\ durable.height \in Nat
        BY StoreAssumption DEF Typed, SP!TypeInv, SP!TypeOK, SP!Database
      <3> QED
        BY <2>1, <3>1 DEF Placed, SP!ForkInv, SP!GapInv, SP!Final, SP!Gapless, SP!InBatch
    <2>3. History' = History
      BY <2>1, Zenon DEF History
    <2>4. IP!ReplayInv'
      BY <2>1, <2>3
      DEF Placed, IP!ReplayInv, IP!NotBeyond, IP!Position, IP!PageRead, IP!Pending,
          IP!RegisteredIn
    <2> QED
      BY <2>2, <2>4 DEF Placed
  <1>5. ASSUME NEW t \in Extras, Registration(t) PROVE Placed'
    <2>1. /\ UNCHANGED <<chain, lib, pc, cur, target, safe, items, pos, k>>
          /\ stage' = stage /\ todo' = todo /\ phase = "register"
      BY <1>5 DEF Registration, node, syncer, importer
    <2>2. /\ tx' = db' /\ durable' \in {durable, db'}
          /\ db'.bf[t].next = 0 /\ \A u \in Extras \ {t} : db'.bf[u] = db.bf[u]
          /\ db'.bf[t].known /\ db'.height = db.height /\ db'.blocks = db.blocks
      BY <1>5, RegistrationStore
    <2>3. stage = "paused" /\ pc = "idle"
      BY <2>1 DEF Control, WaitInv
    <2>4. SP!ForkInv' /\ SP!GapInv'
      <3>1. db.height \in Nat /\ durable.height \in Nat
        BY StoreAssumption DEF Typed, SP!TypeInv, SP!TypeOK, SP!Database
      <3> QED
        BY <2>1, <2>2, <2>3, <3>1
        DEF Placed, SP!ForkInv, SP!GapInv, SP!Final, SP!Gapless, SP!InBatch
    <2>5. History' = History
      BY <2>1, Zenon DEF History
    <2>6. \A i \in DOMAIN History[t] : ~(i <= 0)
      <3>1. DOMAIN History[t] = 1 .. Len(History[t])
        BY HistoryOfChain DEF Control, History
      <3> QED
        BY <3>1
    <2>7. IP!NotBeyond(db')
      BY <2>2, <2>6 DEF Placed, IP!ReplayInv, IP!NotBeyond
    <2>8. IP!NotBeyond(db)' /\ IP!NotBeyond(durable)'
      BY <2>2, <2>5, <2>7 DEF Placed, IP!ReplayInv, IP!NotBeyond
    <2>9. IP!ReplayInv'
      BY <2>1, <2>2, <2>3, <2>8
      DEF Placed, IP!ReplayInv, IP!Position, IP!PageRead, IP!Pending, IP!RegisteredIn
    <2> QED
      BY <2>4, <2>9 DEF Placed
  <1> QED
    BY <1>1, <1>2, <1>3, <1>4, <1>5, StepKinds DEF Typed

----------------------------------------------------------------------------
(* The data.  A position is that of an event on the chain, as in           *)
(* BlockSyncProofs; what the history service serves are the same events.   *)

Counts(t, e) == e.source = t /\ ~e.reverted /\ e.kind # "other" /\ e.value \in 1 .. MaxSafeValue

TrackedMoves(t) == {p \in SP!AllPositions : Counts(t, SP!At(p))}

(* The moves of t before event m of block n.                               *)
Upto(t, n, m) == {p \in TrackedMoves(t) : SP!Before(p, n, m)}

(* The height of entry n + 1 of the history, beyond the chain if none is.  *)
Reach(t, n) == IF n < Len(History[t]) THEN History[t][n + 1].height ELSE NotSeen

LEMMA SameEvents ==
  /\ \A e : /\ SP!Debited(e) = Debited(e) /\ SP!Credited(e) = Credited(e)
            /\ IP!Debited(e) = Debited(e) /\ IP!Credited(e) = Credited(e)
  /\ \A e : SP!NormalizeToken(e) = NormalizeToken(e)
  BY DEF SP!Debited, SP!Credited, IP!Debited, IP!Credited, Debited, Credited,
         SP!NormalizeToken, NormalizeToken

LEMMA UptoNext ==
  ASSUME SP!TypeInv, NEW t, NEW h \in Heights, NEW i \in Nat
  PROVE  /\ Upto(t, h, i + 1) = Upto(t, h, i) \cup ({<<h, i>>} \cap TrackedMoves(t))
         /\ <<h, i>> \notin Upto(t, h, i)
PROOF
  <1>1. TrackedMoves(t) \subseteq SP!AllPositions
    BY DEF TrackedMoves
  <1>2. SP!Heights = Heights
    BY SameTypes
  <1>3. \A p \in SP!AllPositions :
           /\ SP!Before(p, h, i + 1) <=> SP!Before(p, h, i) \/ p = <<h, i>>
           /\ ~SP!Before(<<h, i>>, h, i)
    BY <1>2, SP!BeforeSteps, SyncConstants
  <1>4. Upto(t, h, i + 1) = Upto(t, h, i) \cup ({<<h, i>>} \cap TrackedMoves(t))
    BY <1>1, <1>3 DEF Upto
  <1>5. <<h, i>> \notin Upto(t, h, i)
    BY <1>1, <1>3 DEF Upto
  <1> QED
    BY <1>4, <1>5

LEMMA UptoWraps ==
  ASSUME SP!TypeInv, NEW t, NEW h \in Heights, NEW i \in Nat, i > Len(SP!EventsAt(h))
  PROVE  Upto(t, h, i) = Upto(t, h + 1, 1)
PROOF
  <1>1. TrackedMoves(t) \subseteq SP!AllPositions
    BY DEF TrackedMoves
  <1>2. SP!Heights = Heights
    BY SameTypes
  <1>3. \A p \in SP!AllPositions : SP!Before(p, h, i) <=> SP!Before(p, h + 1, 1)
    BY <1>2, SP!BeforeSteps, SyncConstants
  <1> QED
    BY <1>1, <1>3 DEF Upto

LEMMA UptoFacts ==
  ASSUME SP!TypeInv, NEW t
  PROVE  /\ TrackedMoves(t) \subseteq SP!AllPositions
         /\ \A n, m : Upto(t, n, m) \subseteq SP!AllPositions /\ IsFiniteSet(Upto(t, n, m))
         /\ Upto(t, 1, 1) = {}
PROOF
  <1>1. TrackedMoves(t) \subseteq SP!AllPositions
    BY DEF TrackedMoves
  <1>2. \A n, m : Upto(t, n, m) \subseteq SP!AllPositions /\ IsFiniteSet(Upto(t, n, m))
    <2>1. IsFiniteSet(SP!AllPositions)
      BY SP!PositionFacts, SyncConstants, SameLibrary
    <2>2. \A n, m : Upto(t, n, m) \subseteq SP!AllPositions
      BY <1>1 DEF Upto
    <2> QED
      BY <2>1, <2>2, FS_Subset
  <1>3. SP!Heights = Heights /\ Heights \subseteq Nat
    BY SameTypes, StoreAssumption DEF Heights
  <1>4. Upto(t, 1, 1) = {}
    <2>1. \A p \in SP!AllPositions : p[1] \in Nat \ {0}
      BY <1>3, SP!PositionFacts, SyncConstants, StoreAssumption DEF Heights
    <2>2. \A p \in SP!AllPositions : p[2] \in Nat \ {0}
      BY SP!PositionFacts, SyncConstants
    <2>3. \A p \in SP!AllPositions : ~SP!Before(p, 1, 1)
      BY <2>1, <2>2 DEF SP!Before
    <2> QED
      BY <1>1, <2>3 DEF Upto
  <1> QED
    BY <1>1, <1>2, <1>4

(* Entry n of the history is the block of its height, and the moves before *)
(* the block of an entry are those of the entries before it.               *)
LEMMA EntryFacts ==
  ASSUME SP!TypeInv, chain \in Chains, NEW t \in Extras
  PROVE  /\ Len(History[t]) \in Nat /\ DOMAIN History[t] = 1 .. Len(History[t])
         /\ \A n \in DOMAIN History[t] :
               /\ Reach(t, n - 1) = History[t][n].height /\ History[t][n].height \in Heights
               /\ History[t][n].events = SP!EventsAt(History[t][n].height)
               /\ Upto(t, History[t][n].height + 1, 1) = Upto(t, Reach(t, n), 1)
         /\ Upto(t, Reach(t, 0), 1) = {}
         /\ \A n \in 0 .. Len(History[t]), c \in Nat :
               (\A i \in DOMAIN History[t] : History[t][i].height <= c <=> i <= n)
                  => Upto(t, Reach(t, n), 1) = Upto(t, c + 1, 1)
PROOF
  <1> DEFINE es == History[t]
  <1>0. History = HistoryOn(chain)
    BY DEF History
  <1>1. /\ Len(es) \in Nat /\ DOMAIN es = 1 .. Len(es)
        /\ \A i \in DOMAIN es : es[i].height \in EventHeights(chain, t)
        /\ \A i \in DOMAIN es : es[i].events = Body[chain[es[i].height]].events
        /\ \A i, j \in DOMAIN es : i < j <=> es[i].height < es[j].height
        /\ \A h \in EventHeights(chain, t) : \E i \in DOMAIN es : es[i].height = h
    BY <1>0, HistoryOfChain
  <1> HIDE DEF es
  <1>2. EventHeights(chain, t) \subseteq Heights /\ Heights \subseteq Nat /\ NotSeen \in Nat
        /\ \A h \in Heights : h < NotSeen
    BY StoreAssumption DEF EventHeights, Heights, NotSeen
  <1>3. \A p \in TrackedMoves(t) :
           /\ p[1] \in Nat /\ p[2] \in Nat \ {0}
           /\ \E i \in DOMAIN es : es[i].height = p[1]
    <2> SUFFICES ASSUME NEW p \in TrackedMoves(t)
                 PROVE  /\ p[1] \in Nat /\ p[2] \in Nat \ {0}
                        /\ \E i \in DOMAIN es : es[i].height = p[1]
      OBVIOUS
    <2>1. p \in SP!AllPositions /\ SP!At(p).source = t
      BY DEF TrackedMoves, Counts
    <2>2. p[1] \in Heights /\ p[1] \in Nat /\ p[2] \in Nat \ {0} /\ p[2] \in DOMAIN SP!EventsAt(p[1])
      BY <2>1, SP!PositionFacts, SyncConstants, SameTypes
    <2>3. p[1] \in EventHeights(chain, t)
      BY <2>1, <2>2 DEF EventHeights, SP!At, SP!EventsAt
    <2> QED
      BY <1>1, <2>2, <2>3
  <1>4. ASSUME NEW n \in 0 .. Len(es), NEW c \in Nat,
               \A i \in DOMAIN es : es[i].height <= c <=> i <= n
        PROVE  Upto(t, Reach(t, n), 1) = Upto(t, c + 1, 1)
    <2>1. CASE n < Len(es)
      <3>1. n + 1 \in DOMAIN es /\ Reach(t, n) = es[n + 1].height
        BY <1>1, <2>1 DEF Reach, es
      <3>2. ASSUME NEW i \in DOMAIN es
            PROVE  es[i].height < es[n + 1].height <=> es[i].height < c + 1
        <4>1. i < n + 1 <=> i <= n
          BY <1>1
        <4>2. es[i].height < es[n + 1].height <=> es[i].height <= c
          BY <1>1, <1>4, <3>1, <4>1
        <4>3. es[i].height \in Nat
          BY <1>1, <1>2
        <4> QED
          BY <4>2, <4>3
      <3>3. es[n + 1].height \in Nat
        BY <1>1, <1>2, <3>1
      <3>4. \A p \in TrackedMoves(t) :
               SP!Before(p, es[n + 1].height, 1) <=> SP!Before(p, c + 1, 1)
        BY <1>3, <3>2, <3>3 DEF SP!Before
      <3> QED
        BY <3>1, <3>4 DEF Upto
    <2>2. CASE ~(n < Len(es))
      <3>1. Reach(t, n) = NotSeen
        BY <2>2 DEF Reach, es
      <3>2. ASSUME NEW i \in DOMAIN es
            PROVE  es[i].height < NotSeen /\ es[i].height < c + 1 /\ es[i].height \in Nat
        <4>1. i <= n
          BY <1>1, <2>2
        <4>2. es[i].height <= c
          BY <1>4, <4>1
        <4>3. es[i].height \in Heights
          BY <1>1, <1>2
        <4>4. es[i].height \in Nat /\ es[i].height < NotSeen
          BY <1>2, <4>3
        <4> QED
          BY <4>2, <4>4
      <3>3. \A p \in TrackedMoves(t) : SP!Before(p, NotSeen, 1) <=> SP!Before(p, c + 1, 1)
        BY <1>2, <1>3, <3>2 DEF SP!Before
      <3> QED
        BY <3>1, <3>3 DEF Upto
    <2> QED
      BY <2>1, <2>2
  <1>5. ASSUME NEW n \in DOMAIN es
        PROVE  /\ Reach(t, n - 1) = es[n].height /\ es[n].height \in Heights
               /\ es[n].events = SP!EventsAt(es[n].height)
               /\ Upto(t, es[n].height + 1, 1) = Upto(t, Reach(t, n), 1)
    <2>1. n - 1 < Len(es) /\ (n - 1) + 1 = n /\ n \in 0 .. Len(es)
      BY <1>1
    <2>2. Reach(t, n - 1) = es[n].height
      BY <2>1 DEF Reach, es
    <2>3. es[n].height \in Heights /\ es[n].height \in Nat
      BY <1>1, <1>2
    <2>4. es[n].events = SP!EventsAt(es[n].height)
      BY <1>1 DEF SP!EventsAt
    <2>5. ASSUME NEW i \in DOMAIN es PROVE es[i].height <= es[n].height <=> i <= n
      <3>0. es[i].height \in Heights
        BY <1>1, <1>2
      <3>a. es[i].height \in Nat
        BY <1>2, <3>0
      <3>b. i \in Nat /\ n \in Nat
        BY <1>1
      <3>1. i \in Nat /\ n \in Nat /\ es[i].height \in Nat
        BY <3>a, <3>b
      <3>2. n < i <=> es[n].height < es[i].height
        BY <1>1
      <3> QED
        BY <2>3, <3>1, <3>2
    <2>6. Upto(t, Reach(t, n), 1) = Upto(t, es[n].height + 1, 1)
      BY <1>4, <2>1, <2>3, <2>5
    <2> QED
      BY <2>2, <2>3, <2>4, <2>6
  <1>6. Upto(t, Reach(t, 0), 1) = {}
    <2>1. \A i \in DOMAIN es : es[i].height <= 0 <=> i <= 0
      <3>1. \A i \in DOMAIN es : es[i].height \in Nat \ {0} /\ i \in Nat \ {0}
        BY <1>1, <1>2 DEF Heights
      <3> QED
        BY <3>1
    <2>2. 0 \in 0 .. Len(es) /\ 0 + 1 = 1
      BY <1>1
    <2>3. Upto(t, Reach(t, 0), 1) = Upto(t, 1, 1)
      BY <1>4, <2>1, <2>2
    <2> QED
      BY <2>3, UptoFacts
  <1>7. /\ \A n \in DOMAIN es :
               /\ Reach(t, n - 1) = es[n].height /\ es[n].height \in Heights
               /\ es[n].events = SP!EventsAt(es[n].height)
               /\ Upto(t, es[n].height + 1, 1) = Upto(t, Reach(t, n), 1)
        /\ \A n \in 0 .. Len(es), c \in Nat :
               (\A i \in DOMAIN es : es[i].height <= c <=> i <= n)
                  => Upto(t, Reach(t, n), 1) = Upto(t, c + 1, 1)
    BY <1>4, <1>5
  <1> QED
    BY <1>1, <1>6, <1>7 DEF es

(* What a database shows of token t: one row for each position of P, and   *)
(* for each account the sum over Q.                                        *)
RowsOf(s, t) == {r \in s.rows : r.token = t}

RowsAre(s, t, P) ==
    /\ IsFiniteSet(RowsOf(s, t)) /\ Cardinality(RowsOf(s, t)) = Cardinality(P)
    /\ \A r \in RowsOf(s, t) : \E p \in P : r.height = p[1]

SumsAre(s, t, Q) == \A x \in Accounts : s.bal[t][x] = SP!Net(x, Q)

(* No event of a token debits more than what the events before it left: a  *)
(* token contract sees to that.  The code cuts a balance off at zero       *)
(* otherwise, and it is a sum no more.                                     *)
Covered ==
    \A t \in Extras : \A p \in TrackedMoves(t) :
        Debited(SP!At(p)) \in Accounts =>
            SP!Net(Debited(SP!At(p)), Upto(t, p[1], p[2])) >= SP!At(p).value

Holds(s, t, P, Q) == RowsAre(s, t, P) /\ (Covered => SumsAre(s, t, Q))

(* One more event of t.                                                    *)
LEMMA SumsGrow ==
  ASSUME SP!TypeInv, NEW t \in Extras, NEW h \in Heights, NEW i \in Nat,
         <<h, i>> \in TrackedMoves(t), Covered, NEW s, NEW r,
         SumsAre(s, t, Upto(t, h, i)),
         LET e == SP!At(<<h, i>>)
         IN  (Debited(e) \in Accounts => s.bal[t][Debited(e)] >= e.value) =>
                \A x \in Accounts :
                   r.bal[t][x] = s.bal[t][x] + (IF x = Credited(e) THEN e.value ELSE 0)
                                             - (IF x = Debited(e) THEN e.value ELSE 0)
  PROVE  SumsAre(r, t, Upto(t, h, i + 1))
PROOF
  <1> DEFINE p == <<h, i>>
             e == SP!At(p)
             P == Upto(t, h, i)
  <1>1. p[1] = h /\ p[2] = i
    OBVIOUS
  <1>2. p \in TrackedMoves(t) /\ p \in SP!AllPositions /\ P \in SUBSET SP!AllPositions
        /\ p \notin P /\ Upto(t, h, i + 1) = P \cup {p}
    BY UptoFacts, UptoNext
  <1>3. e.kind \in SP!TransferKinds
    BY <1>2, SP!PositionFacts, SyncConstants DEF TrackedMoves, Counts, SP!Event
  <1>4. Debited(e) \in Accounts => SP!Net(Debited(e), P) >= e.value
    BY <1>1, <1>2 DEF Covered
  <1>5. (Debited(e) \in Accounts => s.bal[t][Debited(e)] >= e.value) =>
           \A x \in Accounts :
              r.bal[t][x] = s.bal[t][x] + (IF x = Credited(e) THEN e.value ELSE 0)
                                        - (IF x = Debited(e) THEN e.value ELSE 0)
    OBVIOUS
  <1>6. \A x \in Accounts : s.bal[t][x] = SP!Net(x, P)
    BY DEF SumsAre
  <1> HIDE DEF p, P
  <1>7. \A x \in Accounts :
           SP!Net(x, P \cup {p}) =
             SP!Net(x, P) + (IF x = Credited(SP!At(p)) THEN SP!At(p).value ELSE 0)
                          - (IF x = Debited(SP!At(p)) THEN SP!At(p).value ELSE 0)
    BY <1>2, <1>3, SP!NetGrows, SyncConstants, SameEvents
  <1> HIDE DEF e
  <1>8. \A x \in Accounts : r.bal[t][x] = SP!Net(x, P \cup {p})
    <2>1. \A x \in Accounts :
              r.bal[t][x] = s.bal[t][x] + (IF x = Credited(e) THEN e.value ELSE 0)
                                        - (IF x = Debited(e) THEN e.value ELSE 0)
      BY <1>4, <1>5, <1>6
    <2> QED
      BY <1>6, <1>7, <2>1 DEF e
  <1> QED
    BY <1>2, <1>8 DEF SumsAre

(* A row under a fresh id.                                                 *)
LEMMA RowAdded ==
  ASSUME NEW s \in Database, SP!IdsBelow(s), NEW r, NEW row, row.id = s.lastId + 1,
         r.rows = s.rows \cup {row}, r.lastId = s.lastId + 1
  PROVE  /\ SP!IdsBelow(r)
         /\ \A u, P : u # row.token /\ RowsAre(s, u, P) => RowsAre(r, u, P)
         /\ \A P, p : RowsAre(s, row.token, P) /\ IsFiniteSet(P) /\ p \notin P /\ row.height = p[1]
                         => RowsAre(r, row.token, P \cup {p})
PROOF
  <1>1. s.lastId \in Nat /\ \A q \in s.rows : q.id \in Nat /\ q.id <= s.lastId
    BY DEF Database, Transfer, SP!IdsBelow
  <1>2. SP!IdsBelow(r)
    BY <1>1 DEF SP!IdsBelow
  <1>3. row \notin s.rows
    BY <1>1
  <1>4. \A u : u # row.token => RowsOf(r, u) = RowsOf(s, u)
    BY DEF RowsOf
  <1>5. \A u, P : u # row.token /\ RowsAre(s, u, P) => RowsAre(r, u, P)
    BY <1>4 DEF RowsAre
  <1>6. ASSUME NEW P, NEW p, RowsAre(s, row.token, P), IsFiniteSet(P), p \notin P,
               row.height = p[1]
        PROVE  RowsAre(r, row.token, P \cup {p})
    <2> DEFINE S == RowsOf(s, row.token)
    <2>1. RowsOf(r, row.token) = S \cup {row} /\ row \notin S
      BY <1>3 DEF RowsOf
    <2>2. IsFiniteSet(S) /\ Cardinality(S) = Cardinality(P)
          /\ \A q \in S : \E o \in P : q.height = o[1]
      BY <1>6 DEF RowsAre
    <2> HIDE DEF S
    <2>3. IsFiniteSet(S \cup {row}) /\ Cardinality(S \cup {row}) = Cardinality(S) + 1
      BY <2>1, <2>2, FS_AddElement
    <2>4. Cardinality(P \cup {p}) = Cardinality(P) + 1
      BY <1>6, FS_AddElement
    <2>5. \A q \in S \cup {row} : \E o \in P \cup {p} : q.height = o[1]
      BY <1>6, <2>2
    <2> QED
      BY <2>1, <2>2, <2>3, <2>4, <2>5 DEF RowsAre
  <1> QED
    BY <1>2, <1>5, <1>6

(* Only rows, ids and balances matter.                                     *)
LEMMA HoldsAlike ==
  ASSUME NEW s, NEW r, r.rows = s.rows, NEW t
  PROVE  /\ \A P : RowsAre(s, t, P) => RowsAre(r, t, P)
         /\ r.lastId = s.lastId /\ SP!IdsBelow(s) => SP!IdsBelow(r)
         /\ (\A x \in Accounts : r.bal[t][x] = s.bal[t][x]) =>
               /\ \A Q : SumsAre(s, t, Q) => SumsAre(r, t, Q)
               /\ \A P, Q : Holds(s, t, P, Q) => Holds(r, t, P, Q)
PROOF
  <1>1. RowsOf(r, t) = RowsOf(s, t)
    BY DEF RowsOf
  <1>2. \A P : RowsAre(s, t, P) => RowsAre(r, t, P)
    BY <1>1 DEF RowsAre
  <1>3. (\A x \in Accounts : r.bal[t][x] = s.bal[t][x]) =>
               \A Q : SumsAre(s, t, Q) => SumsAre(r, t, Q)
    BY DEF SumsAre
  <1>4. r.lastId = s.lastId /\ SP!IdsBelow(s) => SP!IdsBelow(r)
    BY DEF SP!IdsBelow
  <1> QED
    BY <1>2, <1>3, <1>4 DEF Holds

LEMMA SameMoves ==
  ASSUME chain' = chain
  PROVE  /\ \A t : TrackedMoves(t)' = TrackedMoves(t)
         /\ \A t, n, m : Upto(t, n, m)' = Upto(t, n, m)
         /\ \A t, n : Reach(t, n)' = Reach(t, n)
         /\ \A s, t, P, Q : Holds(s, t, P, Q)' <=> Holds(s, t, P, Q)
         /\ Covered' <=> Covered
PROOF
  <1>1. SP!AllPositions' = SP!AllPositions /\ \A p : SP!At(p)' = SP!At(p)
    BY DEF SP!AllPositions, SP!At, SP!EventsAt
  <1>2. \A t : TrackedMoves(t)' = TrackedMoves(t)
    BY <1>1 DEF TrackedMoves
  <1>3. \A t, n, m : Upto(t, n, m)' = Upto(t, n, m)
    BY <1>2 DEF Upto, SP!Before
  <1>4. History' = History
    BY Zenon DEF History
  <1>5. \A t, n : Reach(t, n)' = Reach(t, n)
    BY <1>4 DEF Reach
  <1>6. \A x, P : SP!Net(x, P)' = SP!Net(x, P)
    BY DEF SP!Net, SP!At, SP!EventsAt, SP!MapThenSumSet, SP!MapThenFoldSet
  <1>7. Covered' <=> Covered
    BY <1>1, <1>2, <1>3, <1>6 DEF Covered
  <1>8. \A s, t, P : RowsAre(s, t, P)' <=> RowsAre(s, t, P)
    BY DEF RowsAre, RowsOf
  <1>9. \A s, t, Q : SumsAre(s, t, Q)' <=> SumsAre(s, t, Q)
    BY <1>6 DEF SumsAre
  <1> QED
    BY <1>2, <1>3, <1>5, <1>7, <1>8, <1>9 DEF Holds

(* An event of a token with a value belongs to a transaction that was not  *)
(* reverted, and has a party.  The replay does not look for either: what   *)
(* it does with the others is a run of HistoryBackfill.                    *)
PlainEvents ==
    \A t \in Extras : \A p \in SP!AllPositions :
        LET e == SP!At(p)
        IN  e.source = t /\ e.kind # "other" /\ e.value > 0 =>
               ~e.reverted /\ {Debited(e), Credited(e)} # {NoAddr}

(* The moves of t that the progress record and the height of s claim.      *)
Claim(s, t) ==
    IF ~s.bf[t].known THEN {}
    ELSE IF s.bf[t].done THEN Upto(t, s.height + 1, 1)
    ELSE Upto(t, Reach(t, s.bf[t].next), 1)

Stored(s) == SP!IdsBelow(s) /\ \A t \in Extras : Holds(s, t, Claim(s, t), Claim(s, t))

(* The moves in an open batch of the import, and in one of the sync.       *)
Imported(t) == IF t = token THEN Upto(t, Reach(t, seq + at - 1), op) ELSE Claim(db, t)

Live(t, n, m) == IF db.bf[t].known THEN Upto(t, n, m) ELSE {}

DataInv ==
    /\ Stored(db) /\ Stored(durable)
    /\ stage \in {"coverage", "apply"} =>
          SP!IdsBelow(tx) /\ \A t \in Extras : Holds(tx, t, Imported(t), Imported(t))
    /\ pc = "block" => Stored(tx)
    /\ pc = "changes" => /\ SP!IdsBelow(tx)
                         /\ \A t \in Extras : Holds(tx, t, Live(t, SP!Height, 1), Live(t, SP!Height, k))
    /\ pc = "history" => /\ SP!IdsBelow(tx)
                         /\ \A t \in Extras : Holds(tx, t, Live(t, SP!Height, k), Live(t, SP!Height + 1, 1))

(* In a sync every registered token is indexed, and known to the process.  *)
LEMMA Settled ==
  ASSUME Typed, Control, phase \in {"startup", "live"}
  PROVE  /\ extras = KnownIn(db) /\ tx.bf = db.bf
         /\ \A s : s.bf = db.bf => \A t \in Extras : Claim(s, t) = Live(t, s.height + 1, 1)
PROOF
  <1>1. extras = KnownIn(db) /\ tx.bf = db.bf /\ Pending(db) = {}
    BY DEF Control, WaitInv, Typed, IP!TypeInv, IP!CursorInv
  <1>2. \A t \in Extras : db.bf[t].known => db.bf[t].done
    BY <1>1 DEF Pending
  <1> QED
    BY <1>1, <1>2 DEF Claim, Live

(* Which event of the block under work is one of token t.                  *)
LEMMA EventOf ==
  ASSUME Typed, Control, phase \in {"startup", "live"}, NEW h \in Heights,
         NEW i \in DOMAIN SP!EventsAt(h), NEW t \in Extras
  PROVE  LET e == SP!EventsAt(h)[i]
         IN  /\ SP!ChangesBalance(extras, e, h) /\ SP!NormalizeToken(e.source) = t
                <=> db.bf[t].known /\ <<h, i>> \in TrackedMoves(t)
             /\ SP!Recorded(extras, e) /\ SP!NormalizeToken(e.source) = t
                <=> db.bf[t].known /\ <<h, i>> \in TrackedMoves(t)
PROOF
  <1> DEFINE e == SP!EventsAt(h)[i]
  <1>1. extras = KnownIn(db) /\ extras \subseteq Extras
    BY Settled DEF KnownIn
  <1>2. e \in SP!Event /\ h \in SP!Heights
    BY SameTypes, SP!ChainFacts, SyncConstants DEF Typed
  <1>3. <<h, i>> \in SP!AllPositions /\ SP!At(<<h, i>>) = e
    BY <1>2, SP!PositionFacts, SyncConstants DEF Typed, SP!At
  <1> HIDE DEF e
  <1>4. t \in SP!Tokens /\ t # Koin /\ t # Vhp
    BY ContractsAssumption DEF SP!Tokens, BaseContracts
  <1>5. SP!Sources(t, h) = {t} \cap extras /\ SP!HistorySources(t) = {t} \cap extras
    BY <1>4 DEF SP!Sources, SP!HistorySources
  <1>6. /\ SP!ChangesBalance(extras, e, h) /\ SP!NormalizeToken(e.source) = t
           <=> e.source \in SP!Sources(t, h) /\ ~e.reverted /\ e.kind # "other"
               /\ e.value \in 1 .. MaxSafeValue
        /\ SP!Recorded(extras, e) /\ SP!NormalizeToken(e.source) = t
           <=> e.source \in SP!HistorySources(t) /\ ~e.reverted /\ e.kind # "other"
               /\ e.value \in 1 .. MaxSafeValue
    BY <1>1, <1>2, <1>4, SP!SourcesDecide, SyncConstants
  <1>7. <<h, i>> \in TrackedMoves(t) <=> Counts(t, e)
    BY <1>3 DEF TrackedMoves
  <1> QED
    BY <1>1, <1>5, <1>6, <1>7 DEF Counts, KnownIn, e

LEMMA LiveNext ==
  ASSUME Typed, Control, phase \in {"startup", "live"}, NEW h \in Heights,
         NEW i \in Nat, NEW t \in Extras
  PROVE  /\ db.bf[t].known /\ <<h, i>> \in TrackedMoves(t) =>
               /\ Live(t, h, i) = Upto(t, h, i) /\ Live(t, h, i + 1) = Upto(t, h, i + 1)
               /\ Live(t, h, i + 1) = Live(t, h, i) \cup {<<h, i>>}
               /\ <<h, i>> \notin Live(t, h, i) /\ IsFiniteSet(Live(t, h, i))
         /\ ~(db.bf[t].known /\ <<h, i>> \in TrackedMoves(t)) => Live(t, h, i + 1) = Live(t, h, i)
         /\ i > Len(SP!EventsAt(h)) => Live(t, h, i) = Live(t, h + 1, 1)
PROOF
  <1>0. SP!TypeInv
    BY DEF Typed
  <1>1. /\ Upto(t, h, i + 1) = Upto(t, h, i) \cup ({<<h, i>>} \cap TrackedMoves(t))
        /\ <<h, i>> \notin Upto(t, h, i) /\ IsFiniteSet(Upto(t, h, i))
        /\ i > Len(SP!EventsAt(h)) => Upto(t, h, i) = Upto(t, h + 1, 1)
    BY <1>0, UptoFacts, UptoNext, UptoWraps
  <1>2. \A n, m : Live(t, n, m) = IF db.bf[t].known THEN Upto(t, n, m) ELSE {}
    BY DEF Live
  <1>3. CASE ~db.bf[t].known
    BY <1>2, <1>3
  <1>4. CASE db.bf[t].known /\ <<h, i>> \in TrackedMoves(t)
    BY <1>1, <1>2, <1>4
  <1>5. CASE db.bf[t].known /\ <<h, i>> \notin TrackedMoves(t)
    BY <1>1, <1>2, <1>5
  <1> QED
    BY <1>3, <1>4, <1>5

----------------------------------------------------------------------------
(* The data in a sync.                                                     *)

Syncing == Typed /\ Control /\ Placed /\ DataInv /\ phase \in {"startup", "live"}

LEMMA BlockUnderWork ==
  ASSUME Syncing, pc \in {"block", "changes", "history"}, pos <= Len(items)
  PROVE  /\ SP!Height \in Heights /\ SP!Height = tx.height + 1 /\ tx.height \in Nat
         /\ SP!Block.events = SP!EventsAt(SP!Height) /\ tx \in Database
         /\ Len(SP!EventsAt(SP!Height)) \in Nat
         /\ DOMAIN SP!EventsAt(SP!Height) = 1 .. Len(SP!EventsAt(SP!Height))
         /\ \A i \in DOMAIN SP!EventsAt(SP!Height) : SP!EventsAt(SP!Height)[i] \in Event
PROOF
  <1>1. SP!Height \in SP!Heights /\ SP!Height = tx.height + 1 /\ tx.height \in Nat
        /\ SP!Block.events = SP!EventsAt(SP!Height)
    BY SP!BlockIsFinal, SyncConstants DEF SP!InBatch, Syncing, Typed, Placed
  <1>2. tx \in Database
    BY SameTypes DEF Syncing, Typed, SP!TypeInv, SP!TypeOK
  <1>3. /\ Len(SP!EventsAt(SP!Height)) \in Nat
        /\ DOMAIN SP!EventsAt(SP!Height) = 1 .. Len(SP!EventsAt(SP!Height))
        /\ \A i \in DOMAIN SP!EventsAt(SP!Height) : SP!EventsAt(SP!Height)[i] \in Event
    BY <1>1, SP!ChainFacts, SyncConstants, SameTypes DEF Syncing, Typed
  <1> QED
    BY <1>1, <1>2, <1>3, SameTypes

LEMMA BlockBegun ==
  ASSUME Syncing, SP!BeginBlock
  PROVE  /\ pc' = "changes" /\ k' = 1 /\ SP!Height' = SP!Height /\ SP!IdsBelow(tx')
         /\ \A t \in Extras : Holds(tx', t, Live(t, SP!Height, 1), Live(t, SP!Height, 1))
PROOF
  <1> DEFINE h == SP!Height
             s == IF h = MigrationHeight THEN SP!ResetTokenBalances(tx, Vhp) ELSE tx
             A == SP!BlockAddresses(extras, SP!Block, h)
             r == SP!UpsertAddresses(s, A, h)
  <1>1. h = tx.height + 1 /\ tx.height \in Nat /\ tx \in Database
        /\ pc = "block" /\ pos <= Len(items)
    BY BlockUnderWork DEF SP!BeginBlock
  <1>2. ~(h <= tx.height)
    BY <1>1
  <1>3. tx' = r /\ pc' = "changes" /\ k' = 1 /\ pos' = pos /\ cur' = cur
    BY <1>2 DEF SP!BeginBlock
  <1>4. SP!Height' = h
    BY <1>3 DEF SP!Height
  <1>5. Stored(tx) /\ \A t \in Extras : Claim(tx, t) = Live(t, h, 1)
    BY <1>1, Settled DEF DataInv, Syncing
  <1>6. r.rows = tx.rows /\ r.lastId = tx.lastId
        /\ \A t \in Extras, x \in Accounts : r.bal[t][x] = tx.bal[t][x]
    <2>1. {"rows", "lastId", "bal", "seen"} \subseteq DOMAIN tx
      BY <1>1 DEF Database
    <2>2. /\ {"rows", "lastId", "bal", "seen"} \subseteq DOMAIN s
          /\ s.rows = tx.rows /\ s.lastId = tx.lastId
          /\ \A t \in Extras : s.bal[t] = tx.bal[t]
      <3>1. Vhp \notin Extras
        BY ContractsAssumption DEF BaseContracts
      <3> HIDE DEF h
      <3> QED
        BY <2>1, <3>1 DEF SP!ResetTokenBalances
    <2> HIDE DEF s, A, h
    <2> QED
      BY <2>2 DEF SP!UpsertAddresses
  <1> HIDE DEF r, h
  <1>7. ASSUME NEW t \in Extras PROVE Holds(r, t, Live(t, h, 1), Live(t, h, 1))
    BY <1>5, <1>6, HoldsAlike DEF Stored
  <1>8. SP!IdsBelow(r)
    BY <1>5, <1>6 DEF Stored, SP!IdsBelow
  <1> QED
    BY <1>3, <1>4, <1>7, <1>8 DEF h

LEMMA ChangeMade ==
  ASSUME Syncing, SP!ApplyChange
  PROVE  /\ SP!IdsBelow(tx')
         /\ \A t \in Extras : Holds(tx', t, Live(t, SP!Height, 1), Live(t, SP!Height, k + 1))
PROOF
  <1> DEFINE h == SP!Height
             e == SP!EventsAt(h)[k]
             T == SP!NormalizeToken(e.source)
  <1>1. pc = "changes" /\ k \in Nat \ {0} /\ pos <= Len(items)
    BY DEF SP!ApplyChange, Syncing, Typed, SP!TypeInv, SP!Progress
  <1>2. /\ h \in Heights /\ tx \in Database /\ SP!Block.events = SP!EventsAt(h)
        /\ k \in DOMAIN SP!EventsAt(h) /\ e \in Event
    <2>1. k <= Len(SP!Block.events)
      BY DEF SP!ApplyChange
    <2> QED
      BY <1>1, <2>1, BlockUnderWork
  <1>3. tx' = IF SP!ChangesBalance(extras, e, h) THEN SP!MoveValue(tx, T, e) ELSE tx
    BY <1>2 DEF SP!ApplyChange
  <1>4. SP!IdsBelow(tx) /\ \A t \in Extras : Holds(tx, t, Live(t, h, 1), Live(t, h, k))
    BY <1>1 DEF Syncing, DataInv
  <1>5. \A t \in Extras : SP!ChangesBalance(extras, e, h) /\ T = t
                            <=> db.bf[t].known /\ <<h, k>> \in TrackedMoves(t)
    BY <1>2, EventOf DEF Syncing
  <1>6. SP!At(<<h, k>>) = e
    BY DEF SP!At
  <1> HIDE DEF h, e, T
  <1>7. CASE ~SP!ChangesBalance(extras, e, h)
    <2>1. tx' = tx
      BY <1>3, <1>7
    <2>2. \A t \in Extras : Live(t, h, k + 1) = Live(t, h, k)
      BY <1>1, <1>2, <1>5, <1>7, LiveNext DEF Syncing
    <2> QED
      BY <1>4, <2>1, <2>2 DEF h
  <1>8. CASE SP!ChangesBalance(extras, e, h)
    <2>1. tx' = SP!MoveValue(tx, T, e)
      BY <1>3, <1>8
    <2>2. T \in SP!Tokens
      <3>1. extras \in SUBSET Extras
        BY DEF Syncing, Typed, SP!TypeInv, SP!TypeOK
      <3> QED
        BY <1>8, <3>1, SP!NormalizeTokenType, SyncConstants DEF SP!ChangesBalance, SP!Recorded, T
    <2>3. /\ tx'.rows = tx.rows /\ tx'.lastId = tx.lastId
          /\ \A u \in SP!Tokens \ {T}, x \in Accounts : tx'.bal[u][x] = tx.bal[u][x]
          /\ (Debited(e) \in Accounts => tx.bal[T][Debited(e)] >= e.value) =>
                \A x \in Accounts :
                   tx'.bal[T][x] = tx.bal[T][x] + (IF x = Credited(e) THEN e.value ELSE 0)
                                                - (IF x = Debited(e) THEN e.value ELSE 0)
      BY <1>2, <2>1, <2>2, SP!MoveValueEffect, SyncConstants, SameTypes, SameEvents
      DEF SP!OnlyBalances
    <2>4. SP!IdsBelow(tx')
      BY <1>4, <2>3 DEF SP!IdsBelow
    <2>5. ASSUME NEW t \in Extras, t # T
          PROVE  Holds(tx', t, Live(t, h, 1), Live(t, h, k + 1))
      <3>1. t \in SP!Tokens \ {T}
        BY <2>5 DEF SP!Tokens
      <3>2. Live(t, h, k + 1) = Live(t, h, k)
        BY <1>1, <1>2, <1>5, <2>5, LiveNext DEF Syncing
      <3> QED
        BY <1>4, <2>3, <3>1, <3>2, HoldsAlike
    <2>6. ASSUME T \in Extras
          PROVE  Holds(tx', T, Live(T, h, 1), Live(T, h, k + 1))
      <3>1. db.bf[T].known /\ <<h, k>> \in TrackedMoves(T)
        BY <1>5, <1>8, <2>6
      <3>2. Live(T, h, k) = Upto(T, h, k) /\ Live(T, h, k + 1) = Upto(T, h, k + 1)
        BY <1>1, <1>2, <2>6, <3>1, LiveNext DEF Syncing
      <3>3. RowsAre(tx', T, Live(T, h, 1))
        BY <1>4, <2>3, <2>6, HoldsAlike DEF Holds
      <3>4. ASSUME Covered PROVE SumsAre(tx', T, Upto(T, h, k + 1))
        <4>1. SumsAre(tx, T, Upto(T, h, k))
          BY <1>4, <2>6, <3>2, <3>4 DEF Holds
        <4> DEFINE r == tx'
        <4>2. (Debited(e) \in Accounts => tx.bal[T][Debited(e)] >= e.value) =>
                \A x \in Accounts :
                   r.bal[T][x] = tx.bal[T][x] + (IF x = Credited(e) THEN e.value ELSE 0)
                                              - (IF x = Debited(e) THEN e.value ELSE 0)
          BY <2>3
        <4> HIDE DEF r
        <4>3. SumsAre(r, T, Upto(T, h, k + 1))
          BY <1>1, <1>2, <1>6, <2>6, <3>1, <3>4, <4>1, <4>2, SumsGrow DEF Syncing, Typed
        <4> QED
          BY <4>3 DEF r
      <3> QED
        BY <3>2, <3>3, <3>4 DEF Holds
    <2> QED
      BY <2>4, <2>5, <2>6 DEF h
  <1> QED
    BY <1>7, <1>8

LEMMA HistoryEmptied ==
  ASSUME Syncing, SP!ClearHistory
  PROVE  /\ SP!IdsBelow(tx')
         /\ \A t \in Extras : Holds(tx', t, Live(t, SP!Height, 1), Live(t, SP!Height + 1, 1))
PROOF
  <1> DEFINE h == SP!Height
  <1>1. pc = "changes" /\ k \in Nat \ {0} /\ pos <= Len(items)
    BY DEF SP!ClearHistory, Syncing, Typed, SP!TypeInv, SP!Progress
  <1>2. h \in Heights /\ tx \in Database /\ k > Len(SP!EventsAt(h))
    <2>1. k > Len(SP!Block.events)
      BY DEF SP!ClearHistory
    <2> QED
      BY <1>1, <2>1, BlockUnderWork
  <1>3. /\ tx'.rows = {r \in tx.rows : r.height # h} /\ tx'.lastId = tx.lastId
        /\ tx'.bal = tx.bal
    BY <1>2 DEF SP!ClearHistory, SP!DeleteTransfersAtHeight, Database
  <1>4. SP!IdsBelow(tx) /\ \A t \in Extras : Holds(tx, t, Live(t, h, 1), Live(t, h, k))
    BY <1>1 DEF Syncing, DataInv
  <1> HIDE DEF h
  <1>5. SP!IdsBelow(tx')
    BY <1>3, <1>4 DEF SP!IdsBelow
  <1>6. ASSUME NEW t \in Extras
        PROVE  Holds(tx', t, Live(t, h, 1), Live(t, h + 1, 1))
    <2>1. Live(t, h, k) = Live(t, h + 1, 1)
      BY <1>1, <1>2, LiveNext, Zenon DEF Syncing
    <2>2. \A p \in Live(t, h, 1) : p[1] # h
      <3>1. \A p \in SP!AllPositions : SP!Before(p, h, 1) => p[1] # h
        <4>1. \A p \in SP!AllPositions : p[1] \in Nat /\ p[2] \in Nat \ {0}
          BY SP!PositionFacts, SyncConstants DEF Syncing, Typed
        <4>2. h \in Nat
          BY <1>2, StoreAssumption DEF Heights
        <4> QED
          BY <4>1, <4>2 DEF SP!Before
      <3> QED
        BY <3>1 DEF Live, Upto, TrackedMoves
    <2>3. RowsAre(tx, t, Live(t, h, 1))
      BY <1>4 DEF Holds
    <2>4. \A r \in RowsOf(tx, t) : r.height # h
      BY <2>2, <2>3 DEF RowsAre
    <2>5. RowsOf(tx', t) = RowsOf(tx, t)
      BY <1>3, <2>4 DEF RowsOf
    <2>6. RowsAre(tx', t, Live(t, h, 1))
      BY <2>3, <2>5 DEF RowsAre
    <2>7. Covered => SumsAre(tx', t, Live(t, h + 1, 1))
      BY <1>3, <1>4, <2>1 DEF Holds, SumsAre
    <2> QED
      BY <2>6, <2>7 DEF Holds
  <1> QED
    BY <1>5, <1>6 DEF h

LEMMA RowWritten ==
  ASSUME Syncing, SP!WriteTransfer
  PROVE  /\ SP!IdsBelow(tx')
         /\ \A t \in Extras : Holds(tx', t, Live(t, SP!Height, k + 1), Live(t, SP!Height + 1, 1))
PROOF
  <1> DEFINE h == SP!Height
             e == SP!EventsAt(h)[k]
             T == SP!NormalizeToken(e.source)
             row == SP!NewRow(tx, h, T, e)
  <1>1. pc = "history" /\ k \in Nat \ {0} /\ pos <= Len(items)
    BY DEF SP!WriteTransfer, Syncing, Typed, SP!TypeInv, SP!Progress
  <1>2. /\ h \in Heights /\ tx \in Database /\ SP!Block.events = SP!EventsAt(h)
        /\ k \in DOMAIN SP!EventsAt(h) /\ e \in Event
    <2>1. k <= Len(SP!Block.events)
      BY DEF SP!WriteTransfer
    <2> QED
      BY <1>1, <2>1, BlockUnderWork
  <1>3. tx' = IF SP!Recorded(extras, e) THEN SP!RecordTransfer(tx, h, T, e) ELSE tx
    BY <1>2 DEF SP!WriteTransfer
  <1>4. SP!IdsBelow(tx) /\ \A t \in Extras : Holds(tx, t, Live(t, h, k), Live(t, h + 1, 1))
    BY <1>1 DEF Syncing, DataInv
  <1>5. \A t \in Extras : SP!Recorded(extras, e) /\ T = t
                            <=> db.bf[t].known /\ <<h, k>> \in TrackedMoves(t)
    BY <1>2, EventOf DEF Syncing
  <1> HIDE DEF h, e, T
  <1>6. CASE ~SP!Recorded(extras, e)
    <2>1. tx' = tx
      BY <1>3, <1>6
    <2>2. \A t \in Extras : Live(t, h, k + 1) = Live(t, h, k)
      BY <1>1, <1>2, <1>5, <1>6, LiveNext DEF Syncing
    <2> QED
      BY <1>4, <2>1, <2>2 DEF h
  <1>7. CASE SP!Recorded(extras, e)
    <2>1. /\ row.id = tx.lastId + 1 /\ row.token = T /\ row.height = h
          /\ tx'.rows = tx.rows \cup {row} /\ tx'.lastId = tx.lastId + 1 /\ tx'.bal = tx.bal
      BY <1>2, <1>3, <1>7 DEF SP!RecordTransfer, SP!InsertTransfer, SP!NewRow, Database
    <2> HIDE DEF row
    <2> DEFINE r == tx'
    <2>2. r.rows = tx.rows \cup {row} /\ r.lastId = tx.lastId + 1
      BY <2>1
    <2> HIDE DEF r
    <2>3. /\ SP!IdsBelow(r)
          /\ \A u, P : u # T /\ RowsAre(tx, u, P) => RowsAre(r, u, P)
          /\ \A P, p : RowsAre(tx, T, P) /\ IsFiniteSet(P) /\ p \notin P /\ h = p[1]
                          => RowsAre(r, T, P \cup {p})
      BY <1>2, <1>4, <2>1, <2>2, RowAdded
    <2>4. ASSUME NEW t \in Extras
          PROVE  RowsAre(r, t, Live(t, h, k + 1))
      <3>1. CASE t # T
        <4>1. Live(t, h, k + 1) = Live(t, h, k)
          BY <1>1, <1>2, <1>5, <3>1, LiveNext DEF Syncing
        <4> QED
          BY <1>4, <2>3, <3>1, <4>1 DEF Holds
      <3>2. CASE t = T
        <4>1. db.bf[t].known /\ <<h, k>> \in TrackedMoves(t)
          BY <1>5, <1>7, <3>2
        <4>2. /\ Live(t, h, k + 1) = Live(t, h, k) \cup {<<h, k>>}
              /\ <<h, k>> \notin Live(t, h, k) /\ IsFiniteSet(Live(t, h, k))
          BY <1>1, <1>2, <4>1, LiveNext DEF Syncing
        <4>3. RowsAre(tx, T, Live(t, h, k)) /\ h = <<h, k>>[1]
          BY <1>4, <3>2 DEF Holds
        <4> QED
          BY <2>3, <3>2, <4>2, <4>3
      <3> QED
        BY <3>1, <3>2
    <2>5. ASSUME NEW t \in Extras, Covered PROVE SumsAre(tx', t, Live(t, h + 1, 1))
      BY <1>4, <2>1, <2>5 DEF Holds, SumsAre
    <2> QED
      BY <2>3, <2>4, <2>5 DEF Holds, h, r
  <1> QED
    BY <1>6, <1>7

LEMMA BlockDone ==
  ASSUME Syncing, SP!FinishBlock
  PROVE  Stored(tx')
PROOF
  <1> DEFINE h == SP!Height
  <1>1. pc = "history" /\ k \in Nat \ {0} /\ pos <= Len(items)
    BY DEF SP!FinishBlock, Syncing, Typed, SP!TypeInv, SP!Progress
  <1>2. h \in Heights /\ tx \in Database /\ k > Len(SP!EventsAt(h))
    <2>1. k > Len(SP!Block.events)
      BY DEF SP!FinishBlock
    <2> QED
      BY <1>1, <2>1, BlockUnderWork
  <1>3. /\ tx'.rows = tx.rows /\ tx'.lastId = tx.lastId /\ tx'.bal = tx.bal
        /\ tx'.height = h /\ tx'.bf = tx.bf
    BY <1>2 DEF SP!FinishBlock, SP!SetSyncState, SP!InsertBlock, Database
  <1>4. SP!IdsBelow(tx) /\ \A t \in Extras : Holds(tx, t, Live(t, h, k), Live(t, h + 1, 1))
    BY <1>1 DEF Syncing, DataInv
  <1> HIDE DEF h
  <1>5. SP!IdsBelow(tx')
    BY <1>3, <1>4 DEF SP!IdsBelow
  <1> DEFINE r == tx'
  <1>6. /\ r.rows = tx.rows /\ r.bal = tx.bal /\ r.height = h /\ r.bf = db.bf
    BY <1>3, Settled DEF Syncing
  <1> HIDE DEF r
  <1>7. ASSUME NEW t \in Extras
        PROVE  Holds(r, t, Claim(r, t), Claim(r, t))
    <2>1. Claim(r, t) = Live(t, h + 1, 1)
      BY <1>6, Settled DEF Syncing
    <2>2. Live(t, h, k) = Live(t, h + 1, 1)
      BY <1>1, <1>2, LiveNext, Zenon DEF Syncing
    <2> QED
      BY <1>4, <1>6, <2>1, <2>2, HoldsAlike
  <1> QED
    BY <1>5, <1>7 DEF Stored, r

LEMMA SameShow ==
  ASSUME chain' = chain
  PROVE  /\ \A s, t : Claim(s, t)' = Claim(s, t)
         /\ \A s : Stored(s)' <=> Stored(s)
         /\ \A s, t, P, Q : Holds(s, t, P, Q)' <=> Holds(s, t, P, Q)
         /\ \A t, n, m : Upto(t, n, m)' = Upto(t, n, m)
         /\ \A t, n : Reach(t, n)' = Reach(t, n)
         /\ \A s : SP!IdsBelow(s)' <=> SP!IdsBelow(s)
PROOF
  <1>1. /\ \A t, n, m : Upto(t, n, m)' = Upto(t, n, m)
        /\ \A t, n : Reach(t, n)' = Reach(t, n)
        /\ \A s, t, P, Q : Holds(s, t, P, Q)' <=> Holds(s, t, P, Q)
    BY SameMoves
  <1>2. NotSeen' = NotSeen
    BY DEF NotSeen
  <1>3. \A s, t : Claim(s, t)' = Claim(s, t)
    BY <1>1 DEF Claim
  <1>4. \A s : SP!IdsBelow(s)' <=> SP!IdsBelow(s)
    BY DEF SP!IdsBelow
  <1>5. \A s : Stored(s)' <=> Stored(s)
    BY <1>1, <1>3, <1>4 DEF Stored
  <1> QED
    BY <1>1, <1>3, <1>4, <1>5

LEMMA DataKept ==
  ASSUME DataInv, chain' = chain,
         UNCHANGED <<db, tx, durable, stage, token, seq, at, op, pc, cur, pos, k>>
  PROVE  DataInv'
PROOF
  <1>1. /\ \A s, t : Claim(s, t)' = Claim(s, t)
        /\ \A s : Stored(s)' <=> Stored(s)
        /\ \A s, t, P, Q : Holds(s, t, P, Q)' <=> Holds(s, t, P, Q)
        /\ \A t, n, m : Upto(t, n, m)' = Upto(t, n, m)
        /\ \A t, n : Reach(t, n)' = Reach(t, n)
        /\ \A s : SP!IdsBelow(s)' <=> SP!IdsBelow(s)
    BY SameShow
  <1>2. SP!Height' = SP!Height
    BY DEF SP!Height
  <1>3. \A t : Imported(t)' = Imported(t)
    BY <1>1 DEF Imported
  <1>4. \A t, n, m : Live(t, n, m)' = Live(t, n, m)
    BY <1>1 DEF Live
  <1> QED
    BY <1>1, <1>2, <1>3, <1>4 DEF DataInv

LEMMA SyncKeepsData ==
  ASSUME SP!FullAnswers, Typed, Control, Placed, DataInv, SyncMove
  PROVE  DataInv'
PROOF
  <1>a. /\ \A s : Stored(s)' <=> Stored(s)
        /\ \A s, t, P, Q : Holds(s, t, P, Q)' <=> Holds(s, t, P, Q)
        /\ \A t, n, m : Upto(t, n, m)' = Upto(t, n, m)
        /\ \A s : SP!IdsBelow(s)' <=> SP!IdsBelow(s)
    BY SyncStore, SameShow DEF Typed
  <1>1. UNCHANGED <<stage, token, seq, at, op>> /\ chain' = chain
    BY SyncStore DEF SyncMove, importer, Typed
  <1>2. CASE phase' = phase /\ (SP!ProduceBlock \/ SP!Finalize)
    <2>1. UNCHANGED <<db, tx, durable, pc, cur, pos, k>>
      BY <1>2 DEF SP!ProduceBlock, SP!Finalize, SP!locals, SP!store
    <2> QED
      BY <1>1, <2>1, DataKept
  <1>3. CASE /\ phase \in {"startup", "live"}
             /\ SP!SyncStep \/ SP!EmptyAnswer \/ SP!RpcError \/ SP!WriteError
    <2>0. Syncing /\ stage = "ready"
      BY <1>3 DEF Syncing, Control
    <2>a. \A t \in Extras : \A n, m : Live(t, n, m)' = Live(t, n, m)
      <3>1. tx.bf = db.bf
        BY DEF Typed, IP!TypeInv, IP!CursorInv
      <3>2. db'.bf = db.bf
        BY <3>1, SyncStore DEF Typed, SameRegister
      <3> QED
        BY <1>a, <3>2 DEF Live
    <2>b. ASSUME Stored(db'), Stored(durable'),
                 pc' = "block" => Stored(tx'),
                 pc' = "changes" =>
                    /\ SP!IdsBelow(tx')
                    /\ \A t \in Extras :
                          Holds(tx', t, Live(t, SP!Height', 1), Live(t, SP!Height', k')),
                 pc' = "history" =>
                    /\ SP!IdsBelow(tx')
                    /\ \A t \in Extras :
                          Holds(tx', t, Live(t, SP!Height', k'), Live(t, SP!Height' + 1, 1))
          PROVE  DataInv'
      <3>1. stage' = "ready"
        BY <1>1, <2>0
      <3> QED
        BY <1>a, <2>a, <2>b, <3>1 DEF DataInv
    <2>c. Stored(db) /\ Stored(durable)
      BY DEF DataInv
    <2>d. ASSUME db' = db, durable' = durable, pc' \in {"idle", "fetch"}
          PROVE  DataInv'
      BY <2>b, <2>c, <2>d
    <2>1. CASE SP!StartSync
      BY <2>1, <2>d DEF SP!StartSync, SP!store
    <2>2. CASE SP!ReceiveBlocks
      <3>1. db' = db /\ durable' = durable /\ tx' = db /\ pc' = "block"
        BY <2>2 DEF SP!ReceiveBlocks
      <3> QED
        BY <2>b, <2>c, <3>1
    <2>3. CASE SP!Return
      BY <2>3, <2>d DEF SP!Return
    <2>4. CASE SP!BeginBlock
      <3>1. db' = db /\ durable' = durable
        BY <2>4 DEF SP!BeginBlock
      <3>2. /\ pc' = "changes" /\ k' = 1 /\ SP!Height' = SP!Height /\ SP!IdsBelow(tx')
            /\ \A t \in Extras : Holds(tx', t, Live(t, SP!Height, 1), Live(t, SP!Height, 1))
        BY <2>0, <2>4, BlockBegun
      <3> QED
        BY <2>b, <2>c, <3>1, <3>2
    <2>5. CASE SP!ApplyChange
      <3>1. /\ db' = db /\ durable' = durable /\ pc' = "changes" /\ k' = k + 1
            /\ SP!Height' = SP!Height
        BY <2>5 DEF SP!ApplyChange, SP!Height
      <3> QED
        BY <2>0, <2>5, <2>b, <2>c, <3>1, ChangeMade
    <2>6. CASE SP!ClearHistory
      <3>1. /\ db' = db /\ durable' = durable /\ pc' = "history" /\ k' = 1
            /\ SP!Height' = SP!Height
        BY <2>6 DEF SP!ClearHistory, SP!Height
      <3> QED
        BY <2>0, <2>6, <2>b, <2>c, <3>1, HistoryEmptied
    <2>7. CASE SP!WriteTransfer
      <3>1. /\ db' = db /\ durable' = durable /\ pc' = "history" /\ k' = k + 1
            /\ SP!Height' = SP!Height
        BY <2>7 DEF SP!WriteTransfer, SP!Height
      <3> QED
        BY <2>0, <2>7, <2>b, <2>c, <3>1, RowWritten
    <2>8. CASE SP!FinishBlock
      <3>1. db' = db /\ durable' = durable /\ pc' = "block"
        BY <2>8 DEF SP!FinishBlock
      <3> QED
        BY <2>0, <2>8, <2>b, <2>c, <3>1, BlockDone
    <2>9. CASE SP!Commit
      <3>1. pc = "block" /\ db' = tx /\ durable' \in {durable, tx} /\ pc' = "fetch"
        BY <2>9 DEF SP!Commit
      <3>2. Stored(tx)
        BY <3>1 DEF DataInv
      <3> QED
        BY <2>b, <2>c, <3>1, <3>2
    <2>10. CASE SP!EmptyAnswer
      BY <2>10 DEF SP!EmptyAnswer, SP!FullAnswers
    <2> QED
      BY <1>3, <2>1, <2>2, <2>3, <2>4, <2>5, <2>6, <2>7, <2>8, <2>9, <2>10
      DEF SP!SyncStep, SP!LoopDone, SP!RpcError, SP!WriteError
  <1> QED
    BY <1>2, <1>3 DEF SyncMove

----------------------------------------------------------------------------
(* The data in an import.                                                  *)

Importing == Typed /\ Control /\ Placed /\ DataInv /\ PlainEvents /\ phase = "backfill"

LEMMA EntryUnderWork ==
  ASSUME Importing, stage = "apply", at <= page.kept
  PROVE  LET n == seq + at
             h == History[token][n].height
         IN  /\ token \in Extras /\ h \in Heights /\ Reach(token, n - 1) = h
             /\ n \in Nat \ {0} /\ at \in Nat /\ seq \in Nat /\ op \in Nat \ {0}
             /\ History[token][n].events = SP!EventsAt(h)
             /\ Len(SP!EventsAt(h)) \in Nat
             /\ Upto(token, h + 1, 1) = Upto(token, Reach(token, n), 1)
             /\ \A i \in DOMAIN SP!EventsAt(h) :
                   LET e == SP!EventsAt(h)[i]
                   IN  /\ e \in Event
                       /\ IP!Replayed(token, e) <=> <<h, i>> \in TrackedMoves(token)
             /\ DOMAIN SP!EventsAt(h) = 1 .. Len(SP!EventsAt(h))
PROOF
  <1> DEFINE n == seq + at
             h == History[token][n].height
  <1>1. /\ token \in Extras /\ n \in DOMAIN History[token]
        /\ op \in Nat \ {0} /\ at \in Nat /\ seq \in Nat
        /\ \A j \in DOMAIN History[token][n].events :
              ~IP!Unusable(token, History[token][n].events[j])
    BY IP!EntryAt, ImportConstants DEF Importing, Typed, Placed
  <1>2. /\ DOMAIN History[token] = 1 .. Len(History[token]) /\ Len(History[token]) \in Nat
        /\ Reach(token, n - 1) = h /\ h \in Heights
        /\ History[token][n].events = SP!EventsAt(h)
        /\ Upto(token, h + 1, 1) = Upto(token, Reach(token, n), 1)
    BY <1>1, EntryFacts DEF Importing, Typed, Control
  <1>3. n \in Nat \ {0}
    BY <1>1, <1>2
  <1>4. \A i \in DOMAIN SP!EventsAt(h) : ~IP!Unusable(token, SP!EventsAt(h)[i])
    BY <1>1, <1>2
  <1> HIDE DEF n, h
  <1>5. /\ Len(SP!EventsAt(h)) \in Nat
        /\ DOMAIN SP!EventsAt(h) = 1 .. Len(SP!EventsAt(h))
        /\ \A i \in DOMAIN SP!EventsAt(h) : SP!EventsAt(h)[i] \in Event
    BY <1>2, SP!ChainFacts, SyncConstants, SameTypes DEF Importing, Typed
  <1>6. ASSUME NEW i \in DOMAIN SP!EventsAt(h)
        PROVE  IP!Replayed(token, SP!EventsAt(h)[i]) <=> <<h, i>> \in TrackedMoves(token)
    <2> DEFINE e == SP!EventsAt(h)[i]
    <2>1. e \in Event /\ ~IP!Unusable(token, e)
      BY <1>4, <1>5
    <2>2. <<h, i>> \in SP!AllPositions /\ SP!At(<<h, i>>) = e
      BY <1>2, SP!PositionFacts, SyncConstants, SameTypes DEF Importing, Typed, SP!At
    <2> HIDE DEF e
    <2>3. e.source = token /\ e.kind # "other" /\ e.value > 0 =>
             ~e.reverted /\ {Debited(e), Credited(e)} # {NoAddr}
      <3>1. PlainEvents
        BY DEF Importing
      <3> QED
        BY <1>1, <2>2, <3>1 DEF PlainEvents
    <2>4. IP!IsMove(token, e) <=> IP!Replayed(token, e)
      BY <2>1, IP!ReplayedMoves, ImportConstants, SameTypes
    <2>5. IP!Replayed(token, e) => e.value \in 1 .. MaxSafeValue
      BY DEF IP!Replayed
    <2>6. e.value \in Nat
      BY <2>1 DEF Event
    <2>7. IP!IsMove(token, e) <=> /\ e.source = token /\ e.kind # "other" /\ e.value > 0
                                  /\ {Debited(e), Credited(e)} # {NoAddr}
      BY SameEvents DEF IP!IsMove
    <2>8. Counts(token, e) <=> IP!Replayed(token, e)
      BY <2>3, <2>4, <2>5, <2>6, <2>7, LimitsAssumption DEF Counts
    <2> QED
      BY <2>2, <2>8 DEF TrackedMoves, e
  <1> QED
    BY <1>1, <1>2, <1>3, <1>5, <1>6 DEF n, h

LEMMA OpApplied ==
  ASSUME Importing, IP!ApplyOp
  PROVE  /\ SP!IdsBelow(tx')
         /\ \A t \in Extras :
               LET P == IF t = token THEN Upto(t, Reach(t, seq + at' - 1), op') ELSE Claim(db, t)
               IN  Holds(tx', t, P, P)
PROOF
  <1> DEFINE n == seq + at
             h == History[token][n].height
             e == SP!EventsAt(h)[op]
             P(t) == IF t = token THEN Upto(t, Reach(t, seq + at' - 1), op') ELSE Claim(db, t)
  <1>1. stage = "apply" /\ at <= page.kept
    BY DEF IP!ApplyOp
  <1>2. /\ token \in Extras /\ h \in Heights /\ Reach(token, n - 1) = h
        /\ n \in Nat \ {0} /\ at \in Nat /\ seq \in Nat /\ op \in Nat \ {0}
        /\ Len(SP!EventsAt(h)) \in Nat
        /\ History[token][n].events = SP!EventsAt(h)
        /\ Upto(token, h + 1, 1) = Upto(token, Reach(token, n), 1)
        /\ \A i \in DOMAIN SP!EventsAt(h) :
              /\ SP!EventsAt(h)[i] \in Event
              /\ IP!Replayed(token, SP!EventsAt(h)[i]) <=> <<h, i>> \in TrackedMoves(token)
        /\ DOMAIN SP!EventsAt(h) = 1 .. Len(SP!EventsAt(h))
    BY <1>1, EntryUnderWork
  <1>3. IF op <= Len(SP!EventsAt(h))
        THEN /\ tx' = IF IP!Replayed(token, e) THEN IP!Replay(tx, h, token, e) ELSE tx
             /\ op' = op + 1 /\ at' = at
        ELSE at' = at + 1 /\ op' = 1 /\ tx' = tx
    BY <1>2 DEF IP!ApplyOp
  <1>4. tx \in Database
    BY SameTypes DEF Importing, Typed, IP!TypeInv, IP!TypeOK
  <1>5. SP!IdsBelow(tx) /\ \A t \in Extras : Holds(tx, t, Imported(t), Imported(t))
    BY <1>1 DEF Importing, DataInv
  <1>6. Imported(token) = Upto(token, h, op) /\ \A t \in Extras \ {token} : Imported(t) = Claim(db, t)
    BY <1>2 DEF Imported
  <1> HIDE DEF h, e
  <1>7. CASE ~(op <= Len(SP!EventsAt(h)))
    <2>1. at' = at + 1 /\ op' = 1 /\ tx' = tx
      BY <1>3, <1>7
    <2>2. seq + at' - 1 = n /\ op > Len(SP!EventsAt(h))
      BY <1>2, <1>7, <2>1
    <2>0. SP!TypeInv /\ op \in Nat
      BY <1>2 DEF Importing, Typed
    <2>3. Upto(token, h, op) = Upto(token, h + 1, 1)
      BY <1>2, <2>0, <2>2, UptoWraps
    <2>4. P(token) = Imported(token)
      BY <1>2, <1>6, <2>1, <2>2, <2>3
    <2>5. \A t \in Extras : P(t) = Imported(t)
      BY <1>6, <2>4
    <2> QED
      BY <1>5, <2>1, <2>5
  <1>8. CASE op <= Len(SP!EventsAt(h))
    <2>1. /\ op \in DOMAIN SP!EventsAt(h) /\ e \in Event
          /\ IP!Replayed(token, e) <=> <<h, op>> \in TrackedMoves(token)
      BY <1>2, <1>8 DEF e
    <2>2. P(token) = Upto(token, h, op + 1) /\ \A t \in Extras \ {token} : P(t) = Imported(t)
      BY <1>2, <1>3, <1>6, <1>8
    <2>3. /\ Upto(token, h, op + 1) = Upto(token, h, op) \cup ({<<h, op>>} \cap TrackedMoves(token))
          /\ <<h, op>> \notin Upto(token, h, op) /\ IsFiniteSet(Upto(token, h, op))
      <3>1. SP!TypeInv /\ op \in Nat
        BY <1>2 DEF Importing, Typed
      <3> QED
        BY <1>2, <3>1, UptoFacts, UptoNext
    <2> HIDE DEF P
    <2>4. CASE ~IP!Replayed(token, e)
      <3>1. tx' = tx
        BY <1>3, <1>8, <2>4
      <3>2. \A t \in Extras : P(t) = Imported(t)
        BY <1>6, <2>1, <2>2, <2>3, <2>4
      <3> QED
        BY <1>5, <3>1, <3>2 DEF P
    <2>5. CASE IP!Replayed(token, e)
      <3> DEFINE r == tx'
                 row == IP!NewRow(tx, h, token, e)
      <3>1. <<h, op>> \in TrackedMoves(token) /\ r = IP!Replay(tx, h, token, e)
        BY <1>3, <1>8, <2>1, <2>5
      <3>2. e.kind \in IP!TransferKinds
        BY <2>5 DEF IP!Replayed, IP!Recognised
      <3> HIDE DEF r
      <3>3. /\ r.lastId = tx.lastId + 1 /\ r.rows = tx.rows \cup {row}
            /\ \A u \in IP!Tokens \ {token}, x \in Accounts : r.bal[u][x] = tx.bal[u][x]
            /\ (Debited(e) \in Accounts => tx.bal[token][Debited(e)] >= e.value) =>
                  \A x \in Accounts :
                     r.bal[token][x] = tx.bal[token][x] + (IF x = Credited(e) THEN e.value ELSE 0)
                                                        - (IF x = Debited(e) THEN e.value ELSE 0)
        <4>1. tx \in IP!Database /\ h \in IP!Heights /\ token \in IP!Tokens /\ e \in IP!Event
          BY <1>2, <1>4, <2>1, SameTypes DEF Tokens
        <4> QED
          BY <3>1, <3>2, <4>1, IP!ReplayEffect, ImportConstants, SameEvents
      <3>4. row.id = tx.lastId + 1 /\ row.token = token /\ row.height = h
        BY DEF IP!NewRow
      <3> HIDE DEF row
      <3>5. /\ SP!IdsBelow(r)
            /\ \A u, Q : u # token /\ RowsAre(tx, u, Q) => RowsAre(r, u, Q)
            /\ \A Q, p : RowsAre(tx, token, Q) /\ IsFiniteSet(Q) /\ p \notin Q /\ h = p[1]
                            => RowsAre(r, token, Q \cup {p})
        BY <1>4, <1>5, <3>3, <3>4, RowAdded
      <3>6. ASSUME NEW t \in Extras, t # token PROVE Holds(r, t, P(t), P(t))
        <4>1. Holds(tx, t, P(t), P(t))
          BY <1>5, <2>2, <3>6
        <4>2. RowsAre(r, t, P(t))
          BY <3>5, <3>6, <4>1 DEF Holds
        <4>3. t \in IP!Tokens \ {token}
          BY <3>6 DEF IP!Tokens
        <4>4. Covered => SumsAre(r, t, P(t))
          BY <3>3, <4>1, <4>3 DEF Holds, SumsAre
        <4> QED
          BY <4>2, <4>4 DEF Holds
      <3>7. Holds(r, token, P(token), P(token))
        <4>1. Holds(tx, token, Upto(token, h, op), Upto(token, h, op))
          BY <1>2, <1>5, <1>6
        <4>2. RowsAre(r, token, Upto(token, h, op + 1))
          <5>1. RowsAre(r, token, Upto(token, h, op) \cup {<<h, op>>})
            BY <2>3, <3>5, <4>1 DEF Holds
          <5>2. Upto(token, h, op + 1) = Upto(token, h, op) \cup {<<h, op>>}
            BY <2>3, <3>1
          <5> QED
            BY <5>1, <5>2
        <4>3. ASSUME Covered PROVE SumsAre(r, token, Upto(token, h, op + 1))
          <5>1. SumsAre(tx, token, Upto(token, h, op)) /\ SP!At(<<h, op>>) = e /\ op \in Nat
            BY <1>2, <4>1, <4>3 DEF Holds, SP!At, e
          <5> QED
            BY <1>2, <3>1, <3>3, <4>3, <5>1, SumsGrow DEF Importing, Typed
        <4> QED
          BY <2>2, <4>2, <4>3 DEF Holds
      <3> QED
        BY <3>5, <3>6, <3>7 DEF P, r
    <2> QED
      BY <2>4, <2>5
  <1> QED
    BY <1>7, <1>8

(* A page with its progress record, which claims what the batch holds.     *)
LEMMA PageAtEnd ==
  ASSUME Importing, stage = "apply", at > page.kept
  PROVE  /\ token \in Extras /\ seq \in Nat /\ page.kept \in Nat
         /\ at = page.kept + 1 /\ op = 1
         /\ IP!PageHolds(token, seq, page, outcome)
         /\ db.bf[token].known /\ ~db.bf[token].done
         /\ \A i \in DOMAIN History[token] : i <= seq => History[token][i].height <= db.bf[token].cutoff
         /\ seq + page.kept \in 0 .. Len(History[token])
PROOF
  <1>1. IP!TypeInv /\ IP!ReplayInv
    BY DEF Importing, Typed, Placed
  <1>2. /\ token \in Extras /\ seq \in Nat /\ at \in Nat /\ page.kept \in Nat /\ page.fetched \in Nat
        /\ page.kept <= page.fetched /\ seq + page.fetched <= IP!Visible(token)
    BY <1>1, ImportConstants DEF IP!TypeInv, IP!TypeOK, IP!CursorInv, IP!Page,
       IP!BackfillAssumption, IP!StoreAssumption
  <1>3. IP!Visible(token) \in Nat /\ IP!Visible(token) <= Len(History[token])
        /\ Len(History[token]) \in Nat
    BY <1>1, <1>2, IP!VisibleFacts, ImportConstants DEF IP!TypeInv, IP!CursorInv
  <1>4. /\ IP!PageHolds(token, seq, page, outcome)
        /\ at <= page.kept + 1 /\ op = 1
    BY <1>1 DEF IP!ReplayInv, IP!PageRead
  <1>5. /\ db.bf[token].known /\ ~db.bf[token].done /\ seq = db.bf[token].next
    BY <1>1 DEF IP!ReplayInv, IP!Position
  <1>6. \A i \in DOMAIN History[token] : i <= seq => History[token][i].height <= db.bf[token].cutoff
    BY <1>1, <1>2, <1>5 DEF IP!ReplayInv, IP!NotBeyond
  <1>7. at = page.kept + 1 /\ seq + page.kept \in 0 .. Len(History[token])
    BY <1>2, <1>3, <1>4
  <1> QED
    BY <1>2, <1>4, <1>5, <1>6, <1>7

LEMMA LastPage ==
  ASSUME Importing, stage = "apply", at > page.kept, outcome = "last"
  PROVE  Upto(token, Reach(token, seq + page.kept), 1) = Upto(token, db.height + 1, 1)
PROOF
  <1> DEFINE last == seq + page.kept
  <1>1. /\ token \in Extras /\ seq \in Nat /\ page.kept \in Nat
        /\ IP!PageHolds(token, seq, page, outcome)
        /\ db.bf[token].known /\ ~db.bf[token].done
        /\ \A i \in DOMAIN History[token] : i <= seq => History[token][i].height <= db.bf[token].cutoff
        /\ last \in 0 .. Len(History[token])
    BY PageAtEnd
  <1>2. db.bf[token].cutoff = db.height /\ db.height \in Nat
    <2>1. token \in Pending(db) /\ Waits(db)
      BY <1>1 DEF Pending, Importing, Control, WaitInv, StoreInv
    <2>2. db \in Database
      BY SameTypes DEF Importing, Typed, IP!TypeInv, IP!TypeOK
    <2> QED
      BY <2>1, <2>2, StoreAssumption DEF Waits, Database
  <1>3. /\ DOMAIN History[token] = 1 .. Len(History[token]) /\ Len(History[token]) \in Nat
        /\ \A n \in DOMAIN History[token] : History[token][n].height \in Heights
        /\ (\A i \in DOMAIN History[token] : History[token][i].height <= db.height <=> i <= last)
              => Upto(token, Reach(token, last), 1) = Upto(token, db.height + 1, 1)
    BY <1>1, <1>2, EntryFacts DEF Importing, Typed, Control
  <1>4. ASSUME NEW i \in DOMAIN History[token], i <= last
        PROVE  History[token][i].height <= db.height
    <2>1. i \in Nat \ {0}
      BY <1>3
    <2>2. CASE i <= seq
      BY <1>1, <1>2, <2>2
    <2>3. CASE i > seq
      <3>1. i - seq \in 1 .. page.kept /\ seq + (i - seq) = i
        BY <1>1, <1>4, <2>1, <2>3
      <3>2. PICK j \in 1 .. page.kept : seq + j = i
        BY <3>1
      <3> QED
        BY <1>1, <1>2, <3>2 DEF IP!PageHolds
    <2> QED
      BY <1>1, <2>1, <2>2, <2>3
  <1>5. ASSUME NEW i \in DOMAIN History[token], ~(i <= last)
        PROVE  ~(History[token][i].height <= db.height)
    <2>1. i \in Nat /\ last \in Nat
      BY <1>1, <1>3
    <2>2. i > last
      BY <1>5, <2>1
    <2>3. History[token][i].height > db.height
      BY <1>1, <1>2, <2>2 DEF IP!PageHolds
    <2>4. History[token][i].height \in Nat
      BY <1>3, StoreAssumption DEF Heights
    <2> QED
      BY <1>2, <2>3, <2>4
  <1> QED
    BY <1>3, <1>4, <1>5

LEMMA PageSaved ==
  ASSUME Importing, stage = "apply", at > page.kept,
         IP!Write(IP!UpsertBackfill(tx, token, IP!NewRecord))
  PROVE  Stored(db') /\ durable' \in {durable, db'}
PROOF
  <1>1. /\ token \in Extras /\ seq \in Nat /\ page.kept \in Nat
        /\ at = page.kept + 1 /\ op = 1
        /\ db.bf[token].known /\ ~db.bf[token].done
    BY PageAtEnd
  <1>2. IP!TypeInv /\ IP!ReplayInv
    BY DEF Importing, Typed, Placed
  <1>3. /\ IP!NewRecord \in IP!BackfillRecord
        /\ IP!NewRecord.known = db.bf[token].known
        /\ IP!NewRecord.next = IP!NextSeq /\ IP!NewRecord.done = (outcome = "last")
        /\ outcome # "last" => IP!NextSeq = seq + page.kept
    BY <1>2, IP!NewRecordFacts, IP!NextSeqFacts, ImportConstants
  <1> DEFINE rec == IP!NewRecord
             r == db'
  <1> HIDE DEF rec
  <1>4. /\ durable' \in {durable, r} /\ r.height = tx.height
        /\ r.rows = tx.rows /\ r.lastId = tx.lastId /\ r.bal = tx.bal
        /\ r.bf[token] = rec /\ \A t \in Extras \ {token} : r.bf[t] = db.bf[t]
    BY <1>1, <1>3, RecordStore DEF Importing, rec
  <1>5. tx.height = db.height
    BY DEF Importing, Control, WaitInv, ImportInv
  <1> HIDE DEF r
  <1>6. Imported(token) = Upto(token, Reach(token, seq + page.kept), 1)
    <2>1. seq + at - 1 = seq + page.kept
      BY <1>1
    <2> QED
      BY <1>1, <2>1 DEF Imported
  <1>7. Claim(r, token) = Imported(token)
    <2>1. CASE outcome = "last"
      BY <1>1, <1>3, <1>4, <1>5, <1>6, <2>1, LastPage DEF Claim, rec
    <2>2. CASE outcome # "last"
      BY <1>1, <1>3, <1>4, <1>6, <2>2 DEF Claim, rec
    <2> QED
      BY <2>1, <2>2
  <1>8. \A t \in Extras : Claim(r, t) = Imported(t)
    BY <1>4, <1>5, <1>7 DEF Claim, Imported
  <1>9. SP!IdsBelow(tx) /\ \A t \in Extras : Holds(tx, t, Imported(t), Imported(t))
    BY DEF Importing, DataInv
  <1>10. SP!IdsBelow(r) /\ \A t \in Extras : Holds(r, t, Claim(r, t), Claim(r, t))
    BY <1>4, <1>8, <1>9, HoldsAlike
  <1> QED
    BY <1>4, <1>10 DEF Stored, r

(* The record of a check claims what it did before.                        *)
LEMMA CheckSaved ==
  ASSUME Importing, stage = "verify", NEW v \in BOOLEAN,
         IP!Write(IP!UpsertBackfill(db, token, IP!CheckedRecord(v)))
  PROVE  Stored(db') /\ durable' \in {durable, db'}
PROOF
  <1>1. IP!TypeInv /\ token \in Extras
    BY DEF Importing, Typed, IP!TypeInv, IP!CursorInv
  <1> DEFINE rec == IP!CheckedRecord(v)
             r == db'
  <1>2. /\ rec \in IP!BackfillRecord /\ rec.known = db.bf[token].known
        /\ rec.next = db.bf[token].next /\ rec.done = db.bf[token].done
    BY <1>1, IP!CheckedRecordFacts, ImportConstants
  <1>3. IP!Write(IP!UpsertBackfill(db, token, rec))
    OBVIOUS
  <1> HIDE DEF rec
  <1>4. /\ durable' \in {durable, r} /\ r.height = db.height
        /\ r.rows = db.rows /\ r.lastId = db.lastId /\ r.bal = db.bal
        /\ r.bf[token] = rec /\ \A t \in Extras \ {token} : r.bf[t] = db.bf[t]
    BY <1>1, <1>2, <1>3, RecordStore DEF Importing
  <1> HIDE DEF r
  <1>5. \A t \in Extras : Claim(r, t) = Claim(db, t)
    BY <1>2, <1>4 DEF Claim
  <1>6. SP!IdsBelow(db) /\ \A t \in Extras : Holds(db, t, Claim(db, t), Claim(db, t))
    BY DEF Importing, DataInv, Stored
  <1>7. SP!IdsBelow(r) /\ \A t \in Extras : Holds(r, t, Claim(r, t), Claim(r, t))
    BY <1>4, <1>5, <1>6, HoldsAlike
  <1> QED
    BY <1>4, <1>7 DEF Stored, r

LEMMA ImportKeepsData ==
  ASSUME Typed, Control, Placed, PlainEvents, DataInv, ImportMove
  PROVE  DataInv'
PROOF
  <1>a. /\ \A s : Stored(s)' <=> Stored(s)
        /\ \A s, t : Claim(s, t)' = Claim(s, t)
        /\ \A s, t, P, Q : Holds(s, t, P, Q)' <=> Holds(s, t, P, Q)
        /\ \A t, n, m : Upto(t, n, m)' = Upto(t, n, m)
        /\ \A t, n : Reach(t, n)' = Reach(t, n)
        /\ \A s : SP!IdsBelow(s)' <=> SP!IdsBelow(s)
    BY ImportStore, SameShow
  <1>b. /\ chain' = chain /\ UNCHANGED <<pc, cur, pos, k>>
        /\ Stored(db) /\ Stored(durable)
    BY ImportStore DEF ImportMove, syncer, DataInv
  <1>1. CASE IP!AdvanceIndexer
    <2>1. UNCHANGED <<db, tx, durable, stage, token, seq, at, op>>
      BY <1>1 DEF IP!AdvanceIndexer, IP!store, IP!locals
    <2> QED
      BY <1>b, <2>1, DataKept
  <1>2. CASE phase = "backfill" /\ (IP!BackfillStep \/ IP!HttpError \/ IP!WriteError)
    <2>0. Importing /\ pc = "idle" /\ pc' = "idle"
      BY <1>2, <1>b DEF Importing, Control
    <2>a. ASSUME Stored(db'), Stored(durable'), stage' \notin {"coverage", "apply"}
          PROVE  DataInv'
      BY <1>a, <2>0, <2>a DEF DataInv
    <2>b. ASSUME db' = db, durable' = durable, stage' \notin {"coverage", "apply"}
          PROVE  DataInv'
      BY <1>b, <2>a, <2>b
    <2>c. ASSUME db' = db, durable' = durable, SP!IdsBelow(tx'),
                 \A t \in Extras : Holds(tx', t, Imported(t)', Imported(t)')
          PROVE  DataInv'
      BY <1>a, <1>b, <2>0, <2>c DEF DataInv
    <2>1. CASE IP!ListPending \/ IP!TakeToken \/ IP!AllDone
      BY <2>1, <2>b DEF IP!ListPending, IP!TakeToken, IP!AllDone, IP!store
    <2>2. CASE IP!HttpError \/ IP!WriteError \/ IP!Pause
      BY <2>2, <2>b DEF IP!HttpError, IP!WriteError, IP!Pause
    <2>3. CASE IP!CollectPage /\ ~IP!Pause
      <3>1. /\ stage = "collect" /\ tx' = db /\ at' = 1 /\ op' = 1
            /\ UNCHANGED <<db, durable, token, seq>>
        BY <2>3 DEF IP!CollectPage
      <3>2. /\ token \in Extras /\ seq \in Nat
            /\ seq = db.bf[token].next /\ ~db.bf[token].done /\ db.bf[token].known
        BY <3>1, ImportConstants DEF Typed, Placed, IP!TypeInv, IP!TypeOK, IP!CursorInv,
           IP!ReplayInv, IP!Position, IP!StoreAssumption
      <3>3. Claim(db, token) = Upto(token, Reach(token, seq), 1)
        BY <3>2 DEF Claim
      <3>4. seq' + at' - 1 = seq
        BY <3>1, <3>2
      <3>5. \A t \in Extras : Imported(t)' = Claim(db, t)
        BY <1>a, <3>1, <3>3, <3>4 DEF Imported
      <3>6. SP!IdsBelow(db) /\ \A t \in Extras : Holds(db, t, Claim(db, t), Claim(db, t))
        BY <1>b DEF Stored
      <3> QED
        BY <2>c, <3>1, <3>5, <3>6
    <2>4. CASE IP!CheckCoverage
      <3>1. stage = "coverage" /\ UNCHANGED <<db, tx, durable, token, seq, at, op>>
        BY <2>4 DEF IP!CheckCoverage, IP!store
      <3>2. \A t \in Extras : Imported(t)' = Imported(t)
        BY <1>a, <3>1 DEF Imported
      <3>3. SP!IdsBelow(tx) /\ \A t \in Extras : Holds(tx, t, Imported(t), Imported(t))
        BY <3>1 DEF DataInv
      <3> QED
        BY <2>c, <3>1, <3>2, <3>3
    <2>5. CASE IP!ApplyOp
      <3>1. UNCHANGED <<db, durable, token, seq>>
        BY <2>5 DEF IP!ApplyOp
      <3>2. /\ SP!IdsBelow(tx')
            /\ \A t \in Extras :
                  LET P == IF t = token THEN Upto(t, Reach(t, seq + at' - 1), op') ELSE Claim(db, t)
                  IN  Holds(tx', t, P, P)
        BY <2>0, <2>5, OpApplied
      <3>3. \A t \in Extras : Imported(t)' =
               IF t = token THEN Upto(t, Reach(t, seq + at' - 1), op') ELSE Claim(db, t)
        BY <1>a, <3>1 DEF Imported
      <3> QED
        BY <2>c, <3>1, <3>2, <3>3
    <2>6. CASE IP!CommitPage
      <3>1. /\ stage = "apply" /\ at > page.kept /\ stage' \in {"paused", "verify", "collect"}
            /\ IP!Write(IP!UpsertBackfill(tx, token, IP!NewRecord))
        BY <2>6 DEF IP!CommitPage, IP!NewRecord
      <3> QED
        BY <1>b, <2>0, <2>a, <3>1, PageSaved
    <2>7. CASE IP!Verify
      <3>1. stage = "verify" /\ stage' = "next"
        BY <2>7 DEF IP!Verify
      <3>2. CASE UNCHANGED <<db, durable>>
        BY <2>b, <3>1, <3>2
      <3>3. ASSUME NEW v \in BOOLEAN,
                   IP!Write(IP!UpsertBackfill(db, token, IP!CheckedRecord(v)))
            PROVE  DataInv'
        BY <1>b, <2>0, <2>a, <3>1, <3>3, CheckSaved
      <3> QED
        BY <2>7, <3>2, <3>3 DEF IP!Verify, IP!store, IP!CheckedRecord
    <2> QED
      BY <1>2, <2>1, <2>2, <2>3, <2>4, <2>5, <2>6, <2>7 DEF IP!BackfillStep
  <1> QED
    BY <1>1, <1>2 DEF ImportMove

(* A new token claims nothing, and nothing of it is there.                 *)
LEMMA RegistrationKeepsData ==
  ASSUME Typed, Control, DataInv, NEW u \in Extras, Registration(u)
  PROVE  DataInv'
PROOF
  <1>1. /\ durable' \in {durable, db'}
        /\ db'.bf[u].known /\ ~db'.bf[u].done /\ db'.bf[u].next = 0 /\ ~db.bf[u].known
        /\ \A t \in Extras \ {u} : db'.bf[t] = db.bf[t]
        /\ db'.height = db.height /\ db'.rows = db.rows /\ db'.lastId = db.lastId
        /\ db'.bal = db.bal
    BY RegistrationStore
  <1>2. /\ chain' = chain /\ stage' = "paused" /\ pc' = "idle"
    BY DEF Registration, node, syncer, importer, Control, WaitInv
  <1>3. Upto(u, Reach(u, 0), 1) = {}
    BY EntryFacts DEF Typed, Control
  <1> DEFINE r == db'
  <1> HIDE DEF r
  <1>4. \A t \in Extras : Claim(r, t) = Claim(db, t)
    BY <1>1, <1>3 DEF Claim, r
  <1>5. SP!IdsBelow(db) /\ \A t \in Extras : Holds(db, t, Claim(db, t), Claim(db, t))
    BY DEF DataInv, Stored
  <1>6. r.rows = db.rows /\ r.lastId = db.lastId /\ r.bal = db.bal
    BY <1>1 DEF r
  <1>7. Stored(r)
    BY <1>4, <1>5, <1>6, HoldsAlike DEF Stored
  <1>8. Stored(db') /\ Stored(durable')
    BY <1>1, <1>7 DEF r, DataInv
  <1> QED
    BY <1>2, <1>8, SameShow DEF DataInv

LEMMA DataStart == Init => DataInv
PROOF
  <1> SUFFICES ASSUME Init PROVE DataInv
    OBVIOUS
  <1>1. /\ db = SP!EmptyDatabase /\ tx = SP!EmptyDatabase /\ durable = SP!EmptyDatabase
        /\ pc = "idle" /\ stage = "paused"
    BY InitOfParts DEF SP!Init, Init
  <1> DEFINE s == SP!EmptyDatabase
  <1>2. /\ s.rows = {} /\ \A t \in Extras : ~s.bf[t].known
        /\ \A t \in Extras, x \in Accounts : s.bal[t][x] = 0
    BY DEF SP!EmptyDatabase, SP!NotRegistered, SP!Tokens
  <1> HIDE DEF s
  <1>3. SP!IdsBelow(s)
    BY <1>2 DEF SP!IdsBelow
  <1>4. ASSUME NEW t \in Extras PROVE Holds(s, t, Claim(s, t), Claim(s, t))
    <2>1. Claim(s, t) = {}
      BY <1>2 DEF Claim
    <2>2. RowsOf(s, t) = {}
      BY <1>2 DEF RowsOf
    <2>3. RowsAre(s, t, {})
      BY <2>2, FS_EmptySet DEF RowsAre
    <2>4. SumsAre(s, t, {})
      BY <1>2, SP!NetOfNone, SyncConstants DEF SumsAre
    <2> QED
      BY <2>1, <2>3, <2>4 DEF Holds
  <1>5. Stored(s)
    BY <1>3, <1>4 DEF Stored
  <1> QED
    BY <1>1, <1>5 DEF DataInv, s

LEMMA DataStep ==
  ASSUME SP!FullAnswers, Typed, Control, Placed, PlainEvents, DataInv, [Next]_vars
  PROVE  DataInv' /\ chain' = chain
PROOF
  <1>1. CASE SyncNext
    BY <1>1, SyncKeepsData, SyncStore DEF SyncNext, Typed
  <1>2. CASE ImportNext
    BY <1>2, ImportKeepsData, ImportStore DEF ImportNext
  <1>3. CASE QuietMove
    BY <1>3, DataKept DEF QuietMove, node, store, syncer, importer
  <1>4. CASE Stop
    <2>1. /\ chain' = chain /\ pc' = "idle" /\ stage' = "paused"
          /\ db' \in {db, durable} /\ durable' = durable
      BY <1>4 DEF Stop, node
    <2>2. Stored(db') /\ Stored(durable')
      BY <2>1 DEF DataInv
    <2> QED
      BY <2>1, <2>2, SameShow DEF DataInv
  <1>5. ASSUME NEW t \in Extras, Registration(t) PROVE DataInv' /\ chain' = chain
    BY <1>5, RegistrationKeepsData DEF Registration, node
  <1> QED
    BY <1>1, <1>2, <1>3, <1>4, <1>5, StepKinds DEF Typed

----------------------------------------------------------------------------
(* The theorems.                                                           *)

LEMMA MovesAreUpto ==
  ASSUME SP!TypeInv, NEW t
  PROVE  Moves(t) = Upto(t, db.height + 1, 1)
PROOF
  <1> DEFINE Of(g) == {<<g, i>> : i \in {j \in DOMAIN SP!EventsAt(g) : Counts(t, SP!EventsAt(g)[j])}}
             P == Upto(t, db.height + 1, 1)
             U == UNION {Of(g) : g \in 1 .. db.height}
  <1>1. Moves(t) = U
    <2>1. \A e : Counts(t, e) <=> /\ e.source \in {t} /\ ~e.reverted
                                  /\ e.kind # "other" /\ e.value \in 1 .. MaxSafeValue
      BY DEF Counts
    <2>2. Moves(t) = UNION {{<<g, i>> : i \in {j \in DOMAIN SP!EventsAt(g) :
                        LET e == SP!EventsAt(g)[j]
                        IN  /\ e.source \in {t} /\ ~e.reverted
                            /\ e.kind # "other" /\ e.value \in 1 .. MaxSafeValue}}
                      : g \in 1 .. db.height}
      BY Zenon DEF Moves, Sync!Positions, Sync!EventsAt, SP!EventsAt
    <2> QED
      BY <2>1, <2>2
  <1>2. db.height \in 0 .. MaxHeight /\ MaxHeight \in Nat
    BY SyncConstants, StoreAssumption DEF SP!TypeInv, SP!TypeOK, SP!Database
  <1>3. \A g \in 1 .. db.height : g \in Heights /\ g \in Nat
    BY <1>2 DEF Heights
  <1>4. /\ \A p \in SP!AllPositions :
              /\ p = <<p[1], p[2]>> /\ p[1] \in Heights /\ p[1] \in Nat /\ p[2] \in Nat \ {0}
              /\ p[2] \in DOMAIN SP!EventsAt(p[1])
        /\ \A h \in Heights : \A i \in DOMAIN SP!EventsAt(h) : <<h, i>> \in SP!AllPositions
    BY SP!PositionFacts, SyncConstants, SameTypes
  <1>5. ASSUME NEW p \in U PROVE p \in P
    <2>1. PICK g \in 1 .. db.height : p \in Of(g)
      OBVIOUS
    <2>2. PICK i \in DOMAIN SP!EventsAt(g) : p = <<g, i>> /\ Counts(t, SP!EventsAt(g)[i])
      BY <2>1
    <2>3. p \in SP!AllPositions /\ SP!At(p) = SP!EventsAt(g)[i] /\ p[1] = g
      BY <1>3, <1>4, <2>2 DEF SP!At
    <2>4. p \in TrackedMoves(t)
      BY <2>2, <2>3 DEF TrackedMoves
    <2>5. SP!Before(p, db.height + 1, 1)
      BY <1>2, <1>3, <2>3 DEF SP!Before
    <2> QED
      BY <2>4, <2>5 DEF Upto
  <1>6. ASSUME NEW p \in P PROVE p \in U
    <2>1. p \in SP!AllPositions /\ Counts(t, SP!At(p)) /\ SP!Before(p, db.height + 1, 1)
      BY DEF Upto, TrackedMoves
    <2>2. p[1] \in 1 .. db.height
      <3>1. p[1] \in Heights /\ p[1] \in Nat /\ p[2] \in Nat \ {0}
        BY <1>4, <2>1
      <3>2. p[1] < db.height + 1 \/ (p[1] = db.height + 1 /\ p[2] < 1)
        BY <2>1 DEF SP!Before
      <3>3. p[1] >= 1
        BY <1>2, <3>1 DEF Heights
      <3> QED
        BY <1>2, <3>1, <3>2, <3>3
    <2>3. p = <<p[1], p[2]>> /\ p[2] \in DOMAIN SP!EventsAt(p[1])
      BY <1>4, <2>1
    <2>4. Counts(t, SP!EventsAt(p[1])[p[2]])
      BY <2>1 DEF SP!At
    <2>5. p \in Of(p[1])
      BY <2>3, <2>4
    <2> QED
      BY <2>2, <2>5
  <1> QED
    BY <1>1, <1>5, <1>6

(* The invariant of the whole process.                                     *)
ProcessInv == Typed /\ Control /\ Placed /\ PlainEvents /\ DataInv

LEMMA PlainKept ==
  ASSUME chain' = chain
  PROVE  (PlainEvents' <=> PlainEvents) /\ (Covered' <=> Covered)
PROOF
  <1>1. SP!AllPositions' = SP!AllPositions /\ \A p : SP!At(p)' = SP!At(p)
    BY DEF SP!AllPositions, SP!At, SP!EventsAt
  <1> QED
    BY <1>1, SameMoves DEF PlainEvents

LEMMA ProcessStep ==
  ASSUME SP!FullAnswers, ProcessInv, [Next]_vars
  PROVE  ProcessInv' /\ (Covered => Covered')
PROOF
  <1>1. Typed' /\ Control' /\ Placed'
    BY TypedStep, ControlStep, PlacedStep DEF ProcessInv
  <1>2. DataInv' /\ chain' = chain
    BY DataStep DEF ProcessInv
  <1> QED
    BY <1>1, <1>2, PlainKept DEF ProcessInv

LEMMA ProcessInductive ==
  ASSUME SP!FullAnswers, GenesisLib >= 1
  PROVE  /\ Spec /\ PlainEvents => []ProcessInv
         /\ Spec /\ PlainEvents /\ Covered => [](ProcessInv /\ Covered)
PROOF
  <1>1. Init /\ PlainEvents => ProcessInv
    BY TypedInit, ControlInit, PlacedInit, DataStart DEF ProcessInv
  <1>2. ProcessInv /\ [Next]_vars => ProcessInv' /\ (Covered => Covered')
    BY ProcessStep
  <1> QED
    BY <1>1, <1>2, PTL DEF Spec

LEMMA TransfersOnce == ProcessInv => WholeTransfersOnce
PROOF
  <1> SUFFICES ASSUME ProcessInv PROVE WholeTransfersOnce
    OBVIOUS
  <1>1. /\ \A t \in Extras : RowsAre(db, t, Claim(db, t))
        /\ \A t \in Extras : Moves(t) = Upto(t, db.height + 1, 1)
    BY MovesAreUpto DEF ProcessInv, Typed, DataInv, Stored, Holds
  <1>2. ASSUME NEW t \in Indexed
        PROVE  Cardinality({r \in db.rows : r.token = t}) = Cardinality(Moves(t))
    <2>1. t \in Extras /\ db.bf[t].known /\ db.bf[t].done
      BY DEF Indexed, Registered
    <2>2. Claim(db, t) = Moves(t)
      BY <1>1, <2>1 DEF Claim
    <2> QED
      BY <1>1, <2>1, <2>2 DEF RowsAre, RowsOf
  <1>3. ASSUME NEW r \in db.rows
        PROVE  r.token \in {Koin, Vhp} \cup Registered
    <2>1. r.token \in Tokens
      <3>1. db \in Database
        BY SameTypes DEF ProcessInv, Typed, SP!TypeInv, SP!TypeOK
      <3> QED
        BY <3>1 DEF Database, Transfer
    <2>2. ASSUME r.token \in Extras PROVE db.bf[r.token].known
      <3>1. RowsAre(db, r.token, Claim(db, r.token)) /\ r \in RowsOf(db, r.token)
        BY <1>1, <2>2 DEF RowsOf
      <3>2. Claim(db, r.token) # {}
        BY <3>1 DEF RowsAre
      <3> QED
        BY <3>2 DEF Claim
    <2> QED
      BY <2>1, <2>2 DEF Tokens, Registered
  <1> QED
    BY <1>2, <1>3 DEF WholeTransfersOnce

LEMMA HistoryOnce == ProcessInv /\ Covered => WholeHistoryOnce
PROOF
  <1> SUFFICES ASSUME ProcessInv, Covered, NEW t \in Indexed, NEW a \in Accounts
               PROVE  db.bal[t][a] = Sync!Net(a, Moves(t))
    BY DEF WholeHistoryOnce
  <1>1. t \in Extras /\ db.bf[t].known /\ db.bf[t].done
    BY DEF Indexed, Registered
  <1>2. SumsAre(db, t, Claim(db, t))
    BY <1>1 DEF ProcessInv, DataInv, Stored, Holds
  <1>3. Claim(db, t) = Moves(t)
    BY <1>1, MovesAreUpto DEF ProcessInv, Typed, Claim
  <1> QED
    BY <1>2, <1>3, SameNet DEF SumsAre

(* The transfer history of a token once indexed holds one row for each of  *)
(* its events in the indexed blocks, and that of a token never registered  *)
(* none: the import and the block sync meet at the cutoff with no block    *)
(* left out and none taken twice, whenever the token was registered, and   *)
(* whichever step an error, a crash, a power loss or a restart with other  *)
(* flags interrupts.  The node answers in full, and the events of tokens   *)
(* are plain: what the import makes of a reverted one is a finding.        *)
THEOREM TransfersImportedOnce ==
  ASSUME SP!FullAnswers, GenesisLib >= 1
  PROVE  Spec /\ PlainEvents => []WholeTransfersOnce
  BY ProcessInductive, TransfersOnce, PTL

(* The balances of a token once indexed are what its events in the indexed *)
(* blocks add up to, under the same conditions and if no event of a token  *)
(* debits more than the events before it left.                             *)
THEOREM HistoryImportedOnce ==
  ASSUME SP!FullAnswers, GenesisLib >= 1
  PROVE  Spec /\ PlainEvents /\ Covered => []WholeHistoryOnce
  BY ProcessInductive, HistoryOnce, PTL
=============================================================================
