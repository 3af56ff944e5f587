------------------------ MODULE HistoryBackfillProofs ------------------------
(***************************************************************************)
(* Theorems about HistoryBackfill, for every history, page size, cutoff    *)
(* and placing of errors, crashes and power losses: type correctness,      *)
(* which here says that no cursor and no page ever reaches beyond the      *)
(* history the service has; and that rows, first-seen heights and balances *)
(* are exactly those of the entries a progress record claims, so that the  *)
(* sync is let go only when everything up to its height is imported.       *)
(***************************************************************************)
EXTENDS HistoryBackfill, TokenStoreProofs

----------------------------------------------------------------------------
(* Histories and what is visible of them.                                  *)

LEMMA VisibleFacts ==
  ASSUME hist \in Histories, NEW t \in Extras
  PROVE  /\ hist[t] \in Seq(Entry)
         /\ Len(hist[t]) \in Nat /\ Len(hist[t]) <= MaxSeq
         /\ Visible(t) \in Nat /\ Visible(t) <= Len(hist[t])
PROOF
  <1>1. /\ hist[t] \in Seq(Entry) /\ Len(hist[t]) \in Nat
        /\ Len(hist[t]) <= MaxSeq /\ DOMAIN hist[t] = 1 .. Len(hist[t])
    BY BackfillAssumption
  <1> DEFINE seen == {i \in DOMAIN hist[t] : hist[t][i].height <= indexed}
  <1>2. /\ IsFiniteSet(1 .. Len(hist[t]))
        /\ Cardinality(1 .. Len(hist[t])) = Len(hist[t])
    <2>1. /\ IsFiniteSet(1 .. Len(hist[t]))
          /\ Cardinality(1 .. Len(hist[t])) =
               IF 1 > Len(hist[t]) THEN 0 ELSE Len(hist[t]) - 1 + 1
      BY <1>1, FS_Interval
    <2> QED
      BY <1>1, <2>1
  <1>3. seen \in SUBSET (1 .. Len(hist[t]))
    BY <1>1
  <1> HIDE DEF seen
  <1>4. IsFiniteSet(seen) /\ Cardinality(seen) <= Len(hist[t])
    BY <1>2, <1>3, FS_Subset
  <1>5. Cardinality(seen) \in Nat
    BY <1>4, FS_CardinalityType
  <1>6. Visible(t) = Cardinality(seen)
    BY DEF Visible, seen
  <1> QED
    BY <1>1, <1>4, <1>5, <1>6

(* What the service has once served, it goes on serving.                   *)
LEMMA VisibleGrows ==
  ASSUME hist \in Histories, indexed \in Nat, hist' = hist, indexed' = indexed + 1,
         NEW t \in Extras
  PROVE  Visible(t) <= Visible(t)'
PROOF
  <1> DEFINE seen(n) == {i \in DOMAIN hist[t] : hist[t][i].height <= n}
  <1>1. /\ hist[t] \in Seq(Entry) /\ Len(hist[t]) \in Nat
        /\ DOMAIN hist[t] = 1 .. Len(hist[t])
    BY BackfillAssumption
  <1>2. ASSUME NEW i \in DOMAIN hist[t]
        PROVE  hist[t][i].height \in Nat
    <2>1. hist[t][i] \in Entry
      BY <1>1
    <2> QED
      BY <2>1, StoreAssumption DEF Entry, Heights
  <1>3. seen(indexed) \in SUBSET seen(indexed + 1)
    BY <1>2
  <1>4. IsFiniteSet(seen(indexed + 1))
    <2>1. IsFiniteSet(1 .. Len(hist[t]))
      BY <1>1, FS_Interval
    <2>2. seen(indexed + 1) \in SUBSET (1 .. Len(hist[t]))
      BY <1>1
    <2> HIDE DEF seen
    <2> QED
      BY <2>1, <2>2, FS_Subset
  <1>5. Visible(t) = Cardinality(seen(indexed)) /\ Visible(t)' = Cardinality(seen(indexed + 1))
    BY DEF Visible
  <1> HIDE DEF seen
  <1> QED
    BY <1>3, <1>4, <1>5, FS_Subset

----------------------------------------------------------------------------
(* A replayed event.                                                       *)

LEMMA ReplayType ==
  ASSUME NEW s \in Database, NEW h \in Heights, NEW t \in Tokens,
         NEW e \in Event, e.kind \in TransferKinds
  PROVE  Replay(s, h, t, e) \in Database /\ Replay(s, h, t, e).bf = s.bf
PROOF
  <1> DEFINE addrs == {Debited(e), Credited(e)} \ {NoAddr}
             seen  == LowerFirstSeen(s, addrs, h)
             moved == MoveValue(seen, t, e)
  <1>1. seen \in Database /\ seen.bf = s.bf
    BY LowerFirstSeenType, ProgressKept
  <1> HIDE DEF seen
  <1>2. moved \in Database /\ moved.bf = s.bf
    BY <1>1, MoveValueType, ProgressKept
  <1> HIDE DEF moved
  <1>3. RecordTransfer(moved, h, t, e) \in Database /\ RecordTransfer(moved, h, t, e).bf = s.bf
    BY <1>2, RecordTransferType, ProgressKept
  <1> QED
    BY <1>3 DEF Replay, seen, moved

----------------------------------------------------------------------------
(* The invariant.  TypeOK alone is not inductive: that a cursor stays      *)
(* within MaxSeq, and an entry under work within the history, needs the    *)
(* cursors of all databases to lie within what the service has served, and *)
(* the page to begin at the cursor.                                        *)

CursorInv ==
    /\ hist \in Histories
    /\ \A t \in Extras : db.bf[t].next <= Visible(t) /\ durable.bf[t].next <= Visible(t)
    /\ tx.bf = db.bf
    /\ stage \in {"collect", "coverage", "apply", "verify"} => token \in Extras
    /\ stage \in {"collect", "coverage", "apply"} => seq <= Visible(token)
    /\ stage \in {"coverage", "apply"} =>
          /\ page.kept <= page.fetched /\ seq + page.fetched <= Visible(token)
          /\ at \in Nat \ {0} /\ k \in Nat \ {0}

TypeInv == TypeOK /\ CursorInv

LEMMA TypeInit == Init => TypeInv
PROOF
  <1> SUFFICES ASSUME Init PROVE TypeInv
    OBVIOUS
  <1>1. PICK h \in 0 .. MaxHeight, regs \in SUBSET Extras :
            db = RegisteredAt(h, regs) /\ tx = db /\ durable = db
    BY DEF Init
  <1> DEFINE seen == LiveSeen(h)
             toks == {Koin, Vhp} \cup regs
             recs == [t \in Extras |->
                        IF t \in regs THEN [NotRegistered EXCEPT !.known = TRUE, !.cutoff = h]
                        ELSE NotRegistered]
  <1>2. seen \in [Addresses -> 1 .. NotSeen]
    BY StoreAssumption DEF LiveSeen, NotSeen
  <1>3. toks \in SUBSET Tokens
    BY DEF Tokens
  <1>4. recs \in [Extras -> BackfillRecord] /\ \A t \in Extras : recs[t].next = 0
    <2> DEFINE new == [NotRegistered EXCEPT !.known = TRUE, !.cutoff = h]
    <2>1. NotRegistered \in BackfillRecord /\ NotRegistered.next = 0
      BY StoreAssumption DEF NotRegistered, BackfillRecord
    <2>2. ASSUME NEW r \in BackfillRecord, r.next = 0
          PROVE  /\ [r EXCEPT !.known = TRUE, !.cutoff = h] \in BackfillRecord
                 /\ [r EXCEPT !.known = TRUE, !.cutoff = h].next = 0
      BY <2>2 DEF BackfillRecord
    <2>3. new \in BackfillRecord /\ new.next = 0
      <3> HIDE DEF NotRegistered
      <3> QED BY <2>1, <2>2
    <2> HIDE DEF new
    <2>4. recs = [t \in Extras |-> IF t \in regs THEN new ELSE NotRegistered]
      BY DEF new
    <2> QED
      BY <2>1, <2>3, <2>4
  <1>5. db = [EmptyDatabase EXCEPT !.height = h, !.seen = seen, !.tokens = toks, !.bf = recs]
    BY <1>1 DEF RegisteredAt, EmptyDatabase
  <1> HIDE DEF seen, toks, recs
  <1>6. db \in Database /\ db.bf = recs
    BY <1>2, <1>3, <1>4, <1>5, EmptyDatabaseType DEF Database
  <1>7. hist \in Histories /\ hist \in [Extras -> Seq(Entry)]
    BY BackfillAssumption DEF Init
  <1>8. \A t \in Extras : 0 <= Visible(t)
    BY <1>7, VisibleFacts
  <1>9. NoPage \in Page /\ 0 \in 0 .. MaxSeq /\ 0 \in 0 .. MaxFaults
    BY BackfillAssumption, StoreAssumption DEF NoPage, Page
  <1>10. TypeOK
    BY <1>1, <1>6, <1>7, <1>9 DEF Init, TypeOK, Stages, Outcomes
  <1>11. CursorInv
    BY <1>1, <1>4, <1>6, <1>7, <1>8 DEF Init, CursorInv
  <1> QED
    BY <1>10, <1>11 DEF TypeInv

LEMMA PauseType ==
  ASSUME TypeInv, Pause, faults' \in 0 .. MaxFaults
  PROVE  TypeInv'
PROOF
  <1>1. /\ stage' = "paused" /\ tx' = db /\ db' = db /\ durable' = durable
        /\ hist' = hist /\ indexed' = indexed
        /\ todo' = {} /\ token' = NoAddr /\ seq' = 0 /\ covered' = FALSE
        /\ page' = NoPage /\ outcome' = "more" /\ at' = 0 /\ k' = 0
    BY DEF Pause, ResetLocals, service
  <1>2. NoPage \in Page /\ 0 \in 0 .. MaxSeq
    BY BackfillAssumption, StoreAssumption DEF NoPage, Page
  <1>3. TypeOK'
    BY <1>1, <1>2 DEF TypeInv, TypeOK, Stages, Outcomes
  <1>4. \A t \in Extras : Visible(t)' = Visible(t)
    BY <1>1 DEF Visible
  <1>5. CursorInv'
    BY <1>1, <1>4 DEF TypeInv, CursorInv
  <1> QED
    BY <1>3, <1>5 DEF TypeInv

(* The page that CollectPage returns fits in what is visible from seq on.  *)
LEMMA PageFits ==
  ASSUME TypeInv, CollectPage, ~Pause
  PROVE  /\ page' \in Page /\ page'.kept <= page'.fetched
         /\ seq + page'.fetched <= Visible(token)
PROOF
  <1> DEFINE left    == Visible(token) - seq
             fetched == IF left > PageSize THEN PageSize ELSE left
             above   == {i \in 1 .. fetched :
                           hist[token][seq + i].height > db.bf[token].cutoff}
             kept    == IF above = {} THEN fetched ELSE Min(above) - 1
  <1>1. stage = "collect" /\ page' = [fetched |-> fetched, kept |-> kept]
    BY DEF CollectPage
  <1>2. /\ token \in Extras /\ seq \in Nat /\ seq <= Visible(token) /\ Visible(token) \in Nat
        /\ PageSize \in Nat
    BY <1>1, VisibleFacts, BackfillAssumption, StoreAssumption DEF TypeInv, TypeOK, CursorInv
  <1>3. fetched \in 0 .. PageSize /\ seq + fetched <= Visible(token)
    BY <1>2
  <1> HIDE DEF fetched
  <1>4. kept \in 0 .. PageSize /\ kept <= fetched
    <2>1. CASE above = {}
      BY <1>3, <2>1
    <2>2. CASE above # {}
      <3>1. above \in SUBSET Nat /\ above \subseteq 1 .. fetched
        BY <1>3
      <3>2. Min(above) \in above
        BY <2>2, <3>1, MinFacts
      <3>3. Min(above) \in 1 .. fetched
        BY <3>1, <3>2
      <3> HIDE DEF above
      <3> QED
        BY <1>2, <1>3, <2>2, <3>3
    <2> QED
      BY <2>1, <2>2
  <1> HIDE DEF kept
  <1> QED
    BY <1>1, <1>3, <1>4 DEF Page

(* The record that CommitPage writes.                                      *)
LEMMA RecordType ==
  ASSUME TypeInv, stage = "apply"
  PROVE  /\ NextSeq \in 0 .. MaxSeq /\ NextSeq <= Visible(token)
         /\ LET rec == [db.bf[token] EXCEPT !.next = NextSeq, !.done = (outcome = "last")]
            IN  rec \in BackfillRecord /\ rec.next = NextSeq
PROOF
  <1>1. /\ token \in Extras /\ seq \in Nat /\ page \in Page
        /\ seq <= Visible(token) /\ page.kept <= page.fetched
        /\ seq + page.fetched <= Visible(token)
    BY StoreAssumption DEF TypeInv, TypeOK, CursorInv
  <1>2. Visible(token) \in Nat /\ Visible(token) <= MaxSeq
    BY <1>1, VisibleFacts, StoreAssumption DEF TypeInv, CursorInv
  <1>3. page.kept \in Nat /\ page.fetched \in Nat
    BY <1>1, BackfillAssumption DEF Page
  <1>4. NextSeq \in Nat /\ NextSeq <= Visible(token)
    BY <1>1, <1>2, <1>3 DEF NextSeq
  <1>5. NextSeq \in 0 .. MaxSeq
    BY <1>2, <1>4, StoreAssumption
  <1>6. db.bf[token] \in BackfillRecord
    BY <1>1 DEF TypeInv, TypeOK, Database
  <1> HIDE DEF NextSeq
  <1> QED
    BY <1>4, <1>5, <1>6 DEF BackfillRecord

LEMMA WriteRecordType ==
  ASSUME TypeInv, UNCHANGED service, NEW s \in {db, tx}, token \in Extras,
         NEW rec \in BackfillRecord, rec.next <= Visible(token),
         Write(UpsertBackfill(s, token, rec))
  PROVE  /\ db' \in Database /\ tx' \in Database /\ durable' \in Database
         /\ tx'.bf = db'.bf
         /\ \A t \in Extras : db'.bf[t].next <= Visible(t)' /\ durable'.bf[t].next <= Visible(t)'
PROOF
  <1> DEFINE s2 == UpsertBackfill(s, token, rec)
  <1>1. s \in Database /\ s.bf = db.bf
    BY DEF TypeInv, TypeOK, CursorInv
  <1>2. s2 \in Database /\ s2.bf = [db.bf EXCEPT ![token] = rec]
    BY <1>1, UpsertBackfillType
  <1>3. db' = s2 /\ tx' = s2 /\ durable' \in {durable, s2}
    BY DEF Write
  <1> HIDE DEF s2
  <1>4. \A t \in Extras : Visible(t)' = Visible(t)
    BY DEF Visible, service
  <1>5. db.bf \in [Extras -> BackfillRecord]
    BY DEF TypeInv, TypeOK, Database
  <1>6. \A t \in Extras : s2.bf[t].next <= Visible(t)
    BY <1>2, <1>5 DEF TypeInv, CursorInv
  <1> QED
    BY <1>2, <1>3, <1>4, <1>6 DEF TypeInv, TypeOK, CursorInv

LEMMA TypeStep == TypeInv /\ [Next]_vars => TypeInv'
PROOF
  <1> SUFFICES ASSUME TypeInv, [Next]_vars PROVE TypeInv'
    OBVIOUS
  <1>a. TypeOK /\ CursorInv
    BY DEF TypeInv
  <1>b. /\ 0 \in 0 .. MaxSeq /\ NoPage \in Page
        /\ \A n \in 0 .. MaxFaults : n < MaxFaults => n + 1 \in 0 .. MaxFaults
    BY BackfillAssumption, StoreAssumption DEF NoPage, Page
  <1>c. ASSUME hist' = hist, indexed' = indexed
        PROVE  \A t \in Extras : Visible(t)' = Visible(t)
    BY <1>c DEF Visible
  <1>1. CASE AdvanceIndexer
    <2>1. /\ hist' = hist /\ indexed' = indexed + 1 /\ indexed' \in 0 .. MaxHeight
          /\ db' = db /\ tx' = tx /\ durable' = durable /\ stage' = stage /\ todo' = todo
          /\ token' = token /\ seq' = seq /\ covered' = covered /\ page' = page
          /\ outcome' = outcome /\ at' = at /\ k' = k /\ faults' = faults
      BY <1>1, <1>a, StoreAssumption DEF AdvanceIndexer, TypeOK, store, locals
    <2>2. ASSUME NEW t \in Extras
          PROVE  /\ Visible(t) \in Nat /\ Visible(t)' \in Nat /\ Visible(t) <= Visible(t)'
      <3>1. hist \in Histories /\ hist' \in Histories /\ indexed \in Nat
        BY <1>a, <2>1, StoreAssumption DEF CursorInv, TypeOK
      <3>2. Visible(t) \in Nat /\ Visible(t) <= Visible(t)'
        BY <2>1, <3>1, VisibleFacts, VisibleGrows
      <3>3. Visible(t)' \in Nat
        <4> DEFINE seen == {i \in DOMAIN hist[t] : hist[t][i].height <= indexed'}
        <4>1. IsFiniteSet(seen)
          <5>1. hist[t] \in Seq(Entry)
            BY <3>1, VisibleFacts
          <5>2. IsFiniteSet(1 .. Len(hist[t])) /\ seen \in SUBSET (1 .. Len(hist[t]))
            BY <5>1, FS_Interval
          <5> HIDE DEF seen
          <5> QED BY <5>2, FS_Subset
        <4>2. Visible(t)' = Cardinality(seen)
          BY <2>1 DEF Visible
        <4> HIDE DEF seen
        <4> QED BY <4>1, <4>2, FS_CardinalityType
      <3> QED
        BY <3>2, <3>3
    <2>3. /\ \A t \in Extras : db.bf[t].next \in Nat /\ durable.bf[t].next \in Nat
          /\ seq \in Nat /\ page.fetched \in Nat
      <3>1. /\ db \in Database /\ durable \in Database /\ page \in Page /\ seq \in 0 .. MaxSeq
        BY <1>a DEF TypeOK
      <3>2. \A s \in Database, t \in Extras : s.bf[t] \in BackfillRecord
        BY DEF Database
      <3>3. \A r \in BackfillRecord : r.next \in Nat
        BY StoreAssumption DEF BackfillRecord
      <3>4. page.fetched \in Nat /\ seq \in Nat
        BY <3>1, StoreAssumption, BackfillAssumption DEF Page
      <3> QED
        BY <3>1, <3>2, <3>3, <3>4
    <2>4. TypeOK'
      BY <1>a, <2>1 DEF TypeOK
    <2>5. CursorInv'
      BY <1>a, <2>1, <2>2, <2>3 DEF CursorInv
    <2> QED
      BY <2>4, <2>5 DEF TypeInv
  <1>2. CASE ListPending
    <2>1. TypeOK'
      BY <1>2, <1>a DEF ListPending, TypeOK, Stages, service, store
    <2>2. CursorInv'
      BY <1>2, <1>a, <1>c DEF ListPending, CursorInv, service, store
    <2> QED
      BY <2>1, <2>2 DEF TypeInv
  <1>3. CASE TakeToken
    <2>1. PICK t \in todo : /\ token' = t /\ todo' = todo \ {t} /\ seq' = db.bf[t].next
                            /\ stage' = IF db.bf[t].done THEN "verify" ELSE "collect"
      BY <1>3 DEF TakeToken
    <2>2. t \in Extras /\ db.bf[t].next \in 0 .. MaxSeq /\ db.bf[t].next <= Visible(t)
      BY <1>a DEF TypeOK, CursorInv, Database, BackfillRecord
    <2>3. TypeOK'
      BY <1>3, <1>a, <2>1, <2>2 DEF TakeToken, TypeOK, Stages, service, store
    <2>4. CursorInv'
      BY <1>3, <1>a, <1>c, <2>1, <2>2 DEF TakeToken, CursorInv, service, store
    <2> QED
      BY <2>3, <2>4 DEF TypeInv
  <1>4. CASE AllDone
    <2>1. TypeOK'
      BY <1>4, <1>a, <1>b DEF AllDone, ResetLocals, TypeOK, Stages, Outcomes, service, store
    <2>2. CursorInv'
      BY <1>4, <1>a, <1>c DEF AllDone, ResetLocals, CursorInv, service, store
    <2> QED
      BY <2>1, <2>2 DEF TypeInv
  <1>5. CASE CollectPage
    <2>1. CASE Pause
      BY <1>5, <1>a, <2>1, PauseType DEF CollectPage, TypeOK
    <2>2. CASE ~Pause
      <3>1. /\ stage = "collect" /\ stage' \in {"coverage", "apply"} /\ outcome' \in Outcomes
            /\ tx' = db /\ at' = 1 /\ k' = 1 /\ faults' = faults
            /\ UNCHANGED <<hist, indexed, db, durable, todo, token, seq, covered>>
        BY <1>5, <2>2 DEF CollectPage, Outcomes, service
      <3>2. /\ page' \in Page /\ page'.kept <= page'.fetched
            /\ seq + page'.fetched <= Visible(token)
        BY <1>5, <2>2, PageFits
      <3>3. TypeOK'
        BY <1>a, <3>1, <3>2 DEF TypeOK, Stages
      <3>4. CursorInv'
        BY <1>a, <1>c, <3>1, <3>2 DEF CursorInv
      <3> QED
        BY <3>3, <3>4 DEF TypeInv
    <2> QED
      BY <2>1, <2>2
  <1>6. CASE CheckCoverage
    <2>0. covered' \in BOOLEAN /\ faults' \in 0 .. MaxFaults
      <3>1. CASE covered' = (indexed >= db.bf[token].cutoff) /\ faults' = faults
        BY <1>a, <3>1 DEF TypeOK
      <3>2. CASE covered' = FALSE /\ faults < MaxFaults /\ faults' = faults + 1
        BY <1>a, <1>b, <3>2 DEF TypeOK
      <3> QED
        BY <1>6, <3>1, <3>2 DEF CheckCoverage
    <2>1. /\ stage = "coverage" /\ stage' = "apply" /\ covered' \in BOOLEAN
          /\ outcome' \in Outcomes /\ faults' \in 0 .. MaxFaults
          /\ UNCHANGED <<hist, indexed, db, tx, durable, todo, token, seq, page, at, k>>
      BY <1>6, <2>0 DEF CheckCoverage, Outcomes, service, store
    <2>2. TypeOK'
      BY <1>a, <2>1 DEF TypeOK, Stages
    <2>3. CursorInv'
      BY <1>a, <1>c, <2>1 DEF CursorInv
    <2> QED
      BY <2>2, <2>3 DEF TypeInv
  <1>7. CASE ApplyOp
    <2>1. /\ stage = "apply" /\ stage' = "apply" /\ at <= page.kept
          /\ UNCHANGED <<hist, indexed, db, durable, todo, token, seq, covered, page, outcome, faults>>
      BY <1>7 DEF ApplyOp, service
    <2> DEFINE entry == hist[token][seq + at]
    <2>2. entry \in Entry /\ token \in Tokens
      <3>1. /\ token \in Extras /\ page.kept <= page.fetched /\ at \in Nat \ {0}
            /\ seq + page.fetched <= Visible(token) /\ seq \in Nat /\ page.kept \in Nat
            /\ page.fetched \in Nat
        BY <1>a, <2>1, StoreAssumption, BackfillAssumption DEF CursorInv, TypeOK, Page
      <3>2. /\ hist[token] \in Seq(Entry) /\ Len(hist[token]) \in Nat
            /\ Visible(token) \in Nat /\ Visible(token) <= Len(hist[token])
        BY <1>a, <3>1, VisibleFacts DEF CursorInv
      <3>3. seq + at \in 1 .. Len(hist[token])
        BY <2>1, <3>1, <3>2
      <3> QED
        BY <3>1, <3>2, <3>3 DEF Tokens
    <2>3. entry.height \in Heights /\ entry.events \in Seq(Event)
      BY <2>2 DEF Entry
    <2>4. at' \in Nat \ {0} /\ k' \in Nat \ {0}
      BY <1>7, <1>a, <2>1 DEF ApplyOp, CursorInv
    <2>5. tx' \in Database /\ tx'.bf = tx.bf
      <3>1. CASE k <= Len(entry.events) /\ Replayed(token, entry.events[k])
        <4>1. tx' = Replay(tx, entry.height, token, entry.events[k])
          BY <1>7, <3>1 DEF ApplyOp
        <4>2. k \in 1 .. Len(entry.events)
          BY <1>a, <2>1, <2>3, <3>1 DEF CursorInv
        <4>3. entry.events[k] \in Event /\ entry.events[k].kind \in TransferKinds
          BY <2>3, <3>1, <4>2 DEF Replayed, Recognised
        <4> HIDE DEF entry
        <4> QED
          BY <1>a, <2>2, <2>3, <4>1, <4>3, ReplayType DEF TypeOK
      <3>2. CASE ~(k <= Len(entry.events) /\ Replayed(token, entry.events[k]))
        <4>1. tx' = tx
          BY <1>7, <3>2 DEF ApplyOp
        <4> QED
          BY <1>a, <4>1 DEF TypeOK
      <3> QED
        BY <3>1, <3>2
    <2>6. TypeOK'
      BY <1>a, <2>1, <2>4, <2>5 DEF TypeOK
    <2>7. CursorInv'
      BY <1>a, <1>c, <2>1, <2>4, <2>5 DEF CursorInv
    <2> QED
      BY <2>6, <2>7 DEF TypeInv
  <1>8. CASE CommitPage
    <2> DEFINE rec == [db.bf[token] EXCEPT !.next = NextSeq, !.done = (outcome = "last")]
    <2>1. /\ stage = "apply" /\ token \in Extras /\ UNCHANGED <<hist, indexed, faults>>
          /\ Write(UpsertBackfill(tx, token, rec))
      BY <1>8, <1>a DEF CommitPage, CursorInv, service
    <2>2. /\ rec \in BackfillRecord /\ rec.next <= Visible(token)
          /\ NextSeq \in 0 .. MaxSeq /\ NextSeq <= Visible(token)
      BY <2>1, RecordType
    <2> HIDE DEF rec
    <2>3. /\ db' \in Database /\ tx' \in Database /\ durable' \in Database
          /\ tx'.bf = db'.bf
          /\ \A t \in Extras : /\ db'.bf[t].next <= Visible(t)'
                              /\ durable'.bf[t].next <= Visible(t)'
      BY <2>1, <2>2, WriteRecordType DEF service
    <2>4. \/ stage' = "paused" /\ ResetLocals
          \/ /\ stage' = "verify" /\ page' = NoPage /\ outcome' = "more" /\ at' = 0 /\ k' = 0
             /\ UNCHANGED <<todo, token, seq, covered>>
          \/ /\ stage' = "collect" /\ seq' = NextSeq
             /\ UNCHANGED <<todo, token, covered, page, outcome, at, k>>
      BY <1>8 DEF CommitPage
    <2> HIDE DEF NextSeq
    <2>5. /\ stage' \in Stages /\ todo' \subseteq Extras /\ token' \in Extras \cup {NoAddr}
          /\ seq' \in 0 .. MaxSeq /\ covered' \in BOOLEAN /\ outcome' \in Outcomes
          /\ page' \in Page /\ at' \in Nat /\ k' \in Nat
      <3>1. CASE stage' = "paused" /\ ResetLocals
        BY <1>b, <3>1 DEF ResetLocals, Stages, Outcomes
      <3>2. CASE /\ stage' = "verify" /\ page' = NoPage /\ outcome' = "more"
                 /\ at' = 0 /\ k' = 0 /\ UNCHANGED <<todo, token, seq, covered>>
        BY <1>a, <1>b, <3>2 DEF TypeOK, Stages, Outcomes
      <3>3. CASE /\ stage' = "collect" /\ seq' = NextSeq
                 /\ UNCHANGED <<todo, token, covered, page, outcome, at, k>>
        BY <1>a, <2>2, <3>3 DEF TypeOK, Stages
      <3> QED
        BY <2>4, <3>1, <3>2, <3>3
    <2>6. TypeOK'
      BY <1>a, <2>1, <2>3, <2>5 DEF TypeOK
    <2>7. CursorInv'
      BY <1>a, <1>c, <2>1, <2>2, <2>3, <2>4 DEF CursorInv, ResetLocals
    <2> QED
      BY <2>6, <2>7 DEF TypeInv
  <1>9. CASE Verify
    <2>1. /\ stage = "verify" /\ stage' = "next" /\ token \in Extras
          /\ token' = NoAddr /\ seq' = 0 /\ covered' = FALSE
          /\ UNCHANGED <<hist, indexed, todo, page, outcome, at, k, faults>>
      BY <1>9, <1>a DEF Verify, CursorInv, service
    <2>2. /\ db' \in Database /\ tx' \in Database /\ durable' \in Database
          /\ tx'.bf = db'.bf
          /\ \A t \in Extras : /\ db'.bf[t].next <= Visible(t)'
                              /\ durable'.bf[t].next <= Visible(t)'
      <3>1. CASE UNCHANGED store
        BY <1>a, <1>c, <2>1, <3>1 DEF TypeOK, CursorInv, store
      <3>2. ASSUME NEW v \in BOOLEAN,
                   Write(UpsertBackfill(db, token, [db.bf[token] EXCEPT !.verified = v]))
            PROVE  <2>2
        <4> DEFINE rec == [db.bf[token] EXCEPT !.verified = v]
        <4>1. rec \in BackfillRecord /\ rec.next = db.bf[token].next
          <5>1. db.bf[token] \in BackfillRecord
            BY <1>a, <2>1 DEF TypeOK, Database
          <5>2. ASSUME NEW r \in BackfillRecord
                PROVE  /\ [r EXCEPT !.verified = v] \in BackfillRecord
                       /\ [r EXCEPT !.verified = v].next = r.next
            BY DEF BackfillRecord
          <5> QED
            BY <5>1, <5>2
        <4>2. Write(UpsertBackfill(db, token, rec))
          BY <3>2
        <4> HIDE DEF rec
        <4>3. rec.next <= Visible(token)
          BY <1>a, <2>1, <4>1 DEF CursorInv
        <4> QED
          BY <2>1, <4>1, <4>2, <4>3, WriteRecordType DEF service
      <3> QED
        BY <1>9, <3>1, <3>2 DEF Verify
    <2>3. TypeOK'
      BY <1>a, <1>b, <2>1, <2>2 DEF TypeOK, Stages
    <2>4. CursorInv'
      BY <1>a, <2>1, <2>2 DEF CursorInv
    <2> QED
      BY <2>3, <2>4 DEF TypeInv
  <1>10. CASE HttpError \/ WriteError \/ Crash
    BY <1>10, <1>a, <1>b, PauseType DEF HttpError, WriteError, Crash, Fail, TypeOK
  <1>11. CASE PowerLoss
    <2>1. /\ stage' = "paused" /\ db' = durable /\ tx' = durable /\ durable' = durable
          /\ UNCHANGED <<hist, indexed>> /\ ResetLocals /\ faults' \in 0 .. MaxFaults
      BY <1>11, <1>a, <1>b DEF PowerLoss, Fail, TypeOK, service
    <2>2. TypeOK'
      BY <1>a, <1>b, <2>1 DEF TypeOK, ResetLocals, Stages, Outcomes
    <2>3. CursorInv'
      BY <1>a, <1>c, <2>1 DEF CursorInv
    <2> QED
      BY <2>2, <2>3 DEF TypeInv
  <1>12. CASE UNCHANGED vars
    BY <1>12, <1>a, <1>c DEF TypeInv, TypeOK, CursorInv, vars, service, store, locals
  <1> QED
    BY <1>1, <1>2, <1>3, <1>4, <1>5, <1>6, <1>7, <1>8, <1>9, <1>10, <1>11, <1>12
    DEF Next, BackfillStep

(* Type correctness: no cursor, page or entry under work of an import lies *)
(* beyond the history that the service has, however the indexer lags and   *)
(* wherever a page fails.                                                  *)
THEOREM ImportTypes == Spec => []TypeOK
PROOF
  <1>1. Spec => []TypeInv
    BY TypeInit, TypeStep, PTL DEF Spec
  <1>2. TypeInv => TypeOK
    BY DEF TypeInv
  <1> QED
    BY <1>1, <1>2, PTL

----------------------------------------------------------------------------
(* What is visible is a prefix of the history, because a history ascends.  *)

LEMMA HistoryFacts ==
  ASSUME hist \in Histories, NEW t \in Extras
  PROVE  /\ hist[t] \in Seq(Entry) /\ Len(hist[t]) \in Nat
         /\ DOMAIN hist[t] = 1 .. Len(hist[t])
         /\ \A i \in DOMAIN hist[t] : /\ hist[t][i] \in Entry
                                      /\ hist[t][i].height \in Heights
                                      /\ hist[t][i].events \in Seq(Event)
         /\ \A i, j \in DOMAIN hist[t] : i <= j => hist[t][i].height <= hist[t][j].height
PROOF
  <1>1. /\ hist[t] \in Seq(Entry) /\ Len(hist[t]) \in Nat
        /\ DOMAIN hist[t] = 1 .. Len(hist[t])
        /\ \A i, j \in DOMAIN hist[t] : i < j => hist[t][i].height <= hist[t][j].height
    BY BackfillAssumption
  <1>2. \A i \in DOMAIN hist[t] : hist[t][i] \in Entry
    BY <1>1
  <1>3. \A e \in Entry : e.height \in Heights /\ e.events \in Seq(Event)
    BY DEF Entry
  <1>4. \A i \in DOMAIN hist[t] : hist[t][i].height \in Nat
    BY <1>2, <1>3, StoreAssumption DEF Heights
  <1>5. ASSUME NEW i \in DOMAIN hist[t], NEW j \in DOMAIN hist[t], i <= j
        PROVE  hist[t][i].height <= hist[t][j].height
    BY <1>1, <1>4, <1>5
  <1> QED
    BY <1>1, <1>2, <1>3, <1>5

LEMMA InitialSegment ==
  ASSUME NEW n \in Nat, NEW S \in SUBSET (1 .. n),
         \A i \in S : \A j \in 1 .. n : j <= i => j \in S
  PROVE  S = 1 .. Cardinality(S)
PROOF
  <1> DEFINE Bounds == {m \in Nat : \A i \in S : i <= m}
  <1>1. n \in Bounds
    OBVIOUS
  <1>2. PICK m \in Bounds : \A b \in Bounds : m <= b
    BY <1>1, LeastNat
  <1>3. m \in Nat /\ m <= n /\ \A i \in S : i <= m
    BY <1>1, <1>2
  <1>4. m \in S \/ m = 0
    <2> SUFFICES ASSUME m \notin S, m # 0 PROVE FALSE
      OBVIOUS
    <2>1. m - 1 \in Nat /\ \A i \in S : i <= m - 1
      BY <1>3
    <2>2. m - 1 \in Bounds
      BY <2>1
    <2> QED
      BY <1>2, <1>3, <2>2
  <1>5. S = 1 .. m
    <2>1. \A i \in S : i \in 1 .. m
      BY <1>3
    <2>2. \A i \in 1 .. m : i \in S
      BY <1>3, <1>4
    <2> QED
      BY <2>1, <2>2
  <1>6. Cardinality(1 .. m) = m
    <2>1. Cardinality(1 .. m) = IF 1 > m THEN 0 ELSE m - 1 + 1
      BY <1>3, FS_Interval
    <2> QED
      BY <1>3, <2>1
  <1> QED
    BY <1>5, <1>6

LEMMA VisiblePrefix ==
  ASSUME hist \in Histories, indexed \in Nat, NEW t \in Extras, NEW i \in DOMAIN hist[t]
  PROVE  hist[t][i].height <= indexed <=> i <= Visible(t)
PROOF
  <1> DEFINE seen == {n \in DOMAIN hist[t] : hist[t][n].height <= indexed}
  <1>1. /\ Len(hist[t]) \in Nat /\ DOMAIN hist[t] = 1 .. Len(hist[t])
        /\ \A n \in DOMAIN hist[t] : hist[t][n].height \in Nat
        /\ \A n, m \in DOMAIN hist[t] : n <= m => hist[t][n].height <= hist[t][m].height
    BY HistoryFacts, StoreAssumption DEF Heights
  <1>2. seen \in SUBSET (1 .. Len(hist[t]))
    BY <1>1
  <1>3. ASSUME NEW n \in seen, NEW m \in 1 .. Len(hist[t]), m <= n
        PROVE  m \in seen
    <2>1. m \in DOMAIN hist[t] /\ n \in DOMAIN hist[t] /\ hist[t][n].height <= indexed
      BY <1>1
    <2>2. hist[t][m].height <= hist[t][n].height
      BY <1>1, <1>3, <2>1
    <2>3. hist[t][m].height <= indexed
      BY <1>1, <2>1, <2>2
    <2> QED
      BY <2>1, <2>3
  <1>4. Visible(t) = Cardinality(seen)
    BY DEF Visible
  <1>5. i \in seen <=> hist[t][i].height <= indexed
    OBVIOUS
  <1> HIDE DEF seen
  <1>6. seen = 1 .. Visible(t)
    BY <1>1, <1>2, <1>3, <1>4, InitialSegment
  <1>7. i \in Nat \ {0} /\ Visible(t) \in Nat
    BY <1>1, VisibleFacts
  <1> QED
    BY <1>5, <1>6, <1>7

----------------------------------------------------------------------------
(* Positions of moves.  Every set of positions below is a part of          *)
(* AllMoves(t), the moves of the whole history.                            *)

AllMoves(t) == Moves(t, DOMAIN hist[t])

(* The moves of the entries before number n, and of the first m - 1 events *)
(* of entry number n.                                                      *)
MovesBefore(t, n, m) ==
    {p \in AllMoves(t) : p[1] < n \/ (p[1] = n /\ p[2] < m)}

IsMove(t, e) ==
    /\ e.source = t /\ e.kind # "other" /\ e.value > 0
    /\ {Debited(e), Credited(e)} # {NoAddr}

LEMMA MovesOfEntries ==
  ASSUME NEW t, NEW S \in SUBSET DOMAIN hist[t]
  PROVE  Moves(t, S) = {p \in AllMoves(t) : p[1] \in S}
PROOF
  <1> DEFINE Of(i) == {<<i, j>> : j \in {n \in DOMAIN hist[t][i].events :
                                           IsMove(t, hist[t][i].events[n])}}
  <1>1. \A X : Moves(t, X) = UNION {Of(i) : i \in X}
    BY DEF Moves, IsMove
  <1>2. \A i : \A p \in Of(i) : p[1] = i
    OBVIOUS
  <1> HIDE DEF Of
  <1> QED
    BY <1>1, <1>2 DEF AllMoves

LEMMA MovePositions ==
  ASSUME hist \in Histories, NEW t \in Extras
  PROVE  /\ IsFiniteSet(AllMoves(t))
         /\ \A p \in AllMoves(t) :
               /\ p = <<p[1], p[2]>> /\ p[1] \in DOMAIN hist[t] /\ p[1] \in Nat /\ p[2] \in Nat
               /\ p[2] \in DOMAIN hist[t][p[1]].events
               /\ At(t, p) \in Event /\ IsMove(t, At(t, p))
         /\ \A i \in DOMAIN hist[t] : \A j \in DOMAIN hist[t][i].events :
               <<i, j>> \in AllMoves(t) <=> IsMove(t, hist[t][i].events[j])
PROOF
  <1> DEFINE Of(i) == {<<i, j>> : j \in {n \in DOMAIN hist[t][i].events :
                                           IsMove(t, hist[t][i].events[n])}}
             All == {Of(i) : i \in DOMAIN hist[t]}
  <1>1. AllMoves(t) = UNION All
    BY DEF AllMoves, Moves, IsMove
  <1>2. /\ Len(hist[t]) \in Nat /\ DOMAIN hist[t] = 1 .. Len(hist[t])
        /\ \A i \in DOMAIN hist[t] : hist[t][i].events \in Seq(Event)
    BY HistoryFacts
  <1>3. \A i \in DOMAIN hist[t] :
           /\ Len(hist[t][i].events) \in Nat
           /\ DOMAIN hist[t][i].events = 1 .. Len(hist[t][i].events)
           /\ \A j \in DOMAIN hist[t][i].events : hist[t][i].events[j] \in Event
    BY <1>2
  <1>4. ASSUME NEW i \in DOMAIN hist[t]
        PROVE  IsFiniteSet(Of(i))
    <2> DEFINE J == {n \in DOMAIN hist[t][i].events : IsMove(t, hist[t][i].events[n])}
    <2>1. IsFiniteSet(1 .. Len(hist[t][i].events))
      BY <1>3, FS_Interval
    <2>0. J \in SUBSET (1 .. Len(hist[t][i].events))
      BY <1>3
    <2> HIDE DEF J
    <2>2. IsFiniteSet(J)
      BY <2>0, <2>1, FS_Subset
    <2> DEFINE f == [j \in J |-> <<i, j>>]
    <2>3. Of(i) = {f[j] : j \in J}
      BY DEF J
    <2> HIDE DEF f
    <2>4. IsFiniteSet({f[j] : j \in J})
      BY <2>2, FiniteImage
    <2> QED
      BY <2>3, <2>4
  <1>5. IsFiniteSet(UNION All)
    <2>1. IsFiniteSet(DOMAIN hist[t])
      BY <1>2, FS_Interval
    <2> DEFINE f == [i \in DOMAIN hist[t] |-> Of(i)]
    <2>4. All = {f[i] : i \in DOMAIN hist[t]}
      OBVIOUS
    <2> HIDE DEF f, All
    <2>2. IsFiniteSet(All)
      BY <2>1, <2>4, FiniteImage
    <2>3. \A X \in All : IsFiniteSet(X)
      BY <1>4 DEF All
    <2> QED
      BY <2>2, <2>3, FS_UNION
  <1>6. ASSUME NEW p \in AllMoves(t)
        PROVE  /\ p = <<p[1], p[2]>> /\ p[1] \in DOMAIN hist[t] /\ p[1] \in Nat /\ p[2] \in Nat
               /\ p[2] \in DOMAIN hist[t][p[1]].events
               /\ At(t, p) \in Event /\ IsMove(t, At(t, p))
    <2>1. PICK i \in DOMAIN hist[t] : p \in Of(i)
      BY <1>1
    <2>2. PICK j \in DOMAIN hist[t][i].events : p = <<i, j>> /\ IsMove(t, hist[t][i].events[j])
      BY <2>1
    <2>3. At(t, p) = hist[t][i].events[j]
      BY <2>2 DEF At
    <2>4. i \in Nat /\ j \in Nat
      BY <1>2, <1>3
    <2> QED
      BY <1>3, <2>2, <2>3, <2>4
  <1>7. \A i \in DOMAIN hist[t] : \A j \in DOMAIN hist[t][i].events :
               <<i, j>> \in AllMoves(t) <=> IsMove(t, hist[t][i].events[j])
    BY <1>1
  <1> QED
    BY <1>1, <1>5, <1>6, <1>7

----------------------------------------------------------------------------
(* What a database shows of sets of positions Q[t], one for each token:    *)
(* the rows of t are those of the moves in Q[t], one for each; an address  *)
(* is seen from its first move, or from where the live sync saw it; and    *)
(* the balances of t are the sums over Q[t].                               *)

RegisteredIn(s) == {t \in Extras : s.bf[t].known}

RowsIn(s, t) == {r \in s.rows : r.token = t}

Shows(t, r, p) ==
    /\ r.height = hist[t][p[1]].height /\ r.kind = At(t, p).kind
    /\ r.from = Debited(At(t, p)) /\ r.to = Credited(At(t, p))
    /\ r.value = At(t, p).value

RowsShow(s, t, P) ==
    /\ IsFiniteSet(RowsIn(s, t))
    /\ Cardinality(RowsIn(s, t)) = Cardinality(P)
    /\ \A r \in RowsIn(s, t) : \E p \in P : Shows(t, r, p)

IdsBelow(s) == \A r \in s.rows : r.id <= s.lastId

ActiveAt(t, x, P) ==
    {hist[t][p[1]].height : p \in {q \in P : x \in {Debited(At(t, q)), Credited(At(t, q))}}}

Activity(s, x, Q) ==
    (UNION {ActiveAt(t, x, Q[t]) : t \in RegisteredIn(s)}) \cup {LiveSeen(s.height)[x]}

SeenShow(s, Q) ==
    \A x \in Accounts : /\ s.seen[x] \in Activity(s, x, Q)
                        /\ \A h \in Activity(s, x, Q) : s.seen[x] <= h

Faithful(s, Q) ==
    /\ IdsBelow(s)
    /\ \A t \in RegisteredIn(s) : RowsShow(s, t, Q[t])
    /\ SeenShow(s, Q)

Balanced(s, Q) ==
    \A t \in RegisteredIn(s), x \in Accounts : s.bal[t][x] = Net(t, x, Q[t])

(* Sets of positions of moves.                                             *)
PlacedIn(Q) == \A t \in Extras : Q[t] \in SUBSET AllMoves(t)

(* What a database shows depends on its rows, heights and balances only.   *)
SameData(s, r) ==
    /\ r.height = s.height /\ r.rows = s.rows /\ r.lastId = s.lastId /\ r.seen = s.seen
    /\ r.bal = s.bal /\ RegisteredIn(r) = RegisteredIn(s)

LEMMA SameDataShows ==
  ASSUME NEW s, NEW r, SameData(s, r), NEW Q, NEW R,
         \A t \in RegisteredIn(s) : R[t] = Q[t]
  PROVE  /\ Faithful(s, Q) => Faithful(r, R)
         /\ Balanced(s, Q) => Balanced(r, R)
PROOF
  <1>1. \A t : RowsIn(r, t) = RowsIn(s, t)
    BY DEF RowsIn, SameData
  <1>2. \A x : Activity(r, x, R) = Activity(s, x, Q)
    BY DEF Activity, SameData
  <1>3. Faithful(s, Q) => Faithful(r, R)
    BY <1>1, <1>2 DEF Faithful, IdsBelow, RowsShow, SeenShow, SameData
  <1>4. Balanced(s, Q) => Balanced(r, R)
    BY DEF Balanced, SameData
  <1> QED
    BY <1>3, <1>4

----------------------------------------------------------------------------
(* What a replayed event changes.                                          *)

NewRow(s, h, t, e) ==
    [id |-> s.lastId + 1, height |-> h, token |-> t, kind |-> e.kind,
     from |-> Debited(e), to |-> Credited(e), value |-> e.value]

LEMMA ReplayEffect ==
  ASSUME NEW s \in Database, NEW h \in Heights, NEW t \in Tokens,
         NEW e \in Event, e.kind \in TransferKinds
  PROVE  LET r == Replay(s, h, t, e)
         IN  /\ r.height = s.height /\ r.bf = s.bf
             /\ r.lastId = s.lastId + 1 /\ r.rows = s.rows \cup {NewRow(s, h, t, e)}
             /\ \A x \in Addresses :
                   r.seen[x] = IF x \in {Debited(e), Credited(e)} /\ h < s.seen[x]
                               THEN h ELSE s.seen[x]
             /\ \A u \in Tokens \ {t}, x \in Accounts : r.bal[u][x] = s.bal[u][x]
             /\ (Debited(e) \in Accounts => s.bal[t][Debited(e)] >= e.value) =>
                   \A x \in Accounts :
                      r.bal[t][x] = s.bal[t][x] + (IF x = Credited(e) THEN e.value ELSE 0)
                                                - (IF x = Debited(e) THEN e.value ELSE 0)
PROOF
  <1> DEFINE addrs == {Debited(e), Credited(e)} \ {NoAddr}
             low   == LowerFirstSeen(s, addrs, h)
             moved == MoveValue(low, t, e)
             r     == RecordTransfer(moved, h, t, e)
  <1>1. low \in Database
    BY LowerFirstSeenType
  <1>2. /\ low.height = s.height /\ low.bf = s.bf /\ low.lastId = s.lastId
        /\ low.rows = s.rows /\ low.bal = s.bal
        /\ \A x \in Addresses : low.seen[x] = IF x \in addrs /\ h < s.seen[x]
                                              THEN h ELSE s.seen[x]
    BY DEF LowerFirstSeen, Database
  <1>3. \A x \in Addresses : x \in addrs <=> x \in {Debited(e), Credited(e)}
    BY ContractsAssumption
  <1> HIDE DEF low, addrs
  <1>4. moved \in Database
    BY <1>1, MoveValueType
  <1>5. /\ OnlyBalances(low, moved)
        /\ \A u \in Tokens \ {t}, x \in Accounts : moved.bal[u][x] = low.bal[u][x]
        /\ (Debited(e) \in Accounts => low.bal[t][Debited(e)] >= e.value) =>
              \A x \in Accounts :
                 moved.bal[t][x] = low.bal[t][x] + (IF x = Credited(e) THEN e.value ELSE 0)
                                                 - (IF x = Debited(e) THEN e.value ELSE 0)
    BY <1>1, MoveValueEffect
  <1> HIDE DEF moved
  <1>6. /\ r.height = moved.height /\ r.bf = moved.bf /\ r.seen = moved.seen
        /\ r.bal = moved.bal /\ r.lastId = moved.lastId + 1
        /\ r.rows = moved.rows \cup {NewRow(moved, h, t, e)}
    BY <1>4 DEF RecordTransfer, InsertTransfer, NewRow, Database
  <1>7. Replay(s, h, t, e) = r
    BY DEF Replay, moved, low, addrs
  <1> HIDE DEF r
  <1>8. NewRow(moved, h, t, e) = NewRow(s, h, t, e)
    BY <1>2, <1>5 DEF NewRow, OnlyBalances
  <1> QED
    BY <1>2, <1>3, <1>5, <1>6, <1>7, <1>8 DEF OnlyBalances

----------------------------------------------------------------------------
(* Net as a difference of two sums.                                        *)

Gains(t, x) ==
    [p \in AllMoves(t) |-> IF Credited(At(t, p)) = x THEN At(t, p).value ELSE 0]

Spends(t, x) ==
    [p \in AllMoves(t) |-> IF Debited(At(t, p)) = x THEN At(t, p).value ELSE 0]

LEMMA GainsSum ==
  ASSUME NEW t, NEW x, NEW P \in SUBSET AllMoves(t), IsFiniteSet(P)
  PROVE  LET gain(p) == IF Credited(At(t, p)) = x THEN At(t, p).value ELSE 0
         IN  MapThenSumSet(gain, P) = SumOver(Gains(t, x), P)
PROOF
  <1> DEFINE gain(p) == IF Credited(At(t, p)) = x THEN At(t, p).value ELSE 0
             f == Gains(t, x)
             Folds(g) == g = [s \in SUBSET P |-> IF s = {} THEN 0
                                                 ELSE gain(Picked(s)) + g[s \ {Picked(s)}]]
             it == CHOOSE g : Folds(g)
  <1>1. MapThenSumSet(gain, P) = it[P]
    BY DEF MapThenSumSet, MapThenFoldSet, Picked
  <1>2. \A s \in SUBSET P : s # {} => f[Picked(s)] = gain(Picked(s))
    BY PickedIn DEF Gains
  <1> HIDE DEF f, gain
  <1>3. \A g : Folds(g) <=> SumsUp(g, f, P)
    <2> SUFFICES ASSUME NEW g PROVE Folds(g) <=> SumsUp(g, f, P)
      OBVIOUS
    <2>1. \A s \in SUBSET P :
             (IF s = {} THEN 0 ELSE gain(Picked(s)) + g[s \ {Picked(s)}])
               = IF s = {} THEN 0 ELSE f[Picked(s)] + g[s \ {Picked(s)}]
      BY <1>2
    <2>2. [s \in SUBSET P |-> IF s = {} THEN 0 ELSE gain(Picked(s)) + g[s \ {Picked(s)}]]
            = [s \in SUBSET P |-> IF s = {} THEN 0 ELSE f[Picked(s)] + g[s \ {Picked(s)}]]
      BY <2>1
    <2> QED
      BY <2>2 DEF SumsUp
  <1>4. SumsUp(it, f, P)
    <2>1. PICK g : SumsUp(g, f, P)
      BY SumsExist
    <2>2. Folds(g)
      BY <1>3, <2>1
    <2> HIDE DEF Folds
    <2>3. Folds(it)
      BY <2>2
    <2> QED
      BY <1>3, <2>3
  <1>5. PICK g : SumsUp(g, f, P) /\ SumOver(f, P) = g[P]
    BY SumChosen
  <1> HIDE DEF it
  <1>6. it[P] = g[P]
    BY <1>4, <1>5, SumsAgree
  <1> QED
    BY <1>1, <1>5, <1>6 DEF f, gain

LEMMA SpendsSum ==
  ASSUME NEW t, NEW x, NEW P \in SUBSET AllMoves(t), IsFiniteSet(P)
  PROVE  LET spend(p) == IF Debited(At(t, p)) = x THEN At(t, p).value ELSE 0
         IN  MapThenSumSet(spend, P) = SumOver(Spends(t, x), P)
PROOF
  <1> DEFINE spend(p) == IF Debited(At(t, p)) = x THEN At(t, p).value ELSE 0
             f == Spends(t, x)
             Folds(g) == g = [s \in SUBSET P |-> IF s = {} THEN 0
                                                 ELSE spend(Picked(s)) + g[s \ {Picked(s)}]]
             it == CHOOSE g : Folds(g)
  <1>1. MapThenSumSet(spend, P) = it[P]
    BY DEF MapThenSumSet, MapThenFoldSet, Picked
  <1>2. \A s \in SUBSET P : s # {} => f[Picked(s)] = spend(Picked(s))
    BY PickedIn DEF Spends
  <1> HIDE DEF f, spend
  <1>3. \A g : Folds(g) <=> SumsUp(g, f, P)
    <2> SUFFICES ASSUME NEW g PROVE Folds(g) <=> SumsUp(g, f, P)
      OBVIOUS
    <2>1. \A s \in SUBSET P :
             (IF s = {} THEN 0 ELSE spend(Picked(s)) + g[s \ {Picked(s)}])
               = IF s = {} THEN 0 ELSE f[Picked(s)] + g[s \ {Picked(s)}]
      BY <1>2
    <2>2. [s \in SUBSET P |-> IF s = {} THEN 0 ELSE spend(Picked(s)) + g[s \ {Picked(s)}]]
            = [s \in SUBSET P |-> IF s = {} THEN 0 ELSE f[Picked(s)] + g[s \ {Picked(s)}]]
      BY <2>1
    <2> QED
      BY <2>2 DEF SumsUp
  <1>4. SumsUp(it, f, P)
    <2>1. PICK g : SumsUp(g, f, P)
      BY SumsExist
    <2>2. Folds(g)
      BY <1>3, <2>1
    <2> HIDE DEF Folds
    <2>3. Folds(it)
      BY <2>2
    <2> QED
      BY <1>3, <2>3
  <1>5. PICK g : SumsUp(g, f, P) /\ SumOver(f, P) = g[P]
    BY SumChosen
  <1> HIDE DEF it
  <1>6. it[P] = g[P]
    BY <1>4, <1>5, SumsAgree
  <1> QED
    BY <1>1, <1>5, <1>6 DEF f, spend

LEMMA NetIsSum ==
  ASSUME NEW t, NEW x, NEW P \in SUBSET AllMoves(t), IsFiniteSet(P)
  PROVE  Net(t, x, P) = SumOver(Gains(t, x), P) - SumOver(Spends(t, x), P)
  BY GainsSum, SpendsSum DEF Net

LEMMA NetOfNone ==
  ASSUME hist \in Histories, NEW t \in Extras, NEW x
  PROVE  Net(t, x, {}) = 0
PROOF
  <1>1. {} \in SUBSET AllMoves(t) /\ IsFiniteSet({})
    BY FS_EmptySet
  <1>2. Summable(Gains(t, x), {}) /\ Summable(Spends(t, x), {})
    BY DEF Summable
  <1>3. SumOver(Gains(t, x), {}) = 0 /\ SumOver(Spends(t, x), {}) = 0
    BY <1>1, <1>2, SumFacts
  <1> QED
    BY <1>1, <1>3, NetIsSum

LEMMA NetGrows ==
  ASSUME hist \in Histories, NEW t \in Extras, NEW x \in Accounts,
         NEW P \in SUBSET AllMoves(t), NEW p \in AllMoves(t), p \notin P
  PROVE  /\ Net(t, x, P) \in Int
         /\ Net(t, x, P \cup {p}) =
              Net(t, x, P) + (IF x = Credited(At(t, p)) THEN At(t, p).value ELSE 0)
                           - (IF x = Debited(At(t, p)) THEN At(t, p).value ELSE 0)
PROOF
  <1> DEFINE f == Gains(t, x)
             g == Spends(t, x)
  <1>1. IsFiniteSet(AllMoves(t)) /\ \A q \in AllMoves(t) : At(t, q) \in Event
    BY MovePositions
  <1>2. /\ P \in SUBSET AllMoves(t) /\ P \cup {p} \in SUBSET AllMoves(t)
        /\ IsFiniteSet(P) /\ IsFiniteSet(P \cup {p})
    BY <1>1, FS_Subset
  <1>3. \A q \in AllMoves(t) : f[q] \in Int /\ g[q] \in Int
    BY <1>1 DEF Gains, Spends, Event
  <1>4. /\ f[p] = IF x = Credited(At(t, p)) THEN At(t, p).value ELSE 0
        /\ g[p] = IF x = Debited(At(t, p)) THEN At(t, p).value ELSE 0
    BY DEF Gains, Spends
  <1> HIDE DEF f, g
  <1>5. /\ Summable(f, P) /\ Summable(f, P \cup {p})
        /\ Summable(g, P) /\ Summable(g, P \cup {p})
    BY <1>2, <1>3 DEF Summable
  <1>6. SumOver(f, P) \in Int /\ SumOver(g, P) \in Int
    BY <1>2, <1>5, SumFacts
  <1>7. /\ SumOver(f, P \cup {p}) = SumOver(f, P) + f[p]
        /\ SumOver(g, P \cup {p}) = SumOver(g, P) + g[p]
    BY <1>2, <1>5, SumAdd
  <1>8. /\ Net(t, x, P) = SumOver(f, P) - SumOver(g, P)
        /\ Net(t, x, P \cup {p}) = SumOver(f, P \cup {p}) - SumOver(g, P \cup {p})
    BY <1>2, NetIsSum DEF f, g
  <1>9. f[p] \in Int /\ g[p] \in Int
    BY <1>3
  <1>10. Net(t, x, P \cup {p}) = Net(t, x, P) + f[p] - g[p]
    BY <1>6, <1>7, <1>8, <1>9
  <1> QED
    BY <1>4, <1>6, <1>8, <1>10

----------------------------------------------------------------------------
(* A replayed event adds its position to what the database shows.          *)

LEMMA RowsGrow ==
  ASSUME hist \in Histories, NEW s \in Database, NEW r, NEW t \in Extras,
         NEW P \in SUBSET AllMoves(t), NEW p \in AllMoves(t), p \notin P,
         At(t, p).kind \in TransferKinds, IdsBelow(s), r.lastId = s.lastId + 1,
         r.rows = s.rows \cup {NewRow(s, hist[t][p[1]].height, t, At(t, p))}
  PROVE  /\ IdsBelow(r)
         /\ RowsShow(s, t, P) => RowsShow(r, t, P \cup {p})
         /\ \A u \in Extras \ {t} : \A U : RowsShow(s, u, U) => RowsShow(r, u, U)
PROOF
  <1> DEFINE new == NewRow(s, hist[t][p[1]].height, t, At(t, p))
  <1>1. s.rows \in SUBSET Transfer /\ s.lastId \in Nat
    BY DEF Database
  <1>2. \A q \in s.rows : q.id \in Nat
    BY <1>1 DEF Transfer
  <1>3. new.id = s.lastId + 1 /\ new.token = t /\ Shows(t, new, p)
    BY DEF NewRow, Shows
  <1> HIDE DEF new
  <1>4. new \notin s.rows
    BY <1>1, <1>3 DEF IdsBelow
  <1>5. IdsBelow(r)
    BY <1>1, <1>2, <1>3 DEF IdsBelow, new
  <1>6. /\ RowsIn(r, t) = RowsIn(s, t) \cup {new} /\ new \notin RowsIn(s, t)
        /\ \A u : u # t => RowsIn(r, u) = RowsIn(s, u)
    BY <1>3, <1>4 DEF RowsIn, new
  <1>7. ASSUME RowsShow(s, t, P)
        PROVE  RowsShow(r, t, P \cup {p})
    <2>1. /\ IsFiniteSet(RowsIn(s, t)) /\ Cardinality(RowsIn(s, t)) = Cardinality(P)
          /\ \A q \in RowsIn(s, t) : \E o \in P : Shows(t, q, o)
      BY <1>7 DEF RowsShow
    <2>2. IsFiniteSet(P)
      BY MovePositions, FS_Subset
    <2>3. /\ IsFiniteSet(RowsIn(r, t))
          /\ Cardinality(RowsIn(r, t)) = Cardinality(RowsIn(s, t)) + 1
      BY <1>6, <2>1, FS_AddElement
    <2>4. Cardinality(P \cup {p}) = Cardinality(P) + 1
      BY <2>2, FS_AddElement
    <2>5. \A q \in RowsIn(r, t) : \E o \in P \cup {p} : Shows(t, q, o)
      BY <1>3, <1>6, <2>1
    <2> QED
      BY <2>1, <2>3, <2>4, <2>5 DEF RowsShow
  <1>8. \A u \in Extras \ {t} : \A U : RowsShow(s, u, U) => RowsShow(r, u, U)
    BY <1>6 DEF RowsShow
  <1> QED
    BY <1>5, <1>7, <1>8

LEMMA ActivityMembers ==
  ASSUME NEW s, NEW x, NEW Q, NEW h
  PROVE  h \in Activity(s, x, Q) <=> \/ h = LiveSeen(s.height)[x]
                                    \/ \E t \in RegisteredIn(s) : h \in ActiveAt(t, x, Q[t])
PROOF
  <1> DEFINE live == LiveSeen(s.height)[x]
             all  == {ActiveAt(t, x, Q[t]) : t \in RegisteredIn(s)}
  <1>1. h \in UNION all <=> \E t \in RegisteredIn(s) : h \in ActiveAt(t, x, Q[t])
    <2>1. h \in UNION all <=> \E A \in all : h \in A
      OBVIOUS
    <2> QED
      BY <2>1
  <1>2. Activity(s, x, Q) = (UNION all) \cup {live}
    BY DEF Activity
  <1> HIDE DEF all
  <1>3. h \in (UNION all) \cup {live} <=> h \in UNION all \/ h = live
    OBVIOUS
  <1> QED
    BY <1>1, <1>2, <1>3

LEMMA ActivityNat ==
  ASSUME hist \in Histories, NEW s \in Database, NEW x \in Accounts, NEW Q, PlacedIn(Q)
  PROVE  \A h \in Activity(s, x, Q) : h \in Nat
PROOF
  <1>1. \A t \in Extras : \A p \in AllMoves(t) : hist[t][p[1]].height \in Nat
    BY MovePositions, HistoryFacts, StoreAssumption DEF Heights
  <1>2. LiveSeen(s.height)[x] \in Nat
    BY StoreAssumption DEF LiveSeen, NotSeen, Addresses, Database
  <1>3. ASSUME NEW t \in RegisteredIn(s), NEW h \in ActiveAt(t, x, Q[t])
        PROVE  h \in Nat
    <2>1. t \in Extras /\ Q[t] \in SUBSET AllMoves(t)
      BY DEF RegisteredIn, PlacedIn
    <2>2. PICK p \in Q[t] : h = hist[t][p[1]].height
      BY DEF ActiveAt
    <2> QED
      BY <1>1, <2>1, <2>2
  <1> QED
    BY <1>2, <1>3, ActivityMembers

LEMMA SeenGrows ==
  ASSUME hist \in Histories, NEW s \in Database, NEW r, NEW t \in RegisteredIn(s), NEW Q, NEW R,
         PlacedIn(Q), NEW p \in AllMoves(t), R[t] = Q[t] \cup {p},
         \A u \in Extras \ {t} : R[u] = Q[u],
         r.height = s.height, r.bf = s.bf,
         \A x \in Addresses :
            r.seen[x] = IF x \in {Debited(At(t, p)), Credited(At(t, p))}
                           /\ hist[t][p[1]].height < s.seen[x]
                        THEN hist[t][p[1]].height ELSE s.seen[x],
         SeenShow(s, Q)
  PROVE  SeenShow(r, R)
PROOF
  <1> SUFFICES ASSUME NEW x \in Accounts
               PROVE  /\ r.seen[x] \in Activity(r, x, R)
                      /\ \A h \in Activity(r, x, R) : r.seen[x] <= h
    BY DEF SeenShow
  <1> DEFINE h0 == hist[t][p[1]].height
             touched == x \in {Debited(At(t, p)), Credited(At(t, p))}
             old == Activity(s, x, Q)
  <1>1. RegisteredIn(r) = RegisteredIn(s) /\ t \in Extras
    BY DEF RegisteredIn
  <1>2. ActiveAt(t, x, R[t]) = ActiveAt(t, x, Q[t]) \cup (IF touched THEN {h0} ELSE {})
    BY DEF ActiveAt
  <1>3. \A u \in RegisteredIn(s) \ {t} : ActiveAt(u, x, R[u]) = ActiveAt(u, x, Q[u])
    BY DEF RegisteredIn
  <1> HIDE DEF h0, touched
  <1>4. Activity(r, x, R) = old \cup (IF touched THEN {h0} ELSE {})
    <2>1. ASSUME NEW u \in RegisteredIn(s)
          PROVE  /\ ActiveAt(u, x, Q[u]) \subseteq ActiveAt(u, x, R[u])
                 /\ ActiveAt(u, x, R[u]) \subseteq
                      ActiveAt(u, x, Q[u]) \cup (IF touched THEN {h0} ELSE {})
      BY <1>2, <1>3
    <2>2. (IF touched THEN {h0} ELSE {}) \subseteq ActiveAt(t, x, R[t])
      BY <1>2
    <2>3. \A h : /\ h \in old <=> \/ h = LiveSeen(s.height)[x]
                                  \/ \E u \in RegisteredIn(s) : h \in ActiveAt(u, x, Q[u])
                /\ h \in Activity(r, x, R) <=>
                     \/ h = LiveSeen(s.height)[x]
                     \/ \E u \in RegisteredIn(s) : h \in ActiveAt(u, x, R[u])
      BY <1>1, ActivityMembers
    <2> HIDE DEF old
    <2>4. ASSUME NEW h \in Activity(r, x, R)
          PROVE  h \in old \cup (IF touched THEN {h0} ELSE {})
      BY <2>1, <2>3
    <2>5. ASSUME NEW h \in old \cup (IF touched THEN {h0} ELSE {})
          PROVE  h \in Activity(r, x, R)
      <3>1. CASE h \in old
        <4>1. CASE h = LiveSeen(s.height)[x]
          BY <2>3, <4>1
        <4>2. ASSUME NEW u \in RegisteredIn(s), h \in ActiveAt(u, x, Q[u])
              PROVE  h \in Activity(r, x, R)
          <5>1. h \in ActiveAt(u, x, R[u])
            BY <2>1, <4>2
          <5> QED
            BY <2>3, <5>1
        <4>3. \/ h = LiveSeen(s.height)[x]
              \/ \E u \in RegisteredIn(s) : h \in ActiveAt(u, x, Q[u])
          BY <3>1, ActivityMembers DEF old
        <4> QED
          BY <4>1, <4>2, <4>3
      <3>2. CASE h \in (IF touched THEN {h0} ELSE {})
        BY <2>2, <2>3, <3>2
      <3> QED
        BY <3>1, <3>2
    <2> QED
      BY <2>4, <2>5
  <1>5. s.seen[x] \in old /\ \A h \in old : s.seen[x] <= h
    BY DEF SeenShow
  <1>6. \A h \in old : h \in Nat
    BY ActivityNat
  <1>7. h0 \in Nat
    BY <1>1, MovePositions, HistoryFacts, StoreAssumption DEF Heights, h0
  <1>8. r.seen[x] = IF touched /\ h0 < s.seen[x] THEN h0 ELSE s.seen[x]
    BY DEF Addresses, h0, touched
  <1> HIDE DEF old
  <1>9. CASE touched /\ h0 < s.seen[x]
    <2>1. \A h \in old : h0 <= h
      BY <1>5, <1>6, <1>7, <1>9
    <2> QED
      BY <1>4, <1>7, <1>8, <1>9, <2>1
  <1>10. CASE touched /\ ~(h0 < s.seen[x])
    <2>1. s.seen[x] <= h0
      BY <1>5, <1>6, <1>7, <1>10
    <2> QED
      BY <1>4, <1>5, <1>8, <1>10, <2>1
  <1>11. CASE ~touched
    BY <1>4, <1>5, <1>8, <1>11
  <1> QED
    BY <1>9, <1>10, <1>11

LEMMA ReplayShows ==
  ASSUME hist \in Histories, NEW s \in Database, NEW t \in RegisteredIn(s), NEW Q, NEW R,
         PlacedIn(Q), NEW p \in AllMoves(t), p \notin Q[t], R[t] = Q[t] \cup {p},
         \A u \in Extras \ {t} : R[u] = Q[u], At(t, p).kind \in TransferKinds
  PROVE  LET r == Replay(s, hist[t][p[1]].height, t, At(t, p))
         IN  /\ Faithful(s, Q) => Faithful(r, R)
             /\ Balanced(s, Q) /\ (Debited(At(t, p)) \in Accounts =>
                     Net(t, Debited(At(t, p)), Q[t]) >= At(t, p).value)
                => Balanced(r, R)
PROOF
  <1> DEFINE h0 == hist[t][p[1]].height
             e  == At(t, p)
             r  == Replay(s, h0, t, e)
  <1>1. t \in Extras /\ t \in Tokens
    BY DEF RegisteredIn, Tokens
  <1>2. h0 \in Heights /\ e \in Event
    BY <1>1, MovePositions, HistoryFacts
  <1>3. /\ r.height = s.height /\ r.bf = s.bf
        /\ r.lastId = s.lastId + 1 /\ r.rows = s.rows \cup {NewRow(s, h0, t, e)}
        /\ \A x \in Addresses :
              r.seen[x] = IF x \in {Debited(e), Credited(e)} /\ h0 < s.seen[x]
                          THEN h0 ELSE s.seen[x]
        /\ \A u \in Tokens \ {t}, x \in Accounts : r.bal[u][x] = s.bal[u][x]
        /\ (Debited(e) \in Accounts => s.bal[t][Debited(e)] >= e.value) =>
              \A x \in Accounts :
                 r.bal[t][x] = s.bal[t][x] + (IF x = Credited(e) THEN e.value ELSE 0)
                                           - (IF x = Debited(e) THEN e.value ELSE 0)
    <2> HIDE DEF h0, e
    <2>1. e.kind \in TransferKinds
      BY DEF e
    <2> QED
      BY <1>1, <1>2, <2>1, ReplayEffect
  <1> HIDE DEF r
  <1>4. RegisteredIn(r) = RegisteredIn(s) /\ Q[t] \in SUBSET AllMoves(t)
    BY <1>1, <1>3 DEF RegisteredIn, PlacedIn
  <1>5. ASSUME Faithful(s, Q)
        PROVE  Faithful(r, R)
    <2>1. /\ IdsBelow(r)
          /\ RowsShow(s, t, Q[t]) => RowsShow(r, t, Q[t] \cup {p})
          /\ \A u \in Extras \ {t} : \A U : RowsShow(s, u, U) => RowsShow(r, u, U)
      BY <1>1, <1>3, <1>4, <1>5, RowsGrow DEF Faithful
    <2>2. ASSUME NEW u \in RegisteredIn(r)
          PROVE  RowsShow(r, u, R[u])
      <3>1. RowsShow(s, u, Q[u]) /\ u \in Extras
        BY <1>4, <1>5 DEF Faithful, RegisteredIn
      <3> QED
        BY <2>1, <3>1
    <2>3. SeenShow(r, R)
      BY <1>3, <1>5, SeenGrows DEF Faithful
    <2> QED
      BY <2>1, <2>2, <2>3 DEF Faithful
  <1>6. ASSUME Balanced(s, Q), Debited(e) \in Accounts => Net(t, Debited(e), Q[t]) >= e.value
        PROVE  Balanced(r, R)
    <2>1. \A x \in Accounts : s.bal[t][x] = Net(t, x, Q[t])
      BY <1>6 DEF Balanced
    <2>2. \A x \in Accounts :
             r.bal[t][x] = s.bal[t][x] + (IF x = Credited(e) THEN e.value ELSE 0)
                                       - (IF x = Debited(e) THEN e.value ELSE 0)
      BY <1>3, <1>6, <2>1
    <2>3. \A x \in Accounts :
             Net(t, x, R[t]) = Net(t, x, Q[t]) + (IF x = Credited(e) THEN e.value ELSE 0)
                                               - (IF x = Debited(e) THEN e.value ELSE 0)
      BY <1>1, <1>4, NetGrows
    <2>4. \A x \in Accounts : r.bal[t][x] = Net(t, x, R[t])
      <3> HIDE DEF e
      <3> QED BY <2>1, <2>2, <2>3
    <2>5. ASSUME NEW u \in RegisteredIn(r), u # t, NEW x \in Accounts
          PROVE  r.bal[u][x] = Net(u, x, R[u])
      <3>1. u \in Extras /\ u \in Tokens /\ u \in RegisteredIn(s)
        BY <1>4 DEF RegisteredIn, Tokens
      <3> QED
        BY <1>3, <1>6, <2>5, <3>1 DEF Balanced
    <2> QED
      BY <2>4, <2>5 DEF Balanced
  <1> QED
    BY <1>5, <1>6 DEF r

----------------------------------------------------------------------------
(* The invariant, part one: what is registered, where Run stands in a      *)
(* history, and what the page under work is known to hold.                 *)

(* No step registers a token or moves a cutoff, and every database is at   *)
(* the height of the registration.                                         *)
RegisteredAlike(s) ==
    /\ s.height = db.height
    /\ \A t \in Extras : /\ s.bf[t].known = db.bf[t].known
                         /\ s.bf[t].known => s.bf[t].cutoff = s.height

RegInv == RegisteredAlike(db) /\ RegisteredAlike(tx) /\ RegisteredAlike(durable)

(* The cursor of an unfinished import is not above the cutoff.             *)
NotBeyond(s) ==
    \A t \in Extras : s.bf[t].known /\ ~s.bf[t].done =>
        \A i \in DOMAIN hist[t] : i <= s.bf[t].next => hist[t][i].height <= s.bf[t].cutoff

Position ==
    /\ todo \subseteq RegisteredIn(db)
    /\ stage \in {"collect", "coverage", "apply", "verify"} => db.bf[token].known
    /\ stage \in {"collect", "coverage", "apply"} =>
          /\ seq = db.bf[token].next /\ ~db.bf[token].done
          /\ covered => indexed >= db.bf[token].cutoff

(* A page holds entries up to the cutoff that can be replayed; unless it   *)
(* is the last one, all that was fetched was kept, and if it is, all that  *)
(* follows lies above the cutoff.                                          *)
PageHolds(t, n, pg, out) ==
    /\ \A i \in 1 .. pg.kept :
          /\ hist[t][n + i].height <= db.bf[t].cutoff
          /\ \A j \in DOMAIN hist[t][n + i].events : ~Unusable(t, hist[t][n + i].events[j])
    /\ out # "last" => pg.kept = pg.fetched
    /\ out = "last" => \A i \in DOMAIN hist[t] :
                          i > n + pg.kept => hist[t][i].height > db.bf[t].cutoff

PageRead ==
    stage \in {"coverage", "apply"} =>
        /\ PageHolds(token, seq, page, outcome)
        /\ at <= page.kept + 1 /\ (at > page.kept => k = 1)
        /\ stage = "coverage" => outcome = "more"

(* What is not imported yet is still on the list, or being imported.       *)
Pending ==
    stage # "paused" => \A t \in RegisteredIn(db) :
        \/ db.bf[t].done
        \/ t \in todo /\ stage # "ready"
        \/ t = token /\ stage \in {"collect", "coverage", "apply"}

(* The part of the invariant that also holds when blocks are indexed       *)
(* between two imports.                                                    *)
ReplayInv == NotBeyond(db) /\ NotBeyond(durable) /\ Position /\ PageRead /\ Pending

PlaceInv == RegInv /\ ReplayInv

LEMMA UpsertBackfillEffect ==
  ASSUME NEW s \in Database, NEW t \in Extras, NEW rec \in BackfillRecord
  PROVE  LET r == UpsertBackfill(s, t, rec)
         IN  /\ r.bf[t] = rec /\ \A u \in Extras \ {t} : r.bf[u] = s.bf[u]
             /\ r.height = s.height /\ r.rows = s.rows /\ r.lastId = s.lastId
             /\ r.seen = s.seen /\ r.bal = s.bal
  BY DEF UpsertBackfill, Database

(* The records that Run and verifyBackfill write.                          *)
NewRecord == [db.bf[token] EXCEPT !.next = NextSeq, !.done = (outcome = "last")]
CheckedRecord(v) == [db.bf[token] EXCEPT !.verified = v]

LEMMA NewRecordFacts ==
  ASSUME TypeInv, stage = "apply"
  PROVE  /\ NewRecord \in BackfillRecord
         /\ NewRecord.known = db.bf[token].known /\ NewRecord.cutoff = db.bf[token].cutoff
         /\ NewRecord.next = NextSeq /\ NewRecord.done = (outcome = "last")
PROOF
  <1>1. token \in Extras /\ db.bf[token] \in BackfillRecord
    BY DEF TypeInv, TypeOK, CursorInv, Database
  <1>2. NewRecord \in BackfillRecord
    BY RecordType DEF NewRecord
  <1> HIDE DEF NextSeq
  <1> QED
    BY <1>1, <1>2 DEF NewRecord, BackfillRecord

LEMMA CheckedRecordFacts ==
  ASSUME TypeInv, stage = "verify", NEW v \in BOOLEAN
  PROVE  /\ CheckedRecord(v) \in BackfillRecord
         /\ CheckedRecord(v).known = db.bf[token].known
         /\ CheckedRecord(v).cutoff = db.bf[token].cutoff
         /\ CheckedRecord(v).next = db.bf[token].next
         /\ CheckedRecord(v).done = db.bf[token].done
PROOF
  <1>1. token \in Extras /\ db.bf[token] \in BackfillRecord
    BY DEF TypeInv, TypeOK, CursorInv, Database
  <1> QED
    BY <1>1 DEF CheckedRecord, BackfillRecord

(* What a step can do to the store.                                        *)
LEMMA StoreSteps ==
  ASSUME TypeInv, [Next]_vars
  PROVE  /\ hist' = hist
         /\ \/ db' = db /\ durable' = durable /\ tx' \in {tx, db}
            \/ /\ ApplyOp /\ db' = db /\ durable' = durable
               /\ tx'.height = tx.height /\ tx'.bf = tx.bf
            \/ /\ CommitPage /\ stage = "apply" /\ at > page.kept
               /\ Write(UpsertBackfill(tx, token, NewRecord))
            \/ /\ Verify /\ stage = "verify"
               /\ \E v \in BOOLEAN : Write(UpsertBackfill(db, token, CheckedRecord(v)))
            \/ PowerLoss /\ db' = durable /\ tx' = durable /\ durable' = durable
PROOF
  <1>1. CASE AdvanceIndexer
    BY <1>1 DEF AdvanceIndexer, store
  <1>2. CASE ListPending \/ TakeToken \/ AllDone \/ CheckCoverage
    BY <1>2 DEF ListPending, TakeToken, AllDone, CheckCoverage, store, service
  <1>3. CASE CollectPage
    BY <1>3 DEF CollectPage, Pause, service
  <1>4. CASE ApplyOp
    <2>1. /\ hist' = hist /\ db' = db /\ durable' = durable
      BY <1>4 DEF ApplyOp, service
    <2>2. tx'.height = tx.height /\ tx'.bf = tx.bf
      <3> DEFINE entry == hist[token][seq + at]
      <3>1. stage = "apply" /\ at <= page.kept
        BY <1>4 DEF ApplyOp
      <3>2. /\ token \in Extras /\ page.kept <= page.fetched /\ at \in Nat \ {0} /\ k \in Nat \ {0}
            /\ seq + page.fetched <= Visible(token) /\ seq \in Nat /\ page.kept \in Nat
            /\ page.fetched \in Nat /\ tx \in Database
        BY <3>1, StoreAssumption, BackfillAssumption DEF TypeInv, CursorInv, TypeOK, Page
      <3>3. /\ Len(hist[token]) \in Nat /\ DOMAIN hist[token] = 1 .. Len(hist[token])
            /\ Visible(token) \in Nat /\ Visible(token) <= Len(hist[token])
        BY <3>2, VisibleFacts, HistoryFacts DEF TypeInv, CursorInv
      <3>4. seq + at \in DOMAIN hist[token]
        BY <3>1, <3>2, <3>3
      <3>5. entry.height \in Heights /\ entry.events \in Seq(Event)
        BY <3>2, <3>4, HistoryFacts DEF TypeInv, CursorInv
      <3>6. CASE k <= Len(entry.events) /\ Replayed(token, entry.events[k])
        <4>1. tx' = Replay(tx, entry.height, token, entry.events[k])
          BY <1>4, <3>6 DEF ApplyOp
        <4>2. entry.events[k] \in Event /\ entry.events[k].kind \in TransferKinds
          BY <3>2, <3>5, <3>6 DEF Replayed, Recognised
        <4>3. token \in Tokens
          BY <3>2 DEF Tokens
        <4> HIDE DEF entry
        <4> QED
          BY <3>2, <3>5, <4>1, <4>2, <4>3, ReplayEffect
      <3>7. CASE ~(k <= Len(entry.events) /\ Replayed(token, entry.events[k]))
        BY <1>4, <3>7 DEF ApplyOp
      <3> QED
        BY <3>6, <3>7
    <2> QED
      BY <1>4, <2>1, <2>2
  <1>5. CASE CommitPage
    BY <1>5 DEF CommitPage, NewRecord, service
  <1>6. CASE Verify
    BY <1>6 DEF Verify, CheckedRecord, store, service
  <1>7. CASE HttpError \/ WriteError \/ Crash
    BY <1>7 DEF HttpError, WriteError, Crash, Pause, service
  <1>8. CASE PowerLoss
    BY <1>8 DEF PowerLoss, service
  <1>9. CASE UNCHANGED vars
    BY <1>9 DEF vars, store, service
  <1> QED
    BY <1>1, <1>2, <1>3, <1>4, <1>5, <1>6, <1>7, <1>8, <1>9 DEF Next, BackfillStep

LEMMA RegistrationKept ==
  ASSUME TypeInv, RegInv, [Next]_vars
  PROVE  RegInv'
PROOF
  <1>1. CASE db' = db /\ durable' = durable /\ tx' \in {tx, db}
    BY <1>1 DEF RegInv, RegisteredAlike
  <1>2. CASE db' = db /\ durable' = durable /\ tx'.height = tx.height /\ tx'.bf = tx.bf
    BY <1>2 DEF RegInv, RegisteredAlike
  <1>3. ASSUME NEW s \in {db, tx}, NEW rec \in BackfillRecord, token \in Extras,
               rec.known = db.bf[token].known, rec.cutoff = db.bf[token].cutoff,
               Write(UpsertBackfill(s, token, rec))
        PROVE  RegInv'
    <2> DEFINE r == UpsertBackfill(s, token, rec)
    <2>1. s \in Database /\ RegisteredAlike(s) /\ RegisteredAlike(db) /\ RegisteredAlike(durable)
      BY DEF TypeInv, TypeOK, RegInv
    <2>2. /\ r.bf[token] = rec /\ \A u \in Extras \ {token} : r.bf[u] = s.bf[u]
          /\ r.height = s.height
      BY <1>3, <2>1, UpsertBackfillEffect
    <2>3. db' = r /\ tx' = r /\ durable' \in {durable, r}
      BY <1>3 DEF Write
    <2> HIDE DEF r
    <2>4. RegisteredAlike(r) /\ r.height = db.height
          /\ \A t \in Extras : r.bf[t].known = db.bf[t].known
      BY <1>3, <2>1, <2>2 DEF RegisteredAlike
    <2> QED
      BY <2>1, <2>3, <2>4 DEF RegInv, RegisteredAlike
  <1>4. CASE stage = "apply" /\ Write(UpsertBackfill(tx, token, NewRecord))
    <2>1. token \in Extras
      BY <1>4 DEF TypeInv, CursorInv
    <2> QED
      BY <1>3, <1>4, <2>1, NewRecordFacts
  <1>5. ASSUME stage = "verify",
               NEW v \in BOOLEAN, Write(UpsertBackfill(db, token, CheckedRecord(v)))
        PROVE  RegInv'
    <2>1. token \in Extras
      BY <1>5 DEF TypeInv, CursorInv
    <2> QED
      BY <1>3, <1>5, <2>1, CheckedRecordFacts
  <1>6. CASE db' = durable /\ tx' = durable /\ durable' = durable
    BY <1>6 DEF RegInv, RegisteredAlike
  <1> QED
    BY <1>1, <1>2, <1>4, <1>5, <1>6, StoreSteps

LEMMA CollectedPage ==
  ASSUME TypeInv, ReplayInv, CollectPage, ~Pause
  PROVE  /\ PageHolds(token, seq, page', outcome')
         /\ stage' = "coverage" => outcome' = "more"
PROOF
  <1> DEFINE left    == Visible(token) - seq
             fetched == IF left > PageSize THEN PageSize ELSE left
             cutoff  == db.bf[token].cutoff
             above   == {i \in 1 .. fetched : hist[token][seq + i].height > cutoff}
             kept    == IF above = {} THEN fetched ELSE Min(above) - 1
             end     == fetched < PageSize /\ above = {}
  <1>1. /\ stage = "collect" /\ page' = [fetched |-> fetched, kept |-> kept]
        /\ outcome' = IF above # {} \/ (end /\ covered) THEN "last" ELSE "more"
        /\ stage' = IF end /\ ~covered THEN "coverage" ELSE "apply"
        /\ ~\E i \in 1 .. kept : \E j \in DOMAIN hist[token][seq + i].events :
               Unusable(token, hist[token][seq + i].events[j])
    BY DEF CollectPage
  <1>2. /\ token \in Extras /\ seq \in Nat /\ seq <= Visible(token) /\ Visible(token) \in Nat
        /\ PageSize \in Nat /\ indexed \in Nat /\ hist \in Histories
        /\ Visible(token) <= Len(hist[token])
    BY <1>1, VisibleFacts, BackfillAssumption, StoreAssumption DEF TypeInv, TypeOK, CursorInv
  <1>3. /\ Len(hist[token]) \in Nat /\ DOMAIN hist[token] = 1 .. Len(hist[token])
        /\ \A i \in DOMAIN hist[token] : hist[token][i].height \in Nat
        /\ \A i, j \in DOMAIN hist[token] : i <= j => hist[token][i].height <= hist[token][j].height
    BY <1>2, HistoryFacts, StoreAssumption DEF Heights
  <1>4. fetched \in Nat /\ seq + fetched <= Visible(token)
        /\ (fetched < PageSize => seq + fetched = Visible(token))
    BY <1>2
  <1>5. cutoff \in Nat
    BY <1>2, StoreAssumption DEF TypeInv, TypeOK, Database, BackfillRecord
  <1>6. \A i \in 1 .. fetched : seq + i \in DOMAIN hist[token]
    BY <1>2, <1>3, <1>4
  <1>7. covered => indexed >= cutoff
    BY <1>1 DEF ReplayInv, Position
  <1> HIDE DEF fetched, cutoff
  <1>8. CASE above = {}
    <2>1. kept = fetched
      BY <1>8
    <2>2. \A i \in 1 .. kept : hist[token][seq + i].height <= cutoff
      BY <1>3, <1>5, <1>6, <1>8, <2>1
    <2>3. ASSUME outcome' = "last", NEW i \in DOMAIN hist[token], i > seq + kept
          PROVE  hist[token][i].height > cutoff
      <3>1. end /\ covered
        BY <1>1, <1>8, <2>3
      <3>2. i > Visible(token)
        BY <1>4, <2>1, <2>3, <3>1
      <3>3. ~(hist[token][i].height <= indexed)
        BY <1>2, <1>3, <3>2, VisiblePrefix
      <3> QED
        BY <1>2, <1>3, <1>5, <1>7, <3>1, <3>3
    <2> QED
      BY <1>1, <2>1, <2>2, <2>3 DEF PageHolds, cutoff
  <1>9. CASE above # {}
    <2>1. above \in SUBSET Nat
      BY <1>4
    <2>2. Min(above) \in above /\ \A i \in above : Min(above) <= i
      BY <1>9, <2>1, MinFacts
    <2> DEFINE m == Min(above)
    <2>3. m \in 1 .. fetched /\ hist[token][seq + m].height > cutoff /\ kept = m - 1
      BY <1>9, <2>2
    <2>4. \A i \in 1 .. fetched : i < m => ~(hist[token][seq + i].height > cutoff)
      BY <2>2
    <2> HIDE DEF m
    <2>5. m \in Nat
      BY <1>4, <2>3
    <2>6. \A i \in 1 .. kept : hist[token][seq + i].height <= cutoff
      <3>1. \A i \in 1 .. kept : i \in 1 .. fetched /\ i < m
        BY <1>4, <2>3, <2>5
      <3> QED
        BY <1>3, <1>5, <1>6, <2>4, <3>1
    <2>7. ASSUME NEW i \in DOMAIN hist[token], i > seq + kept
          PROVE  hist[token][i].height > cutoff
      <3>1. seq + m \in DOMAIN hist[token] /\ seq + m <= i
        BY <1>2, <1>3, <1>6, <2>3, <2>5, <2>7
      <3>2. hist[token][seq + m].height <= hist[token][i].height
        BY <1>3, <3>1
      <3> QED
        BY <1>3, <1>5, <2>3, <3>1, <3>2
    <2>8. outcome' = "last" /\ stage' = "apply"
      BY <1>1, <1>9
    <2> HIDE DEF above, kept
    <2> QED
      BY <1>1, <2>6, <2>7, <2>8 DEF PageHolds, cutoff
  <1> QED
    BY <1>8, <1>9

(* What CommitPage makes of a page.                                        *)
LEMMA NextSeqFacts ==
  ASSUME TypeInv, ReplayInv, stage = "apply", outcome # "last"
  PROVE  NextSeq = seq + page.kept
PROOF
  <1>1. page.kept = page.fetched
    BY DEF ReplayInv, PageRead, PageHolds
  <1>2. seq \in Nat /\ page.kept \in Nat
    BY StoreAssumption, BackfillAssumption DEF TypeInv, TypeOK, Page
  <1> QED
    BY <1>1, <1>2 DEF NextSeq

LEMMA CursorsKept ==
  ASSUME TypeInv, ReplayInv, [Next]_vars
  PROVE  NotBeyond(db)' /\ NotBeyond(durable)'
PROOF
  <1>a. NotBeyond(db) /\ NotBeyond(durable)
    BY DEF ReplayInv
  <1>b. hist' = hist
    BY StoreSteps
  <1>1. CASE db' = db /\ durable' = durable
    BY <1>a, <1>b, <1>1 DEF NotBeyond
  <1>2. CASE stage = "apply" /\ at > page.kept /\ Write(UpsertBackfill(tx, token, NewRecord))
    <2> DEFINE r == UpsertBackfill(tx, token, NewRecord)
    <2>1. /\ token \in Extras /\ tx \in Database /\ tx.bf = db.bf /\ seq \in Nat
          /\ page.kept \in Nat /\ hist \in Histories
      BY <1>2, StoreAssumption, BackfillAssumption DEF TypeInv, TypeOK, CursorInv, Page
    <2>2. /\ NewRecord \in BackfillRecord
          /\ NewRecord.known = db.bf[token].known /\ NewRecord.cutoff = db.bf[token].cutoff
          /\ NewRecord.next = NextSeq /\ NewRecord.done = (outcome = "last")
      BY <1>2, NewRecordFacts
    <2>3. r.bf[token] = NewRecord /\ \A u \in Extras \ {token} : r.bf[u] = db.bf[u]
      BY <2>1, <2>2, UpsertBackfillEffect
    <2>4. db' = r /\ durable' \in {durable, r}
      BY <1>2 DEF Write
    <2> HIDE DEF r
    <2>5. ASSUME outcome # "last", NEW i \in DOMAIN hist[token], i <= NewRecord.next
          PROVE  hist[token][i].height <= db.bf[token].cutoff
      <3>1. NewRecord.next = seq + page.kept
        BY <1>2, <2>2, <2>5, NextSeqFacts
      <3>2. i \in Nat \ {0}
        BY <2>1, HistoryFacts
      <3>3. CASE i <= seq
        BY <1>2, <1>a, <2>1, <3>3 DEF NotBeyond, ReplayInv, Position
      <3>4. CASE i > seq
        <4>1. i - seq \in 1 .. page.kept /\ seq + (i - seq) = i
          BY <2>1, <2>5, <3>1, <3>2, <3>4
        <4>2. \A j \in 1 .. page.kept : hist[token][seq + j].height <= db.bf[token].cutoff
          BY <1>2 DEF ReplayInv, PageRead, PageHolds
        <4>3. PICK j \in 1 .. page.kept : seq + j = i
          BY <4>1
        <4> QED
          BY <4>2, <4>3
      <3> QED
        BY <2>1, <3>2, <3>3, <3>4
    <2>6. NotBeyond(r)
      <3> SUFFICES ASSUME NEW t \in Extras, r.bf[t].known, ~r.bf[t].done,
                          NEW i \in DOMAIN hist[t], i <= r.bf[t].next
                   PROVE  hist[t][i].height <= r.bf[t].cutoff
        BY DEF NotBeyond
      <3>1. CASE t = token
        BY <2>2, <2>3, <2>5, <3>1
      <3>2. CASE t # token
        BY <1>a, <2>3, <3>2 DEF NotBeyond
      <3> QED
        BY <3>1, <3>2
    <2> QED
      BY <1>a, <1>b, <2>4, <2>6 DEF NotBeyond
  <1>3. ASSUME stage = "verify",
               NEW v \in BOOLEAN, Write(UpsertBackfill(db, token, CheckedRecord(v)))
        PROVE  NotBeyond(db)' /\ NotBeyond(durable)'
    <2> DEFINE r == UpsertBackfill(db, token, CheckedRecord(v))
    <2>1. token \in Extras /\ db \in Database
      BY <1>3 DEF TypeInv, TypeOK, CursorInv
    <2>2. /\ CheckedRecord(v) \in BackfillRecord
          /\ CheckedRecord(v).known = db.bf[token].known
          /\ CheckedRecord(v).cutoff = db.bf[token].cutoff
          /\ CheckedRecord(v).next = db.bf[token].next
          /\ CheckedRecord(v).done = db.bf[token].done
      BY <1>3, CheckedRecordFacts
    <2>3. r.bf[token] = CheckedRecord(v) /\ \A u \in Extras \ {token} : r.bf[u] = db.bf[u]
      BY <2>1, <2>2, UpsertBackfillEffect
    <2>4. db' = r /\ durable' \in {durable, r}
      BY <1>3 DEF Write
    <2> HIDE DEF r
    <2>5. NotBeyond(r)
      BY <1>a, <2>2, <2>3 DEF NotBeyond
    <2> QED
      BY <1>a, <1>b, <2>4, <2>5 DEF NotBeyond
  <1>4. CASE db' = durable /\ durable' = durable
    BY <1>a, <1>b, <1>4 DEF NotBeyond
  <1> QED
    BY <1>1, <1>2, <1>3, <1>4, StoreSteps

LEMMA PlaceInit == Init => PlaceInv
PROOF
  <1> SUFFICES ASSUME Init PROVE PlaceInv
    OBVIOUS
  <1>1. PICK h \in 0 .. MaxHeight, regs \in SUBSET Extras :
            db = RegisteredAt(h, regs) /\ tx = db /\ durable = db
    BY DEF Init
  <1>2. /\ db.height = h
        /\ \A t \in Extras :
              /\ db.bf[t].next = 0
              /\ db.bf[t].known => db.bf[t].cutoff = h
    BY <1>1 DEF RegisteredAt, EmptyDatabase, NotRegistered
  <1>3. RegInv
    BY <1>1, <1>2 DEF RegInv, RegisteredAlike
  <1>4. \A t \in Extras : \A i \in DOMAIN hist[t] : ~(i <= 0)
    BY HistoryFacts DEF Init
  <1>5. NotBeyond(db) /\ NotBeyond(durable)
    BY <1>1, <1>2, <1>4 DEF NotBeyond
  <1> QED
    BY <1>3, <1>5 DEF Init, PlaceInv, ReplayInv, Position, PageRead, Pending

LEMMA PauseKeepsReplay ==
  ASSUME TypeInv, ReplayInv, [Next]_vars, stage' = "paused", ResetLocals
  PROVE  ReplayInv'
PROOF
  <1>1. NotBeyond(db)' /\ NotBeyond(durable)'
    BY CursorsKept DEF ReplayInv
  <1> QED
    BY <1>1 DEF ResetLocals, ReplayInv, Position, PageRead, Pending

LEMMA ReplayStep == TypeInv /\ ReplayInv /\ [Next]_vars => ReplayInv'
PROOF
  <1> SUFFICES ASSUME TypeInv, ReplayInv, [Next]_vars PROVE ReplayInv'
    OBVIOUS
  <1>a. NotBeyond(db)' /\ NotBeyond(durable)'
    BY CursorsKept DEF ReplayInv
  <1>b. Position /\ PageRead /\ Pending
    BY DEF ReplayInv
  <1>c. hist' = hist
    BY StoreSteps
  <1> SUFFICES Position' /\ PageRead' /\ Pending'
    BY <1>a DEF ReplayInv
  <1>1. CASE AdvanceIndexer
    <2>1. /\ indexed \in Nat /\ indexed' = indexed + 1
          /\ UNCHANGED <<db, stage, todo, token, seq, covered, page, outcome, at, k>>
      BY <1>1, StoreAssumption DEF AdvanceIndexer, store, locals, TypeInv, TypeOK
    <2>2. \A t \in Extras : db.bf[t].cutoff \in Nat
      BY StoreAssumption DEF TypeInv, TypeOK, Database, BackfillRecord
    <2>3. Position'
      BY <1>b, <2>1, <2>2 DEF Position, RegisteredIn, TypeInv, CursorInv
    <2> QED
      BY <1>b, <1>c, <2>1, <2>3 DEF PageRead, PageHolds, Unusable, Recognised, Pending, RegisteredIn
  <1>2. CASE ListPending
    <2>1. /\ stage' = "next" /\ UNCHANGED <<db, token>>
          /\ todo' = {t \in Extras : db.bf[t].known /\ ~(db.bf[t].done /\ db.bf[t].verified)}
      BY <1>2 DEF ListPending, store
    <2> QED
      BY <2>1 DEF Position, PageRead, Pending, RegisteredIn
  <1>3. CASE TakeToken
    <2>1. PICK t \in todo : /\ token' = t /\ todo' = todo \ {t} /\ seq' = db.bf[t].next
                            /\ stage' = IF db.bf[t].done THEN "verify" ELSE "collect"
                            /\ stage = "next" /\ covered' = FALSE /\ db' = db
      BY <1>3 DEF TakeToken, store
    <2>2. t \in RegisteredIn(db) /\ db.bf[t].done \in BOOLEAN
      BY <1>b DEF Position, RegisteredIn, TypeInv, TypeOK, Database, BackfillRecord
    <2>3. Position' /\ PageRead'
      BY <1>b, <2>1, <2>2 DEF Position, PageRead, RegisteredIn
    <2>4. Pending'
      BY <1>b, <2>1, <2>2 DEF Pending, RegisteredIn
    <2> QED
      BY <2>3, <2>4
  <1>4. CASE AllDone
    <2>1. stage = "next" /\ todo = {} /\ stage' = "ready" /\ todo' = {} /\ db' = db
      BY <1>4 DEF AllDone, ResetLocals, store
    <2> QED
      BY <1>b, <2>1 DEF Position, PageRead, Pending, RegisteredIn
  <1>5. CASE CollectPage
    <2>1. CASE Pause
      BY <2>1, PauseKeepsReplay DEF Pause, ReplayInv
    <2>2. CASE ~Pause
      <3>1. /\ stage = "collect" /\ stage' \in {"coverage", "apply"}
            /\ at' = 1 /\ k' = 1 /\ UNCHANGED <<db, indexed, todo, token, seq, covered>>
        BY <1>5, <2>2 DEF CollectPage, service
      <3>2. /\ PageHolds(token, seq, page', outcome')
            /\ stage' = "coverage" => outcome' = "more"
        BY <1>5, <2>2, CollectedPage
      <3>3. page'.kept \in Nat
        BY <1>5, <2>2, PageFits, BackfillAssumption DEF Page
      <3>4. Position' /\ Pending'
        BY <1>b, <3>1 DEF Position, Pending, RegisteredIn
      <3>5. PageRead'
        BY <1>c, <3>1, <3>2, <3>3 DEF PageRead, PageHolds, Unusable, Recognised
      <3> QED
        BY <3>4, <3>5
    <2> QED
      BY <2>1, <2>2
  <1>6. CASE CheckCoverage
    <2>1. /\ stage = "coverage" /\ stage' = "apply" /\ outcome' \in {"more", "lag"}
          /\ covered' \in {indexed >= db.bf[token].cutoff, FALSE}
          /\ UNCHANGED <<db, indexed, todo, token, seq, page, at, k>>
      BY <1>6 DEF CheckCoverage, service, store
    <2>2. Position' /\ Pending'
      BY <1>b, <2>1 DEF Position, Pending, RegisteredIn
    <2>3. PageRead'
      BY <1>b, <1>c, <2>1 DEF PageRead, PageHolds, Unusable, Recognised
    <2> QED
      BY <2>2, <2>3
  <1>7. CASE ApplyOp
    <2>1. /\ stage = "apply" /\ stage' = "apply" /\ at <= page.kept
          /\ UNCHANGED <<db, indexed, todo, token, seq, covered, page, outcome>>
          /\ \/ at' = at
             \/ at' = at + 1 /\ k' = 1
      BY <1>7 DEF ApplyOp, service
    <2>2. at \in Nat /\ page.kept \in Nat
      BY BackfillAssumption DEF TypeInv, TypeOK, Page
    <2>3. at' <= page'.kept + 1 /\ (at' > page'.kept => k' = 1)
      BY <2>1, <2>2
    <2>4. Position' /\ Pending'
      BY <1>b, <2>1 DEF Position, Pending, RegisteredIn
    <2>5. PageRead'
      BY <1>b, <1>c, <2>1, <2>3 DEF PageRead, PageHolds, Unusable, Recognised
    <2> QED
      BY <2>4, <2>5
  <1>8. CASE CommitPage
    <2> DEFINE r == UpsertBackfill(tx, token, NewRecord)
    <2>1. /\ stage = "apply" /\ token \in Extras /\ tx \in Database /\ tx.bf = db.bf
          /\ db.bf[token].known /\ indexed' = indexed
          /\ db.bf \in [Extras -> BackfillRecord]
      BY <1>8, <1>b DEF CommitPage, TypeInv, TypeOK, CursorInv, Position, Database, service
    <2>2. /\ NewRecord \in BackfillRecord
          /\ NewRecord.known = db.bf[token].known /\ NewRecord.cutoff = db.bf[token].cutoff
          /\ NewRecord.next = NextSeq /\ NewRecord.done = (outcome = "last")
      BY <2>1, NewRecordFacts
    <2>3. r.bf[token] = NewRecord /\ \A u \in Extras \ {token} : r.bf[u] = db.bf[u]
      BY <2>1, <2>2, UpsertBackfillEffect
    <2>4. db' = r
      BY <1>8 DEF CommitPage, Write, NewRecord
    <2> HIDE DEF r
    <2>5. RegisteredIn(db)' = RegisteredIn(db)
      BY <2>1, <2>2, <2>3, <2>4 DEF RegisteredIn
    <2>6. CASE stage' = "paused" /\ ResetLocals
      BY <2>6, PauseKeepsReplay DEF ReplayInv
    <2>7. CASE stage' = "verify" /\ outcome = "last" /\ UNCHANGED <<todo, token>>
      <3>1. Position' /\ PageRead'
        BY <1>b, <2>1, <2>2, <2>3, <2>4, <2>5, <2>7 DEF Position, PageRead
      <3>2. Pending'
        BY <1>b, <2>1, <2>2, <2>3, <2>4, <2>5, <2>7 DEF Pending, RegisteredIn
      <3> QED
        BY <3>1, <3>2
    <2>8. CASE /\ stage' = "collect" /\ outcome # "last" /\ seq' = NextSeq
               /\ UNCHANGED <<todo, token, covered>>
      <3>1. Position' /\ PageRead'
        BY <1>b, <2>1, <2>2, <2>3, <2>4, <2>5, <2>8 DEF Position, PageRead
      <3>2. Pending'
        BY <1>b, <2>1, <2>2, <2>3, <2>4, <2>5, <2>8 DEF Pending, RegisteredIn
      <3> QED
        BY <3>1, <3>2
    <2> QED
      BY <1>8, <2>6, <2>7, <2>8 DEF CommitPage
  <1>9. CASE Verify
    <2>1. /\ stage = "verify" /\ stage' = "next" /\ todo' = todo /\ token \in Extras
          /\ db \in Database
      BY <1>9 DEF Verify, TypeInv, TypeOK, CursorInv
    <2>2. ASSUME NEW t \in Extras
          PROVE  db'.bf[t].known = db.bf[t].known /\ db'.bf[t].done = db.bf[t].done
      <3>1. CASE db' = db
        BY <3>1
      <3>2. ASSUME NEW v \in BOOLEAN, Write(UpsertBackfill(db, token, CheckedRecord(v)))
            PROVE  db'.bf[t].known = db.bf[t].known /\ db'.bf[t].done = db.bf[t].done
        <4> DEFINE r == UpsertBackfill(db, token, CheckedRecord(v))
        <4>1. /\ CheckedRecord(v) \in BackfillRecord
              /\ CheckedRecord(v).known = db.bf[token].known
              /\ CheckedRecord(v).done = db.bf[token].done
          BY <2>1, CheckedRecordFacts
        <4>2. r.bf[token] = CheckedRecord(v) /\ \A u \in Extras \ {token} : r.bf[u] = db.bf[u]
          BY <2>1, <4>1, UpsertBackfillEffect
        <4>3. db' = r
          BY <3>2 DEF Write
        <4> HIDE DEF r
        <4> QED
          BY <4>1, <4>2, <4>3
      <3> QED
        BY <1>9, <3>1, <3>2 DEF Verify, store, CheckedRecord
    <2> QED
      BY <1>b, <2>1, <2>2 DEF Position, PageRead, Pending, RegisteredIn
  <1>10. CASE HttpError \/ WriteError \/ Crash
    BY <1>10, PauseKeepsReplay DEF HttpError, WriteError, Crash, Pause, ReplayInv
  <1>11. CASE PowerLoss
    BY <1>11, PauseKeepsReplay DEF PowerLoss, ReplayInv
  <1>12. CASE UNCHANGED vars
    BY <1>12, <1>b DEF vars, service, store, locals, Position, PageRead, PageHolds,
       Unusable, Recognised, Pending, RegisteredIn
  <1> QED
    BY <1>1, <1>2, <1>3, <1>4, <1>5, <1>6, <1>7, <1>8, <1>9, <1>10, <1>11, <1>12
    DEF Next, BackfillStep

LEMMA PlaceStep == TypeInv /\ PlaceInv /\ [Next]_vars => PlaceInv'
  BY RegistrationKept, ReplayStep DEF PlaceInv

----------------------------------------------------------------------------
(* The invariant, part two: every database shows exactly the moves of the  *)
(* entries that its progress records claim, and the open batch shows       *)
(* besides those of the events of the page that were applied.              *)

ClaimIn(s, t) ==
    {i \in DOMAIN hist[t] : IF s.bf[t].done THEN hist[t][i].height <= s.bf[t].cutoff
                            ELSE i <= s.bf[t].next}

Claims(s) == [t \in Extras |-> Moves(t, ClaimIn(s, t))]

Working == [Claims(db) EXCEPT ![token] = MovesBefore(token, seq + at, k)]

(* No event of a token debits more than what the events before it left:    *)
(* what a token contract has to see to.  The code cuts a balance off at    *)
(* zero otherwise, and it is a sum no more.                                *)
Covered ==
    \A t \in Extras : \A p \in AllMoves(t) :
        Debited(At(t, p)) \in Accounts =>
            Net(t, Debited(At(t, p)), MovesBefore(t, p[1], p[2])) >= At(t, p).value

Shown(s, Q) == Faithful(s, Q) /\ (Covered => Balanced(s, Q))

DataInv ==
    /\ Shown(db, Claims(db))
    /\ Shown(durable, Claims(durable))
    /\ stage \in {"coverage", "apply"} => Shown(tx, Working)

LEMMA SameHistory ==
  ASSUME hist' = hist
  PROVE  /\ \A s, Q : Shown(s, Q)' <=> Shown(s, Q)
         /\ \A s : Claims(s)' = Claims(s)
         /\ \A t, n, m : MovesBefore(t, n, m)' = MovesBefore(t, n, m)
         /\ \A t : AllMoves(t)' = AllMoves(t)
         /\ \A s, t : ClaimIn(s, t)' = ClaimIn(s, t)
         /\ Covered' <=> Covered
PROOF
  <1>1. \A t, S : Moves(t, S)' = Moves(t, S)
    BY DEF Moves
  <1>2. \A t, p : At(t, p)' = At(t, p)
    BY DEF At
  <1>3. \A s, t : ClaimIn(s, t)' = ClaimIn(s, t)
    BY DEF ClaimIn
  <1>4. \A s : Claims(s)' = Claims(s)
    BY <1>1, <1>3 DEF Claims
  <1>5. \A t : AllMoves(t)' = AllMoves(t)
    BY <1>1 DEF AllMoves
  <1>6. \A t, n, m : MovesBefore(t, n, m)' = MovesBefore(t, n, m)
    BY <1>5 DEF MovesBefore
  <1>7. \A t, x, P : Net(t, x, P)' = Net(t, x, P)
    BY DEF Net, At, MapThenSumSet, MapThenFoldSet
  <1>8. Covered' <=> Covered
    BY <1>2, <1>5, <1>6, <1>7 DEF Covered
  <1>9. \A s, Q : Balanced(s, Q)' <=> Balanced(s, Q)
    BY <1>7 DEF Balanced, RegisteredIn
  <1>10. \A s, t, P : RowsShow(s, t, P)' <=> RowsShow(s, t, P)
    BY <1>2 DEF RowsShow, RowsIn, Shows
  <1>11. \A t, x, P : ActiveAt(t, x, P)' = ActiveAt(t, x, P)
    BY <1>2 DEF ActiveAt
  <1>12. \A s, x, Q : Activity(s, x, Q)' = Activity(s, x, Q)
    BY <1>11 DEF Activity, RegisteredIn
  <1>13. \A s, Q : SeenShow(s, Q)' <=> SeenShow(s, Q)
    BY <1>12 DEF SeenShow
  <1>14. \A s, Q : Faithful(s, Q)' <=> Faithful(s, Q)
    BY <1>10, <1>13 DEF Faithful, IdsBelow, RegisteredIn
  <1> QED
    BY <1>3, <1>4, <1>5, <1>6, <1>8, <1>9, <1>14 DEF Shown

LEMMA ShownAlike ==
  ASSUME NEW s, NEW r, SameData(s, r), NEW Q, NEW R,
         \A t \in RegisteredIn(s) : R[t] = Q[t], Shown(s, Q)
  PROVE  Shown(r, R)
  BY SameDataShows DEF Shown

(* The sets of positions that the invariant is about.                      *)
LEMMA ClaimedPositions ==
  ASSUME NEW s
  PROVE  /\ \A t \in Extras :
               Claims(s)[t] = {p \in AllMoves(t) : p[1] \in ClaimIn(s, t)}
         /\ PlacedIn(Claims(s))
PROOF
  <1>1. ASSUME NEW t \in Extras
        PROVE  Claims(s)[t] = {p \in AllMoves(t) : p[1] \in ClaimIn(s, t)}
    <2>1. ClaimIn(s, t) \in SUBSET DOMAIN hist[t]
      BY DEF ClaimIn
    <2> QED
      BY <2>1, MovesOfEntries DEF Claims
  <1> QED
    BY <1>1 DEF PlacedIn

LEMMA WorkingPositions ==
  ASSUME TypeInv, token \in Extras
  PROVE  /\ Working[token] = MovesBefore(token, seq + at, k)
         /\ \A t \in Extras \ {token} : Working[t] = Claims(db)[t]
         /\ PlacedIn(Working)
PROOF
  <1>1. /\ Working[token] = MovesBefore(token, seq + at, k)
        /\ \A t \in Extras \ {token} : Working[t] = Claims(db)[t]
    BY DEF Working, Claims
  <1>2. MovesBefore(token, seq + at, k) \in SUBSET AllMoves(token)
    BY DEF MovesBefore
  <1> QED
    BY <1>1, <1>2, ClaimedPositions DEF PlacedIn

(* At the start, nothing is claimed and nothing shown.                     *)
LEMMA DataInit == Init => DataInv
PROOF
  <1> SUFFICES ASSUME Init PROVE DataInv
    OBVIOUS
  <1>1. PICK h \in 0 .. MaxHeight, regs \in SUBSET Extras :
            db = RegisteredAt(h, regs) /\ tx = db /\ durable = db
    BY DEF Init
  <1>2. hist \in Histories /\ stage = "paused"
    BY DEF Init
  <1>3. /\ db.height = h /\ db.rows = {} /\ db.lastId = 0 /\ db.seen = LiveSeen(h)
        /\ \A t \in Extras : db.bf[t].next = 0 /\ db.bf[t].done = FALSE
        /\ \A t \in Tokens : db.bal[t] = [x \in Accounts |-> 0]
    BY <1>1 DEF RegisteredAt, EmptyDatabase, NotRegistered
  <1>4. ASSUME NEW t \in Extras
        PROVE  Claims(db)[t] = {}
    <2>1. \A i \in DOMAIN hist[t] : ~(i <= 0)
      BY <1>2, HistoryFacts
    <2>2. ClaimIn(db, t) = {}
      BY <1>3, <2>1 DEF ClaimIn
    <2> QED
      BY <2>2, ClaimedPositions
  <1>5. RegisteredIn(db) \subseteq Extras
    BY DEF RegisteredIn
  <1>6. \A t \in RegisteredIn(db) : RowsShow(db, t, Claims(db)[t])
    <2>1. \A t : RowsIn(db, t) = {}
      BY <1>3 DEF RowsIn
    <2> QED
      BY <1>4, <1>5, <2>1, FS_EmptySet DEF RowsShow
  <1>7. SeenShow(db, Claims(db))
    <2> SUFFICES ASSUME NEW x \in Accounts
                 PROVE  /\ db.seen[x] \in Activity(db, x, Claims(db))
                        /\ \A n \in Activity(db, x, Claims(db)) : db.seen[x] <= n
      BY DEF SeenShow
    <2>1. \A t \in RegisteredIn(db) : ActiveAt(t, x, Claims(db)[t]) = {}
      BY <1>4, <1>5 DEF ActiveAt
    <2>2. db.seen[x] = LiveSeen(db.height)[x]
      BY <1>3
    <2>3. \A n : n \in Activity(db, x, Claims(db)) <=> n = db.seen[x]
      BY <2>1, <2>2, ActivityMembers
    <2>4. db.seen[x] \in Nat
      BY <1>1, <1>3, StoreAssumption DEF LiveSeen, NotSeen, Addresses
    <2> QED
      BY <2>3, <2>4
  <1>8. Balanced(db, Claims(db))
    <2> SUFFICES ASSUME NEW t \in RegisteredIn(db), NEW x \in Accounts
                 PROVE  db.bal[t][x] = Net(t, x, Claims(db)[t])
      BY DEF Balanced
    <2>1. t \in Extras /\ t \in Tokens
      BY <1>5 DEF Tokens
    <2>2. Net(t, x, {}) = 0
      BY <1>2, <2>1, NetOfNone
    <2> QED
      BY <1>3, <1>4, <2>1, <2>2
  <1>9. Shown(db, Claims(db))
    BY <1>3, <1>6, <1>7, <1>8 DEF Shown, Faithful, IdsBelow
  <1> QED
    BY <1>1, <1>2, <1>9 DEF DataInv

LEMMA BeforeNext ==
  ASSUME hist \in Histories, NEW t \in Extras, NEW n \in DOMAIN hist[t],
         NEW m \in DOMAIN hist[t][n].events
  PROVE  /\ MovesBefore(t, n, m + 1) = MovesBefore(t, n, m) \cup ({<<n, m>>} \cap AllMoves(t))
         /\ <<n, m>> \notin MovesBefore(t, n, m)
PROOF
  <1>1. n \in Nat /\ m \in Nat
    BY HistoryFacts
  <1>2. \A p \in AllMoves(t) : p = <<p[1], p[2]>> /\ p[1] \in Nat /\ p[2] \in Nat
    BY MovePositions
  <1>3. ASSUME NEW p \in AllMoves(t)
        PROVE  p \in MovesBefore(t, n, m + 1) <=> p \in MovesBefore(t, n, m) \/ p = <<n, m>>
    <2>1. p = <<n, m>> <=> p[1] = n /\ p[2] = m
      BY <1>2
    <2> QED
      BY <1>1, <1>2, <2>1 DEF MovesBefore
  <1>4. \A i : MovesBefore(t, n, i) \subseteq AllMoves(t)
    BY DEF MovesBefore
  <1>5. <<n, m>> \notin MovesBefore(t, n, m)
    BY <1>1 DEF MovesBefore
  <1> QED
    BY <1>3, <1>4, <1>5

LEMMA BeforeWrap ==
  ASSUME hist \in Histories, NEW t \in Extras, NEW n \in DOMAIN hist[t], NEW m \in Nat,
         m > Len(hist[t][n].events)
  PROVE  MovesBefore(t, n, m) = MovesBefore(t, n + 1, 1)
PROOF
  <1>1. n \in Nat /\ hist[t][n].events \in Seq(Event)
    BY HistoryFacts
  <1>2. ASSUME NEW p \in AllMoves(t)
        PROVE  p \in MovesBefore(t, n, m) <=> p \in MovesBefore(t, n + 1, 1)
    <2>1. /\ p[1] \in Nat /\ p[2] \in Nat /\ p[2] \in DOMAIN hist[t][p[1]].events
          /\ p[1] \in DOMAIN hist[t]
      BY MovePositions
    <2>2. p[1] = n => p[2] <= Len(hist[t][n].events)
      BY <1>1, <2>1
    <2>3. p[2] >= 1
      <3>1. hist[t][p[1]].events \in Seq(Event)
        BY <2>1, HistoryFacts
      <3> QED
        BY <2>1, <3>1
    <2>4. Len(hist[t][n].events) \in Nat
      BY <1>1
    <2> QED
      BY <1>1, <2>1, <2>2, <2>3, <2>4 DEF MovesBefore
  <1> QED
    BY <1>2 DEF MovesBefore

LEMMA BeforeEntry ==
  ASSUME hist \in Histories, NEW t \in Extras, NEW n \in Nat
  PROVE  MovesBefore(t, n + 1, 1) = {p \in AllMoves(t) : p[1] <= n}
PROOF
  <1>1. ASSUME NEW p \in AllMoves(t)
        PROVE  p \in MovesBefore(t, n + 1, 1) <=> p[1] <= n
    <2>1. p[1] \in Nat /\ p[2] \in DOMAIN hist[t][p[1]].events /\ p[1] \in DOMAIN hist[t]
      BY MovePositions
    <2>2. hist[t][p[1]].events \in Seq(Event)
      BY <2>1, HistoryFacts
    <2>3. p[2] \in Nat /\ p[2] >= 1
      BY <2>1, <2>2
    <2> QED
      BY <2>1, <2>3 DEF MovesBefore
  <1> QED
    BY <1>1 DEF MovesBefore

(* An event of a page counts exactly if Run replays it.                    *)
LEMMA ReplayedMoves ==
  ASSUME NEW t, NEW e \in Event, ~Unusable(t, e)
  PROVE  IsMove(t, e) <=> Replayed(t, e)
  BY LimitsAssumption DEF IsMove, Replayed, Recognised, Unusable, Event, TransferKinds

(* The entry under work.                                                   *)
LEMMA EntryAt ==
  ASSUME TypeInv, ReplayInv, stage = "apply", at <= page.kept
  PROVE  /\ token \in Extras /\ token \in RegisteredIn(db) /\ seq + at \in DOMAIN hist[token]
         /\ hist[token][seq + at].height \in Heights
         /\ hist[token][seq + at].events \in Seq(Event)
         /\ k \in Nat \ {0} /\ at \in Nat /\ seq \in Nat
         /\ \A j \in DOMAIN hist[token][seq + at].events :
               ~Unusable(token, hist[token][seq + at].events[j])
PROOF
  <1>1. /\ token \in Extras /\ page.kept <= page.fetched /\ at \in Nat \ {0} /\ k \in Nat \ {0}
        /\ seq + page.fetched <= Visible(token) /\ seq \in Nat /\ page.kept \in Nat
        /\ page.fetched \in Nat /\ hist \in Histories
    BY StoreAssumption, BackfillAssumption DEF TypeInv, CursorInv, TypeOK, Page
  <1>2. /\ Len(hist[token]) \in Nat /\ DOMAIN hist[token] = 1 .. Len(hist[token])
        /\ Visible(token) \in Nat /\ Visible(token) <= Len(hist[token])
    BY <1>1, VisibleFacts, HistoryFacts
  <1>3. seq + at \in DOMAIN hist[token]
    BY <1>1, <1>2
  <1>4. at \in 1 .. page.kept
    BY <1>1
  <1>5. token \in RegisteredIn(db)
    BY <1>1 DEF ReplayInv, Position, RegisteredIn
  <1> QED
    BY <1>1, <1>3, <1>4, <1>5, HistoryFacts DEF ReplayInv, PageRead, PageHolds

LEMMA AppliedOp ==
  ASSUME TypeInv, ReplayInv, DataInv, ApplyOp, hist' = hist
  PROVE  Shown(tx', Working')
PROOF
  <1> DEFINE n == seq + at
             entry == hist[token][n]
             e == entry.events[k]
  <1>1. /\ stage = "apply" /\ at <= page.kept /\ UNCHANGED <<db, token, seq>>
        /\ IF k <= Len(entry.events)
           THEN /\ tx' = IF Replayed(token, e) THEN Replay(tx, entry.height, token, e) ELSE tx
                /\ k' = k + 1 /\ at' = at
           ELSE at' = at + 1 /\ k' = 1 /\ tx' = tx
    BY DEF ApplyOp
  <1>2. /\ token \in Extras /\ token \in RegisteredIn(db) /\ n \in DOMAIN hist[token]
        /\ entry.height \in Heights /\ entry.events \in Seq(Event)
        /\ k \in Nat \ {0} /\ at \in Nat /\ seq \in Nat
        /\ \A j \in DOMAIN entry.events : ~Unusable(token, entry.events[j])
    BY <1>1, EntryAt
  <1>3. tx \in Database /\ tx.bf = db.bf /\ hist \in Histories
    BY DEF TypeInv, TypeOK, CursorInv
  <1>4. RegisteredIn(tx) = RegisteredIn(db)
    BY <1>3 DEF RegisteredIn
  <1>5. Shown(tx, Working)
    BY <1>1 DEF DataInv
  <1>6. /\ Working[token] = MovesBefore(token, n, k)
        /\ \A t \in Extras \ {token} : Working[t] = Claims(db)[t]
        /\ PlacedIn(Working)
    BY <1>2, WorkingPositions
  <1>7. Working' = [Claims(db) EXCEPT ![token] = MovesBefore(token, seq + at', k')]
    BY <1>1, SameHistory DEF Working
  <1>8. /\ Working'[token] = MovesBefore(token, seq + at', k')
        /\ \A t \in Extras \ {token} : Working'[t] = Working[t]
    BY <1>2, <1>6, <1>7 DEF Claims
  <1> DEFINE R == Working'
  <1>9. ASSUME tx' = tx, R[token] = Working[token]
        PROVE  Shown(tx', R)
    <2>1. \A t \in RegisteredIn(tx) : R[t] = Working[t]
      BY <1>8, <1>9 DEF RegisteredIn
    <2>2. SameData(tx, tx)
      BY DEF SameData
    <2> HIDE DEF R
    <2>3. Shown(tx, R)
      BY <1>5, <2>1, <2>2, ShownAlike
    <2> QED
      BY <1>9, <2>3
  <1> HIDE DEF R
  <1>10. CASE k <= Len(entry.events)
    <2>1. k \in DOMAIN entry.events /\ e \in Event
      BY <1>2, <1>10
    <2>2. /\ R[token] = Working[token] \cup ({<<n, k>>} \cap AllMoves(token))
          /\ <<n, k>> \notin Working[token]
      BY <1>1, <1>2, <1>3, <1>6, <1>8, <1>10, <2>1, BeforeNext DEF R
    <2>3. <<n, k>> \in AllMoves(token) <=> IsMove(token, e)
      BY <1>2, <1>3, <2>1, MovePositions
    <2>4. IsMove(token, e) <=> Replayed(token, e)
      BY <1>2, <2>1, ReplayedMoves
    <2>5. CASE ~Replayed(token, e)
      <3>1. tx' = tx /\ R[token] = Working[token]
        BY <1>1, <1>10, <2>2, <2>3, <2>4, <2>5
      <3> QED
        BY <1>9, <3>1 DEF R
    <2>6. CASE Replayed(token, e)
      <3> DEFINE p == <<n, k>>
      <3>1. /\ tx' = Replay(tx, entry.height, token, e)
            /\ p \in AllMoves(token) /\ p \notin Working[token]
            /\ R[token] = Working[token] \cup {p}
        BY <1>1, <1>10, <2>2, <2>3, <2>4, <2>6
      <3>2. At(token, p) = e /\ hist[token][p[1]].height = entry.height /\ p[1] = n /\ p[2] = k
        BY DEF At
      <3>3. e.kind \in TransferKinds
        BY <2>6 DEF Replayed, Recognised
      <3> HIDE DEF p, e, entry
      <3>4. \A u \in Extras \ {token} : R[u] = Working[u]
        BY <1>8 DEF R
      <3>5. /\ Faithful(tx, Working) => Faithful(tx', R)
            /\ Balanced(tx, Working) /\ (Debited(e) \in Accounts =>
                    Net(token, Debited(e), Working[token]) >= e.value)
               => Balanced(tx', R)
        <4> DEFINE r == Replay(tx, hist[token][p[1]].height, token, At(token, p))
        <4>1. token \in RegisteredIn(tx) /\ At(token, p).kind \in TransferKinds
          BY <1>2, <1>4, <3>2, <3>3
        <4>2. /\ Faithful(tx, Working) => Faithful(r, R)
              /\ Balanced(tx, Working) /\ (Debited(At(token, p)) \in Accounts =>
                      Net(token, Debited(At(token, p)), Working[token]) >= At(token, p).value)
                 => Balanced(r, R)
          BY <1>3, <1>6, <3>1, <3>4, <4>1, ReplayShows
        <4> QED
          BY <3>1, <3>2, <4>2
      <3>6. Covered => (Debited(e) \in Accounts =>
                    Net(token, Debited(e), Working[token]) >= e.value)
        BY <1>2, <1>6, <3>1, <3>2 DEF Covered
      <3>7. Shown(tx', R)
        BY <1>5, <3>5, <3>6 DEF Shown
      <3> QED
        BY <3>7 DEF R
    <2> QED
      BY <2>5, <2>6
  <1>11. CASE ~(k <= Len(entry.events))
    <2>1. tx' = tx /\ at' = at + 1 /\ k' = 1
      BY <1>1, <1>11
    <2>2. k > Len(entry.events) /\ seq + at' = n + 1
      BY <1>2, <1>11, <2>1
    <2>3. R[token] = MovesBefore(token, n + 1, 1)
      BY <1>8, <2>1, <2>2 DEF R
    <2>4. R[token] = Working[token]
      BY <1>2, <1>3, <1>6, <2>2, <2>3, BeforeWrap
    <2> QED
      BY <1>9, <2>1, <2>4 DEF R
  <1> QED
    BY <1>10, <1>11

(* The open batch begins at what is claimed.                               *)
LEMMA PageBegins ==
  ASSUME TypeInv, ReplayInv, DataInv, stage = "collect", hist' = hist, tx' = db,
         at' = 1, k' = 1, UNCHANGED <<db, token, seq>>
  PROVE  Shown(tx', Working')
PROOF
  <1>1. /\ token \in Extras /\ seq \in Nat /\ hist \in Histories
        /\ seq = db.bf[token].next /\ ~db.bf[token].done
    BY StoreAssumption DEF TypeInv, TypeOK, CursorInv, ReplayInv, Position
  <1>2. Working' = [Claims(db) EXCEPT ![token] = MovesBefore(token, seq + 1, 1)]
    BY SameHistory DEF Working
  <1>3. MovesBefore(token, seq + 1, 1) = Claims(db)[token]
    <2>1. \A p \in AllMoves(token) : p[1] \in ClaimIn(db, token) <=> p[1] <= seq
      BY <1>1, MovePositions DEF ClaimIn
    <2>2. MovesBefore(token, seq + 1, 1) = {p \in AllMoves(token) : p[1] <= seq}
      BY <1>1, BeforeEntry
    <2>3. Claims(db)[token] = {p \in AllMoves(token) : p[1] \in ClaimIn(db, token)}
      BY <1>1, ClaimedPositions
    <2> QED
      BY <2>1, <2>2, <2>3
  <1>4. \A t \in Extras : Working'[t] = Claims(db)[t]
    BY <1>1, <1>2, <1>3 DEF Claims
  <1> DEFINE R == Working'
  <1>5. SameData(db, db) /\ Shown(db, Claims(db))
    BY DEF SameData, DataInv
  <1>6. \A t \in RegisteredIn(db) : R[t] = Claims(db)[t]
    BY <1>4 DEF RegisteredIn
  <1> HIDE DEF R
  <1>7. Shown(db, R)
    BY <1>5, <1>6, ShownAlike
  <1> QED
    BY <1>7 DEF R

(* A committed page shows what its new progress record claims.             *)
LEMMA PageCommitted ==
  ASSUME TypeInv, ReplayInv, DataInv, stage = "apply", at > page.kept
  PROVE  LET r == UpsertBackfill(tx, token, NewRecord)
         IN  Shown(r, Claims(r))
PROOF
  <1> DEFINE r == UpsertBackfill(tx, token, NewRecord)
             last == seq + page.kept
  <1>1. /\ token \in Extras /\ tx \in Database /\ tx.bf = db.bf /\ seq \in Nat
        /\ page.kept \in Nat /\ hist \in Histories /\ at \in Nat
    BY StoreAssumption, BackfillAssumption DEF TypeInv, TypeOK, CursorInv, Page
  <1>2. /\ PageHolds(token, seq, page, outcome) /\ at = page.kept + 1 /\ k = 1
    BY <1>1 DEF ReplayInv, PageRead
  <1>3. /\ NewRecord \in BackfillRecord
        /\ NewRecord.known = db.bf[token].known /\ NewRecord.cutoff = db.bf[token].cutoff
        /\ NewRecord.next = NextSeq /\ NewRecord.done = (outcome = "last")
    BY NewRecordFacts
  <1>4. /\ r.bf[token] = NewRecord /\ \A u \in Extras \ {token} : r.bf[u] = db.bf[u]
        /\ r.height = tx.height /\ r.rows = tx.rows /\ r.lastId = tx.lastId
        /\ r.seen = tx.seen /\ r.bal = tx.bal
    BY <1>1, <1>3, UpsertBackfillEffect
  <1> HIDE DEF r
  <1>5. SameData(tx, r)
    BY <1>1, <1>3, <1>4 DEF SameData, RegisteredIn
  <1>6. /\ Working[token] = {p \in AllMoves(token) : p[1] <= last}
        /\ \A t \in Extras \ {token} : Working[t] = Claims(db)[t]
    <2>1. last \in Nat /\ seq + at = last + 1
      BY <1>1, <1>2
    <2> QED
      BY <1>1, <1>2, <2>1, WorkingPositions, BeforeEntry
  <1>7. \A i \in DOMAIN hist[token] : i \in ClaimIn(r, token) <=> i <= last
    <2>1. CASE outcome # "last"
      <3>1. NewRecord.next = last /\ NewRecord.done = FALSE
        BY <1>3, <2>1, NextSeqFacts
      <3> QED
        BY <1>4, <3>1 DEF ClaimIn
    <2>2. CASE outcome = "last"
      <3>1. \A i \in DOMAIN hist[token] :
               i \in ClaimIn(r, token) <=> hist[token][i].height <= db.bf[token].cutoff
        BY <1>3, <1>4, <2>2 DEF ClaimIn
      <3>2. ASSUME NEW i \in DOMAIN hist[token], i <= last
            PROVE  hist[token][i].height <= db.bf[token].cutoff
        <4>1. i \in Nat \ {0}
          BY <1>1, HistoryFacts
        <4>2. CASE i <= seq
          <5>1. seq = db.bf[token].next /\ ~db.bf[token].done /\ db.bf[token].known
            BY DEF ReplayInv, Position
          <5> QED
            BY <1>1, <4>2, <5>1 DEF ReplayInv, NotBeyond
        <4>3. CASE i > seq
          <5>1. i - seq \in 1 .. page.kept /\ seq + (i - seq) = i
            BY <1>1, <3>2, <4>1, <4>3
          <5>2. PICK j \in 1 .. page.kept : seq + j = i
            BY <5>1
          <5> QED
            BY <1>2, <5>2 DEF PageHolds
        <4> QED
          BY <1>1, <4>1, <4>2, <4>3
      <3>3. ASSUME NEW i \in DOMAIN hist[token], ~(i <= last)
            PROVE  ~(hist[token][i].height <= db.bf[token].cutoff)
        <4>1. i \in Nat /\ last \in Nat
          BY <1>1, HistoryFacts
        <4>2. i > last
          BY <3>3, <4>1
        <4>3. hist[token][i].height > db.bf[token].cutoff
          BY <1>2, <2>2, <4>2 DEF PageHolds
        <4>4. hist[token][i].height \in Nat /\ db.bf[token].cutoff \in Nat
          <5>1. hist[token][i].height \in Nat
            BY <1>1, HistoryFacts, StoreAssumption DEF Heights
          <5>2. db.bf[token] \in BackfillRecord
            BY <1>1 DEF TypeInv, TypeOK, Database
          <5> QED
            BY <5>1, <5>2, StoreAssumption DEF BackfillRecord
        <4> QED
          BY <4>3, <4>4
      <3> QED
        BY <3>1, <3>2, <3>3
    <2> QED
      BY <2>1, <2>2
  <1>8. Claims(r)[token] = Working[token]
    <2>1. Claims(r)[token] = {p \in AllMoves(token) : p[1] \in ClaimIn(r, token)}
      BY <1>1, ClaimedPositions
    <2>2. \A p \in AllMoves(token) : p[1] \in DOMAIN hist[token]
      BY <1>1, MovePositions
    <2> HIDE DEF last
    <2> QED
      BY <1>6, <1>7, <2>1, <2>2
  <1>9. \A t \in Extras \ {token} : Claims(r)[t] = Claims(db)[t]
    BY <1>4 DEF Claims, ClaimIn
  <1>10. \A t \in RegisteredIn(tx) : Claims(r)[t] = Working[t]
    BY <1>6, <1>8, <1>9 DEF RegisteredIn
  <1>11. Shown(tx, Working)
    BY DEF DataInv
  <1>12. Shown(r, Claims(r))
    BY <1>5, <1>10, <1>11, ShownAlike
  <1> QED
    BY <1>12 DEF r

(* The record of a check claims what it did before.                        *)
LEMMA CheckRecorded ==
  ASSUME TypeInv, DataInv, stage = "verify", NEW v \in BOOLEAN
  PROVE  LET r == UpsertBackfill(db, token, CheckedRecord(v))
         IN  Shown(r, Claims(r))
PROOF
  <1> DEFINE r == UpsertBackfill(db, token, CheckedRecord(v))
  <1>1. token \in Extras /\ db \in Database /\ Shown(db, Claims(db))
    BY DEF TypeInv, TypeOK, CursorInv, DataInv
  <1>2. /\ CheckedRecord(v) \in BackfillRecord
        /\ CheckedRecord(v).known = db.bf[token].known
        /\ CheckedRecord(v).cutoff = db.bf[token].cutoff
        /\ CheckedRecord(v).next = db.bf[token].next
        /\ CheckedRecord(v).done = db.bf[token].done
    BY CheckedRecordFacts
  <1>3. /\ r.bf[token] = CheckedRecord(v) /\ \A u \in Extras \ {token} : r.bf[u] = db.bf[u]
        /\ r.height = db.height /\ r.rows = db.rows /\ r.lastId = db.lastId
        /\ r.seen = db.seen /\ r.bal = db.bal
    BY <1>1, <1>2, UpsertBackfillEffect
  <1> HIDE DEF r
  <1>4. SameData(db, r)
    BY <1>2, <1>3 DEF SameData, RegisteredIn
  <1>5. \A t \in Extras : ClaimIn(r, t) = ClaimIn(db, t)
    BY <1>2, <1>3 DEF ClaimIn
  <1>6. \A t \in RegisteredIn(db) : Claims(r)[t] = Claims(db)[t]
    BY <1>5 DEF Claims, RegisteredIn
  <1>7. Shown(r, Claims(r))
    BY <1>1, <1>4, <1>6, ShownAlike
  <1> QED
    BY <1>7 DEF r

LEMMA DataStep == TypeInv /\ ReplayInv /\ DataInv /\ [Next]_vars => DataInv'
PROOF
  <1> SUFFICES ASSUME TypeInv, ReplayInv, DataInv, [Next]_vars PROVE DataInv'
    OBVIOUS
  <1>a. hist' = hist
    BY StoreSteps
  <1>b. /\ \A s, Q : Shown(s, Q)' <=> Shown(s, Q)
        /\ \A s : Claims(s)' = Claims(s)
    BY <1>a, SameHistory
  <1>c. Shown(db, Claims(db)) /\ Shown(durable, Claims(durable))
    BY DEF DataInv
  <1>d. ASSUME Shown(db', Claims(db')), Shown(durable', Claims(durable')),
               stage' \in {"coverage", "apply"} => Shown(tx', Working')
        PROVE  DataInv'
    BY <1>b, <1>d DEF DataInv
  <1>e. ASSUME db' = db, durable' = durable, stage' \notin {"coverage", "apply"}
        PROVE  DataInv'
    BY <1>c, <1>d, <1>e
  <1>f. ASSUME stage' \in {"coverage", "apply"} => stage \in {"coverage", "apply"},
               UNCHANGED <<db, tx, durable, token, seq, at, k>>
        PROVE  DataInv'
    <2>1. Working' = Working
      BY <1>a, <1>f, SameHistory DEF Working
    <2>2. stage \in {"coverage", "apply"} => Shown(tx, Working)
      BY DEF DataInv
    <2> QED
      BY <1>c, <1>d, <1>f, <2>1, <2>2
  <1>g. ASSUME NEW r, db' = r, durable' \in {durable, r}, Shown(r, Claims(r)),
               stage' \notin {"coverage", "apply"}
        PROVE  DataInv'
    BY <1>c, <1>d, <1>g
  <1>1. CASE AdvanceIndexer
    BY <1>1, <1>f DEF AdvanceIndexer, store, locals
  <1>2. CASE ListPending \/ TakeToken \/ AllDone
    BY <1>2, <1>e DEF ListPending, TakeToken, AllDone, store
  <1>3. CASE CollectPage
    <2>1. CASE Pause
      BY <1>e, <2>1 DEF Pause
    <2>2. CASE ~Pause
      <3>1. /\ stage = "collect" /\ tx' = db /\ at' = 1 /\ k' = 1
            /\ UNCHANGED <<db, durable, token, seq>>
        BY <1>3, <2>2 DEF CollectPage
      <3>2. Shown(tx', Working')
        BY <1>a, <3>1, PageBegins
      <3> QED
        BY <1>c, <1>d, <3>1, <3>2
    <2> QED
      BY <2>1, <2>2
  <1>4. CASE CheckCoverage
    BY <1>4, <1>f DEF CheckCoverage, store
  <1>5. CASE ApplyOp
    <2>1. db' = db /\ durable' = durable
      BY <1>5 DEF ApplyOp
    <2>2. Shown(tx', Working')
      BY <1>5, <1>a, AppliedOp
    <2> QED
      BY <1>c, <1>d, <2>1, <2>2
  <1>6. CASE CommitPage
    <2>1. /\ stage = "apply" /\ at > page.kept
          /\ Write(UpsertBackfill(tx, token, NewRecord))
          /\ stage' \notin {"coverage", "apply"}
      BY <1>6 DEF CommitPage, NewRecord
    <2> QED
      BY <1>g, <2>1, PageCommitted DEF Write
  <1>7. CASE Verify
    <2>1. CASE UNCHANGED store
      BY <1>7, <1>e, <2>1 DEF Verify, store
    <2>2. ASSUME NEW v \in BOOLEAN, Write(UpsertBackfill(db, token, CheckedRecord(v)))
          PROVE  DataInv'
      BY <1>7, <1>g, <2>2, CheckRecorded DEF Verify, Write
    <2> QED
      BY <1>7, <2>1, <2>2 DEF Verify, CheckedRecord
  <1>8. CASE HttpError \/ WriteError \/ Crash
    BY <1>8, <1>e DEF HttpError, WriteError, Crash, Pause
  <1>9. CASE PowerLoss
    BY <1>9, <1>c, <1>d DEF PowerLoss
  <1>10. CASE UNCHANGED vars
    BY <1>10, <1>f DEF vars, store, locals
  <1> QED
    BY <1>1, <1>2, <1>3, <1>4, <1>5, <1>6, <1>7, <1>8, <1>9, <1>10 DEF Next, BackfillStep

ImportInv == TypeInv /\ PlaceInv /\ DataInv

LEMMA ImportInductive == Spec => []ImportInv
PROOF
  <1>1. Init => ImportInv
    BY TypeInit, PlaceInit, DataInit DEF ImportInv
  <1>2. ImportInv /\ [Next]_vars => ImportInv'
    BY TypeStep, PlaceStep, DataStep DEF ImportInv, PlaceInv
  <1> QED
    BY <1>1, <1>2, PTL DEF Spec

----------------------------------------------------------------------------
(* The theorems.                                                           *)

LEMMA ClaimedIsClaim ==
  /\ Registered = RegisteredIn(db)
  /\ \A t : Claimed(t) = ClaimIn(db, t) /\ RowsOf(t) = RowsIn(db, t)
  /\ \A t \in Extras : Claims(db)[t] = Moves(t, Claimed(t))
  BY DEF Registered, RegisteredIn, Claimed, ClaimIn, RowsOf, RowsIn, Claims

LEMMA RowsMatchClaims == ImportInv => RowsMatchProgress
PROOF
  <1> SUFFICES ASSUME ImportInv, NEW t \in Registered
               PROVE  /\ Cardinality(RowsOf(t)) = Cardinality(Moves(t, Claimed(t)))
                      /\ \A r \in RowsOf(t) :
                            /\ r.height <= db.bf[t].cutoff
                            /\ \E p \in Moves(t, Claimed(t)) :
                                  /\ r.height = hist[t][p[1]].height /\ r.kind = At(t, p).kind
                                  /\ r.from = Debited(At(t, p)) /\ r.to = Credited(At(t, p))
                                  /\ r.value = At(t, p).value
    BY DEF RowsMatchProgress
  <1> DEFINE P == Claims(db)[t]
  <1>1. t \in Extras /\ t \in RegisteredIn(db) /\ db.bf[t].known
    BY ClaimedIsClaim DEF RegisteredIn
  <1>2. RowsShow(db, t, P)
    BY <1>1 DEF ImportInv, DataInv, Shown, Faithful
  <1>3. P = Moves(t, Claimed(t)) /\ RowsOf(t) = RowsIn(db, t)
    BY <1>1, ClaimedIsClaim
  <1>4. ASSUME NEW p \in P
        PROVE  hist[t][p[1]].height <= db.bf[t].cutoff
    <2>1. p[1] \in ClaimIn(db, t)
      BY <1>1, <1>4, ClaimedPositions
    <2> HIDE DEF P
    <2> QED
      BY <1>1, <2>1 DEF ClaimIn, ImportInv, PlaceInv, ReplayInv, NotBeyond
  <1> HIDE DEF P
  <1>5. ASSUME NEW r \in RowsOf(t)
        PROVE  /\ r.height <= db.bf[t].cutoff
               /\ \E p \in P :
                     /\ r.height = hist[t][p[1]].height /\ r.kind = At(t, p).kind
                     /\ r.from = Debited(At(t, p)) /\ r.to = Credited(At(t, p))
                     /\ r.value = At(t, p).value
    <2>1. PICK p \in P : Shows(t, r, p)
      BY <1>2, <1>3, <1>5 DEF RowsShow
    <2> QED
      BY <1>4, <2>1 DEF Shows
  <1> QED
    BY <1>2, <1>3, <1>5 DEF RowsShow

(* What was replayed and what the progress record claims never part: the   *)
(* transfer history of a token holds one row for each move of the entries  *)
(* claimed, none of them above the cutoff, after whatever errors, crashes  *)
(* and power losses between and within pages.                              *)
THEOREM HistoryFollowsProgress == Spec => []RowsMatchProgress
  BY ImportInductive, RowsMatchClaims, PTL

LEMMA SeenIsFirst == ImportInv => FirstSeenLowered
PROOF
  <1> SUFFICES ASSUME ImportInv, NEW x \in Accounts
               PROVE  LET heights == UNION {{hist[t][p[1]].height :
                                        p \in {q \in Moves(t, Claimed(t)) :
                                                 x \in {Debited(At(t, q)), Credited(At(t, q))}}}
                                     : t \in Registered}
                      IN  db.seen[x] = Min(heights \cup {LiveSeen(db.height)[x]})
    BY DEF FirstSeenLowered
  <1> DEFINE heights == UNION {{hist[t][p[1]].height :
                                  p \in {q \in Moves(t, Claimed(t)) :
                                           x \in {Debited(At(t, q)), Credited(At(t, q))}}}
                               : t \in Registered}
             A == Activity(db, x, Claims(db))
  <1>1. hist \in Histories /\ db \in Database /\ SeenShow(db, Claims(db))
    BY DEF ImportInv, TypeInv, TypeOK, CursorInv, DataInv, Shown, Faithful
  <1>2. heights \cup {LiveSeen(db.height)[x]} = A
    <2>1. \A t \in Registered : t \in Extras /\ Claims(db)[t] = Moves(t, Claimed(t))
      BY ClaimedIsClaim DEF Registered
    <2>2. heights = UNION {ActiveAt(t, x, Claims(db)[t]) : t \in Registered}
      BY <2>1 DEF ActiveAt
    <2> HIDE DEF heights
    <2> QED
      BY <2>2, ClaimedIsClaim DEF Activity
  <1>3. /\ db.seen[x] \in A /\ \A h \in A : db.seen[x] <= h
        /\ \A h \in A : h \in Nat
    BY <1>1, ClaimedPositions, ActivityNat DEF SeenShow
  <1> HIDE DEF A, heights
  <1>4. Min(A) \in A /\ \A h \in A : Min(A) <= h
    BY <1>3, MinFacts
  <1>5. db.seen[x] = Min(A)
    BY <1>3, <1>4
  <1> QED
    BY <1>2, <1>5 DEF heights

(* An address that the import meets is seen from its first claimed         *)
(* activity on, or from where the live sync met it if that is lower.       *)
THEOREM SeenFromFirstActivity == Spec => []FirstSeenLowered
  BY ImportInductive, SeenIsFirst, PTL

LEMMA BalancesAreSums == ImportInv /\ Covered => ReplayedOnce
PROOF
  <1> SUFFICES ASSUME ImportInv, Covered, NEW t \in Registered, NEW x \in Accounts
               PROVE  db.bal[t][x] = Net(t, x, Moves(t, Claimed(t)))
    BY DEF ReplayedOnce
  <1>1. t \in Extras /\ t \in RegisteredIn(db)
    BY ClaimedIsClaim DEF Registered
  <1>2. db.bal[t][x] = Net(t, x, Claims(db)[t])
    BY <1>1 DEF ImportInv, DataInv, Shown, Balanced
  <1> QED
    BY <1>1, <1>2, ClaimedIsClaim

LEMMA CoveredKept == TypeInv /\ [Next]_vars => (Covered => Covered')
  BY StoreSteps, SameHistory

(* Balances and progress never part: the balances of a token are the sums  *)
(* of the moves its progress record claims, each counted once, if no event *)
(* of the token debits more than the events before it left.                *)
THEOREM BalancesFollowProgress == Spec /\ Covered => []ReplayedOnce
PROOF
  <1>1. Covered /\ TypeInv /\ [Next]_vars => Covered'
    BY CoveredKept
  <1>2. ImportInv => TypeInv
    BY DEF ImportInv
  <1> QED
    BY <1>1, <1>2, ImportInductive, BalancesAreSums, PTL DEF Spec

LEMMA ReadyIsComplete == ImportInv => ReadyMeansComplete
PROOF
  <1> SUFFICES ASSUME ImportInv, stage = "ready", NEW t \in Registered
               PROVE  Cardinality(RowsOf(t)) =
                      Cardinality(Moves(t, {i \in DOMAIN hist[t] : hist[t][i].height <= db.height}))
    BY DEF ReadyMeansComplete
  <1>1. t \in Extras /\ t \in RegisteredIn(db) /\ db.bf[t].known
    BY ClaimedIsClaim DEF RegisteredIn
  <1>2. db.bf[t].done
    BY <1>1 DEF ImportInv, PlaceInv, ReplayInv, Pending
  <1>3. db.bf[t].cutoff = db.height
    BY <1>1 DEF ImportInv, PlaceInv, ReplayInv, RegInv, RegisteredAlike
  <1>4. Claimed(t) = {i \in DOMAIN hist[t] : hist[t][i].height <= db.height}
    BY <1>2, <1>3 DEF Claimed
  <1>5. Cardinality(RowsOf(t)) = Cardinality(Moves(t, Claimed(t)))
    BY RowsMatchClaims DEF RowsMatchProgress
  <1> QED
    BY <1>4, <1>5

(* The block sync is let go only when the history of every registered      *)
(* token up to the sync height is in the database, also what the indexer   *)
(* served only after the last short page.                                  *)
THEOREM ReadyOnlyWhenComplete == Spec => []ReadyMeansComplete
  BY ImportInductive, ReadyIsComplete, PTL
=============================================================================
