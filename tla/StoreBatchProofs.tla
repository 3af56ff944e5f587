--------------------------- MODULE StoreBatchProofs ---------------------------
(***************************************************************************)
(* Theorems about StoreBatch, for any writers, readers and handlers and    *)
(* any number of batches and errors.                                       *)
(***************************************************************************)
EXTENDS StoreBatch, SequenceTheorems, TLAPS

Held == {"locked", "writing", "committing", "rollingback", "clearing", "unlocking"}
HasTx == {"writing", "committing", "rollingback", "clearing"}

\* Mutex, s.tx, connection and the phase of each writer hang together.
Ownership ==
  /\ \A w \in Writers : pc[w] \in Held <=> mu = w
  /\ \A w \in Writers : pc[w] \in HasTx => tx = mine[w] /\ tx = Len(batches) /\ tx # NoTx
  /\ tx # NoTx => \E w \in Writers : pc[w] \in HasTx
  /\ \A w \in Writers : InBatch(w) => conn = w
  /\ \A w \in Writers : pc[w] = "writing" => batches[tx].state = "open"
  /\ \A w \in Writers : pc[w] \in {"committing", "rollingback"} => batches[tx].state = "ending"
  /\ \A w \in Writers : pc[w] = "committing" => step[w] > Len(StatementsOf(mine[w]))

Written(w) ==
  LET done == {i \in DOMAIN StatementsOf(mine[w]) : i < step[w]}
  IN {StatementsOf(mine[w])[i] : i \in done}

\* The open transaction is the committed database with what the writer inside
\* has written so far.
OpenIsPartial ==
  \A w \in Writers : pc[w] \in {"writing", "committing"} =>
    \A t \in Tables : open[t] = IF t \in Written(w) THEN mine[w] ELSE committed[t]

Inv == StoreTypeOK /\ Ownership
\* The committed batches that write a table.
CommittedOn(t) ==
  {b \in DOMAIN batches : batches[b].state = "committed" /\ t \in TablesOf(batches[b].kind)}

AtomicInv == Inv /\ OpenIsPartial /\ CommittedWhole

-----------------------------------------------------------------------------
\* Every kind of batch has one or two statements, each on a table.
LEMMA StatementsType ==
  ASSUME NEW kind \in Kinds
  PROVE  /\ Statements[kind] \in Seq(Tables)
         /\ Len(Statements[kind]) \in 1 .. 2
         /\ \A i \in 1 .. Len(Statements[kind]) : Statements[kind][i] \in Tables
  <1>1. Statements[kind] \in {<<"tokens", "backfills">>, <<"rows", "backfills">>, <<"rows", "height">>, <<"rows">>}
    BY DEF Kinds, Statements
  <1>2. CASE Statements[kind] = <<"rows">>
    BY <1>2 DEF Tables
  <1>3. ASSUME NEW s \in Tables, NEW t \in Tables, Statements[kind] = <<s, t>>
        PROVE  /\ Statements[kind] \in Seq(Tables)
               /\ Len(Statements[kind]) \in 1 .. 2
               /\ \A i \in 1 .. Len(Statements[kind]) : Statements[kind][i] \in Tables
    BY <1>3
  <1> QED
    BY <1>1, <1>2, <1>3 DEF Tables

\* What a writer inside a batch writes next is a table.
LEMMA NextStatement ==
  ASSUME Inv, NEW w \in Writers, pc[w] \in HasTx
  PROVE  /\ mine[w] \in 1 .. Len(batches)
         /\ batches[mine[w]].kind \in Kinds
         /\ Len(StatementsOf(mine[w])) \in 1 .. 2
         /\ \A i \in 1 .. Len(StatementsOf(mine[w])) : StatementsOf(mine[w])[i] \in Tables
  <1>1. mine[w] \in 1 .. Len(batches)
    BY DEF Inv, StoreTypeOK, Ownership, NoTx
  <1>2. batches[mine[w]] \in Batch
    BY <1>1, ElementOfSeq DEF Inv, StoreTypeOK
  <1>3. batches[mine[w]].kind \in Kinds
    BY <1>2 DEF Batch
  <1> QED
    BY <1>1, <1>3, StatementsType DEF StatementsOf

-----------------------------------------------------------------------------
\* Nobody is inside, nothing is open.
LEMMA InitInv == StoreInit => Inv
  <1> SUFFICES ASSUME StoreInit PROVE Inv
    OBVIOUS
  <1>1. batches = <<>> /\ Len(batches) = 0 /\ batches \in Seq(Batch)
    BY DEF StoreInit
  <1>2. StoreTypeOK
    <2>1. /\ pc \in [Writers -> WriterPhases]
          /\ mine \in [Writers -> 0 .. Len(batches)]
          /\ step \in [Writers -> 1 .. 3]
      BY <1>1 DEF StoreInit, WriterPhases, NoTx
    <2>2. committed \in [Tables -> 0 .. Len(batches)] /\ open \in [Tables -> 0 .. Len(batches)]
      BY <1>1 DEF StoreInit
    <2>3. DOMAIN request = AllReaders
      BY DEF StoreInit
    <2>4. serving \in BOOLEAN
      BY DEF StoreInit
    <2>5. mu \in Writers \cup {None} /\ conn \in Writers \cup AllReaders \cup {None}
      BY DEF StoreInit
    <2>6. tx \in 0 .. Len(batches) /\ errors \in 0 .. MaxErrors
      BY <1>1, StoreBatchAssumption DEF StoreInit, NoTx
    <2> QED
      BY <1>1, <2>1, <2>2, <2>3, <2>4, <2>5, <2>6 DEF StoreTypeOK
  <1>3. Ownership
    BY StoreBatchAssumption DEF StoreInit, Ownership, InBatch, Held, HasTx
  <1> QED
    BY <1>2, <1>3 DEF Inv

\* A batch keeps its kind while its state changes.
LEMMA EndingType ==
  ASSUME batches \in Seq(Batch), NEW b \in 1 .. Len(batches), NEW state \in BatchStates
  PROVE  LET new == [batches EXCEPT ![b].state = state] IN
         /\ new \in Seq(Batch)
         /\ Len(new) = Len(batches)
         /\ \A a \in 1 .. Len(batches) :
              new[a].kind = batches[a].kind /\ (a # b => new[a] = batches[a])
         /\ new[b].state = state
  <1> DEFINE new == [batches EXCEPT ![b].state = state]
  <1>1. \A a \in 1 .. Len(batches) : batches[a] \in Batch
    BY ElementOfSeq
  <1>2. \A a \in 1 .. Len(batches) : new[a] = IF a = b THEN [batches[b] EXCEPT !.state = state] ELSE batches[a]
    OBVIOUS
  <1>3. [batches[b] EXCEPT !.state = state] \in Batch
    BY <1>1 DEF Batch
  <1>4. [batches[b] EXCEPT !.state = state].kind = batches[b].kind
        /\ [batches[b] EXCEPT !.state = state].state = state
    BY <1>1 DEF Batch
  <1>5. new \in [1 .. Len(batches) -> Batch]
    BY <1>1, <1>2, <1>3
  <1>6. new \in Seq(Batch) /\ Len(new) = Len(batches)
    BY <1>5
  <1> QED
    BY <1>2, <1>4, <1>6

-----------------------------------------------------------------------------
(* Every step keeps the invariant. *)

LEMMA StepCallBegin ==
  ASSUME Inv, NEW w \in Writers, CallBegin(w)
  PROVE  Inv'
  BY DEF Inv, StoreTypeOK, Ownership, InBatch, Held, HasTx, StatementsOf, WriterPhases, CallBegin, store

LEMMA StepLock ==
  ASSUME Inv, NEW w \in Writers, Lock(w)
  PROVE  Inv'
  BY StoreBatchAssumption
  DEF Inv, StoreTypeOK, Ownership, InBatch, Held, HasTx, StatementsOf, WriterPhases, Lock

LEMMA StepBeginFails ==
  ASSUME Inv, NEW w \in Writers, BeginFails(w)
  PROVE  Inv'
  BY StoreBatchAssumption
  DEF Inv, StoreTypeOK, Ownership, InBatch, Held, HasTx, StatementsOf, WriterPhases, BeginFails

LEMMA StepUnlock ==
  ASSUME Inv, NEW w \in Writers, Unlock(w)
  PROVE  Inv'
  BY StoreBatchAssumption
  DEF Inv, StoreTypeOK, Ownership, InBatch, Held, HasTx, StatementsOf, WriterPhases, Unlock, NoTx

LEMMA StepClearTx ==
  ASSUME Inv, NEW w \in Writers, ClearTx(w)
  PROVE  Inv'
  BY StoreBatchAssumption
  DEF Inv, StoreTypeOK, Ownership, InBatch, Held, HasTx, StatementsOf, WriterPhases, ClearTx, NoTx

LEMMA StepBegin ==
  ASSUME Inv, NEW w \in Writers, NEW kind \in Kinds, Begin(w, kind)
  PROVE  Inv'
  <1> DEFINE new == [kind |-> kind, state |-> "open"]
             n == Len(batches) + 1
  <1>1. new \in Batch
    BY DEF Batch, BatchStates
  <1>2. /\ batches' = Append(batches, new)
        /\ batches \in Seq(Batch)
    BY DEF Begin, Inv, StoreTypeOK
  <1>3. /\ batches' \in Seq(Batch)
        /\ Len(batches') = n
        /\ batches'[n] = new
    BY <1>1, <1>2
  <1>4. StoreTypeOK'
    <2>1. committed' \in [Tables -> 0 .. Len(batches')] /\ open' \in [Tables -> 0 .. Len(batches')]
      BY <1>2, <1>3 DEF Begin, Inv, StoreTypeOK
    <2>2. mine' \in [Writers -> 0 .. Len(batches')] /\ tx' \in 0 .. Len(batches')
      BY <1>2, <1>3 DEF Begin, Inv, StoreTypeOK
    <2>3. pc' \in [Writers -> WriterPhases] /\ step' \in [Writers -> 1 .. 3]
      BY DEF Begin, Inv, StoreTypeOK, WriterPhases
    <2> QED
      BY <1>3, <2>1, <2>2, <2>3 DEF Begin, Inv, StoreTypeOK
  <1>5. \A v \in Writers : pc[v] \notin HasTx
    BY DEF Begin, Inv, Ownership
  <1>6. Ownership'
    <2>1. pc' = [pc EXCEPT ![w] = "writing"] /\ mu' = mu /\ mu = w /\ mine'[w] = n /\ tx' = n /\ conn' = w
      BY DEF Begin, Inv, StoreTypeOK, Ownership, Held
    <2>2. n # NoTx /\ n = Len(batches')
      BY <1>2, <1>3 DEF NoTx
    <2>3. batches'[tx'].state = "open"
      BY <1>3, <2>1
    <2> QED
      BY <1>5, <2>1, <2>2, <2>3 DEF Inv, StoreTypeOK, Ownership, InBatch, Held, HasTx
  <1> QED
    BY <1>4, <1>6 DEF Inv

LEMMA StepStatement ==
  ASSUME Inv, NEW w \in Writers, Statement(w)
  PROVE  Inv'
  <1>1. /\ mine[w] \in 1 .. Len(batches)
        /\ Len(StatementsOf(mine[w])) \in 1 .. 2
        /\ \A i \in 1 .. Len(StatementsOf(mine[w])) : StatementsOf(mine[w])[i] \in Tables
    BY NextStatement DEF Statement, HasTx
  <1>2. tx # NoTx
    BY DEF Statement, Inv, Ownership, HasTx
  <1>3. step[w] \in 1 .. 3 /\ step[w] <= Len(StatementsOf(mine[w]))
    BY DEF Statement, Inv, StoreTypeOK
  <1>4. /\ open' = [open EXCEPT ![StatementsOf(mine[w])[step[w]]] = mine[w]]
        /\ UNCHANGED <<mu, tx, conn, committed, batches, pc, mine, request, serving, errors>>
        /\ step' = [step EXCEPT ![w] = @ + 1]
    BY <1>2 DEF Statement
  <1>5. open' \in [Tables -> 0 .. Len(batches)] /\ step' \in [Writers -> 1 .. 3]
    BY <1>1, <1>3, <1>4 DEF Inv, StoreTypeOK
  <1>6. StoreTypeOK'
    BY <1>4, <1>5 DEF Inv, StoreTypeOK
  <1>7. pc[w] = "writing"
    BY DEF Statement
  <1>8. Ownership'
    BY <1>4, <1>7 DEF Inv, StoreTypeOK, Ownership, InBatch, StatementsOf
  <1> QED
    BY <1>6, <1>8 DEF Inv

\* The transaction of the writer inside begins to end.
LEMMA StepEnding ==
  ASSUME Inv, NEW w \in Writers, StatementFails(w) \/ StartCommit(w)
  PROVE  Inv'
  <1>1. /\ pc[w] = "writing"
        /\ batches' = [batches EXCEPT ![tx].state = "ending"]
        /\ pc' \in {[pc EXCEPT ![w] = "rollingback"], [pc EXCEPT ![w] = "committing"]}
        /\ UNCHANGED <<mu, tx, conn, committed, open, mine, step, request, serving>>
        /\ errors' \in {errors, errors + 1} /\ (errors' # errors => errors < MaxErrors)
    BY DEF StatementFails, StartCommit, Ending
  <1>2. /\ tx \in 1 .. Len(batches)
        /\ tx = mine[w]
        /\ batches \in Seq(Batch)
        /\ "ending" \in BatchStates
    BY <1>1 DEF Inv, StoreTypeOK, Ownership, HasTx, NoTx, BatchStates
  <1>3. /\ batches' \in Seq(Batch)
        /\ Len(batches') = Len(batches)
        /\ batches'[tx].state = "ending"
        /\ batches'[tx].kind = batches[tx].kind
    BY <1>1, <1>2, EndingType
  <1>4. StoreTypeOK'
    <2>1. errors' \in 0 .. MaxErrors
      BY <1>1, StoreBatchAssumption DEF Inv, StoreTypeOK
    <2>2. pc' \in [Writers -> WriterPhases]
      BY <1>1 DEF Inv, StoreTypeOK, WriterPhases
    <2> QED
      BY <1>1, <1>3, <2>1, <2>2 DEF Inv, StoreTypeOK
  <1>5. pc'[w] = "committing" => step'[w] > Len(StatementsOf(mine[w]))
    BY <1>1 DEF StatementFails, StartCommit, Inv, StoreTypeOK
  <1>6. StatementsOf(mine[w])' = StatementsOf(mine[w])
    BY <1>1, <1>2, <1>3 DEF StatementsOf
  <1>7. \A v \in Writers : v # w => pc[v] \notin Held /\ pc'[v] = pc[v]
    BY <1>1 DEF Inv, StoreTypeOK, Ownership, Held
  <1>8. Ownership'
    BY <1>1, <1>2, <1>3, <1>5, <1>6, <1>7 DEF Inv, StoreTypeOK, Ownership, InBatch, Held, HasTx
  <1> QED
    BY <1>4, <1>8 DEF Inv

\* The transaction has ended one way or the other.
LEMMA StepFinish ==
  ASSUME Inv, NEW w \in Writers, FinishCommit(w) \/ FinishRollback(w)
  PROVE  Inv'
  <1>1. /\ pc[w] \in {"committing", "rollingback"}
        /\ \E state \in {"committed", "rolledback"} : batches' = [batches EXCEPT ![mine[w]].state = state]
        /\ pc' = [pc EXCEPT ![w] = "clearing"]
        /\ conn' = None
        /\ UNCHANGED <<mu, tx, mine, step, request, serving>>
        /\ errors' \in {errors, errors + 1} /\ (errors' # errors => errors < MaxErrors)
        /\ committed' \in {committed, open} /\ open' \in {committed, open}
    BY DEF FinishCommit, FinishRollback
  <1>2. /\ mine[w] \in 1 .. Len(batches)
        /\ tx = mine[w]
        /\ batches \in Seq(Batch)
        /\ {"committed", "rolledback"} \subseteq BatchStates
    BY <1>1 DEF Inv, StoreTypeOK, Ownership, HasTx, NoTx, BatchStates
  <1>3. /\ batches' \in Seq(Batch)
        /\ Len(batches') = Len(batches)
    BY <1>1, <1>2, EndingType
  <1>4. StoreTypeOK'
    <2>1. errors' \in 0 .. MaxErrors
      BY <1>1, StoreBatchAssumption DEF Inv, StoreTypeOK
    <2>2. pc' \in [Writers -> WriterPhases]
      BY <1>1 DEF Inv, StoreTypeOK, WriterPhases
    <2> QED
      BY <1>1, <1>3, <2>1, <2>2 DEF Inv, StoreTypeOK
  <1>5. \A v \in Writers : v # w => pc[v] \notin Held /\ pc'[v] = pc[v]
    BY <1>1 DEF Inv, StoreTypeOK, Ownership, Held
  <1>6. Ownership'
    BY <1>1, <1>2, <1>3, <1>5 DEF Inv, StoreTypeOK, Ownership, InBatch, Held, HasTx
  <1> QED
    BY <1>4, <1>6 DEF Inv

\* Readers take and release the connection, but never from a writer.
LEMMA StepReader ==
  ASSUME Inv, NEW r \in AllReaders, ReaderStep(r) \/ \E h \in Handlers : Request(r, h)
  PROVE  /\ Inv'
         /\ UNCHANGED <<mu, tx, committed, open, batches, writers>>
  <1>1. /\ UNCHANGED <<mu, tx, committed, open, batches, writers, serving, errors>>
        /\ DOMAIN request' = DOMAIN request
        /\ \/ conn' = conn
           \/ conn = None /\ conn' = r
           \/ conn = r /\ conn' = None
    BY DEF ReaderStep, Request, Exec, Query, QueryFails, CloseRows, store, writers
  <1>2. r \notin Writers
    BY StoreBatchAssumption
  <1>3. StoreTypeOK'
    BY <1>1 DEF Inv, StoreTypeOK, writers
  <1>4. \A v \in Writers : InBatch(v) => conn = v /\ conn' = v
    BY <1>1, <1>2, StoreBatchAssumption DEF Inv, Ownership, InBatch
  <1>5. Ownership'
    BY <1>1, <1>4 DEF Inv, Ownership, InBatch, StatementsOf, writers
  <1> QED
    BY <1>1, <1>3, <1>5 DEF Inv

LEMMA StepCrash ==
  ASSUME Inv, Crash
  PROVE  Inv'
  <1>1. /\ batches' \in Seq(Batch)
        /\ Len(batches') = Len(batches)
    <2>1. batches \in Seq(Batch) /\ DOMAIN batches = 1 .. Len(batches)
      BY DEF Inv, StoreTypeOK
    <2>2. \A b \in 1 .. Len(batches) : batches[b] \in Batch
      BY <2>1, ElementOfSeq
    <2>3. \A b \in 1 .. Len(batches) : [batches[b] EXCEPT !.state = "rolledback"] \in Batch
      BY <2>2 DEF Batch, BatchStates
    <2>4. batches' \in [1 .. Len(batches) -> Batch]
      BY <2>1, <2>2, <2>3 DEF Crash
    <2> QED
      BY <2>1, <2>4
  <1>2. pc' \in [Writers -> WriterPhases] /\ mine' \in [Writers -> 0 .. Len(batches)] /\ step' \in [Writers -> 1 .. 3]
    BY DEF Crash, WriterPhases, NoTx, Inv, StoreTypeOK
  <1>3. errors' \in 0 .. MaxErrors /\ DOMAIN request' = AllReaders
    BY StoreBatchAssumption DEF Crash, Inv, StoreTypeOK
  <1>4. StoreTypeOK'
    <2>1. serving' \in BOOLEAN
      BY DEF Crash
    <2>2. mu' \in Writers \cup {None} /\ conn' \in Writers \cup AllReaders \cup {None}
      BY DEF Crash
    <2>3. /\ tx' \in 0 .. Len(batches')
          /\ committed' \in [Tables -> 0 .. Len(batches')]
          /\ open' \in [Tables -> 0 .. Len(batches')]
      BY <1>1 DEF Crash, Inv, StoreTypeOK, NoTx
    <2> QED
      BY <1>1, <1>2, <1>3, <2>1, <2>2, <2>3 DEF StoreTypeOK
  <1>5. Ownership'
    BY StoreBatchAssumption DEF Crash, Ownership, InBatch, Held, HasTx
  <1> QED
    BY <1>4, <1>5 DEF Inv

\* A step that leaves the store and the writers alone.
LEMMA StepElse ==
  ASSUME Inv, StartApi \/ UNCHANGED storeVars
  PROVE  Inv'
  BY DEF Inv, StoreTypeOK, Ownership, InBatch, StatementsOf, StartApi, storeVars, store, writers

LEMMA InvInductive == Inv /\ [StoreNext]_storeVars => Inv'
  <1> SUFFICES ASSUME Inv, [StoreNext]_storeVars PROVE Inv'
    OBVIOUS
  <1>1. ASSUME NEW w \in Writers, CallBegin(w) \/ WriterStep(w)
        PROVE  Inv'
    BY <1>1, StepCallBegin, StepLock, StepBeginFails, StepBegin, StepStatement, StepEnding, StepFinish,
       StepClearTx, StepUnlock DEF WriterStep
  <1>2. ASSUME NEW r \in AllReaders, ReaderStep(r) \/ \E h \in Handlers : Request(r, h)
        PROVE  Inv'
    BY <1>2, StepReader
  <1> QED
    BY <1>1, <1>2, StepCrash, StepElse DEF StoreNext

-----------------------------------------------------------------------------
\* Every variable keeps its type.
THEOREM TypeCorrect == StoreSpec => []StoreTypeOK
  <1>1. Inv => StoreTypeOK
    BY DEF Inv
  <1> QED
    BY <1>1, InitInv, InvInductive, PTL DEF StoreSpec

\* Two writers are never inside a batch at the same time, whatever errors,
\* crashes and readers do: BeginBatch keeps the mutex until the end.
THEOREM MutualExclusion == StoreSpec => []OneBatch
  <1>1. Inv => OneBatch
    BY StoreBatchAssumption DEF Inv, StoreTypeOK, Ownership, OneBatch, InBatch, Held, HasTx
  <1> QED
    BY <1>1, InitInv, InvInductive, PTL DEF StoreSpec

-----------------------------------------------------------------------------
(* Atomicity of batches. *)

\* The committed database stays whole while no batch becomes committed.
LEMMA WholeFrame ==
  ASSUME CommittedWhole, committed' = committed,
         \A t \in Tables : CommittedOn(t)' = CommittedOn(t)
  PROVE  CommittedWhole'
  BY DEF CommittedWhole, CommittedOn

LEMMA AtomicInit == StoreInit => AtomicInv
  <1> SUFFICES ASSUME StoreInit PROVE AtomicInv
    OBVIOUS
  <1>1. OpenIsPartial
    BY DEF StoreInit, OpenIsPartial
  <1>2. CommittedWhole
    <2>1. DOMAIN batches = {}
      BY DEF StoreInit
    <2>2. \A t \in Tables : CommittedOn(t) = {} /\ committed[t] = 0
      BY <2>1 DEF CommittedOn, StoreInit
    <2> QED
      BY <2>2 DEF CommittedWhole, CommittedOn
  <1> QED
    BY <1>1, <1>2, InitInv DEF AtomicInv

\* The transaction starts as the database is, and its batch as the last one.
LEMMA AtomicBegin ==
  ASSUME AtomicInv, NEW w \in Writers, NEW kind \in Kinds, Begin(w, kind)
  PROVE  OpenIsPartial' /\ CommittedWhole'
  <1> DEFINE new == [kind |-> kind, state |-> "open"]
             n == Len(batches) + 1
  <1>1. batches' = Append(batches, new) /\ batches \in Seq(Batch) /\ committed' = committed
    BY DEF Begin, AtomicInv, Inv, StoreTypeOK
  <1>2. /\ DOMAIN batches' = DOMAIN batches \cup {n}
        /\ batches'[n].state = "open"
        /\ \A b \in DOMAIN batches : batches'[b] = batches[b]
    BY <1>1
  <1>3. \A t \in Tables : CommittedOn(t)' = CommittedOn(t)
    BY <1>2 DEF CommittedOn, TablesOf
  <1>4. CommittedWhole'
    BY <1>1, <1>3, WholeFrame DEF AtomicInv
  <1>5. \A v \in Writers : pc'[v] \in {"writing", "committing"} => v = w
    BY DEF Begin, AtomicInv, Inv, StoreTypeOK, Ownership, HasTx
  <1>6. step'[w] = 1 /\ open' = committed'
    BY DEF Begin, AtomicInv, Inv, StoreTypeOK
  <1>7. Written(w)' = {}
    <2>1. mine'[w] = n /\ n \in 1 .. Len(batches')
      BY <1>1 DEF Begin, AtomicInv, Inv, StoreTypeOK
    <2>2. StatementsOf(mine[w])' = Statements[kind]
      BY <1>1, <2>1 DEF StatementsOf
    <2> QED
      BY <1>6, <2>2, StatementsType DEF Written
  <1> QED
    BY <1>4, <1>5, <1>6, <1>7 DEF OpenIsPartial

\* A statement adds its table to what the transaction has of its batch.
LEMMA AtomicStatement ==
  ASSUME AtomicInv, NEW w \in Writers, Statement(w)
  PROVE  OpenIsPartial' /\ CommittedWhole'
  <1> DEFINE table == StatementsOf(mine[w])[step[w]]
  <1>1. /\ Len(StatementsOf(mine[w])) \in 1 .. 2
        /\ StatementsOf(mine[w]) \in Seq(Tables)
        /\ \A i \in 1 .. Len(StatementsOf(mine[w])) : StatementsOf(mine[w])[i] \in Tables
    BY NextStatement, StatementsType DEF Statement, HasTx, AtomicInv, StatementsOf
  <1>2. tx # NoTx
    BY DEF Statement, AtomicInv, Inv, Ownership, HasTx
  <1>3. step[w] \in 1 .. 3 /\ step[w] <= Len(StatementsOf(mine[w]))
    BY DEF Statement, AtomicInv, Inv, StoreTypeOK
  <1>4. /\ open' = [open EXCEPT ![table] = mine[w]]
        /\ UNCHANGED <<committed, batches, pc, mine>>
        /\ step' = [step EXCEPT ![w] = @ + 1]
    BY <1>2 DEF Statement
  <1>5. CommittedWhole'
    BY <1>4, WholeFrame DEF CommittedOn, TablesOf, AtomicInv
  <1>6. StatementsOf(mine[w])' = StatementsOf(mine[w]) /\ step'[w] = step[w] + 1 /\ mine'[w] = mine[w]
    BY <1>4 DEF StatementsOf, AtomicInv, Inv, StoreTypeOK
  <1>7. Written(w)' = Written(w) \cup {table}
    BY <1>1, <1>3, <1>6 DEF Written
  <1>8. \A t \in Tables : open'[t] = IF t = table THEN mine[w] ELSE open[t]
    BY <1>1, <1>3, <1>4 DEF AtomicInv, Inv, StoreTypeOK
  <1>9. \A v \in Writers : pc'[v] \in {"writing", "committing"} => v = w
    BY <1>4 DEF Statement, AtomicInv, Inv, StoreTypeOK, Ownership, Held
  <1> QED
    BY <1>4, <1>5, <1>6, <1>7, <1>8, <1>9 DEF OpenIsPartial, AtomicInv, Statement

\* What is written does not change when the transaction begins to end.
LEMMA AtomicEnding ==
  ASSUME AtomicInv, NEW w \in Writers, StatementFails(w) \/ StartCommit(w)
  PROVE  OpenIsPartial' /\ CommittedWhole'
  <1>1. /\ pc[w] = "writing"
        /\ batches' = [batches EXCEPT ![tx].state = "ending"]
        /\ pc' \in {[pc EXCEPT ![w] = "rollingback"], [pc EXCEPT ![w] = "committing"]}
        /\ UNCHANGED <<committed, open, mine, step>>
    BY DEF StatementFails, StartCommit, Ending
  <1>2. /\ tx \in 1 .. Len(batches)
        /\ tx = mine[w]
        /\ batches[tx].state = "open"
        /\ batches \in Seq(Batch)
        /\ "ending" \in BatchStates
    BY <1>1 DEF AtomicInv, Inv, StoreTypeOK, Ownership, HasTx, NoTx, BatchStates
  <1>3. /\ DOMAIN batches' = DOMAIN batches
        /\ batches'[tx].state = "ending"
        /\ \A a \in DOMAIN batches : batches'[a].kind = batches[a].kind /\ (a # tx => batches'[a] = batches[a])
    BY <1>1, <1>2, EndingType
  <1>4. \A t \in Tables : CommittedOn(t)' = CommittedOn(t)
    BY <1>2, <1>3 DEF CommittedOn, TablesOf
  <1>5. CommittedWhole'
    BY <1>1, <1>4, WholeFrame DEF AtomicInv
  <1>6. \A v \in Writers : pc'[v] \in {"writing", "committing"} => v = w
    BY <1>1 DEF AtomicInv, Inv, StoreTypeOK, Ownership, Held
  <1>7. StatementsOf(mine[w])' = StatementsOf(mine[w])
    BY <1>1, <1>2, <1>3 DEF StatementsOf
  <1>8. Written(w)' = Written(w)
    BY <1>1, <1>7 DEF Written
  <1> QED
    BY <1>1, <1>5, <1>6, <1>8 DEF OpenIsPartial, AtomicInv

\* The commit makes the last batch of all its tables the committed one.
LEMMA AtomicFinish ==
  ASSUME AtomicInv, NEW w \in Writers, FinishCommit(w) \/ FinishRollback(w)
  PROVE  OpenIsPartial' /\ CommittedWhole'
  <1> DEFINE b == mine[w]
  <1>1. /\ pc[w] \in {"committing", "rollingback"}
        /\ pc' = [pc EXCEPT ![w] = "clearing"]
    BY DEF FinishCommit, FinishRollback
  <1>2. OpenIsPartial'
    BY <1>1 DEF AtomicInv, Inv, StoreTypeOK, Ownership, Held, OpenIsPartial
  <1>3. /\ b \in 1 .. Len(batches)
        /\ b = Len(batches)
        /\ batches[b].state = "ending"
        /\ batches \in Seq(Batch)
        /\ {"committed", "rolledback"} \subseteq BatchStates
    BY <1>1 DEF AtomicInv, Inv, StoreTypeOK, Ownership, HasTx, NoTx, BatchStates
  <1>4. ASSUME NEW state \in {"committed", "rolledback"}, batches' = [batches EXCEPT ![b].state = state]
        PROVE  /\ DOMAIN batches' = DOMAIN batches
               /\ DOMAIN batches = 1 .. Len(batches)
               /\ batches'[b].state = state
               /\ \A a \in DOMAIN batches :
                    batches'[a].kind = batches[a].kind /\ (a # b => batches'[a] = batches[a])
    BY <1>3, <1>4, EndingType
  <1>5. CASE FinishRollback(w)
    <2>1. batches' = [batches EXCEPT ![b].state = "rolledback"] /\ committed' = committed
      BY <1>5 DEF FinishRollback
    <2>2. /\ DOMAIN batches' = DOMAIN batches
          /\ batches'[b].state = "rolledback"
          /\ \A a \in DOMAIN batches :
               batches'[a].kind = batches[a].kind /\ (a # b => batches'[a] = batches[a])
      BY <1>4, <2>1
    <2>3. \A t \in Tables : CommittedOn(t)' = CommittedOn(t)
      BY <1>3, <2>2 DEF CommittedOn, TablesOf
    <2> QED
      BY <1>2, <2>1, <2>3, WholeFrame DEF AtomicInv
  <1>6. CASE FinishCommit(w)
    <2>1. batches' = [batches EXCEPT ![b].state = "committed"] /\ committed' = open /\ pc[w] = "committing"
      BY <1>6 DEF FinishCommit
    <2>2. Written(w) = TablesOf(batches[b].kind)
      <3>1. step[w] > Len(StatementsOf(b)) /\ step[w] \in 1 .. 3
        BY <2>1 DEF AtomicInv, Inv, StoreTypeOK, Ownership
      <3>2. Len(Statements[batches[b].kind]) \in 1 .. 2 /\ Statements[batches[b].kind] \in Seq(Tables)
        BY <1>1, NextStatement, StatementsType DEF HasTx, AtomicInv
      <3> QED
        BY <3>1, <3>2 DEF Written, TablesOf, StatementsOf
    <2>3. \A t \in Tables : committed'[t] = IF t \in TablesOf(batches[b].kind) THEN b ELSE committed[t]
      BY <2>1, <2>2 DEF AtomicInv, OpenIsPartial
    <2>4. \A t \in Tables : CommittedOn(t)' =
            IF t \in TablesOf(batches[b].kind) THEN CommittedOn(t) \cup {b} ELSE CommittedOn(t)
      BY <1>3, <1>4, <2>1 DEF CommittedOn, TablesOf
    <2>5. ASSUME NEW t \in Tables
          PROVE  IF CommittedOn(t)' = {} THEN committed'[t] = 0
                 ELSE committed'[t] \in CommittedOn(t)' /\ \A a \in CommittedOn(t)' : a <= committed'[t]
      <3>1. CASE t \in TablesOf(batches[b].kind)
        <4>1. \A a \in CommittedOn(t) : a <= b
          BY <1>3 DEF CommittedOn
        <4> QED
          BY <1>3, <2>3, <2>4, <3>1, <4>1
      <3>2. CASE t \notin TablesOf(batches[b].kind)
        BY <2>3, <2>4, <3>2 DEF AtomicInv, CommittedWhole, CommittedOn
      <3> QED
        BY <3>1, <3>2
    <2>6. CommittedWhole'
      BY <2>5 DEF CommittedWhole, CommittedOn
    <2> QED
      BY <1>2, <2>6
  <1> QED
    BY <1>5, <1>6

\* A crash rolls back what has not ended.
LEMMA AtomicCrash ==
  ASSUME AtomicInv, Crash
  PROVE  OpenIsPartial' /\ CommittedWhole'
  <1>1. OpenIsPartial'
    BY DEF Crash, OpenIsPartial
  <1>2. /\ committed' = committed
        /\ DOMAIN batches' = DOMAIN batches
        /\ \A b \in DOMAIN batches :
             /\ batches[b].state \in {"open", "ending"} => batches'[b] = [batches[b] EXCEPT !.state = "rolledback"]
             /\ batches[b].state \notin {"open", "ending"} => batches'[b] = batches[b]
    BY DEF Crash
  <1>3. \A b \in DOMAIN batches : batches[b] \in Batch
    BY ElementOfSeq DEF AtomicInv, Inv, StoreTypeOK
  <1>4. \A b \in DOMAIN batches : batches[b].state \in {"open", "ending"} =>
          batches'[b].state = "rolledback"
    BY <1>2, <1>3 DEF Batch
  <1>5. \A t \in Tables : CommittedOn(t)' = CommittedOn(t)
    BY <1>2, <1>4 DEF CommittedOn, TablesOf
  <1> QED
    BY <1>1, <1>2, <1>5, WholeFrame DEF AtomicInv

\* Steps that touch neither the data nor a writer inside a batch.
LEMMA AtomicElse ==
  ASSUME AtomicInv,
         UNCHANGED <<committed, open, batches>>,
         NEW w \in Writers,
         \/ UNCHANGED writers
         \/ CallBegin(w) \/ Lock(w) \/ BeginFails(w) \/ ClearTx(w) \/ Unlock(w)
  PROVE  OpenIsPartial' /\ CommittedWhole'
  <1>1. CommittedWhole'
    BY WholeFrame DEF CommittedOn, TablesOf, AtomicInv
  <1>2. \A v \in Writers : pc'[v] \in {"writing", "committing"} =>
          pc'[v] = pc[v] /\ mine'[v] = mine[v] /\ step'[v] = step[v]
    BY DEF writers, CallBegin, Lock, BeginFails, ClearTx, Unlock, AtomicInv, Inv, StoreTypeOK
  <1>3. \A v \in Writers : pc'[v] \in {"writing", "committing"} => Written(v)' = Written(v)
    BY <1>2 DEF Written, StatementsOf
  <1> QED
    BY <1>1, <1>2, <1>3 DEF OpenIsPartial, AtomicInv

LEMMA AtomicInductive == AtomicInv /\ [StoreNext]_storeVars => AtomicInv'
  <1> SUFFICES ASSUME AtomicInv, [StoreNext]_storeVars PROVE AtomicInv'
    OBVIOUS
  <1>1. Inv'
    BY InvInductive DEF AtomicInv
  <1>2. ASSUME NEW w \in Writers, CallBegin(w) \/ WriterStep(w)
        PROVE  OpenIsPartial' /\ CommittedWhole'
    <2>1. CASE CallBegin(w) \/ Lock(w) \/ BeginFails(w) \/ ClearTx(w) \/ Unlock(w)
      <3>1. UNCHANGED <<committed, open, batches>>
        BY <2>1 DEF CallBegin, Lock, BeginFails, ClearTx, Unlock, store
      <3> QED
        BY <2>1, <3>1, AtomicElse
    <2> QED
      BY <1>2, <2>1, AtomicBegin, AtomicStatement, AtomicEnding, AtomicFinish DEF WriterStep
  <1>3. CASE \/ \E r \in AllReaders : ReaderStep(r) \/ \E h \in Handlers : Request(r, h)
             \/ StartApi
             \/ UNCHANGED storeVars
    <2>1. UNCHANGED <<committed, open, batches>> /\ UNCHANGED writers
      BY <1>3, StepReader DEF AtomicInv, StartApi, storeVars, store
    <2>2. Main \in Writers
      BY StoreBatchAssumption
    <2> QED
      BY <1>1, <2>1, <2>2, AtomicElse DEF AtomicInv
  <1>4. CASE Crash
    BY <1>1, <1>4, AtomicCrash DEF AtomicInv
  <1> QED
    BY <1>1, <1>2, <1>3, <1>4 DEF StoreNext, AtomicInv

\* Whatever commits, fails, is rolled back or dies halfway, each table holds
\* what the last committed batch that writes it wrote.
THEOREM Atomicity == StoreSpec => []CommittedWhole
  <1>1. AtomicInv => CommittedWhole
    BY DEF AtomicInv
  <1> QED
    BY <1>1, AtomicInit, AtomicInductive, PTL DEF StoreSpec

-----------------------------------------------------------------------------
(* What answers show of the batches. *)

KindOf(b) == batches[b].kind
Settled(b) == batches[b].state \in {"committed", "rolledback"}

Rows == [batch : Nat, dirty : BOOLEAN]
RequestTypes ==
  request \in [AllReaders -> [phase : ReaderPhases, handler : Handlers \cup {"none"},
                              handle : Nat, seen : Seq(Rows)]]

\* A request is served by its process, and shows one table per query it made.
RequestPlaces ==
  \A r \in AllReaders :
    /\ request[r].handler = "none" => request[r].phase = "idle" /\ request[r].seen = <<>>
    /\ request[r].handler # "none" =>
         /\ Len(request[r].seen) <= Len(PlanOf(r))
         /\ request[r].phase \in {"exec", "query"} => Len(request[r].seen) < Len(PlanOf(r))
         /\ request[r].phase = "answered" => Len(request[r].seen) = Len(PlanOf(r))
    /\ request[r].handle # NoTx => request[r].handle \in DOMAIN batches
    /\ r \in SideReaders => request[r].handle = NoTx
    /\ r \in Readers /\ request[r].phase \in {"exec", "query", "rows"} => serving

\* A batch that has not ended has a writer; a registration has it before the API.
BatchesOwned ==
  /\ \A b \in DOMAIN batches : ~Settled(b) => \E w \in Writers : InBatch(w) /\ mine[w] = b
  /\ \A w \in Writers : InBatch(w) /\ KindOf(mine[w]) = "register" => w = Main /\ ~serving

\* A batch that a query met writes the table of that query; it is committed,
\* or the query ran in its transaction after the statement on that table.
RowsRight(r, rows, table) ==
  /\ r \in SideReaders => ~rows.dirty
  /\ rows.batch # 0 =>
       /\ rows.batch \in DOMAIN batches
       /\ table \in TablesOf(KindOf(rows.batch))
       /\ ~rows.dirty \/ table = "tokens" => batches[rows.batch].state = "committed"
       /\ \A w \in Writers : pc[w] = "writing" /\ mine[w] = rows.batch => table \in Written(w)

SeenRight ==
  \A r \in AllReaders : \A i \in DOMAIN request[r].seen :
    RowsRight(r, request[r].seen[i], PlanOf(r)[i])

Agrees(rows, first, next, later) ==
  rows.batch # 0 =>
    \/ batches[rows.batch].state = "rolledback"
    \/ later \notin TablesOf(KindOf(rows.batch))
    \/ rows.dirty /\ Place(KindOf(rows.batch), first) < Place(KindOf(rows.batch), later)
    \/ next.batch >= rows.batch

TokensSettled ==
  \A r \in AllReaders :
    LET seen == request[r].seen IN
    request[r].handler = "tokens" /\ Len(seen) = 2 /\ seen[1].batch # 0 => seen[2].batch >= seen[1].batch

RequestInv == AtomicInv /\ RequestTypes /\ RequestPlaces /\ BatchesOwned
AnswerInv == RequestInv /\ SeenRight /\ AnswersAgree /\ TokensSettled

-----------------------------------------------------------------------------
\* Each handler asks between one and five tables.
LEMMA PlanType ==
  ASSUME NEW h \in Handlers
  PROVE  /\ Plan[h] \in Seq(Tables)
         /\ Len(Plan[h]) \in 1 .. 5
  <1>1. h \in {"status", "stats", "address", "holders", "blocks", "recent", "tokens"}
    BY StoreBatchAssumption DEF Plan
  <1>2. CASE h = "status"
    BY <1>2 DEF Plan, Tables
  <1>3. CASE h = "stats"
    BY <1>3 DEF Plan, Tables
  <1>4. CASE h = "address"
    BY <1>4 DEF Plan, Tables
  <1>7. CASE h = "holders"
    BY <1>7 DEF Plan, Tables
  <1>5. CASE h = "blocks"
    BY <1>5 DEF Plan, Tables
  <1>6. CASE h = "recent"
    BY <1>6 DEF Plan, Tables
  <1>8. CASE h = "tokens"
    BY <1>8 DEF Plan, Tables
  <1> QED
    BY <1>1, <1>2, <1>3, <1>4, <1>5, <1>6, <1>7, <1>8

\* No kind of batch writes a table twice.
LEMMA PlaceOfStatement ==
  ASSUME NEW kind \in Kinds, NEW i \in DOMAIN Statements[kind]
  PROVE  Place(kind, Statements[kind][i]) = i
  <1>1. Statements[kind] \in {<<"tokens", "backfills">>, <<"rows", "backfills">>, <<"rows", "height">>, <<"rows">>}
    BY DEF Kinds, Statements
  <1>2. \A j \in DOMAIN Statements[kind] : Statements[kind][j] = Statements[kind][i] => j = i
    <2>1. CASE Statements[kind] = <<"rows">>
      BY <2>1
    <2>2. ASSUME NEW s, NEW t, s # t, Statements[kind] = <<s, t>>
          PROVE  \A j \in DOMAIN Statements[kind] : Statements[kind][j] = Statements[kind][i] => j = i
      BY <2>2
    <2> QED
      BY <1>1, <2>1, <2>2
  <1> QED
    BY <1>2 DEF Place

\* Only a registration writes the tokens, and it writes their records too.
LEMMA OnlyRegistrations ==
  ASSUME NEW kind \in Kinds, "tokens" \in TablesOf(kind)
  PROVE  kind = "register" /\ "backfills" \in TablesOf(kind)
  <1>1. CASE kind = "register"
    <2>1. Statements[kind] = <<"tokens", "backfills">>
      BY <1>1 DEF Statements
    <2> QED
      BY <1>1, <2>1 DEF TablesOf
  <1>2. CASE kind \in {"page", "lastpage"}
    <2>1. Statements[kind] = <<"rows", "backfills">>
      BY <1>2 DEF Statements
    <2> QED
      BY <2>1 DEF TablesOf
  <1>3. CASE kind = "sync"
    <2>1. Statements[kind] = <<"rows", "height">>
      BY <1>3 DEF Statements
    <2> QED
      BY <2>1 DEF TablesOf
  <1>4. CASE kind = "reconcile"
    <2>1. Statements[kind] = <<"rows">>
      BY <1>4 DEF Statements
    <2> QED
      BY <2>1 DEF TablesOf
  <1> QED
    BY <1>1, <1>2, <1>3, <1>4 DEF Kinds

\* Batches are only added; each keeps its kind, and its outcome once it has one.
LEMMA BatchesKeep ==
  ASSUME Inv, [StoreNext]_storeVars
  PROVE  /\ DOMAIN batches \subseteq DOMAIN batches'
         /\ \A b \in DOMAIN batches :
              /\ KindOf(b)' = KindOf(b)
              /\ Settled(b) => batches'[b].state = batches[b].state
              /\ batches'[b].state = "open" => batches[b].state = "open"
  <1>0. batches \in Seq(Batch) /\ DOMAIN batches = 1 .. Len(batches)
    BY DEF Inv, StoreTypeOK
  <1>1. CASE UNCHANGED batches
    BY <1>1 DEF KindOf
  <1>2. ASSUME NEW w \in Writers, NEW kind \in Kinds, Begin(w, kind)
        PROVE  /\ DOMAIN batches \subseteq DOMAIN batches'
               /\ \A b \in DOMAIN batches : batches'[b] = batches[b]
    BY <1>0, <1>2 DEF Begin
  <1>3. ASSUME NEW b \in DOMAIN batches, ~Settled(b),
               NEW state \in {"ending", "committed", "rolledback"},
               batches' = [batches EXCEPT ![b].state = state]
        PROVE  /\ DOMAIN batches' = DOMAIN batches
               /\ batches'[b].state = state
               /\ \A a \in DOMAIN batches :
                    batches'[a].kind = batches[a].kind /\ (a # b => batches'[a] = batches[a])
    BY <1>0, <1>3, EndingType DEF BatchStates
  <1>4. ASSUME NEW w \in Writers, StatementFails(w) \/ StartCommit(w) \/ FinishCommit(w) \/ FinishRollback(w)
        PROVE  \E b \in DOMAIN batches, state \in {"ending", "committed", "rolledback"} :
                 ~Settled(b) /\ batches' = [batches EXCEPT ![b].state = state]
    <2>1. pc[w] \in HasTx /\ pc[w] \in {"writing", "committing", "rollingback"}
      BY <1>4 DEF StatementFails, StartCommit, FinishCommit, FinishRollback, HasTx
    <2>4. tx = mine[w] /\ tx \in 1 .. Len(batches)
      BY <2>1 DEF Inv, StoreTypeOK, Ownership, NoTx
    <2>2. tx = mine[w] /\ tx \in DOMAIN batches
      BY <1>0, <2>4
    <2>3. ~Settled(tx)
      BY <2>1 DEF Inv, Ownership, Settled
    <2> QED
      BY <1>4, <2>2, <2>3 DEF StatementFails, StartCommit, FinishCommit, FinishRollback, Ending
  <1>5. CASE Crash
    <2>1. \A b \in DOMAIN batches : batches[b] \in Batch
      BY <1>0, ElementOfSeq
    <2>2. /\ DOMAIN batches' = DOMAIN batches
          /\ \A b \in DOMAIN batches :
               IF batches[b].state \in {"open", "ending"}
               THEN batches'[b] = [batches[b] EXCEPT !.state = "rolledback"]
               ELSE batches'[b] = batches[b]
      BY <1>5 DEF Crash
    <2>3. \A b \in DOMAIN batches :
            /\ [batches[b] EXCEPT !.state = "rolledback"].kind = batches[b].kind
            /\ [batches[b] EXCEPT !.state = "rolledback"].state = "rolledback"
      BY <2>1 DEF Batch
    <2> QED
      BY <2>2, <2>3 DEF KindOf, Settled
  <1>6. ASSUME NEW b \in DOMAIN batches, ~Settled(b), NEW state \in {"ending", "committed", "rolledback"},
               batches' = [batches EXCEPT ![b].state = state]
        PROVE  /\ DOMAIN batches \subseteq DOMAIN batches'
               /\ \A a \in DOMAIN batches :
                    /\ KindOf(a)' = KindOf(a)
                    /\ Settled(a) => batches'[a].state = batches[a].state
                    /\ batches'[a].state = "open" => batches[a].state = "open"
    BY <1>3, <1>6 DEF KindOf
  <1>7. \/ UNCHANGED batches
        \/ Crash
        \/ \E w \in Writers : \/ \E kind \in Kinds : Begin(w, kind)
                              \/ StatementFails(w) \/ StartCommit(w) \/ FinishCommit(w) \/ FinishRollback(w)
    <2>1. ASSUME NEW w \in Writers, CallBegin(w) \/ Lock(w) \/ BeginFails(w) \/ Statement(w) \/ ClearTx(w) \/ Unlock(w)
          PROVE  UNCHANGED batches
      BY <2>1 DEF CallBegin, Lock, BeginFails, Statement, ClearTx, Unlock, store
    <2> QED
      BY <2>1, StepReader DEF StoreNext, WriterStep, StartApi, storeVars, store
  <1> QED
    BY <1>1, <1>2, <1>4, <1>5, <1>6, <1>7 DEF KindOf

\* A writer that writes goes on with its batch, and does not unwrite.
LEMMA WritingKeeps ==
  ASSUME Inv, [StoreNext]_storeVars, NEW w \in Writers, pc'[w] = "writing", mine'[w] \in DOMAIN batches
  PROVE  /\ pc[w] = "writing"
         /\ mine'[w] = mine[w]
         /\ Written(w) \subseteq Written(w)'
  <1>1. pc[w] = "writing" /\ mine'[w] = mine[w] /\ step'[w] >= step[w]
    <2>0. batches \in Seq(Batch) /\ DOMAIN batches = 1 .. Len(batches)
          /\ step \in [Writers -> 1 .. 3] /\ mine \in [Writers -> 0 .. Len(batches)] /\ pc \in [Writers -> WriterPhases]
      BY DEF Inv, StoreTypeOK
    <2>1. ASSUME NEW v \in Writers, CallBegin(v) \/ WriterStep(v)
          PROVE  pc[w] = "writing" /\ mine'[w] = mine[w] /\ step'[w] >= step[w]
      <3>1. CASE CallBegin(v) \/ Lock(v) \/ BeginFails(v)
        BY <2>0, <3>1 DEF CallBegin, Lock, BeginFails
      <3>2. CASE \E kind \in Kinds : Begin(v, kind)
        <4>1. /\ mine' = [mine EXCEPT ![v] = Len(batches) + 1]
              /\ pc' = [pc EXCEPT ![v] = "writing"]
              /\ step' = [step EXCEPT ![v] = 1]
          BY <3>2 DEF Begin
        <4>2. w # v
          BY <2>0, <4>1
        <4> QED
          BY <2>0, <4>1, <4>2
      <3>3. CASE Statement(v)
        BY <2>0, <3>3 DEF Statement
      <3>4. CASE StatementFails(v) \/ StartCommit(v) \/ FinishCommit(v) \/ FinishRollback(v) \/ ClearTx(v)
        BY <2>0, <3>4 DEF StatementFails, StartCommit, FinishCommit, FinishRollback, ClearTx
      <3>5. CASE Unlock(v)
        BY <2>0, <3>5 DEF Unlock
      <3> QED
        BY <2>1, <3>1, <3>2, <3>3, <3>4, <3>5 DEF WriterStep
    <2>2. CASE Crash
      BY <2>2 DEF Crash
    <2>3. CASE UNCHANGED writers
      BY <2>0, <2>3 DEF writers
    <2> QED
      BY <2>1, <2>2, <2>3, StepReader DEF StoreNext, StartApi, storeVars
  <1>2. StatementsOf(mine[w])' = StatementsOf(mine[w])
    BY <1>1, BatchesKeep DEF StatementsOf, KindOf
  <1>3. step[w] \in 1 .. 3 /\ step'[w] \in 1 .. 3
    BY InvInductive DEF Inv, StoreTypeOK
  <1>4. DOMAIN StatementsOf(mine[w]) \subseteq Int
    BY <1>1, NextStatement, StatementsType DEF HasTx, StatementsOf
  <1> QED
    BY <1>1, <1>2, <1>3, <1>4 DEF Written

\* What a request may become: answered or failed, or one query further.
LEMMA RequestSteps ==
  ASSUME Inv, RequestTypes, [StoreNext]_storeVars
  PROVE  \/ UNCHANGED <<request, serving>>
         \/ request' = request /\ ~serving /\ serving' /\ pc[Main] = "idle" /\ UNCHANGED <<store, writers>>
         \/ Crash
         \/ /\ UNCHANGED <<mu, tx, committed, open, batches, writers, serving, errors>>
            /\ \E r \in AllReaders : ReaderStep(r) \/ \E h \in Handlers : Request(r, h)
  <1>1. ASSUME NEW w \in Writers, CallBegin(w) \/ WriterStep(w)
        PROVE  UNCHANGED <<request, serving>>
    <2>1. CASE CallBegin(w) \/ Lock(w) \/ BeginFails(w) \/ \E kind \in Kinds : Begin(w, kind)
      BY <2>1 DEF CallBegin, Lock, BeginFails, Begin
    <2>2. CASE Statement(w) \/ StatementFails(w) \/ StartCommit(w) \/ FinishCommit(w) \/ FinishRollback(w)
      BY <2>2 DEF Statement, StatementFails, StartCommit, FinishCommit, FinishRollback
    <2>3. CASE ClearTx(w) \/ Unlock(w)
      BY <2>3 DEF ClearTx, Unlock
    <2> QED
      BY <1>1, <2>1, <2>2, <2>3 DEF WriterStep
  <1>2. ASSUME NEW r \in AllReaders, ReaderStep(r) \/ \E h \in Handlers : Request(r, h)
        PROVE  UNCHANGED <<mu, tx, committed, open, batches, writers, serving, errors>>
    BY <1>2 DEF ReaderStep, Request, Exec, Query, QueryFails, CloseRows, store
  <1>3. StartApi => request' = request /\ ~serving /\ serving' /\ pc[Main] = "idle" /\ UNCHANGED <<store, writers>>
    BY DEF StartApi
  <1> QED
    BY <1>1, <1>2, <1>3 DEF StoreNext, storeVars

\* What a query shows: the database, with the connection of the process for
\* one of this process, or the transaction that was handed to it and is open.
LEMMA QueryShows ==
  ASSUME RequestInv, NEW r \in AllReaders, Query(r)
  PROVE  \E version \in Nat, dirty \in BOOLEAN :
           /\ request' = [request EXCEPT ![r].phase = "rows", ![r].seen = Append(@, Shown(version, dirty))]
           /\ dirty =>
                /\ r \in Readers
                /\ version = open[NextTable(r)]
                /\ \E w \in Writers : pc[w] = "writing"
           /\ ~dirty =>
                /\ version = committed[NextTable(r)]
                /\ r \in Readers => \A w \in Writers : ~InBatch(w)
  <1>1. /\ request[r].phase = "query"
        /\ request[r].handler # "none" => NextTable(r) \in Tables
        /\ request[r].handler # "none"
    <2>1. request[r].phase = "query"
      BY DEF Query
    <2>2. request[r].handler \in Handlers /\ request[r].seen \in Seq(Rows)
      BY <2>1 DEF RequestInv, RequestTypes, RequestPlaces
    <2>3. Len(request[r].seen) < Len(PlanOf(r))
      BY <2>1 DEF RequestInv, RequestPlaces
    <2>4. Len(request[r].seen) + 1 \in 1 .. Len(PlanOf(r)) /\ PlanOf(r) \in Seq(Tables)
      BY <2>2, <2>3, PlanType DEF PlanOf
    <2> QED
      BY <2>1, <2>4, ElementOfSeq DEF NextTable, RequestInv, RequestPlaces
  <1>2. committed[NextTable(r)] \in Nat /\ open[NextTable(r)] \in Nat
    BY <1>1 DEF RequestInv, AtomicInv, Inv, StoreTypeOK
  <1>3. CASE request[r].handle # NoTx
    <2>1. request[r].handle \in DOMAIN batches /\ r \in Readers /\ r \notin SideReaders
      BY <1>3 DEF RequestInv, RequestPlaces, AllReaders
    <2>2. /\ batches[request[r].handle].state = "open"
          /\ request' = [request EXCEPT ![r].phase = "rows",
                           ![r].seen = Append(@, Shown(open[NextTable(r)], TRUE))]
      BY <1>3, <2>1 DEF Query
    <2>3. PICK w \in Writers : InBatch(w) /\ mine[w] = request[r].handle
      BY <2>1, <2>2 DEF RequestInv, BatchesOwned, Settled
    <2>4. pc[w] = "writing"
      BY <2>2, <2>3 DEF InBatch, RequestInv, AtomicInv, Inv, Ownership, HasTx
    <2> QED
      BY <1>2, <2>1, <2>2, <2>4
  <1>4. CASE request[r].handle = NoTx
    <2>1. /\ request' = [request EXCEPT ![r].phase = "rows",
                           ![r].seen = Append(@, Shown(committed[NextTable(r)], FALSE))]
          /\ r \in SideReaders \/ conn = None
      BY <1>4 DEF Query
    <2>2. r \in Readers => \A w \in Writers : ~InBatch(w)
      BY <2>1, StoreBatchAssumption DEF RequestInv, AtomicInv, Inv, Ownership, InBatch
    <2> QED
      BY <1>2, <2>1, <2>2
  <1> QED
    BY <1>3, <1>4

\* Requests keep their types.
LEMMA TypedRequest ==
  ASSUME RequestInv, [StoreNext]_storeVars
  PROVE  RequestTypes'
  <1> USE DEF ReaderPhases
  <1>1. CASE request' = request
    BY <1>1 DEF RequestInv, RequestTypes
  <1>2. ASSUME NEW r \in AllReaders, NEW h \in Handlers, Request(r, h)
        PROVE  RequestTypes'
    <2>1. <<>> \in Seq(Rows)
      OBVIOUS
    <2> QED
      BY <1>2, <2>1 DEF RequestInv, RequestTypes, Request, NoTx
  <1>3. ASSUME NEW r \in AllReaders, Exec(r)
        PROVE  RequestTypes'
    <2>1. tx \in Nat
      BY DEF RequestInv, AtomicInv, Inv, StoreTypeOK
    <2> QED
      BY <1>3, <2>1 DEF RequestInv, RequestTypes, Exec, NoTx
  <1>4. ASSUME NEW r \in AllReaders, Query(r)
        PROVE  RequestTypes'
    <2>1. PICK version \in Nat, dirty \in BOOLEAN :
            request' = [request EXCEPT ![r].phase = "rows", ![r].seen = Append(@, Shown(version, dirty))]
      BY <1>4, QueryShows
    <2>2. request[r].seen \in Seq(Rows) /\ Shown(version, dirty) \in Rows
      BY DEF RequestInv, RequestTypes, Shown, Rows
    <2>3. Append(request[r].seen, Shown(version, dirty)) \in Seq(Rows)
      BY <2>2
    <2> QED
      BY <2>1, <2>3 DEF RequestInv, RequestTypes
  <1>5. ASSUME NEW r \in AllReaders, QueryFails(r) \/ CloseRows(r)
        PROVE  RequestTypes'
    BY <1>5 DEF RequestInv, RequestTypes, QueryFails, CloseRows
  <1>6. CASE Crash
    <2>1. NoRequest \in [phase : ReaderPhases, handler : Handlers \cup {"none"}, handle : Nat, seen : Seq(Rows)]
      <3>1. <<>> \in Seq(Rows)
        OBVIOUS
      <3> QED
        BY <3>1 DEF NoRequest, NoTx
    <2> QED
      BY <1>6, <2>1 DEF RequestInv, RequestTypes, Crash
  <1> QED
    BY <1>1, <1>2, <1>3, <1>4, <1>5, <1>6, RequestSteps DEF RequestInv, AtomicInv, ReaderStep

\* Requests keep to their plan and their process.
LEMMA PlacedRequest ==
  ASSUME RequestInv, [StoreNext]_storeVars
  PROVE  RequestPlaces'
  <1>0. DOMAIN batches \subseteq DOMAIN batches'
    BY BatchesKeep DEF RequestInv, AtomicInv
  <1>1. CASE UNCHANGED <<request, serving>>
    BY <1>0, <1>1 DEF RequestInv, RequestPlaces, PlanOf
  <1>2. CASE request' = request /\ serving'
    BY <1>0, <1>2 DEF RequestInv, RequestPlaces, PlanOf
  <1>3. ASSUME NEW r \in AllReaders, UNCHANGED serving, NEW new, request' = [request EXCEPT ![r] = new],
               new.handler \in Handlers /\ new.handler # "none",
               Len(new.seen) <= Len(Plan[new.handler]),
               new.phase \in {"exec", "query"} => Len(new.seen) < Len(Plan[new.handler]),
               new.phase = "answered" => Len(new.seen) = Len(Plan[new.handler]),
               new.handle # NoTx => new.handle \in DOMAIN batches,
               r \in SideReaders => new.handle = NoTx,
               r \in Readers /\ new.phase \in {"exec", "query", "rows"} => serving
        PROVE  RequestPlaces'
    <2>1. /\ request'[r] = new
          /\ \A q \in AllReaders : q # r => request'[q] = request[q]
      BY <1>3 DEF RequestInv, RequestTypes
    <2> QED
      BY <1>0, <1>3, <2>1 DEF RequestInv, RequestPlaces, PlanOf
  <1>4. ASSUME NEW h \in Handlers PROVE h # "none" /\ Len(Plan[h]) \in 1 .. 5
    BY PlanType, StoreBatchAssumption DEF Plan
  <1>5. ASSUME NEW r \in AllReaders, NEW h \in Handlers, Request(r, h), UNCHANGED serving
        PROVE  RequestPlaces'
    <2> DEFINE new == [phase |-> "exec", handler |-> h, handle |-> NoTx, seen |-> <<>>]
    <2>1. request' = [request EXCEPT ![r] = new] /\ (r \in Readers => serving)
      BY <1>5 DEF Request
    <2>2. new.phase = "exec" /\ new.handler = h /\ new.handle = NoTx /\ new.seen = <<>>
      OBVIOUS
    <2> HIDE DEF new
    <2>3. h # "none" /\ Len(new.seen) <= Len(Plan[h]) /\ Len(new.seen) < Len(Plan[h])
      <3>1. PICK n \in 1 .. 5 : n = Len(Plan[h])
        BY <1>4
      <3>2. Len(new.seen) = 0 /\ 0 <= n /\ 0 < n
        BY <2>2
      <3> QED
        BY <1>4, <3>1, <3>2
    <2> QED
      BY <1>3, <1>5, <2>1, <2>2, <2>3
  <1>6. ASSUME NEW r \in AllReaders, request[r].phase # "idle"
        PROVE  /\ request[r].handler \in Handlers
               /\ request[r].handler # "none"
               /\ Len(request[r].seen) \in Nat
               /\ Len(request[r].seen) <= Len(Plan[request[r].handler])
               /\ Len(Plan[request[r].handler]) \in Nat
               /\ request[r].handle # NoTx => request[r].handle \in DOMAIN batches
               /\ r \in SideReaders => request[r].handle = NoTx
    <2>1. request[r].handler # "none" /\ request[r].handler \in Handlers /\ request[r].seen \in Seq(Rows)
      BY <1>6 DEF RequestInv, RequestPlaces, RequestTypes
    <2> QED
      BY <1>4, <2>1 DEF RequestInv, RequestPlaces, PlanOf
  <1>7. ASSUME NEW r \in AllReaders, Exec(r), UNCHANGED serving
        PROVE  RequestPlaces'
    <2> DEFINE new == [request[r] EXCEPT !.phase = "query", !.handle = IF r \in SideReaders THEN NoTx ELSE tx]
    <2>1. request' = [request EXCEPT ![r] = new] /\ request[r].phase = "exec"
      BY <1>7 DEF Exec, RequestInv, RequestTypes
    <2>2. /\ new.phase = "query" /\ new.handler = request[r].handler /\ new.seen = request[r].seen
          /\ new.handle = IF r \in SideReaders THEN NoTx ELSE tx
      BY DEF RequestInv, RequestTypes
    <2>3. tx # NoTx => tx \in DOMAIN batches
      BY DEF RequestInv, AtomicInv, Inv, StoreTypeOK, NoTx
    <2>4. Len(request[r].seen) < Len(Plan[request[r].handler]) /\ (r \in Readers => serving)
      BY <1>6, <2>1 DEF RequestInv, RequestPlaces, PlanOf
    <2> HIDE DEF new
    <2> QED
      BY <1>3, <1>6, <1>7, <2>1, <2>2, <2>3, <2>4
  <1>8. ASSUME NEW r \in AllReaders, Query(r), UNCHANGED serving
        PROVE  RequestPlaces'
    <2>1. PICK version \in Nat, dirty \in BOOLEAN :
            request' = [request EXCEPT ![r].phase = "rows", ![r].seen = Append(@, Shown(version, dirty))]
      BY <1>8, QueryShows
    <2> DEFINE new == [request[r] EXCEPT !.phase = "rows", !.seen = Append(@, Shown(version, dirty))]
    <2>2. request' = [request EXCEPT ![r] = new]
      BY <2>1 DEF RequestInv, RequestTypes
    <2>3. /\ new.phase = "rows" /\ new.handler = request[r].handler /\ new.handle = request[r].handle
          /\ new.seen = Append(request[r].seen, Shown(version, dirty))
      BY DEF RequestInv, RequestTypes
    <2>4. request[r].phase = "query"
      BY <1>8 DEF Query
    <2>5. Len(new.seen) = Len(request[r].seen) + 1
      BY <2>3 DEF RequestInv, RequestTypes
    <2>6. Len(request[r].seen) < Len(Plan[request[r].handler]) /\ (r \in Readers => serving)
      BY <1>6, <2>4 DEF RequestInv, RequestPlaces, PlanOf
    <2>7. request[r].phase # "idle"
      BY <2>4
    <2> HIDE DEF new
    <2>8. Len(new.seen) <= Len(Plan[new.handler]) /\ new.handler \in Handlers /\ new.handler # "none"
      BY <1>6, <2>3, <2>5, <2>6, <2>7
    <2>9. /\ new.handle # NoTx => new.handle \in DOMAIN batches
          /\ r \in SideReaders => new.handle = NoTx
      BY <1>6, <2>3, <2>7
    <2> QED
      BY <1>3, <1>8, <2>2, <2>3, <2>6, <2>8, <2>9
  <1>9. ASSUME NEW r \in AllReaders, QueryFails(r) \/ CloseRows(r), UNCHANGED serving
        PROVE  RequestPlaces'
    <2>1. PICK phase \in {"failed", "answered", "exec"} :
            /\ request' = [request EXCEPT ![r].phase = phase]
            /\ phase = "answered" => Len(request[r].seen) = Len(PlanOf(r))
            /\ phase = "exec" => Len(request[r].seen) # Len(PlanOf(r)) /\ request[r].phase = "rows"
            /\ request[r].phase \in {"query", "rows"}
      BY <1>9 DEF QueryFails, CloseRows
    <2> DEFINE new == [request[r] EXCEPT !.phase = phase]
    <2>2. request' = [request EXCEPT ![r] = new]
      BY <2>1 DEF RequestInv, RequestTypes
    <2>3. new.phase = phase /\ new.handler = request[r].handler /\ new.handle = request[r].handle /\ new.seen = request[r].seen
      BY DEF RequestInv, RequestTypes
    <2>4. r \in Readers => serving
      BY <2>1 DEF RequestInv, RequestPlaces
    <2>5. request[r].phase # "idle"
      BY <2>1
    <2> HIDE DEF new
    <2>6. Len(new.seen) <= Len(Plan[new.handler]) /\ new.handler \in Handlers /\ new.handler # "none"
      BY <1>6, <2>3, <2>5
    <2>7. /\ new.handle # NoTx => new.handle \in DOMAIN batches
          /\ r \in SideReaders => new.handle = NoTx
      BY <1>6, <2>3, <2>5
    <2>8. /\ new.phase \in {"exec", "query"} => Len(new.seen) < Len(Plan[new.handler])
          /\ new.phase = "answered" => Len(new.seen) = Len(Plan[new.handler])
      BY <1>6, <2>1, <2>3, <2>5 DEF PlanOf
    <2> QED
      BY <1>3, <1>9, <2>2, <2>4, <2>6, <2>7, <2>8
  <1>10. CASE Crash
    <2>1. \A r \in AllReaders :
            IF r \in Readers /\ request[r].phase # "answered" THEN request'[r] = NoRequest ELSE request'[r] = request[r]
      BY <1>10 DEF Crash
    <2> QED
      BY <1>0, <2>1, StoreBatchAssumption DEF RequestInv, RequestPlaces, PlanOf, NoRequest
  <1> QED
    BY <1>1, <1>2, <1>5, <1>7, <1>8, <1>9, <1>10, RequestSteps DEF RequestInv, AtomicInv, ReaderStep

\* A batch keeps its writer until it has ended.
LEMMA OwnedBatches ==
  ASSUME RequestInv, [StoreNext]_storeVars
  PROVE  BatchesOwned'
  <1>0. /\ Inv
        /\ batches \in Seq(Batch) /\ DOMAIN batches = 1 .. Len(batches)
        /\ mine \in [Writers -> 0 .. Len(batches)] /\ pc \in [Writers -> WriterPhases]
        /\ BatchesOwned
    BY DEF RequestInv, AtomicInv, Inv, StoreTypeOK
  <1>1. ASSUME UNCHANGED batches, serving' => serving,
               \A w \in Writers : (InBatch(w)' <=> InBatch(w)) /\ (InBatch(w) => mine'[w] = mine[w])
        PROVE  BatchesOwned'
    BY <1>0, <1>1 DEF BatchesOwned, KindOf, Settled
  <1>2. ASSUME NEW w \in Writers, CallBegin(w) \/ Lock(w) \/ BeginFails(w) \/ Statement(w) \/ ClearTx(w) \/ Unlock(w)
        PROVE  BatchesOwned'
    <2>1. UNCHANGED <<batches, serving>>
      BY <1>2 DEF CallBegin, Lock, BeginFails, Statement, ClearTx, Unlock, store
    <2>2. \A v \in Writers : (InBatch(v)' <=> InBatch(v)) /\ (InBatch(v) => mine'[v] = mine[v])
      BY <1>0, <1>2 DEF InBatch, CallBegin, Lock, BeginFails, Statement, ClearTx, Unlock
    <2> QED
      BY <1>1, <2>1, <2>2
  <1>3. ASSUME NEW w \in Writers, NEW kind \in Kinds, Begin(w, kind)
        PROVE  BatchesOwned'
    <2>0. PICK n \in Nat : n = Len(batches) + 1
      BY <1>0
    <2> DEFINE new == [kind |-> kind, state |-> "open"]
    <2>1. /\ pc' = [pc EXCEPT ![w] = "writing"] /\ mine' = [mine EXCEPT ![w] = n]
          /\ batches' = Append(batches, new) /\ serving' = serving
          /\ MayBegin(w, kind)
          /\ \A v \in Writers : ~InBatch(v)
      BY <1>0, <1>3, <2>0 DEF Begin, Inv, Ownership, InBatch, HasTx
    <2>2. /\ DOMAIN batches' = DOMAIN batches \cup {n}
          /\ batches'[n] = new
          /\ \A b \in DOMAIN batches : batches'[b] = batches[b]
      BY <1>0, <2>0, <2>1
    <2>3. InBatch(w)' /\ mine'[w] = n /\ \A v \in Writers : InBatch(v)' => v = w
      BY <1>0, <2>1 DEF InBatch
    <2>4. \A b \in DOMAIN batches : Settled(b)
      BY <1>0, <2>1 DEF BatchesOwned
    <2>5. \A b \in DOMAIN batches' : ~Settled(b)' => b = n
      BY <2>2, <2>4 DEF Settled
    <2>6. KindOf(n)' = kind
      BY <2>2 DEF KindOf
    <2>7. kind = "register" => w = Main /\ ~serving'
      BY <2>1 DEF MayBegin
    <2> QED
      BY <2>3, <2>5, <2>6, <2>7 DEF BatchesOwned
  <1>4. ASSUME NEW w \in Writers, StatementFails(w) \/ StartCommit(w) \/ FinishCommit(w) \/ FinishRollback(w)
        PROVE  BatchesOwned'
    <2>1. InBatch(w) /\ mine' = mine /\ serving' = serving
      BY <1>4 DEF StatementFails, StartCommit, FinishCommit, FinishRollback, InBatch
    <2>2. \A v \in Writers : InBatch(v) => v = w
      BY <1>0, <2>1, StoreBatchAssumption DEF Inv, Ownership, InBatch, Held
    <2>3. \A v \in Writers : InBatch(v)' => v = w
      BY <1>0, <1>4, <2>2 DEF StatementFails, StartCommit, FinishCommit, FinishRollback, InBatch
    <2>4. mine[w] \in DOMAIN batches /\ mine[w] = tx
      <3>1. pc[w] \in HasTx
        BY <2>1 DEF InBatch, HasTx
      <3>2. mine[w] = tx
        BY <1>0, <3>1 DEF Inv, Ownership
      <3> QED
        BY <1>0, <3>1, <3>2, NextStatement
    <2>5. KindOf(mine[w])' = KindOf(mine[w]) /\ DOMAIN batches \subseteq DOMAIN batches'
      BY <1>0, <2>1, <2>4, BatchesKeep DEF KindOf
    <2>6. \A b \in DOMAIN batches : ~Settled(b) => b = mine[w]
      BY <1>0, <2>2 DEF BatchesOwned
    <2>7. CASE StatementFails(w) \/ StartCommit(w)
      <3>1. InBatch(w)' /\ DOMAIN batches' = DOMAIN batches
        BY <1>0, <2>7 DEF StatementFails, StartCommit, InBatch, Ending
      <3>2. \A b \in DOMAIN batches : ~Settled(b)' => b = mine[w]
        BY <1>0, <2>6, BatchesKeep DEF Settled
      <3> QED
        BY <1>0, <2>1, <2>3, <2>5, <3>1, <3>2 DEF BatchesOwned
    <2>8. CASE FinishCommit(w) \/ FinishRollback(w)
      <3>1. \A v \in Writers : ~InBatch(v)'
        BY <1>0, <2>3, <2>8 DEF FinishCommit, FinishRollback, InBatch
      <3>2. PICK state \in {"committed", "rolledback"} : batches' = [batches EXCEPT ![mine[w]].state = state]
        BY <2>8 DEF FinishCommit, FinishRollback
      <3>3. DOMAIN batches' = DOMAIN batches /\ batches'[mine[w]].state = state
        BY <1>0, <2>4, <3>2, EndingType DEF BatchStates
      <3>4. \A b \in DOMAIN batches' : Settled(b)'
        BY <1>0, <2>6, <3>3, BatchesKeep DEF Settled
      <3> QED
        BY <3>1, <3>4 DEF BatchesOwned
    <2> QED
      BY <1>4, <2>7, <2>8
  <1>5. CASE Crash
    <2>1. \A w \in Writers : ~InBatch(w)'
      BY <1>5 DEF Crash, InBatch
    <2>2. \A b \in DOMAIN batches : batches[b] \in Batch
      BY <1>0, ElementOfSeq
    <2>3. \A b \in DOMAIN batches' :
            IF batches[b].state \in {"open", "ending"}
            THEN batches'[b] = [batches[b] EXCEPT !.state = "rolledback"]
            ELSE batches'[b] = batches[b]
      BY <1>5 DEF Crash
    <2>4. DOMAIN batches' = DOMAIN batches
      BY <1>5 DEF Crash
    <2>5. \A b \in DOMAIN batches' : Settled(b)'
      BY <2>2, <2>3, <2>4 DEF Batch, BatchStates, Settled
    <2> QED
      BY <2>1, <2>5 DEF BatchesOwned
  <1>6. ASSUME ~serving, pc[Main] = "idle", UNCHANGED <<store, writers>>
        PROVE  BatchesOwned'
    <2>1. \A w \in Writers : InBatch(w) => KindOf(mine[w]) # "register"
      BY <1>0, <1>6 DEF BatchesOwned, InBatch
    <2> QED
      BY <1>0, <1>6, <2>1 DEF BatchesOwned, InBatch, KindOf, Settled, store, writers
  <1>7. CASE UNCHANGED <<batches, writers, serving>>
    BY <1>0, <1>7 DEF BatchesOwned, InBatch, KindOf, Settled, writers
  <1>8. StartApi => ~serving /\ pc[Main] = "idle" /\ UNCHANGED <<store, writers>>
    BY DEF StartApi
  <1>9. ASSUME NEW r \in AllReaders, ReaderStep(r) \/ \E h \in Handlers : Request(r, h)
        PROVE  UNCHANGED <<batches, writers, serving>>
    BY <1>9 DEF ReaderStep, Request, Exec, Query, QueryFails, CloseRows, store
  <1> QED
    BY <1>2, <1>3, <1>4, <1>5, <1>6, <1>7, <1>8, <1>9 DEF StoreNext, WriterStep, storeVars, store

\* A table shows at least each committed batch that writes it, and no batch
\* that does not write it; the same in the transaction that is open.
LEMMA Versions ==
  ASSUME RequestInv, NEW t \in Tables
  PROVE  /\ committed[t] # 0 =>
              /\ committed[t] \in DOMAIN batches
              /\ t \in TablesOf(KindOf(committed[t]))
              /\ batches[committed[t]].state = "committed"
         /\ \A b \in DOMAIN batches :
              batches[b].state = "committed" /\ t \in TablesOf(KindOf(b)) => committed[t] >= b
         /\ \A w \in Writers : pc[w] = "writing" =>
              /\ open[t] = IF t \in Written(w) THEN mine[w] ELSE committed[t]
              /\ mine[w] = Len(batches)
              /\ t \in Written(w) => t \in TablesOf(KindOf(mine[w]))
              /\ mine[w] \in DOMAIN batches /\ batches[mine[w]].state = "open"
  <1>0. AtomicInv /\ Inv /\ batches \in Seq(Batch) /\ DOMAIN batches = 1 .. Len(batches)
        /\ committed[t] \in Nat
    BY DEF RequestInv, AtomicInv, Inv, StoreTypeOK
  <1>1. committed[t] # 0 => committed[t] \in CommittedOn(t)
    BY <1>0 DEF AtomicInv, CommittedWhole, CommittedOn
  <1>2. \A b \in CommittedOn(t) : b <= committed[t]
    BY <1>0 DEF AtomicInv, CommittedWhole, CommittedOn
  <1>3. ASSUME NEW w \in Writers, pc[w] = "writing"
        PROVE  /\ open[t] = IF t \in Written(w) THEN mine[w] ELSE committed[t]
               /\ mine[w] = Len(batches)
               /\ t \in Written(w) => t \in TablesOf(KindOf(mine[w]))
               /\ mine[w] \in DOMAIN batches /\ batches[mine[w]].state = "open"
    <2>1. pc[w] \in HasTx
      BY <1>3 DEF HasTx
    <2>2. mine[w] = tx /\ tx = Len(batches) /\ batches[tx].state = "open"
      BY <1>0, <1>3, <2>1 DEF Inv, Ownership
    <2>3. mine[w] \in DOMAIN batches
      BY <1>0, <2>1, NextStatement
    <2>4. t \in Written(w) => t \in TablesOf(KindOf(mine[w]))
      BY DEF Written, TablesOf, StatementsOf, KindOf
    <2> QED
      BY <1>0, <1>3, <2>2, <2>3, <2>4 DEF AtomicInv, OpenIsPartial
  <1> QED
    BY <1>0, <1>1, <1>2, <1>3 DEF CommittedOn, KindOf

\* What one query shows, in the terms of SeenRight.
LEMMA FreshRows ==
  ASSUME RequestInv, NEW r \in AllReaders, request[r].phase = "query",
         NEW t \in Tables, NEW version \in Nat, NEW dirty \in BOOLEAN,
         dirty => r \in Readers /\ version = open[t] /\ \E w \in Writers : pc[w] = "writing",
         ~dirty => version = committed[t]
  PROVE  /\ r \in SideReaders => ~dirty
         /\ version # 0 =>
              /\ version \in DOMAIN batches
              /\ t \in TablesOf(KindOf(version))
              /\ ~dirty \/ t = "tokens" => batches[version].state = "committed"
              /\ \A w \in Writers : pc[w] = "writing" /\ mine[w] = version => t \in Written(w)
         /\ \A b \in DOMAIN batches :
              batches[b].state = "committed" /\ t \in TablesOf(KindOf(b)) => version >= b
  <1>1. r \in SideReaders => ~dirty
    BY StoreBatchAssumption
  <1>2. CASE version = committed[t]
    <2>1. version # 0 => \A w \in Writers : pc[w] = "writing" => mine[w] # version
      BY <1>2, Versions
    <2> QED
      BY <1>1, <1>2, <2>1, Versions
  <1>3. CASE dirty /\ version # committed[t]
    <2>1. PICK w \in Writers : pc[w] = "writing"
      BY <1>3
    <2>2. version = mine[w] /\ t \in Written(w)
      BY <1>3, <2>1, Versions
    <2>3. /\ version \in DOMAIN batches
          /\ t \in TablesOf(KindOf(version))
          /\ version = Len(batches)
      BY <2>1, <2>2, Versions
    <2>4. \A v \in Writers : pc[v] = "writing" => v = w
      BY <2>1, StoreBatchAssumption DEF RequestInv, AtomicInv, Inv, Ownership, Held
    <2>5. t # "tokens"
      <3>1. r \in Readers /\ serving
        BY <1>3 DEF RequestInv, RequestPlaces
      <3>2. KindOf(version) \in Kinds
        BY <2>1, <2>2, NextStatement DEF KindOf, HasTx, RequestInv, AtomicInv
      <3>3. KindOf(version) # "register"
        BY <2>1, <2>2, <3>1 DEF RequestInv, BatchesOwned, InBatch
      <3> QED
        BY <2>3, <3>2, <3>3, OnlyRegistrations
    <2>6. DOMAIN batches = 1 .. Len(batches)
      BY DEF RequestInv, AtomicInv, Inv, StoreTypeOK
    <2> QED
      BY <1>1, <1>3, <2>2, <2>3, <2>4, <2>5, <2>6
  <1> QED
    BY <1>2, <1>3

-----------------------------------------------------------------------------
\* How the answers change in a step: some lose or get rows, or start anew.
LEMMA AnswerSteps ==
  ASSUME RequestInv, [StoreNext]_storeVars, NEW q \in AllReaders
  PROVE  \/ request'[q].seen = request[q].seen /\ request'[q].handler = request[q].handler
         \/ request'[q].seen = <<>>
         \/ \E version \in Nat, dirty \in BOOLEAN :
              /\ UNCHANGED <<batches, writers>>
              /\ request[q].phase = "query"
              /\ request'[q].handler = request[q].handler
              /\ request'[q].seen = Append(request[q].seen, Shown(version, dirty))
              /\ dirty =>
                   /\ q \in Readers
                   /\ version = open[NextTable(q)]
                   /\ \E w \in Writers : pc[w] = "writing"
              /\ ~dirty =>
                   /\ version = committed[NextTable(q)]
                   /\ q \in Readers => \A w \in Writers : ~InBatch(w)
  <1>0. request \in [AllReaders -> [phase : ReaderPhases, handler : Handlers \cup {"none"},
                              handle : Nat, seen : Seq(Rows)]]
    BY DEF RequestInv, RequestTypes
  <1>1. ASSUME NEW r \in AllReaders, Query(r), UNCHANGED <<batches, writers>>, q = r
        PROVE  \E version \in Nat, dirty \in BOOLEAN :
              /\ UNCHANGED <<batches, writers>>
              /\ request[q].phase = "query"
              /\ request'[q].handler = request[q].handler
              /\ request'[q].seen = Append(request[q].seen, Shown(version, dirty))
              /\ dirty =>
                   /\ q \in Readers
                   /\ version = open[NextTable(q)]
                   /\ \E w \in Writers : pc[w] = "writing"
              /\ ~dirty =>
                   /\ version = committed[NextTable(q)]
                   /\ q \in Readers => \A w \in Writers : ~InBatch(w)
    <2>1. PICK version \in Nat, dirty \in BOOLEAN :
            /\ request' = [request EXCEPT ![r].phase = "rows", ![r].seen = Append(@, Shown(version, dirty))]
            /\ dirty =>
                 /\ r \in Readers
                 /\ version = open[NextTable(r)]
                 /\ \E w \in Writers : pc[w] = "writing"
            /\ ~dirty =>
                 /\ version = committed[NextTable(r)]
                 /\ r \in Readers => \A w \in Writers : ~InBatch(w)
      BY <1>1, QueryShows
    <2>2. /\ request'[r].handler = request[r].handler
          /\ request'[r].seen = Append(request[r].seen, Shown(version, dirty))
      BY <1>0, <2>1
    <2>3. request[r].phase = "query"
      BY <1>1 DEF Query
    <2> QED
      BY <1>1, <2>1, <2>2, <2>3
  <1>2. ASSUME NEW r \in AllReaders, Query(r), q # r
        PROVE  request'[q] = request[q]
    <2>1. \E new : request' = [request EXCEPT ![r] = new]
      BY <1>0, <1>2, QueryShows
    <2> QED
      BY <1>0, <1>2, <2>1
  <1>3. ASSUME NEW r \in AllReaders, QueryFails(r) \/ CloseRows(r) \/ Exec(r)
        PROVE  request'[q].seen = request[q].seen /\ request'[q].handler = request[q].handler
    <2>1. \/ \E phase : request' = [request EXCEPT ![r].phase = phase]
          \/ \E handle : request' = [request EXCEPT ![r].phase = "query", ![r].handle = handle]
      BY <1>3 DEF QueryFails, CloseRows, Exec
    <2>2. ASSUME NEW phase, request' = [request EXCEPT ![r].phase = phase]
          PROVE  request'[q].seen = request[q].seen /\ request'[q].handler = request[q].handler
      BY <1>0, <2>2
    <2>3. ASSUME NEW handle, request' = [request EXCEPT ![r].phase = "query", ![r].handle = handle]
          PROVE  request'[q].seen = request[q].seen /\ request'[q].handler = request[q].handler
      BY <1>0, <2>3
    <2> QED
      BY <2>1, <2>2, <2>3
  <1>4. ASSUME NEW r \in AllReaders, NEW h \in Handlers, Request(r, h)
        PROVE  request'[q] = request[q] \/ request'[q].seen = <<>>
    BY <1>0, <1>4 DEF Request
  <1>5. CASE Crash
    <2>1. request'[q] = request[q] \/ request'[q] = NoRequest
      BY <1>5 DEF Crash
    <2> QED
      BY <2>1 DEF NoRequest
  <1> QED
    BY <1>1, <1>2, <1>3, <1>4, <1>5, RequestSteps DEF RequestInv, AtomicInv, ReaderStep

\* The table of the next query.
LEMMA NextQuery ==
  ASSUME RequestInv, NEW r \in AllReaders, request[r].phase = "query"
  PROVE  /\ NextTable(r) \in Tables
         /\ request[r].seen \in Seq(Rows)
         /\ NextTable(r) = PlanOf(r)[Len(request[r].seen) + 1]
         /\ \A i \in DOMAIN request[r].seen : PlanOf(r)[i] \in Tables
  <1>1. request[r].handler \in Handlers /\ request[r].seen \in Seq(Rows)
    BY DEF RequestInv, RequestTypes, RequestPlaces
  <1>2. Len(request[r].seen) < Len(PlanOf(r))
    BY <1>1 DEF RequestInv, RequestPlaces
  <1>3. PlanOf(r) \in Seq(Tables)
    BY <1>1, PlanType DEF PlanOf
  <1>4. \A i \in 1 .. Len(PlanOf(r)) : PlanOf(r)[i] \in Tables
    BY <1>3, ElementOfSeq
  <1> QED
    BY <1>1, <1>2, <1>3, <1>4 DEF NextTable

\* Rows that are right stay right.
LEMMA RowsStayRight ==
  ASSUME RequestInv, [StoreNext]_storeVars, NEW r \in AllReaders, NEW rows \in Rows, NEW table,
         RowsRight(r, rows, table)
  PROVE  RowsRight(r, rows, table)'
  BY BatchesKeep, WritingKeeps DEF RowsRight, RequestInv, AtomicInv, Settled

\* Every query shows batches that are rightly there.
LEMMA RightSeen ==
  ASSUME RequestInv, SeenRight, [StoreNext]_storeVars
  PROVE  SeenRight'
  <1> SUFFICES ASSUME NEW r \in AllReaders, NEW i \in DOMAIN request'[r].seen,
                      NEW rows, rows = request'[r].seen[i],
                      NEW table, table = PlanOf(r)'[i]
               PROVE  RowsRight(r, rows, table)'
    BY DEF SeenRight, RowsRight
  <1>1. ASSUME i \in DOMAIN request[r].seen, rows = request[r].seen[i], request'[r].handler = request[r].handler
        PROVE  RowsRight(r, rows, table)'
    <2>1. rows \in Rows
      BY <1>1, ElementOfSeq DEF RequestInv, RequestTypes
    <2>2. RowsRight(r, rows, table)
      BY <1>1 DEF SeenRight, PlanOf
    <2> QED
      BY <2>1, <2>2, RowsStayRight
  <1>2. ASSUME NEW version \in Nat, NEW dirty \in BOOLEAN,
               UNCHANGED <<batches, writers>>,
               request[r].phase = "query",
               request'[r].handler = request[r].handler,
               request'[r].seen = Append(request[r].seen, Shown(version, dirty)),
               dirty => r \in Readers /\ version = open[NextTable(r)] /\ \E w \in Writers : pc[w] = "writing",
               ~dirty => version = committed[NextTable(r)]
        PROVE  RowsRight(r, rows, table)'
    <2>1. /\ request[r].seen \in Seq(Rows)
          /\ NextTable(r) \in Tables
          /\ NextTable(r) = PlanOf(r)[Len(request[r].seen) + 1]
      BY <1>2, NextQuery
    <2>2. Shown(version, dirty) \in Rows /\ Shown(version, dirty).batch = version /\ Shown(version, dirty).dirty = dirty
      BY DEF Shown, Rows
    <2>3. CASE i \in DOMAIN request[r].seen
      <3>1. rows = request[r].seen[i]
        BY <1>2, <2>1, <2>2, <2>3, AppendProperties
      <3> QED
        BY <1>1, <1>2, <2>3, <3>1
    <2>4. CASE i \notin DOMAIN request[r].seen
      <3>1. i = Len(request[r].seen) + 1 /\ rows = Shown(version, dirty)
        BY <1>2, <2>1, <2>2, <2>4, AppendProperties
      <3>2. table = NextTable(r)
        BY <1>2, <2>1, <3>1 DEF PlanOf
      <3>3. RowsRight(r, rows, table)
        BY <1>2, <2>1, <2>2, <3>1, <3>2, FreshRows DEF RowsRight
      <3> QED
        BY <2>2, <3>1, <3>3, RowsStayRight
    <2> QED
      BY <2>3, <2>4
  <1>3. CASE request'[r].seen = <<>>
    BY <1>3
  <1> QED
    BY <1>1, <1>2, <1>3, AnswerSteps

\* Two queries that agree go on agreeing.
LEMMA AgreesStays ==
  ASSUME RequestInv, [StoreNext]_storeVars, NEW r \in AllReaders,
         NEW rows \in Rows, NEW first, NEW next, NEW later,
         RowsRight(r, rows, first), Agrees(rows, first, next, later)
  PROVE  Agrees(rows, first, next, later)'
  <1>1. CASE rows.batch = 0
    BY <1>1 DEF Agrees
  <1>2. CASE rows.batch # 0
    <2>1. /\ rows.batch \in DOMAIN batches
          /\ KindOf(rows.batch)' = KindOf(rows.batch)
          /\ Settled(rows.batch) => batches'[rows.batch].state = batches[rows.batch].state
      BY <1>2, BatchesKeep DEF RowsRight, RequestInv, AtomicInv
    <2> QED
      BY <1>2, <2>1 DEF Agrees, Settled
  <1> QED
    BY <1>1, <1>2

\* A new query agrees with each earlier one.
LEMMA AgreesFresh ==
  ASSUME RequestInv, NEW r \in AllReaders, request[r].phase = "query",
         NEW rows \in Rows, NEW first \in Tables, RowsRight(r, rows, first),
         NEW later \in Tables, NEW version \in Nat, NEW dirty \in BOOLEAN,
         dirty => r \in Readers /\ version = open[later] /\ \E w \in Writers : pc[w] = "writing",
         ~dirty => version = committed[later] /\ (r \in Readers => \A w \in Writers : ~InBatch(w))
  PROVE  Agrees(rows, first, Shown(version, dirty), later)
  <1> SUFFICES ASSUME rows.batch # 0, later \in TablesOf(KindOf(rows.batch)),
                      ~(rows.dirty /\ Place(KindOf(rows.batch), first) < Place(KindOf(rows.batch), later)),
                      batches[rows.batch].state # "rolledback"
               PROVE  version >= rows.batch
    BY DEF Agrees, Shown
  <1> DEFINE b == rows.batch
  <1>1. /\ b \in DOMAIN batches
        /\ first \in TablesOf(KindOf(b))
        /\ ~rows.dirty => batches[b].state = "committed"
        /\ r \in SideReaders => ~rows.dirty
        /\ \A w \in Writers : pc[w] = "writing" /\ mine[w] = b => first \in Written(w)
    BY DEF RowsRight
  <1>2. CASE batches[b].state = "committed"
    BY <1>1, <1>2, FreshRows
  <1>3. CASE batches[b].state # "committed"
    <2>1. PICK w \in Writers : InBatch(w) /\ mine[w] = b
      BY <1>1, <1>3 DEF RequestInv, BatchesOwned, Settled
    <2>2. dirty
      BY <1>1, <1>3, <2>1 DEF AllReaders
    <2>3. PICK v \in Writers : pc[v] = "writing"
      BY <2>2
    <2>4. v = w
      BY <2>1, <2>3, StoreBatchAssumption DEF RequestInv, AtomicInv, Inv, Ownership, InBatch, Held
    <2>5. pc[w] = "writing" /\ first \in Written(w) /\ rows.dirty
      BY <1>1, <1>3, <2>1, <2>3, <2>4
    <2>6. /\ KindOf(b) \in Kinds
          /\ StatementsOf(mine[w]) = Statements[KindOf(b)]
          /\ DOMAIN Statements[KindOf(b)] \subseteq Int
          /\ step[w] \in Int
      <3>1. KindOf(b) \in Kinds /\ StatementsOf(mine[w]) = Statements[KindOf(b)]
        BY <2>1, <2>5, NextStatement DEF KindOf, HasTx, RequestInv, AtomicInv, StatementsOf
      <3>2. step[w] \in Int
        BY DEF RequestInv, AtomicInv, Inv, StoreTypeOK
      <3> QED
        BY <3>1, <3>2, StatementsType
    <2>7. PICK i \in DOMAIN Statements[KindOf(b)] : i < step[w] /\ Statements[KindOf(b)][i] = first
      BY <2>5, <2>6 DEF Written
    <2>8. PICK j \in DOMAIN Statements[KindOf(b)] : Statements[KindOf(b)][j] = later
      BY DEF TablesOf
    <2>9. Place(KindOf(b), first) = i /\ Place(KindOf(b), later) = j
      BY <2>6, <2>7, <2>8, PlaceOfStatement
    <2>10. j < step[w]
      BY <2>5, <2>6, <2>7, <2>9
    <2>11. later \in Written(w)
      BY <2>6, <2>8, <2>10 DEF Written
    <2>12. open[later] = b /\ b \in Nat
      <3>1. open[later] = b
        BY <2>1, <2>5, <2>11, Versions
      <3> QED
        BY <2>2, <3>1
    <2> QED
      BY <2>2, <2>12
  <1> QED
    BY <1>2, <1>3

\* Every answer agrees with itself.
LEMMA AgreeingAnswers ==
  ASSUME RequestInv, SeenRight, AnswersAgree, [StoreNext]_storeVars
  PROVE  AnswersAgree'
  <1> SUFFICES ASSUME NEW r \in AllReaders,
                      NEW i \in DOMAIN request'[r].seen, NEW j \in DOMAIN request'[r].seen, i < j,
                      NEW rows, rows = request'[r].seen[i], NEW first, first = PlanOf(r)'[i],
                      NEW next, next = request'[r].seen[j], NEW later, later = PlanOf(r)'[j]
               PROVE  Agrees(rows, first, next, later)'
    BY DEF AnswersAgree, Agrees, KindOf
  <1>1. ASSUME i \in DOMAIN request[r].seen, rows = request[r].seen[i], request'[r].handler = request[r].handler
        PROVE  rows \in Rows /\ RowsRight(r, rows, first)
    <2>1. rows \in Rows
      BY <1>1, ElementOfSeq DEF RequestInv, RequestTypes
    <2> QED
      BY <1>1, <2>1 DEF SeenRight, PlanOf
  <1>2. ASSUME i \in DOMAIN request[r].seen, rows = request[r].seen[i],
               j \in DOMAIN request[r].seen, next = request[r].seen[j],
               request'[r].handler = request[r].handler
        PROVE  Agrees(rows, first, next, later)'
    <2>1. Agrees(rows, first, next, later)
      BY <1>2 DEF AnswersAgree, Agrees, PlanOf, KindOf
    <2> QED
      BY <1>1, <1>2, <2>1, AgreesStays
  <1>3. ASSUME NEW version \in Nat, NEW dirty \in BOOLEAN,
               UNCHANGED <<batches, writers>>,
               request[r].phase = "query",
               request'[r].handler = request[r].handler,
               request'[r].seen = Append(request[r].seen, Shown(version, dirty)),
               dirty => r \in Readers /\ version = open[NextTable(r)] /\ \E w \in Writers : pc[w] = "writing",
               ~dirty => version = committed[NextTable(r)] /\ (r \in Readers => \A w \in Writers : ~InBatch(w))
        PROVE  Agrees(rows, first, next, later)'
    <2>1. /\ request[r].seen \in Seq(Rows)
          /\ NextTable(r) \in Tables
          /\ NextTable(r) = PlanOf(r)[Len(request[r].seen) + 1]
          /\ \A k \in DOMAIN request[r].seen : PlanOf(r)[k] \in Tables
      BY <1>3, NextQuery
    <2>2. Shown(version, dirty) \in Rows
      BY DEF Shown, Rows
    <2>3. /\ DOMAIN request[r].seen = 1 .. Len(request[r].seen)
          /\ DOMAIN request'[r].seen = 1 .. Len(request[r].seen) + 1
          /\ request'[r].seen[Len(request[r].seen) + 1] = Shown(version, dirty)
          /\ \A k \in 1 .. Len(request[r].seen) : request'[r].seen[k] = request[r].seen[k]
      BY <1>3, <2>1, <2>2, AppendProperties
    <2>4. i \in DOMAIN request[r].seen /\ rows = request[r].seen[i]
      BY <2>1, <2>3
    <2>5. CASE j \in DOMAIN request[r].seen
      BY <1>2, <1>3, <2>3, <2>4, <2>5
    <2>6. CASE j = Len(request[r].seen) + 1
      <3>1. next = Shown(version, dirty) /\ later = NextTable(r) /\ first \in Tables
        BY <1>3, <2>1, <2>3, <2>4, <2>6 DEF PlanOf
      <3>2. rows \in Rows /\ RowsRight(r, rows, first)
        BY <1>1, <1>3, <2>4
      <3>3. Agrees(rows, first, next, later)
        BY <1>3, <2>1, <3>1, <3>2, AgreesFresh
      <3> QED
        BY <3>2, <3>3, AgreesStays
    <2> QED
      BY <2>3, <2>5, <2>6
  <1>4. CASE request'[r].seen = <<>>
    BY <1>4
  <1> QED
    BY <1>2, <1>3, <1>4, AnswerSteps

\* A token that the first query of GET /tokens lists is committed, so the
\* second one finds its record.
LEMMA SettledTokens ==
  ASSUME RequestInv, SeenRight, TokensSettled, [StoreNext]_storeVars
  PROVE  TokensSettled'
  <1> SUFFICES ASSUME NEW r \in AllReaders, request'[r].handler = "tokens",
                      Len(request'[r].seen) = 2, request'[r].seen[1].batch # 0
               PROVE  request'[r].seen[2].batch >= request'[r].seen[1].batch
    BY DEF TokensSettled
  <1>1. CASE request'[r].seen = request[r].seen /\ request'[r].handler = request[r].handler
    BY <1>1 DEF TokensSettled
  <1>2. CASE request'[r].seen = <<>>
    BY <1>2
  <1>3. ASSUME NEW version \in Nat, NEW dirty \in BOOLEAN,
               request[r].phase = "query",
               request'[r].handler = request[r].handler,
               request'[r].seen = Append(request[r].seen, Shown(version, dirty)),
               dirty => r \in Readers /\ version = open[NextTable(r)] /\ \E w \in Writers : pc[w] = "writing",
               ~dirty => version = committed[NextTable(r)]
        PROVE  request'[r].seen[2].batch >= request'[r].seen[1].batch
    <2>1. /\ request[r].seen \in Seq(Rows)
          /\ NextTable(r) = PlanOf(r)[Len(request[r].seen) + 1]
          /\ Shown(version, dirty) \in Rows
          /\ Shown(version, dirty).batch = version
      BY <1>3, NextQuery DEF Shown, Rows
    <2>2. /\ Len(request[r].seen) = 1
          /\ 1 \in DOMAIN request[r].seen
          /\ request'[r].seen[2] = Shown(version, dirty)
          /\ request'[r].seen[1] = request[r].seen[1]
      <3>1. /\ Len(request'[r].seen) = Len(request[r].seen) + 1
            /\ request'[r].seen[Len(request[r].seen) + 1] = Shown(version, dirty)
            /\ \A i \in 1 .. Len(request[r].seen) : request'[r].seen[i] = request[r].seen[i]
        BY <1>3, <2>1, AppendProperties
      <3>2. Len(request[r].seen) \in Nat /\ DOMAIN request[r].seen = 1 .. Len(request[r].seen)
        BY <2>1, LenProperties
      <3>3. Len(request[r].seen) = 1
        <4>1. PICK n \in Nat : n = Len(request[r].seen)
          BY <3>2
        <4>2. n + 1 = 2
          BY <3>1, <4>1
        <4>3. n = 1
          BY <4>2
        <4> QED
          BY <4>1, <4>3
      <3> QED
        BY <3>1, <3>2, <3>3
    <2>3. PlanOf(r) = <<"tokens", "backfills">>
      BY <1>3 DEF PlanOf, Plan
    <2>4. PlanOf(r)[1] = "tokens" /\ NextTable(r) = "backfills" /\ "backfills" \in Tables
      BY <2>1, <2>2, <2>3 DEF Tables
    <2>5. PICK b \in DOMAIN batches : /\ b = request[r].seen[1].batch
                                      /\ "tokens" \in TablesOf(KindOf(b))
                                      /\ batches[b].state = "committed"
      BY <2>2, <2>4 DEF SeenRight, RowsRight
    <2>6. KindOf(b) \in Kinds
      <3>1. batches \in Seq(Batch) /\ DOMAIN batches = 1 .. Len(batches)
        BY DEF RequestInv, AtomicInv, Inv, StoreTypeOK
      <3>2. batches[b] \in Batch
        BY <3>1, ElementOfSeq
      <3> QED
        BY <3>2 DEF KindOf, Batch
    <2>7. "backfills" \in TablesOf(KindOf(b))
      BY <2>5, <2>6, OnlyRegistrations
    <2>8. version >= b
      BY <1>3, <2>4, <2>5, <2>7, FreshRows
    <2> QED
      BY <2>1, <2>2, <2>5, <2>8
  <1> QED
    BY <1>1, <1>2, <1>3, AnswerSteps

-----------------------------------------------------------------------------
LEMMA AnswerInit == StoreInit => AnswerInv
  <1> SUFFICES ASSUME StoreInit PROVE AnswerInv
    OBVIOUS
  <1>1. \A r \in AllReaders : request[r] = NoRequest
    BY DEF StoreInit
  <1>2. NoRequest.seen = <<>> /\ NoRequest.phase = "idle" /\ NoRequest.handler = "none" /\ NoRequest.handle = NoTx
    BY DEF NoRequest
  <1>3. RequestTypes
    <2>1. <<>> \in Seq(Rows)
      OBVIOUS
    <2> QED
      BY <2>1 DEF StoreInit, RequestTypes, NoRequest, NoTx, ReaderPhases
  <1>4. RequestPlaces
    BY <1>1, <1>2 DEF RequestPlaces
  <1>5. BatchesOwned
    <2>1. DOMAIN batches = {} /\ \A w \in Writers : pc[w] = "idle"
      BY DEF StoreInit
    <2> QED
      BY <2>1 DEF BatchesOwned, InBatch
  <1>6. \A r \in AllReaders : DOMAIN request[r].seen = {} /\ Len(request[r].seen) = 0
    BY <1>1, <1>2
  <1> QED
    BY <1>3, <1>4, <1>5, <1>6, AtomicInit DEF AnswerInv, RequestInv, SeenRight, AnswersAgree, TokensSettled

LEMMA AnswerInductive == AnswerInv /\ [StoreNext]_storeVars => AnswerInv'
  BY AtomicInductive, TypedRequest, PlacedRequest, OwnedBatches, RightSeen, AgreeingAnswers, SettledTokens
  DEF AnswerInv, RequestInv

\* Whatever an answer shows of a batch in one query it shows in its later
\* queries, whoever commits, rolls back or crashes in between.
THEOREM Consistency == StoreSpec => []AnswersAgree
  <1>1. AnswerInv => AnswersAgree
    BY DEF AnswerInv
  <1> QED
    BY <1>1, AnswerInit, AnswerInductive, PTL DEF StoreSpec

\* GET /tokens never lists a registered token without its import record.
THEOREM RecordsListed == StoreSpec => []TokensHaveRecords
  <1>1. AnswerInv => TokensHaveRecords
    <2> SUFFICES ASSUME AnswerInv, NEW r \in AllReaders, request[r].phase = "answered",
                        request[r].handler = "tokens", request[r].seen[1].batch # 0
                 PROVE  request[r].seen[2].batch >= request[r].seen[1].batch
      BY DEF TokensHaveRecords
    <2>1. Len(request[r].seen) = Len(PlanOf(r))
      BY DEF AnswerInv, RequestInv, RequestPlaces
    <2>2. PlanOf(r) = <<"tokens", "backfills">>
      BY DEF PlanOf, Plan
    <2>3. Len(request[r].seen) = 2
      BY <2>1, <2>2
    <2> QED
      BY <2>3 DEF AnswerInv, TokensSettled
  <1> QED
    BY <1>1, AnswerInit, AnswerInductive, PTL DEF StoreSpec

=============================================================================
