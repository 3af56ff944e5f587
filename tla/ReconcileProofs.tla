---------------------------- MODULE ReconcileProofs ----------------------------
(***************************************************************************)
(* Theorems about Reconcile, for every number of addresses and workers,    *)
(* every capacity, every chain and every placing of failures: the channels *)
(* are never used after they were closed, every address is settled, and a  *)
(* balance nothing touches meanwhile is right afterwards.                  *)
(***************************************************************************)
EXTENDS Reconcile, SequenceTheorems, WellFoundedInduction, TLAPS

----------------------------------------------------------------------------
(* Types. ReconcileTypeOK in parts, with what it leaves open: the fields   *)
(* of a worker, that a full buffer is flushed before more is received,     *)
(* that only the writer flushes, that the store is not ahead of the node.  *)

Task == [phase : {"idle", "fetching", "sending", "exited"},
         addr : 0 .. Total, tries : Nat, value : Nat, answer : {"balance", "failedCall"},
         at : Heights]

Busy(w) == worker[w].phase \in {"fetching", "sending"}

FeederTypes ==
  /\ run \in {"counting", "feeding", "listing", "joining", "awaiting", "returned"}
  /\ result \in {"none", "ok", "listFailed", "writeFailed", "tooManyErrors"}
  /\ listed \in 0 .. Total /\ fed \in 0 .. listed
  /\ failures \in 0 .. MaxFailures

FlushTypes ==
  /\ handle \in 0 .. flushes /\ flushing \in {0, flushes} /\ flushes \in Nat
  /\ writer \in {"receiving", "full", "last", "draining", "exited"}
  /\ writerDone \in {"none", "ok", "error"}
  /\ flushing # 0 => writer \in {"full", "last"}

WorkTypes == work \in Seq(Known) /\ Len(work) <= WorkCap /\ workClosed \in BOOLEAN

WorkerTypes ==
  /\ worker \in [Workers -> Task]
  /\ \A w \in Workers : Busy(w) => worker[w].addr # 0
  /\ failed \subseteq Known

UpdateTypes == updates \in Seq(Update) /\ Len(updates) <= UpdateCap /\ updatesClosed \in BOOLEAN

BufferTypes ==
  /\ buf \in Seq(Update) /\ Len(buf) <= WriteBatch
  /\ writer = "receiving" => Len(buf) < WriteBatch

NodeTypes ==
  /\ storeHeight \in Heights /\ nodeLib \in Heights /\ nodeHead \in Heights
  /\ Synced <= storeHeight /\ storeHeight <= nodeLib /\ nodeLib <= nodeHead

BalanceTypes ==
  readAt \in [Known -> 0 .. NotWritten] /\ balance \in [Known -> Nat] /\ zeroed \subseteq Known

Typing ==
  /\ FeederTypes /\ FlushTypes /\ WorkTypes /\ WorkerTypes
  /\ UpdateTypes /\ BufferTypes /\ NodeTypes /\ BalanceTypes

LEMMA Bounds ==
  /\ Total \in Nat /\ LastBlock \in Nat /\ MaxFailures \in Nat
  /\ WorkCap \in Nat \ {0} /\ UpdateCap \in Nat \ {0} /\ WriteBatch \in Nat \ {0}
  /\ PageSize \in Nat \ {0} /\ MaxRetries \in Nat \ {0}
  BY ReconcileAssumption

LEMMA ChainFacts ==
  /\ Synced \in Heights
  /\ Chain \in [Heights -> [Known -> Nat]]
  /\ \A h \in Heights : Chain[h] \in [Known -> Nat]
  /\ \A h \in Heights, a \in Known : Chain[h][a] \in Nat
  BY ReconcileAssumption

LEMMA HeightFacts == \A h : h \in Heights <=> h \in Nat /\ h <= LastBlock
  BY Bounds DEF Heights

LEMMA TypingIsTyped == Typing => ReconcileTypeOK
  <1> SUFFICES ASSUME Typing PROVE ReconcileTypeOK
    OBVIOUS
  <1>1. \A w \in Workers : /\ worker[w].phase \in {"idle", "fetching", "sending", "exited"}
                           /\ worker[w].addr \in 0 .. Total
    BY DEF Typing, WorkerTypes, Task
  <1> QED
    BY <1>1 DEF Typing, FeederTypes, FlushTypes, WorkTypes, WorkerTypes, UpdateTypes, BufferTypes,
                NodeTypes, BalanceTypes, ReconcileTypeOK

LEMMA IdleIsTask == Idle \in Task
  BY Bounds DEF Idle, Task, Heights

LEMMA TypingInit == ReconcileInit => Typing
  <1> SUFFICES ASSUME ReconcileInit PROVE Typing
    OBVIOUS
  <1>1. FeederTypes
    BY Bounds DEF ReconcileInit, FeederTypes
  <1>2. FlushTypes
    BY DEF ReconcileInit, FlushTypes
  <1>3. WorkTypes /\ UpdateTypes /\ BufferTypes
    <2>1. work = <<>> /\ updates = <<>> /\ buf = <<>> /\ workClosed = FALSE /\ updatesClosed = FALSE
      BY DEF ReconcileInit
    <2>2. <<>> \in Seq(Known) /\ <<>> \in Seq(Update) /\ Len(<<>>) = 0
      BY EmptySeq
    <2>3. WorkTypes
      <3>1. workClosed \in BOOLEAN
        BY <2>1, Zenon
      <3> QED
        BY <2>1, <2>2, <3>1, Bounds DEF WorkTypes
    <2>4. UpdateTypes
      <3>1. updatesClosed \in BOOLEAN
        BY <2>1, Zenon
      <3> QED
        BY <2>1, <2>2, <3>1, Bounds DEF UpdateTypes
    <2>5. BufferTypes
      BY <2>1, <2>2, Bounds DEF BufferTypes
    <2> QED
      BY <2>3, <2>4, <2>5
  <1>4. WorkerTypes
    <2>1. worker = [w \in Workers |-> Idle] /\ failed = {}
      BY DEF ReconcileInit
    <2> QED
      BY <2>1, IdleIsTask DEF WorkerTypes, Busy, Idle
  <1>5. NodeTypes
    <2>1. storeHeight = Synced /\ nodeLib = Synced /\ nodeHead \in Synced .. LastBlock
      BY DEF ReconcileInit
    <2> QED
      BY <2>1, Bounds, ChainFacts, HeightFacts DEF NodeTypes
  <1>6. BalanceTypes
    <2>1. /\ readAt = [a \in Known |-> NotWritten] /\ balance \in {Chain[Synced], [a \in Known |-> 0]}
          /\ zeroed = {}
      BY DEF ReconcileInit
    <2>2. NotWritten \in 0 .. NotWritten
      BY Bounds DEF NotWritten
    <2> QED
      BY <2>1, <2>2, ChainFacts DEF BalanceTypes
  <1> QED
    BY <1>1, <1>2, <1>3, <1>4, <1>5, <1>6 DEF Typing

\* Which group of actions leaves which variables alone.
LEMMA Frames ==
  /\ FeederStep => UNCHANGED <<worker, failed, updates, writer, buf, flushing, flushes, writerDone,
                               stored, node>>
  /\ \A w \in Workers : WorkerStep(w) => UNCHANGED <<feeder, workClosed, updatesClosed, writing, stored, node>>
  /\ UpdateWriterStep => UNCHANGED <<feeder, fetch, updatesClosed, storeHeight, node>>
  /\ Produce \/ Finalize => UNCHANGED <<feeder, fetch, updates, updatesClosed, writing, stored, failures>>
  /\ SyncNextBlock => UNCHANGED <<feeder, fetch, updates, updatesClosed, writing, readAt, zeroed, node, failures>>
  <1>1. FeederStep => UNCHANGED <<worker, failed, updates, writer, buf, flushing, flushes, writerDone,
                                  stored, node>>
    BY DEF FeederStep, Count, List, Listed, ListFails, Feed, CloseWork, CloseUpdates, Return, fetch, writing
  <1>2. ASSUME NEW w \in Workers, WorkerStep(w)
        PROVE  UNCHANGED <<feeder, workClosed, updatesClosed, writing, stored, node>>
    BY <1>2 DEF WorkerStep, Take, Fetch, FetchFails, Send, WorkerExit
  <1>3. UpdateWriterStep => UNCHANGED <<feeder, fetch, updatesClosed, storeHeight, node>>
    BY DEF UpdateWriterStep, Receive, LastFlush, BeginFlush, EndFlush, FlushFails, Drain, stored
  <1>4. Produce \/ Finalize => UNCHANGED <<feeder, fetch, updates, updatesClosed, writing, stored, failures>>
    BY DEF Produce, Finalize
  <1>5. SyncNextBlock => UNCHANGED <<feeder, fetch, updates, updatesClosed, writing, readAt, zeroed, node, failures>>
    BY DEF SyncNextBlock
  <1> QED
    BY <1>1, <1>2, <1>3, <1>4, <1>5

LEMMA FeederTyped ==
  ASSUME FeederTypes, [ReconcileNext]_reconcileVars
  PROVE  FeederTypes'
  <1> USE Bounds
  <1>1. failures' = failures \/ (failures < MaxFailures /\ failures' = failures + 1)
    BY DEF ReconcileNext, FeederStep, Count, List, Listed, ListFails, Feed, CloseWork, CloseUpdates,
           Return, WorkerStep, Take, Fetch, FetchFails, Send, WorkerExit, UpdateWriterStep, Receive,
           LastFlush, BeginFlush, EndFlush, FlushFails, Drain, Produce, Finalize, SyncNextBlock,
           SqlError, reconcileVars
  <1>2. failures' \in 0 .. MaxFailures
    BY <1>1 DEF FeederTypes
  <1>3. CASE FeederStep
    BY <1>2, <1>3 DEF FeederTypes, FeederStep, Count, List, Listed, ListFails, Feed, CloseWork,
                      CloseUpdates, Return, Returns
  <1>4. CASE UNCHANGED feeder
    BY <1>2, <1>4 DEF FeederTypes, feeder
  <1> QED
    BY <1>3, <1>4, Frames DEF ReconcileNext, reconcileVars

LEMMA FlushTyped ==
  ASSUME FlushTypes, [ReconcileNext]_reconcileVars
  PROVE  FlushTypes'
  <1>1. CASE FeederStep
    BY <1>1 DEF FlushTypes, FeederStep, Count, List, Listed, ListFails, Feed, CloseWork,
                CloseUpdates, Return, writing
  <1>2. CASE UpdateWriterStep
    BY <1>2 DEF FlushTypes, UpdateWriterStep, Receive, LastFlush, BeginFlush, EndFlush, FlushFails,
                Drain, feeder
  <1>3. CASE UNCHANGED <<feeder, writing>>
    BY <1>3 DEF FlushTypes, feeder, writing
  <1> QED
    BY <1>1, <1>2, <1>3, Frames DEF ReconcileNext, reconcileVars

LEMMA WorkTyped ==
  ASSUME FeederTypes, WorkTypes, [ReconcileNext]_reconcileVars
  PROVE  WorkTypes'
  <1>1. CASE Feed
    <2>1. fed + 1 \in Known
      BY <1>1, Bounds DEF Feed, FeederTypes, Known
    <2> QED
      BY <1>1, <2>1, Bounds DEF Feed, WorkTypes
  <1>2. CASE UNCHANGED work
    <2>1. workClosed' \in BOOLEAN
      BY DEF ReconcileNext, FeederStep, Count, List, Listed, ListFails, Feed, CloseWork, CloseUpdates,
             Return, WorkerStep, Take, Fetch, FetchFails, Send, WorkerExit, UpdateWriterStep, Receive,
             LastFlush, BeginFlush, EndFlush, FlushFails, Drain, Produce, Finalize, SyncNextBlock,
             reconcileVars, fetch, WorkTypes
    <2> QED
      BY <1>2, <2>1 DEF WorkTypes
  <1>3. ASSUME NEW w \in Workers, Take(w)
        PROVE  WorkTypes'
    BY <1>3, HeadTailProperties, Bounds DEF Take, WorkTypes
  <1> QED
    BY <1>1, <1>2, <1>3
    DEF ReconcileNext, FeederStep, Count, List, Listed, ListFails, CloseWork, CloseUpdates,
        Return, WorkerStep, Fetch, FetchFails, Send, WorkerExit, UpdateWriterStep, Receive,
        LastFlush, BeginFlush, EndFlush, FlushFails, Drain, Produce, Finalize, SyncNextBlock,
        reconcileVars, fetch

LEMMA WorkerTyped ==
  ASSUME FeederTypes, WorkTypes, WorkerTypes, NodeTypes, [ReconcileNext]_reconcileVars
  PROVE  WorkerTypes'
  <1>1. CASE UNCHANGED <<worker, failed>>
    BY <1>1 DEF WorkerTypes, Busy
  <1>2. ASSUME NEW w \in Workers, WorkerStep(w)
        PROVE  WorkerTypes'
    <2>1. worker[w] \in Task /\ Idle \in Task
      BY IdleIsTask DEF WorkerTypes
    <2>2. /\ worker[w].addr \in 0 .. Total /\ worker[w].tries \in Nat
          /\ Busy(w) => worker[w].addr \in Known
      BY <2>1, Bounds DEF Task, WorkerTypes, Known
    <2>3. failed' \subseteq Known
      BY <1>2, <2>2 DEF WorkerStep, Take, Fetch, FetchFails, Send, WorkerExit, WorkerTypes, Busy
    <2>4. ASSUME NEW t \in Task, worker' = [worker EXCEPT ![w] = t],
                 t.phase \in {"fetching", "sending"} => t.addr # 0
          PROVE  WorkerTypes'
      BY <2>3, <2>4 DEF WorkerTypes, Busy
    <2>5. CASE Take(w)
      <3>1. Head(work) \in Known /\ Head(work) \in 0 .. Total /\ Head(work) # 0
        BY <2>5, HeadTailProperties, Bounds DEF Take, WorkTypes, Known
      <3>2. [Idle EXCEPT !.phase = "fetching", !.addr = Head(work)] \in Task
        BY <2>1, <3>1 DEF Task
      <3>3. [Idle EXCEPT !.phase = "fetching", !.addr = Head(work)].addr = Head(work)
        BY DEF Idle
      <3>4. worker' = [worker EXCEPT ![w] = [Idle EXCEPT !.phase = "fetching", !.addr = Head(work)]]
        BY <2>5 DEF Take
      <3> QED
        BY <2>4, <3>1, <3>2, <3>3, <3>4
    <2>6. CASE Fetch(w)
      <3>1. PICK answer \in {"balance", "failedCall"} :
              worker' = [worker EXCEPT ![w].phase = "sending", ![w].answer = answer, ![w].at = nodeHead,
                           ![w].value = IF answer = "balance" THEN Chain[nodeHead][worker[w].addr] ELSE 0]
        BY <2>6 DEF Fetch
      <3> DEFINE v == IF answer = "balance" THEN Chain[nodeHead][worker[w].addr] ELSE 0
      <3>2. worker[w].addr \in Known /\ nodeHead \in Heights
        BY <2>2, <2>6 DEF Fetch, Busy, NodeTypes
      <3>3. v \in Nat
        BY <3>1, <3>2, ChainFacts
      <3> DEFINE t == [worker[w] EXCEPT !.phase = "sending", !.answer = answer, !.at = nodeHead, !.value = v]
      <3>4. t \in Task /\ t.addr = worker[w].addr
        BY <2>1, <3>2, <3>3 DEF Task
      <3>5. worker' = [worker EXCEPT ![w] = t]
        BY <3>1 DEF WorkerTypes
      <3>6. worker[w].addr # 0
        BY <3>2, Bounds DEF Known
      <3> HIDE DEF t
      <3> QED
        BY <2>4, <3>4, <3>5, <3>6
    <2>7. CASE FetchFails(w)
      <3> DEFINE t == [worker[w] EXCEPT !.tries = @ + 1]
      <3>1. t \in Task /\ t.addr = worker[w].addr /\ t.phase = worker[w].phase
        BY <2>1, <2>2 DEF Task
      <3>2. worker' = [worker EXCEPT ![w] = t] \/ worker' = [worker EXCEPT ![w] = Idle]
        BY <2>7 DEF FetchFails, WorkerTypes
      <3>3. Idle.phase = "idle" /\ worker[w].addr # 0
        BY <2>7 DEF Idle, FetchFails, WorkerTypes, Busy
      <3> HIDE DEF t
      <3> QED
        BY <2>1, <2>4, <3>1, <3>2, <3>3
    <2>8. CASE Send(w)
      BY <2>1, <2>4, <2>8 DEF Send, Idle
    <2>9. CASE WorkerExit(w)
      <3> DEFINE t == [worker[w] EXCEPT !.phase = "exited"]
      <3>1. t \in Task /\ t.phase = "exited"
        BY <2>1 DEF Task
      <3>2. worker' = [worker EXCEPT ![w] = t]
        BY <2>9 DEF WorkerExit, WorkerTypes
      <3> HIDE DEF t
      <3> QED
        BY <2>4, <3>1, <3>2
    <2> QED
      BY <1>2, <2>5, <2>6, <2>7, <2>8, <2>9 DEF WorkerStep
  <1> QED
    BY <1>1, <1>2, Frames DEF ReconcileNext, reconcileVars, fetch

\* What a worker sends.
Result(w) == [addr |-> worker[w].addr, value |-> worker[w].value, answer |-> worker[w].answer,
              at |-> worker[w].at]

LEMMA ResultType ==
  ASSUME WorkerTypes, NEW w \in Workers, Busy(w)
  PROVE  Result(w) \in Update /\ worker[w].addr \in Known
  <1>1. worker[w] \in Task /\ worker[w].addr # 0
    BY DEF WorkerTypes
  <1>2. worker[w].addr \in Known
    BY <1>1, Bounds DEF Task, Known
  <1> QED
    BY <1>1, <1>2 DEF Task, Update, Result

LEMMA UpdateTyped ==
  ASSUME WorkerTypes, UpdateTypes, [ReconcileNext]_reconcileVars
  PROVE  UpdateTypes'
  <1>1. updatesClosed' \in BOOLEAN
    BY DEF ReconcileNext, FeederStep, Count, List, Listed, ListFails, Feed, CloseWork, CloseUpdates,
           Return, WorkerStep, Take, Fetch, FetchFails, Send, WorkerExit, UpdateWriterStep, Receive,
           LastFlush, BeginFlush, EndFlush, FlushFails, Drain, Produce, Finalize, SyncNextBlock,
           reconcileVars, UpdateTypes
  <1>2. CASE UNCHANGED updates
    BY <1>1, <1>2 DEF UpdateTypes
  <1>3. ASSUME NEW w \in Workers, Send(w)
        PROVE  UpdateTypes'
    <2>1. Result(w) \in Update
      BY <1>3, ResultType DEF Send, Busy
    <2>2. updates' = Append(updates, Result(w)) /\ Len(updates) < UpdateCap
      BY <1>3 DEF Send, Result
    <2> QED
      BY <1>1, <2>1, <2>2, Bounds DEF UpdateTypes
  <1>4. CASE updates # <<>> /\ updates' = Tail(updates)
    BY <1>1, <1>4, HeadTailProperties, Bounds DEF UpdateTypes
  <1>5. FeederStep \/ Produce \/ Finalize \/ SyncNextBlock => UNCHANGED updates
    BY Frames
  <1>6. UpdateWriterStep => UNCHANGED updates \/ (updates # <<>> /\ updates' = Tail(updates))
    BY DEF UpdateWriterStep, Receive, LastFlush, BeginFlush, EndFlush, FlushFails, Drain
  <1>7. ASSUME NEW w \in Workers, WorkerStep(w), ~Send(w)
        PROVE  UNCHANGED updates
    BY <1>7 DEF WorkerStep, Take, Fetch, FetchFails, WorkerExit
  <1> QED
    BY <1>2, <1>3, <1>4, <1>5, <1>6, <1>7 DEF ReconcileNext, reconcileVars

LEMMA BufferTyped ==
  ASSUME UpdateTypes, BufferTypes, FlushTypes, [ReconcileNext]_reconcileVars
  PROVE  BufferTypes'
  <1>1. CASE UNCHANGED <<buf, writer>>
    BY <1>1 DEF BufferTypes
  <1>2. CASE Receive
    <2>1. /\ Head(updates) \in Update /\ buf' = Append(buf, Head(updates))
          /\ writer' = IF Len(buf) + 1 >= WriteBatch THEN "full" ELSE "receiving"
          /\ Len(buf) < WriteBatch
      BY <1>2, HeadTailProperties DEF Receive, UpdateTypes, BufferTypes
    <2> QED
      BY <2>1, Bounds DEF BufferTypes
  <1>3. CASE EndFlush
    <2>1. buf' = <<>> /\ <<>> \in Seq(Update) /\ Len(<<>>) = 0
      BY <1>3, EmptySeq DEF EndFlush
    <2> QED
      BY <2>1, Bounds DEF BufferTypes
  <1>4. CASE buf' = buf /\ writer' # "receiving"
    BY <1>4 DEF BufferTypes
  <1>5. UpdateWriterStep => \/ UNCHANGED <<buf, writer>> \/ Receive \/ EndFlush
                            \/ buf' = buf /\ writer' # "receiving"
    BY DEF UpdateWriterStep, LastFlush, BeginFlush, FlushFails, Drain
  <1> QED
    BY <1>1, <1>2, <1>3, <1>4, <1>5, Frames DEF ReconcileNext, reconcileVars, writing

LEMMA NodeTyped ==
  ASSUME NodeTypes, [ReconcileNext]_reconcileVars
  PROVE  NodeTypes'
  <1> USE Bounds, ChainFacts, HeightFacts
  <1>1. CASE UNCHANGED <<storeHeight, node>>
    BY <1>1 DEF NodeTypes, node
  <1>2. CASE Produce
    BY <1>2 DEF Produce, NodeTypes, stored
  <1>3. CASE Finalize
    BY <1>3 DEF Finalize, NodeTypes, stored
  <1>4. CASE SyncNextBlock
    BY <1>4 DEF SyncNextBlock, NodeTypes, node
  <1> QED
    BY <1>1, <1>2, <1>3, <1>4, Frames DEF ReconcileNext, reconcileVars, stored

\* A set of positions has a last one.
LEMMA LastPosition ==
  ASSUME NEW n \in Nat, NEW S \in SUBSET (1 .. n), S # {}
  PROVE  \E i \in S : \A j \in S : j <= i
  <1> DEFINE Less == {p \in Nat \X Nat : p[1] < p[2]}
             T == {n - j : j \in S}
  <1>1. IsWellFoundedOn(Less, Nat)
    BY NatLessThanWellFounded DEF OpToRel
  <1>2. \A j \in S : j \in Nat /\ j <= n /\ n - j \in Nat
    OBVIOUS
  <1>3. T \in SUBSET Nat /\ T # {}
    BY <1>2
  <1> HIDE DEF Less, T
  <1>4. PICK x \in T : \A y \in T : ~(<<y, x>> \in Less)
    BY <1>1, <1>3, WFMin
  <1>5. PICK i \in S : x = n - i
    BY DEF T
  <1>6. ASSUME NEW j \in S
        PROVE  j <= i
    <2>1. n - j \in T /\ n - j \in Nat /\ n - i \in Nat
      BY <1>2 DEF T
    <2>2. <<n - j, n - i>> \in Nat \X Nat
      BY <2>1
    <2>3. ~(n - j < n - i)
      BY <1>4, <1>5, <2>1, <2>2 DEF Less
    <2> QED
      BY <1>2, <2>3
  <1> QED
    BY <1>6

\* What a flush writes for an address is an update of the buffer.
LEMMA FlushedFacts ==
  ASSUME BufferTypes, NEW a \in Known, InBuffer(a) # {}
  PROVE  \E i \in DOMAIN buf : Flushed(a) = buf[i] /\ buf[i].addr = a /\ buf[i] \in Update
  <1>1. buf \in Seq(Update) /\ DOMAIN buf = 1 .. Len(buf) /\ Len(buf) \in Nat
    BY LenProperties DEF BufferTypes
  <1>2. InBuffer(a) \in SUBSET (1 .. Len(buf))
    BY <1>1 DEF InBuffer
  <1>3. \E i \in InBuffer(a) : \A j \in InBuffer(a) : j <= i
    BY <1>1, <1>2, LastPosition
  <1>4. PICK i \in InBuffer(a) : Flushed(a) = buf[i]
    BY <1>3 DEF Flushed
  <1>5. buf[i] \in Update
    BY <1>1, <1>2, <1>4, ElementOfSeq
  <1> QED
    BY <1>4, <1>5 DEF InBuffer

LEMMA BalanceTyped ==
  ASSUME BufferTypes, NodeTypes, BalanceTypes, [ReconcileNext]_reconcileVars
  PROVE  BalanceTypes'
  <1>1. CASE UNCHANGED <<balance, readAt, zeroed>>
    BY <1>1 DEF BalanceTypes
  <1>2. CASE EndFlush
    <2>1. \A a \in Known : InBuffer(a) # {} => Flushed(a).value \in Nat /\ Flushed(a).at \in 0 .. NotWritten
      <3>1. \A h \in Heights : h \in 0 .. NotWritten
        BY Bounds DEF Heights, NotWritten
      <3>2. \A u \in Update : u.value \in Nat /\ u.at \in Heights
        BY DEF Update
      <3> QED
        BY <3>1, <3>2, FlushedFacts
    <2>2. \A a \in Known : balance[a] \in Nat /\ readAt[a] \in 0 .. NotWritten
      BY DEF BalanceTypes
    <2> QED
      BY <1>2, <2>1, <2>2 DEF EndFlush, BalanceTypes
  <1>3. CASE SyncNextBlock
    <2>1. storeHeight \in Heights /\ storeHeight + 1 \in Heights
      BY <1>3, HeightFacts, Bounds DEF SyncNextBlock, NodeTypes
    <2>2. \A a \in Known :
            /\ balance[a] \in Nat
            /\ Chain[storeHeight + 1][a] \in Nat /\ Chain[storeHeight][a] \in Nat
      BY <2>1, ChainFacts DEF BalanceTypes
    <2>3. \A a \in Known :
            (LET new == balance[a] + Chain[storeHeight + 1][a] - Chain[storeHeight][a]
             IN IF new < 0 THEN 0 ELSE new) \in Nat
      BY <2>2
    <2> QED
      BY <1>3, <2>3 DEF SyncNextBlock, BalanceTypes
  <1>4. UpdateWriterStep => EndFlush \/ UNCHANGED <<balance, readAt, zeroed>>
    BY DEF UpdateWriterStep, Receive, LastFlush, BeginFlush, FlushFails, Drain, stored
  <1> QED
    BY <1>1, <1>2, <1>3, <1>4, Frames DEF ReconcileNext, reconcileVars, stored

LEMMA TypingInductive == Typing /\ [ReconcileNext]_reconcileVars => Typing'
  BY FeederTyped, FlushTyped, WorkTyped, WorkerTyped, UpdateTyped, BufferTyped, NodeTyped, BalanceTyped
  DEF Typing

\* Every variable keeps its type, and no channel goes over its capacity.
THEOREM ChannelsBounded == ReconcileSpec => []ReconcileTypeOK
  BY TypingInit, TypingInductive, TypingIsTyped, PTL DEF ReconcileSpec

----------------------------------------------------------------------------
(* The order in which everything ends.                                     *)

\* After close(updateCh) every worker has returned, and the writer reaches its
\* last flush only after the close, with the channel empty.
Closing ==
  /\ updatesClosed => \A w \in Workers : worker[w].phase = "exited"
  /\ writer \in {"last", "exited"} => updatesClosed /\ updates = <<>>

LEMMA ClosingInit == ReconcileInit => Closing
  BY DEF ReconcileInit, Closing

\* Run closes the channel only when all workers have returned.
LEMMA ClosingFeeder == Closing /\ FeederStep => Closing'
  <1> SUFFICES ASSUME Closing, FeederStep PROVE Closing'
    OBVIOUS
  <1>1. UNCHANGED <<updates, writer, worker>>
    BY DEF FeederStep, Count, List, Listed, ListFails, Feed, CloseWork, CloseUpdates, Return,
           fetch, writing
  <1>2. updatesClosed' = updatesClosed \/ CloseUpdates
    BY DEF FeederStep, Count, List, Listed, ListFails, Feed, CloseWork, Return
  <1>3. CASE updatesClosed' = updatesClosed
    BY <1>1, <1>3 DEF Closing
  <1>4. CASE CloseUpdates
    BY <1>1, <1>4 DEF Closing, CloseUpdates
  <1> QED
    BY <1>2, <1>3, <1>4

\* A worker that still takes a step has not returned, so the channel is open.
LEMMA ClosingWorker ==
  ASSUME Closing, NEW w \in Workers, WorkerStep(w)
  PROVE  Closing'
  <1>1. worker[w].phase # "exited"
    BY DEF WorkerStep, Take, Fetch, FetchFails, Send, WorkerExit
  <1>2. ~updatesClosed /\ updatesClosed' = updatesClosed /\ writer' = writer
    BY <1>1 DEF Closing, WorkerStep, Take, Fetch, FetchFails, Send, WorkerExit, writing
  <1> QED
    BY <1>2 DEF Closing

\* The writer goes from the last flush to its end, and nowhere else.
LEMMA ClosingWriter == Closing /\ UpdateWriterStep => Closing'
  <1> SUFFICES ASSUME Closing, UpdateWriterStep PROVE Closing'
    OBVIOUS
  <1>1. UNCHANGED <<updatesClosed, worker>>
    BY DEF UpdateWriterStep, Receive, LastFlush, BeginFlush, EndFlush, FlushFails, Drain, fetch
  <1>2. CASE Receive \/ LastFlush
    BY <1>1, <1>2 DEF Closing, Receive, LastFlush
  <1>3. CASE BeginFlush \/ EndFlush \/ FlushFails
    BY <1>1, <1>3 DEF Closing, BeginFlush, EndFlush, FlushFails
  <1>4. CASE Drain
    BY <1>1, <1>4 DEF Closing, Drain
  <1> QED
    BY <1>2, <1>3, <1>4 DEF UpdateWriterStep

LEMMA ClosingInductive == Closing /\ [ReconcileNext]_reconcileVars => Closing'
  <1> SUFFICES ASSUME Closing, [ReconcileNext]_reconcileVars PROVE Closing'
    OBVIOUS
  <1>1. CASE Produce \/ Finalize \/ SyncNextBlock \/ UNCHANGED reconcileVars
    BY <1>1 DEF Closing, Produce, Finalize, SyncNextBlock, reconcileVars, fetch, writing
  <1> QED
    BY <1>1, ClosingFeeder, ClosingWorker, ClosingWriter DEF ReconcileNext

\* No worker ever sends on the closed channel, which would panic, and the
\* writer never stops while an update may still come.
THEOREM SafeClosing == ReconcileSpec => []NoSendAfterClose
  <1>1. Closing => NoSendAfterClose
    BY DEF Closing, NoSendAfterClose
  <1> QED
    BY <1>1, ClosingInit, ClosingInductive, PTL DEF ReconcileSpec

\* How far Run, its goroutines and what they report are from each other.
Stages ==
  /\ run = "returned" <=> result # "none"
  /\ run \in {"joining", "awaiting"} => workClosed
  /\ run = "awaiting" => updatesClosed
  /\ workClosed => fed = Total /\ run \notin {"counting", "feeding", "listing"}
  /\ \A w \in Workers : worker[w].phase = "exited" => workClosed /\ work = <<>>
  /\ writerDone = "none" <=> writer \in {"receiving", "full", "last"}
  /\ writerDone # "none" => flushing = 0
  /\ writerDone = "ok" => writer = "exited" /\ buf = <<>>
  /\ result \in {"ok", "tooManyErrors"} => writerDone = "ok"
  /\ result = "writeFailed" => writerDone = "error"

LEMMA StagesInit == ReconcileInit => Stages
  BY DEF ReconcileInit, Stages, Idle

LEMMA StagesFeeder == Typing /\ Stages /\ FeederStep => Stages'
  <1> SUFFICES ASSUME Typing, Stages, FeederStep PROVE Stages'
    OBVIOUS
  <1>1. UNCHANGED <<worker, writer, buf, flushing, writerDone>>
    BY Frames
  <1>2. CASE Count \/ List \/ Listed \/ ListFails
    BY <1>1, <1>2 DEF Stages, Count, List, Listed, ListFails, Returns, fetch
  <1>3. CASE Feed
    <2>1. ~workClosed
      BY <1>3 DEF Feed, Stages
    <2> QED
      BY <1>1, <1>3, <2>1 DEF Stages, Feed
  <1>4. CASE CloseWork
    BY <1>1, <1>4 DEF Stages, CloseWork
  <1>5. CASE CloseUpdates
    BY <1>1, <1>5 DEF Stages, CloseUpdates, fetch
  <1>6. CASE Return
    BY <1>1, <1>6 DEF Stages, Return, Returns, fetch, Typing, FlushTypes
  <1> QED
    BY <1>2, <1>3, <1>4, <1>5, <1>6 DEF FeederStep

LEMMA StagesWorker ==
  ASSUME Typing, Stages, NEW w \in Workers, WorkerStep(w)
  PROVE  Stages'
  <1>1. UNCHANGED <<run, result, fed, workClosed, updatesClosed, writer, buf, flushing, writerDone>>
    BY Frames DEF feeder, writing
  <1>2. worker \in [Workers -> Task]
    BY DEF Typing, WorkerTypes
  <1>3. \A v \in Workers \ {w} : worker'[v] = worker[v]
    BY <1>2 DEF WorkerStep, Take, Fetch, FetchFails, Send, WorkerExit
  <1>4. worker'[w].phase = "exited" => workClosed /\ work = <<>>
    <2>1. CASE WorkerExit(w)
      BY <2>1 DEF WorkerExit
    <2>2. CASE Take(w) \/ Send(w)
      <3>1. PICK h : worker' = [worker EXCEPT ![w] = [Idle EXCEPT !.phase = "fetching", !.addr = h]]
                     \/ worker' = [worker EXCEPT ![w] = Idle]
        BY <2>2 DEF Take, Send
      <3>2. Idle.phase = "idle" /\ [Idle EXCEPT !.phase = "fetching", !.addr = h].phase = "fetching"
        BY DEF Idle
      <3> QED
        BY <1>2, <3>1, <3>2
    <2>3. CASE Fetch(w)
      BY <1>2, <2>3 DEF Fetch, Task
    <2>4. CASE FetchFails(w)
      <3>1. worker[w].phase = "fetching" /\ worker[w] \in Task /\ Idle.phase = "idle"
        BY <1>2, <2>4 DEF FetchFails, Idle
      <3>2. worker' = [worker EXCEPT ![w].tries = @ + 1] \/ worker' = [worker EXCEPT ![w] = Idle]
        BY <2>4 DEF FetchFails
      <3>3. CASE worker' = [worker EXCEPT ![w].tries = @ + 1]
        BY <1>2, <3>1, <3>3 DEF Task
      <3>4. CASE worker' = [worker EXCEPT ![w] = Idle]
        BY <1>2, <3>1, <3>4
      <3> QED
        BY <3>2, <3>3, <3>4
    <2> QED
      BY <2>1, <2>2, <2>3, <2>4 DEF WorkerStep
  <1>5. work' = work \/ work # <<>>
    BY DEF WorkerStep, Take, Fetch, FetchFails, Send, WorkerExit
  <1>6. \A v \in Workers : worker'[v].phase = "exited" => workClosed' /\ work' = <<>>
    <2>1. CASE work' = work
      BY <1>1, <1>3, <1>4, <2>1 DEF Stages
    <2>2. CASE work # <<>>
      BY <1>3, <1>4, <2>2 DEF Stages
    <2> QED
      BY <1>5, <2>1, <2>2
  <1> QED
    BY <1>1, <1>6 DEF Stages

LEMMA StagesWriter == Typing /\ Stages /\ UpdateWriterStep => Stages'
  <1> SUFFICES ASSUME Typing, Stages, UpdateWriterStep PROVE Stages'
    OBVIOUS
  <1>1. UNCHANGED <<run, result, fed, work, workClosed, worker, updatesClosed>>
    BY Frames DEF feeder, fetch
  <1>2. CASE Receive
    BY <1>1, <1>2 DEF Stages, Receive
  <1>3. CASE LastFlush
    BY <1>1, <1>3 DEF Stages, LastFlush, Typing, FlushTypes
  <1>4. CASE BeginFlush
    BY <1>1, <1>4 DEF Stages, BeginFlush
  <1>5. CASE EndFlush
    BY <1>1, <1>5 DEF Stages, EndFlush, Typing, FlushTypes
  <1>6. CASE FlushFails
    BY <1>1, <1>6 DEF Stages, FlushFails
  <1>7. CASE Drain
    BY <1>1, <1>7 DEF Stages, Drain
  <1> QED
    BY <1>2, <1>3, <1>4, <1>5, <1>6, <1>7 DEF UpdateWriterStep

LEMMA StagesInductive == Typing /\ Stages /\ [ReconcileNext]_reconcileVars => Stages'
  <1> SUFFICES ASSUME Typing, Stages, [ReconcileNext]_reconcileVars PROVE Stages'
    OBVIOUS
  <1>1. CASE Produce \/ Finalize \/ SyncNextBlock \/ UNCHANGED reconcileVars
    <2>1. UNCHANGED <<feeder, fetch, updatesClosed, writing>>
      BY <1>1, Frames DEF reconcileVars
    <2> QED
      BY <2>1 DEF Stages, feeder, fetch, writing
  <1> QED
    BY <1>1, StagesFeeder, StagesWorker, StagesWriter DEF ReconcileNext

----------------------------------------------------------------------------
(* Every address is in one place.                                          *)

\* The addresses that left the work channel are those up to Taken: the feeder
\* sends them in order. Each is in the hands of a worker, in the updates
\* channel, in the writer's buffer, written or given up.
Taken == fed - Len(work)
Held == {worker[w].addr : w \in {v \in Workers : Busy(v)}}
AddrsOf(s) == {s[i].addr : i \in DOMAIN s}
Distinct(s) == \A i, j \in DOMAIN s : s[i].addr = s[j].addr => i = j
Sent == AddrsOf(updates)
Buffered == AddrsOf(buf)
Written == {a \in Known : readAt[a] # NotWritten}

InOrder ==
  /\ \A i \in DOMAIN work : work[i] = Taken + i
  /\ \A v, w \in Workers : Busy(v) /\ Busy(w) /\ worker[v].addr = worker[w].addr => v = w
  /\ Distinct(updates)

InOnePlace ==
  /\ Held \cup Sent \cup Buffered \cup Written \cup failed \subseteq 1 .. Taken
  /\ Held \cap (Sent \cup Buffered \cup Written \cup failed) = {}
  /\ Sent \cap (Buffered \cup Written \cup failed) = {}
  /\ Buffered \cap (Written \cup failed) = {}
  /\ Written \cap failed = {}

\* Only a failed flush loses updates.
NoneLost ==
  writerDone # "error" => 1 .. Taken \subseteq Held \cup Sent \cup Buffered \cup Written \cup failed

Places == InOrder /\ InOnePlace /\ NoneLost

LEMMA AddrsAppend ==
  ASSUME NEW s \in Seq(Update), NEW u \in Update
  PROVE  /\ AddrsOf(Append(s, u)) = AddrsOf(s) \cup {u.addr}
         /\ Distinct(s) /\ u.addr \notin AddrsOf(s) => Distinct(Append(s, u))
  <1> DEFINE t == Append(s, u)
  <1>1. /\ Len(s) \in Nat /\ DOMAIN s = 1 .. Len(s) /\ DOMAIN t = 1 .. Len(s) + 1
        /\ \A i \in 1 .. Len(s) : t[i] = s[i]
        /\ t[Len(s) + 1] = u
    BY LenProperties, AppendProperties
  <1> HIDE DEF t
  <1>2. \A i \in DOMAIN t : i \in DOMAIN s \/ i = Len(s) + 1
    BY <1>1
  <1>3. DOMAIN s \subseteq DOMAIN t /\ Len(s) + 1 \in DOMAIN t
    BY <1>1
  <1>4. AddrsOf(t) = AddrsOf(s) \cup {u.addr}
    BY <1>1, <1>2, <1>3 DEF AddrsOf
  <1>5. ASSUME Distinct(s), u.addr \notin AddrsOf(s)
        PROVE  Distinct(t)
    BY <1>1, <1>2, <1>5 DEF Distinct, AddrsOf
  <1> QED
    BY <1>4, <1>5 DEF t

LEMMA AddrsTail ==
  ASSUME NEW s \in Seq(Update), s # <<>>
  PROVE  /\ Head(s) \in Update /\ Tail(s) \in Seq(Update)
         /\ AddrsOf(s) = AddrsOf(Tail(s)) \cup {Head(s).addr}
         /\ Distinct(s) => Distinct(Tail(s)) /\ Head(s).addr \notin AddrsOf(Tail(s))
  <1> DEFINE t == Tail(s)
  <1>1. /\ Head(s) \in Update /\ t \in Seq(Update) /\ Head(s) = s[1]
        /\ Len(s) \in Nat /\ Len(s) >= 1 /\ DOMAIN s = 1 .. Len(s) /\ DOMAIN t = 1 .. Len(s) - 1
        /\ \A i \in DOMAIN t : t[i] = s[i + 1]
    BY LenProperties, HeadTailProperties, EmptySeq
  <1> HIDE DEF t
  <1>2. \A i \in DOMAIN t : i + 1 \in DOMAIN s /\ i + 1 # 1
    BY <1>1
  <1>3. \A i \in DOMAIN s : i = 1 \/ (i - 1 \in DOMAIN t /\ t[i - 1] = s[i])
    BY <1>1
  <1>4. 1 \in DOMAIN s
    BY <1>1
  <1>5. AddrsOf(s) = AddrsOf(t) \cup {Head(s).addr}
    BY <1>1, <1>2, <1>3, <1>4 DEF AddrsOf
  <1>6. ASSUME Distinct(s)
        PROVE  Distinct(t) /\ Head(s).addr \notin AddrsOf(t)
    <2>1. Head(s).addr \notin AddrsOf(t)
      BY <1>1, <1>2, <1>4, <1>6 DEF Distinct, AddrsOf
    <2>2. ASSUME NEW i \in DOMAIN t, NEW j \in DOMAIN t, t[i].addr = t[j].addr
          PROVE  i = j
      <3>1. i + 1 = j + 1
        BY <1>1, <1>2, <1>6, <2>2 DEF Distinct
      <3> QED
        BY <1>1, <3>1
    <2> QED
      BY <2>1, <2>2 DEF Distinct
  <1> QED
    BY <1>1, <1>5, <1>6 DEF t

LEMMA EmptyAddrs == AddrsOf(<<>>) = {} /\ Distinct(<<>>)
  BY DEF AddrsOf, Distinct

LEMMA PlacesInit == ReconcileInit => Places
  <1> SUFFICES ASSUME ReconcileInit PROVE Places
    OBVIOUS
  <1>1. /\ work = <<>> /\ updates = <<>> /\ buf = <<>> /\ fed = 0 /\ failed = {}
        /\ worker = [w \in Workers |-> Idle] /\ readAt = [a \in Known |-> NotWritten]
    BY DEF ReconcileInit
  <1>2. Taken = 0
    <2>1. fed = 0 /\ Len(work) = 0
      BY <1>1, EmptySeq
    <2> QED
      BY <2>1 DEF Taken
  <1>3. \A w \in Workers : ~Busy(w)
    BY <1>1 DEF Busy, Idle
  <1>4. Held = {} /\ Sent = {} /\ Buffered = {} /\ Written = {}
    BY <1>1, <1>3, EmptyAddrs DEF Held, Sent, Buffered, Written
  <1>5. InOrder
    BY <1>1, <1>3, EmptyAddrs DEF InOrder
  <1>6. InOnePlace /\ NoneLost
    BY <1>1, <1>2, <1>4 DEF InOnePlace, NoneLost
  <1> QED
    BY <1>5, <1>6 DEF Places

\* A step that moves no address.
LEMMA PlacesKept ==
  ASSUME Places, UNCHANGED <<work, fed, worker, updates, buf, readAt, failed>>,
         writerDone' # "error" => writerDone # "error"
  PROVE  Places'
  <1>1. /\ Taken' = Taken /\ Held' = Held /\ Sent' = Sent /\ Buffered' = Buffered
        /\ Written' = Written
    BY DEF Taken, Held, Sent, Buffered, Written, Busy
  <1>2. InOrder'
    BY <1>1 DEF Places, InOrder, Busy
  <1> QED
    BY <1>1, <1>2 DEF Places, InOnePlace, NoneLost

\* The feeder sends the next address.
LEMMA PlacesFeed ==
  ASSUME Typing, Places, Feed
  PROVE  Places'
  <1>1. /\ work \in Seq(Known) /\ work' = Append(work, fed + 1) /\ fed' = fed + 1
        /\ fed \in Nat /\ fed + 1 \in Known
    BY Bounds DEF Feed, Typing, FeederTypes, WorkTypes, Known
  <1>2. /\ Len(work) \in Nat /\ DOMAIN work = 1 .. Len(work)
        /\ DOMAIN work' = 1 .. Len(work) + 1 /\ Len(work') = Len(work) + 1
        /\ \A i \in 1 .. Len(work) : work'[i] = work[i]
        /\ work'[Len(work) + 1] = fed + 1
    BY <1>1, LenProperties, AppendProperties
  <1>3. Taken' = Taken /\ Taken + Len(work) = fed
    BY <1>1, <1>2 DEF Taken
  <1>4. UNCHANGED <<worker, updates, buf, readAt, failed, writerDone>>
    BY DEF Feed, writing, stored
  <1>5. Held' = Held /\ Sent' = Sent /\ Buffered' = Buffered /\ Written' = Written
    BY <1>4 DEF Held, Sent, Buffered, Written, Busy
  <1>6. \A i \in DOMAIN work' : work'[i] = Taken' + i
    <2>1. Taken \in Int
      BY <1>1, <1>2 DEF Taken
    <2>2. \A i \in DOMAIN work : work[i] = Taken + i
      BY DEF Places, InOrder
    <2> QED
      BY <1>1, <1>2, <1>3, <2>1, <2>2
  <1>7. InOrder'
    BY <1>4, <1>6 DEF Places, InOrder, Busy
  <1> QED
    BY <1>3, <1>4, <1>5, <1>7 DEF Places, InOnePlace, NoneLost

\* The addresses in the hands of the workers when one of them changes.
OneEach ==
  \A v, w \in Workers : Busy(v) /\ Busy(w) /\ worker[v].addr = worker[w].addr => v = w

LEMMA HeldMore ==
  ASSUME WorkerTypes, OneEach, NEW w \in Workers, NEW t, worker' = [worker EXCEPT ![w] = t],
         ~Busy(w), t.phase \in {"fetching", "sending"}, t.addr \notin Held
  PROVE  OneEach' /\ Held' = Held \cup {t.addr}
  <1>1. /\ worker'[w] = t /\ \A v \in Workers \ {w} : worker'[v] = worker[v]
        /\ Busy(w)'
    BY DEF WorkerTypes, Busy
  <1>2. \A v \in Workers \ {w} : (Busy(v)' <=> Busy(v)) /\ (Busy(v) => worker[v].addr # t.addr)
    BY <1>1 DEF Busy, Held
  <1>3. OneEach'
    BY <1>1, <1>2 DEF OneEach
  <1>4. Held' = Held \cup {t.addr}
    BY <1>1, <1>2 DEF Held
  <1> QED
    BY <1>3, <1>4

LEMMA HeldSame ==
  ASSUME WorkerTypes, OneEach, NEW w \in Workers, NEW t, worker' = [worker EXCEPT ![w] = t],
         Busy(w) <=> t.phase \in {"fetching", "sending"},
         Busy(w) => t.addr = worker[w].addr
  PROVE  OneEach' /\ Held' = Held
  <1>1. worker'[w] = t /\ \A v \in Workers \ {w} : worker'[v] = worker[v]
    BY DEF WorkerTypes
  <1>2. \A v \in Workers : (Busy(v)' <=> Busy(v)) /\ (Busy(v) => worker'[v].addr = worker[v].addr)
    BY <1>1 DEF Busy
  <1>3. OneEach'
    BY <1>2 DEF OneEach
  <1>4. Held' = Held
    BY <1>2 DEF Held
  <1> QED
    BY <1>3, <1>4

LEMMA HeldLess ==
  ASSUME WorkerTypes, OneEach, NEW w \in Workers, worker' = [worker EXCEPT ![w] = Idle], Busy(w)
  PROVE  /\ OneEach' /\ Held' = Held \ {worker[w].addr}
         /\ worker[w].addr \in Held
  <1>1. worker'[w] = Idle /\ \A v \in Workers \ {w} : worker'[v] = worker[v]
    BY DEF WorkerTypes
  <1>2. ~Busy(w)' /\ \A v \in Workers \ {w} : Busy(v)' <=> Busy(v)
    BY <1>1 DEF Busy, Idle
  <1>3. OneEach'
    BY <1>1, <1>2 DEF OneEach
  <1>4. \A v \in Workers \ {w} : Busy(v) => worker[v].addr # worker[w].addr
    BY DEF OneEach
  <1>5. Held' = Held \ {worker[w].addr}
    BY <1>1, <1>2, <1>4 DEF Held
  <1> QED
    BY <1>3, <1>5 DEF Held

\* A worker takes the oldest address in the channel, the next one to be taken.
LEMMA PlacesTake ==
  ASSUME Typing, Places, NEW w \in Workers, Take(w)
  PROVE  Places'
  <1> DEFINE h == Head(work)
             t == [Idle EXCEPT !.phase = "fetching", !.addr = h]
  <1>1. /\ work \in Seq(Known) /\ work # <<>> /\ work' = Tail(work) /\ fed \in Nat
        /\ worker' = [worker EXCEPT ![w] = t] /\ worker[w].phase = "idle"
    BY Bounds DEF Take, Typing, FeederTypes, WorkTypes
  <1>2. /\ h = work[1] /\ h \in Known
        /\ Len(work) \in Nat /\ Len(work) >= 1 /\ DOMAIN work = 1 .. Len(work)
        /\ Len(work') = Len(work) - 1 /\ DOMAIN work' = 1 .. Len(work) - 1
        /\ \A i \in DOMAIN work' : work'[i] = work[i + 1]
    BY <1>1, LenProperties, HeadTailProperties, EmptySeq
  <1>3. UNCHANGED <<fed, updates, buf, readAt, failed, writerDone>>
    BY DEF Take, feeder, writing, stored
  <1>4. Taken \in Int /\ Taken' = Taken + 1
    BY <1>1, <1>2, <1>3 DEF Taken
  <1>5. h = Taken + 1 /\ Taken \in Nat
    <2>1. h = Taken + 1
      BY <1>2 DEF Places, InOrder
    <2> QED
      BY <1>2, <1>4, <2>1, Bounds DEF Known
  <1>6. \A i \in DOMAIN work' : work'[i] = Taken' + i
    <2>1. \A i \in DOMAIN work' : i \in Nat /\ i + 1 \in DOMAIN work
      BY <1>2
    <2>2. \A i \in DOMAIN work : work[i] = Taken + i
      BY DEF Places, InOrder
    <2> QED
      BY <1>2, <1>4, <2>1, <2>2
  <1>7. t.phase = "fetching" /\ t.addr = h
    BY DEF Idle
  <1> HIDE DEF h, t
  <1>8. OneEach' /\ Held' = Held \cup {h}
    <2>1. h \notin Held
      BY <1>5 DEF Places, InOnePlace
    <2>2. WorkerTypes /\ OneEach /\ ~Busy(w)
      BY <1>1 DEF Typing, Places, InOrder, OneEach, Busy
    <2> QED
      BY <1>1, <1>7, <2>1, <2>2, HeldMore
  <1>9. Sent' = Sent /\ Buffered' = Buffered /\ Written' = Written
    BY <1>3 DEF Sent, Buffered, Written
  <1>10. InOrder'
    BY <1>3, <1>6, <1>8 DEF Places, InOrder, OneEach
  <1>11. h \notin Sent \cup Buffered \cup Written \cup failed
    BY <1>5 DEF Places, InOnePlace
  <1>12. 1 .. Taken' = (1 .. Taken) \cup {h}
    BY <1>4, <1>5
  <1>13. InOnePlace' /\ NoneLost'
    BY <1>3, <1>8, <1>9, <1>11, <1>12 DEF Places, InOnePlace, NoneLost
  <1> QED
    BY <1>10, <1>13 DEF Places

\* Fetching, trying again and returning: the address stays where it is.
LEMMA PlacesFetch ==
  ASSUME Typing, Places, NEW w \in Workers,
         \/ Fetch(w) \/ WorkerExit(w)
         \/ FetchFails(w) /\ failed' = failed /\ worker[w].tries + 1 < MaxRetries
  PROVE  Places'
  <1>1. UNCHANGED <<work, fed, updates, buf, readAt, failed, writerDone>>
    BY DEF Fetch, WorkerExit, FetchFails, feeder, writing, stored
  <1>2. worker \in [Workers -> Task] /\ worker[w] \in Task
    BY DEF Typing, WorkerTypes
  <1>3. PICK t : /\ worker' = [worker EXCEPT ![w] = t] /\ t.addr = worker[w].addr
                 /\ Busy(w) <=> t.phase \in {"fetching", "sending"}
    <2>1. CASE Fetch(w)
      <3>1. PICK answer \in {"balance", "failedCall"} :
              worker' = [worker EXCEPT ![w].phase = "sending", ![w].answer = answer, ![w].at = nodeHead,
                           ![w].value = IF answer = "balance" THEN Chain[nodeHead][worker[w].addr] ELSE 0]
        BY <2>1 DEF Fetch
      <3> DEFINE v == IF answer = "balance" THEN Chain[nodeHead][worker[w].addr] ELSE 0
                 t == [worker[w] EXCEPT !.phase = "sending", !.answer = answer, !.at = nodeHead, !.value = v]
      <3>2. t.phase = "sending" /\ t.addr = worker[w].addr
        BY <1>2 DEF Task
      <3>3. worker' = [worker EXCEPT ![w] = t]
        BY <1>2, <3>1
      <3>4. Busy(w)
        BY <2>1 DEF Fetch, Busy
      <3> HIDE DEF t
      <3> QED
        BY <3>2, <3>3, <3>4
    <2>2. CASE WorkerExit(w)
      <3> DEFINE t == [worker[w] EXCEPT !.phase = "exited"]
      <3>1. t.phase = "exited" /\ t.addr = worker[w].addr
        BY <1>2 DEF Task
      <3>2. worker' = [worker EXCEPT ![w] = t] /\ ~Busy(w)
        BY <1>2, <2>2 DEF WorkerExit, Busy
      <3> HIDE DEF t
      <3> QED
        BY <3>1, <3>2
    <2>3. CASE FetchFails(w) /\ worker[w].tries + 1 < MaxRetries
      <3> DEFINE t == [worker[w] EXCEPT !.tries = @ + 1]
      <3>1. t.phase = worker[w].phase /\ t.addr = worker[w].addr
        BY <1>2 DEF Task
      <3>2. worker' = [worker EXCEPT ![w] = t]
        BY <1>2, <2>3 DEF FetchFails
      <3> HIDE DEF t
      <3> QED
        BY <3>1, <3>2 DEF Busy
    <2> QED
      BY <2>1, <2>2, <2>3
  <1>4. OneEach' /\ Held' = Held
    <2>1. WorkerTypes /\ OneEach
      BY DEF Typing, Places, InOrder, OneEach
    <2> QED
      BY <1>3, <2>1, HeldSame
  <1>5. Taken' = Taken /\ Sent' = Sent /\ Buffered' = Buffered /\ Written' = Written
    BY <1>1 DEF Taken, Sent, Buffered, Written
  <1>6. InOrder'
    BY <1>1, <1>4, <1>5 DEF Places, InOrder, OneEach
  <1> QED
    BY <1>1, <1>4, <1>5, <1>6 DEF Places, InOnePlace, NoneLost

\* The last attempt has failed: from the worker to the failed ones.
LEMMA PlacesGiveUp ==
  ASSUME Typing, Places, NEW w \in Workers, FetchFails(w), ~(worker[w].tries + 1 < MaxRetries)
  PROVE  Places'
  <1> DEFINE a == worker[w].addr
  <1>1. /\ worker' = [worker EXCEPT ![w] = Idle] /\ failed' = failed \cup {a} /\ Busy(w)
        /\ UNCHANGED <<work, fed, updates, buf, readAt, writerDone>>
    BY DEF FetchFails, Busy, feeder, writing, stored
  <1>2. OneEach' /\ Held' = Held \ {a} /\ a \in Held
    <2>1. WorkerTypes /\ OneEach
      BY DEF Typing, Places, InOrder, OneEach
    <2> QED
      BY <1>1, <2>1, HeldLess
  <1> HIDE DEF a
  <1>3. Taken' = Taken /\ Sent' = Sent /\ Buffered' = Buffered /\ Written' = Written
    BY <1>1 DEF Taken, Sent, Buffered, Written
  <1>4. InOrder'
    BY <1>1, <1>2, <1>3 DEF Places, InOrder, OneEach
  <1>5. a \in 1 .. Taken /\ a \notin Sent \cup Buffered \cup Written \cup failed
    BY <1>2 DEF Places, InOnePlace
  <1> QED
    BY <1>1, <1>2, <1>3, <1>4, <1>5 DEF Places, InOnePlace, NoneLost

\* From the worker into the updates channel.
LEMMA PlacesSend ==
  ASSUME Typing, Places, NEW w \in Workers, Send(w)
  PROVE  Places'
  <1> DEFINE a == worker[w].addr
  <1>1. /\ worker' = [worker EXCEPT ![w] = Idle] /\ Busy(w)
        /\ updates' = Append(updates, Result(w))
        /\ UNCHANGED <<work, fed, buf, readAt, failed, writerDone>>
    BY DEF Send, Result, Busy, feeder, writing, stored
  <1>2. Result(w) \in Update /\ Result(w).addr = a /\ updates \in Seq(Update)
    BY <1>1, ResultType DEF Result, Typing, UpdateTypes
  <1>3. OneEach' /\ Held' = Held \ {a} /\ a \in Held
    <2>1. WorkerTypes /\ OneEach
      BY DEF Typing, Places, InOrder, OneEach
    <2> QED
      BY <1>1, <2>1, HeldLess
  <1> HIDE DEF a
  <1>4. a \in 1 .. Taken /\ a \notin Sent \cup Buffered \cup Written \cup failed
    BY <1>3 DEF Places, InOnePlace
  <1>5. Sent' = Sent \cup {a} /\ Distinct(updates')
    BY <1>1, <1>2, <1>4, AddrsAppend DEF Sent, Places, InOrder
  <1>6. Taken' = Taken /\ Buffered' = Buffered /\ Written' = Written
    BY <1>1 DEF Taken, Buffered, Written
  <1>7. InOrder'
    BY <1>1, <1>3, <1>5, <1>6 DEF Places, InOrder, OneEach
  <1> QED
    BY <1>1, <1>3, <1>4, <1>5, <1>6, <1>7 DEF Places, InOnePlace, NoneLost

\* From the channel into the buffer.
LEMMA PlacesReceive ==
  ASSUME Typing, Places, Receive
  PROVE  Places'
  <1> DEFINE u == Head(updates)
  <1>1. /\ updates # <<>> /\ updates' = Tail(updates) /\ buf' = Append(buf, u)
        /\ UNCHANGED <<work, fed, worker, readAt, failed, writerDone>>
    BY DEF Receive, feeder, fetch, stored
  <1>2. updates \in Seq(Update) /\ buf \in Seq(Update) /\ Distinct(updates)
    BY DEF Typing, UpdateTypes, BufferTypes, Places, InOrder
  <1>3. /\ u \in Update /\ Distinct(updates')
        /\ Sent = Sent' \cup {u.addr} /\ u.addr \notin Sent'
    BY <1>1, <1>2, AddrsTail DEF Sent
  <1>4. Buffered' = Buffered \cup {u.addr}
    BY <1>1, <1>2, <1>3, AddrsAppend DEF Buffered
  <1> HIDE DEF u
  <1>5. Taken' = Taken /\ Held' = Held /\ Written' = Written
    BY <1>1 DEF Taken, Held, Written, Busy
  <1>6. InOrder'
    BY <1>1, <1>3, <1>5 DEF Places, InOrder, Busy
  <1> QED
    BY <1>1, <1>3, <1>4, <1>5, <1>6 DEF Places, InOnePlace, NoneLost

\* A flush writes the buffer and nothing else.
LEMMA FlushWrites ==
  ASSUME Typing, EndFlush
  PROVE  Written' = Written \cup (Buffered \cap Known) /\ Buffered' = {}
  <1>1. \A a \in Known : InBuffer(a) # {} <=> a \in Buffered
    BY DEF InBuffer, Buffered, AddrsOf
  <1>2. \A a \in Known : InBuffer(a) # {} => Flushed(a).at # NotWritten
    <2>1. \A v \in Update : v.at # NotWritten
      BY HeightFacts, Bounds DEF Update, NotWritten
    <2> QED
      BY <2>1, FlushedFacts DEF Typing
  <1>3. \A a \in Known : readAt'[a] = IF InBuffer(a) # {} THEN Flushed(a).at ELSE readAt[a]
    BY DEF EndFlush
  <1>4. Buffered' = {}
    BY EmptyAddrs DEF EndFlush, Buffered
  <1> QED
    BY <1>1, <1>2, <1>3, <1>4 DEF Written

LEMMA PlacesEndFlush ==
  ASSUME Typing, Stages, Places, EndFlush
  PROVE  Places'
  <1>1. /\ UNCHANGED <<work, fed, worker, updates, failed>>
        /\ writerDone' \in {writerDone, "ok"}
    BY DEF EndFlush, feeder, fetch
  <1>2. Buffered \subseteq Known
    <2>1. buf \in Seq(Update)
      BY DEF Typing, BufferTypes
    <2>2. \A i \in DOMAIN buf : buf[i] \in Update
      BY <2>1, LenProperties, ElementOfSeq
    <2> QED
      BY <2>2 DEF Buffered, AddrsOf, Update
  <1>3. Written' = Written \cup Buffered /\ Buffered' = {}
    BY <1>2, FlushWrites
  <1>4. Taken' = Taken /\ Held' = Held /\ Sent' = Sent
    BY <1>1 DEF Taken, Held, Sent, Busy
  <1>5. InOrder'
    BY <1>1, <1>4 DEF Places, InOrder, Busy
  <1>6. writerDone # "error"
    BY DEF EndFlush, Stages
  <1> QED
    BY <1>1, <1>3, <1>4, <1>5, <1>6 DEF Places, InOnePlace, NoneLost

\* After a failed flush the rest of the channel is drained.
LEMMA PlacesDrain ==
  ASSUME Typing, Stages, Places, Drain
  PROVE  Places'
  <1>1. /\ UNCHANGED <<work, fed, worker, buf, readAt, failed, writerDone>>
        /\ updates' = updates \/ (updates # <<>> /\ updates' = Tail(updates))
    BY DEF Drain, feeder, fetch, stored
  <1>2. writerDone = "error"
    BY DEF Drain, Stages, Typing, FlushTypes
  <1>3. CASE updates' = updates
    BY <1>1, <1>3, PlacesKept
  <1>4. CASE updates # <<>> /\ updates' = Tail(updates)
    <2>1. updates \in Seq(Update) /\ Distinct(updates)
      BY DEF Typing, UpdateTypes, Places, InOrder
    <2>2. Distinct(updates') /\ Sent' \subseteq Sent
      BY <1>4, <2>1, AddrsTail DEF Sent
    <2>3. Taken' = Taken /\ Held' = Held /\ Buffered' = Buffered /\ Written' = Written
      BY <1>1 DEF Taken, Held, Buffered, Written, Busy
    <2>4. InOrder'
      BY <1>1, <2>2, <2>3 DEF Places, InOrder, Busy
    <2> QED
      BY <1>1, <1>2, <2>2, <2>3, <2>4 DEF Places, InOnePlace, NoneLost
  <1> QED
    BY <1>1, <1>3, <1>4

\* The other steps move no address. A failed flush leaves the buffer behind and
\* says so; only LastFlush reports that all is well, and no error came before.
LEMMA PlacesElse ==
  ASSUME Stages, Places,
         \/ FeederStep /\ ~Feed
         \/ LastFlush \/ BeginFlush \/ FlushFails
         \/ Produce \/ Finalize \/ SyncNextBlock \/ UNCHANGED reconcileVars
  PROVE  Places'
  <1>1. UNCHANGED <<work, fed, worker, updates, buf, readAt, failed>>
    BY DEF FeederStep, Count, List, Listed, ListFails, CloseWork, CloseUpdates, Return, LastFlush,
           BeginFlush, FlushFails, Produce, Finalize, SyncNextBlock, reconcileVars, feeder, fetch,
           writing, stored
  <1>2. writerDone' # "error" => writerDone # "error"
    <2>1. CASE LastFlush
      BY <2>1 DEF LastFlush, Stages
    <2>2. CASE ~LastFlush
      BY <2>2 DEF FeederStep, Count, List, Listed, ListFails, CloseWork, CloseUpdates, Return,
                  BeginFlush, FlushFails, Produce, Finalize, SyncNextBlock, reconcileVars, writing
    <2> QED
      BY <2>1, <2>2
  <1> QED
    BY <1>1, <1>2, PlacesKept

LEMMA PlacesInductive ==
  ASSUME Typing, Stages, Places, [ReconcileNext]_reconcileVars
  PROVE  Places'
  <1>1. ASSUME NEW w \in Workers, WorkerStep(w)
        PROVE  Places'
    <2>1. CASE FetchFails(w)
      <3>1. CASE worker[w].tries + 1 < MaxRetries
        BY <2>1, <3>1, PlacesFetch DEF FetchFails
      <3>2. CASE ~(worker[w].tries + 1 < MaxRetries)
        BY <2>1, <3>2, PlacesGiveUp
      <3> QED
        BY <3>1, <3>2
    <2> QED
      BY <1>1, <2>1, PlacesTake, PlacesFetch, PlacesSend DEF WorkerStep
  <1>2. CASE UpdateWriterStep
    BY <1>2, PlacesReceive, PlacesEndFlush, PlacesDrain, PlacesElse DEF UpdateWriterStep
  <1>3. CASE FeederStep
    BY <1>3, PlacesFeed, PlacesElse
  <1> QED
    BY <1>1, <1>2, <1>3, PlacesElse DEF ReconcileNext

\* Where InHand finds an address.
LEMMA HandFacts ==
  ASSUME Typing, Places, NEW a \in Known
  PROVE  InHand(a) <=> a \in Held \cup Sent \cup Buffered \/ (Taken < a /\ a <= fed)
  <1>1. /\ (\E w \in Workers : worker[w].phase \in {"fetching", "sending"} /\ worker[w].addr = a)
             <=> a \in Held
        /\ (\E i \in DOMAIN updates : updates[i].addr = a) <=> a \in Sent
        /\ (\E i \in DOMAIN buf : buf[i].addr = a) <=> a \in Buffered
    BY DEF Held, Busy, Sent, Buffered, AddrsOf
  <1>2. (\E i \in DOMAIN work : work[i] = a) <=> Taken < a /\ a <= fed
    <2>1. /\ work \in Seq(Known) /\ fed \in Nat /\ a \in Nat
          /\ Len(work) \in Nat /\ DOMAIN work = 1 .. Len(work) /\ fed = Taken + Len(work)
          /\ Taken \in Int
      BY LenProperties, Bounds DEF Typing, FeederTypes, WorkTypes, Taken, Known
    <2>2. \A i \in DOMAIN work : work[i] = Taken + i
      BY DEF Places, InOrder
    <2>3. ASSUME Taken < a, a <= fed
          PROVE  a - Taken \in DOMAIN work /\ work[a - Taken] = a
      <3>1. a - Taken \in 1 .. Len(work)
        BY <2>1, <2>3
      <3>2. work[a - Taken] = Taken + (a - Taken)
        BY <2>1, <2>2, <3>1
      <3> QED
        BY <2>1, <3>1, <3>2
    <2>4. ASSUME NEW i \in DOMAIN work, work[i] = a
          PROVE  Taken < a /\ a <= fed
      <3>1. i \in 1 .. Len(work) /\ a = Taken + i
        BY <2>1, <2>2, <2>4
      <3> QED
        BY <2>1, <3>1
    <2> QED
      BY <2>3, <2>4
  <1> QED
    BY <1>1, <1>2 DEF InHand

\* When Run has returned without an error of the store, everything has been
\* taken, and no channel, worker or buffer holds an address; when it has returned
\* from a listing, every address is still in one place.
LEMMA PlacesSettle ==
  ASSUME Typing, Closing, Stages, Places
  PROVE  EveryAddressSettled
  <1>1. ASSUME result \in {"ok", "tooManyErrors"}
        PROVE  Written = Known \ failed
    <2>1. writerDone = "ok" /\ writer = "exited" /\ buf = <<>>
      BY <1>1 DEF Stages
    <2>2. updatesClosed /\ updates = <<>> /\ \A w \in Workers : worker[w].phase = "exited"
      BY <2>1 DEF Closing
    <2>3. Held = {} /\ Sent = {} /\ Buffered = {}
      BY <2>1, <2>2, EmptyAddrs DEF Held, Busy, Sent, Buffered
    <2>4. work = <<>> /\ fed = Total
      BY <2>2, ReconcileAssumption DEF Stages
    <2>5. 1 .. Taken = Known
      <3>1. Len(work) = 0
        BY <2>4, EmptySeq
      <3> QED
        BY <2>4, <3>1, Bounds DEF Taken, Known
    <2> QED
      BY <2>1, <2>3, <2>5 DEF Places, InOnePlace, NoneLost
  <1>2. ASSUME NEW a \in Known
        PROVE  /\ a \in failed => readAt[a] = NotWritten
               /\ InHand(a) => a \notin failed /\ readAt[a] = NotWritten
               /\ writerDone # "error" => (a <= fed <=> InHand(a) \/ a \in failed \/ readAt[a] # NotWritten)
    <2>1. a \in Written <=> readAt[a] # NotWritten
      BY DEF Written
    <2>2. /\ a \in 1 .. Taken <=> a <= Taken
          /\ Taken \in Int /\ Taken <= fed /\ fed \in Nat /\ a \in Nat
      BY LenProperties, Bounds DEF Typing, FeederTypes, WorkTypes, Taken, Known
    <2>3. InHand(a) <=> a \in Held \cup Sent \cup Buffered \/ (Taken < a /\ a <= fed)
      BY HandFacts
    <2>4. /\ a \in Held \cup Sent \cup Buffered \cup Written \cup failed => a <= Taken
          /\ a \in Held \cup Sent \cup Buffered => a \notin Written /\ a \notin failed
          /\ ~(a \in Written /\ a \in failed)
      BY <2>2 DEF Places, InOnePlace
    <2>5. writerDone # "error" => (a <= Taken => a \in Held \cup Sent \cup Buffered \cup Written \cup failed)
      BY <2>2 DEF Places, NoneLost
    <2>6. InHand(a) => a \notin Written /\ a \notin failed
      BY <2>2, <2>3, <2>4
    <2>7. a <= fed <=> a <= Taken \/ (Taken < a /\ a <= fed)
      BY <2>2
    <2>8. writerDone # "error" => (a <= fed <=> InHand(a) \/ a \in failed \/ a \in Written)
      BY <2>3, <2>4, <2>5, <2>7, Zenon
    <2> QED
      BY <2>1, <2>4, <2>6, <2>8
  <1> QED
    BY <1>1, <1>2 DEF EveryAddressSettled, Written, Typing, WorkerTypes

\* When Run returns without an error of the store, every known address has been
\* written or given up, and none is both; when it returns from a failed listing,
\* what was fed is written, given up or still in the hands of what it left behind.
THEOREM AllSettled == ReconcileSpec => []EveryAddressSettled
  <1> DEFINE Inv == Typing /\ Closing /\ Stages /\ Places
  <1>1. ReconcileInit => Inv
    BY TypingInit, ClosingInit, StagesInit, PlacesInit
  <1>2. Inv /\ [ReconcileNext]_reconcileVars => Inv'
    BY TypingInductive, ClosingInductive, StagesInductive, PlacesInductive
  <1>3. Inv => EveryAddressSettled
    BY PlacesSettle
  <1> QED
    BY <1>1, <1>2, <1>3, PTL DEF ReconcileSpec

----------------------------------------------------------------------------
(* What is written is right.                                               *)

\* An answer of the node's head is what the chain says there, or zero in place of
\* a failed call.
Right(u) ==
  /\ u.at >= Synced
  /\ u.value = IF u.answer = "balance" THEN Chain[u.at][u.addr] ELSE 0
AllRight(s) == \A i \in DOMAIN s : Right(s[i])

\* On the way to the store.
Carried ==
  /\ \A w \in Workers : worker[w].phase = "sending" => Right(worker[w])
  /\ AllRight(updates) /\ AllRight(buf)

\* What a balance that started from zero at the synced height lacks at height n:
\* the least the chain has had since.
Short(b, n, a) ==
  \E h \in Synced .. n : /\ b = Chain[n][a] - Chain[h][a]
                         /\ \A k \in Synced .. n : Chain[h][a] <= Chain[k][a]

\* In the store: while Run works the live sync stands still; after a listing that
\* failed a flush may come later than blocks of the sync.
StoredRight ==
  /\ run # "returned" => storeHeight = Synced
  /\ \A a \in Written : readAt[a] \in Synced .. LastBlock
  /\ result # "listFailed" =>
       /\ \A a \in zeroed : Short(balance[a], storeHeight, a)
       /\ \A a \in Written \ zeroed : Quiet(a, readAt[a]) => balance[a] = Chain[storeHeight][a]

LEMMA RightAppend ==
  ASSUME NEW s \in Seq(Update), NEW u, AllRight(s), Right(u)
  PROVE  AllRight(Append(s, u))
  <1>1. /\ Len(s) \in Nat /\ DOMAIN s = 1 .. Len(s) /\ DOMAIN Append(s, u) = 1 .. Len(s) + 1
        /\ \A i \in 1 .. Len(s) : Append(s, u)[i] = s[i]
        /\ Append(s, u)[Len(s) + 1] = u
    BY LenProperties
  <1>2. \A i \in DOMAIN Append(s, u) : i \in DOMAIN s \/ i = Len(s) + 1
    BY <1>1
  <1> QED
    BY <1>1, <1>2 DEF AllRight

LEMMA RightTail ==
  ASSUME NEW s \in Seq(Update), s # <<>>, AllRight(s)
  PROVE  AllRight(Tail(s)) /\ Right(Head(s))
  <1>1. /\ Head(s) = s[1] /\ Len(s) \in Nat /\ Len(s) >= 1
        /\ DOMAIN s = 1 .. Len(s) /\ DOMAIN Tail(s) = 1 .. Len(s) - 1
        /\ \A i \in DOMAIN Tail(s) : Tail(s)[i] = s[i + 1]
    BY LenProperties, HeadTailProperties, EmptySeq
  <1>2. 1 \in DOMAIN s /\ \A i \in DOMAIN Tail(s) : i + 1 \in DOMAIN s
    BY <1>1
  <1> QED
    BY <1>1, <1>2 DEF AllRight

LEMMA CarriedInit == ReconcileInit => Carried
  BY DEF ReconcileInit, Carried, AllRight, Idle

LEMMA CarriedWorker ==
  ASSUME Typing, Carried, NEW w \in Workers, WorkerStep(w)
  PROVE  Carried'
  <1>1. worker \in [Workers -> Task] /\ worker[w] \in Task
    BY DEF Typing, WorkerTypes
  <1>2. /\ buf' = buf
        /\ \A v \in Workers \ {w} : worker'[v] = worker[v]
    BY <1>1 DEF WorkerStep, Take, Fetch, FetchFails, Send, WorkerExit, writing
  <1>3. worker'[w].phase = "sending" => Right(worker'[w])
    <2>1. CASE Fetch(w)
      <3>1. PICK answer \in {"balance", "failedCall"} :
              worker' = [worker EXCEPT ![w].phase = "sending", ![w].answer = answer, ![w].at = nodeHead,
                           ![w].value = IF answer = "balance" THEN Chain[nodeHead][worker[w].addr] ELSE 0]
        BY <2>1 DEF Fetch
      <3> DEFINE v == IF answer = "balance" THEN Chain[nodeHead][worker[w].addr] ELSE 0
                 t == [worker[w] EXCEPT !.phase = "sending", !.answer = answer, !.at = nodeHead, !.value = v]
      <3>2. worker'[w] = t
        BY <1>1, <3>1
      <3>3. t.at = nodeHead /\ t.value = v /\ t.addr = worker[w].addr /\ t.answer = answer
        BY <1>1 DEF Task
      <3>4. nodeHead >= Synced
        BY HeightFacts, ChainFacts DEF Typing, NodeTypes
      <3> HIDE DEF t
      <3> QED
        BY <3>2, <3>3, <3>4 DEF Right
    <2>2. CASE Take(w)
      <3>1. [Idle EXCEPT !.phase = "fetching", !.addr = Head(work)].phase = "fetching"
        BY DEF Idle
      <3> QED
        BY <1>1, <2>2, <3>1 DEF Take
    <2>3. CASE Send(w)
      BY <1>1, <2>3 DEF Send, Idle
    <2>4. CASE WorkerExit(w)
      BY <1>1, <2>4 DEF WorkerExit, Task
    <2>5. CASE FetchFails(w)
      <3>1. worker' = [worker EXCEPT ![w].tries = @ + 1] \/ worker' = [worker EXCEPT ![w] = Idle]
        BY <2>5 DEF FetchFails
      <3>2. CASE worker' = [worker EXCEPT ![w].tries = @ + 1]
        BY <1>1, <2>5, <3>2 DEF FetchFails, Task
      <3>3. CASE worker' = [worker EXCEPT ![w] = Idle]
        BY <1>1, <3>3 DEF Idle
      <3> QED
        BY <3>1, <3>2, <3>3
    <2> QED
      BY <2>1, <2>2, <2>3, <2>4, <2>5 DEF WorkerStep
  <1>4. AllRight(updates')
    <2>1. CASE Send(w)
      <3>1. /\ updates' = Append(updates, Result(w)) /\ updates \in Seq(Update)
            /\ Right(worker[w]) /\ AllRight(updates)
        BY <2>1 DEF Send, Result, Typing, UpdateTypes, Carried
      <3>2. Right(Result(w))
        BY <3>1 DEF Right, Result
      <3> QED
        BY <3>1, <3>2, RightAppend
    <2>2. CASE updates' = updates
      BY <2>2 DEF Carried
    <2> QED
      BY <2>1, <2>2 DEF WorkerStep, Take, Fetch, FetchFails, WorkerExit
  <1> QED
    BY <1>2, <1>3, <1>4 DEF Carried

LEMMA CarriedWriter ==
  ASSUME Typing, Carried, UpdateWriterStep
  PROVE  Carried'
  <1>1. worker' = worker /\ updates \in Seq(Update) /\ buf \in Seq(Update)
    BY Frames DEF fetch, Typing, UpdateTypes, BufferTypes
  <1>2. AllRight(updates) /\ AllRight(buf)
    BY DEF Carried
  <1>3. CASE Receive
    <2>1. updates # <<>> /\ updates' = Tail(updates) /\ buf' = Append(buf, Head(updates))
      BY <1>3 DEF Receive
    <2>2. AllRight(Tail(updates)) /\ Right(Head(updates))
      BY <1>1, <1>2, <2>1, RightTail
    <2>3. AllRight(buf')
      BY <1>1, <1>2, <2>1, <2>2, RightAppend
    <2> QED
      BY <1>1, <2>1, <2>2, <2>3 DEF Carried
  <1>4. CASE EndFlush
    <2>1. buf' = <<>> /\ updates' = updates /\ AllRight(<<>>)
      BY <1>4 DEF EndFlush, AllRight
    <2> QED
      BY <1>1, <1>2, <2>1 DEF Carried
  <1>5. CASE Drain
    <2>1. buf' = buf /\ (updates' = updates \/ (updates # <<>> /\ updates' = Tail(updates)))
      BY <1>5 DEF Drain
    <2>2. AllRight(updates')
      BY <1>1, <1>2, <2>1, RightTail
    <2> QED
      BY <1>1, <1>2, <2>1, <2>2 DEF Carried
  <1>6. CASE LastFlush \/ BeginFlush \/ FlushFails
    BY <1>1, <1>6 DEF Carried, LastFlush, BeginFlush, FlushFails
  <1> QED
    BY <1>3, <1>4, <1>5, <1>6 DEF UpdateWriterStep

LEMMA CarriedInductive ==
  ASSUME Typing, Carried, [ReconcileNext]_reconcileVars
  PROVE  Carried'
  <1>1. CASE UNCHANGED <<worker, updates, buf>>
    BY <1>1 DEF Carried
  <1> QED
    BY <1>1, CarriedWorker, CarriedWriter, Frames DEF ReconcileNext, reconcileVars, fetch, writing

LEMMA StoredInit == ReconcileInit => StoredRight
  BY DEF ReconcileInit, StoredRight, Written

\* At the synced height, zero lacks all that the chain has.
LEMMA ShortAtFirst ==
  ASSUME NEW a \in Known
  PROVE  Short(0, Synced, a)
  <1>1. Synced \in Nat /\ Chain[Synced][a] \in Nat
    BY ChainFacts, HeightFacts
  <1>2. Synced \in Synced .. Synced /\ \A k \in Synced .. Synced : k = Synced
    BY <1>1
  <1> QED
    BY <1>1, <1>2 DEF Short

\* The live sync adds what the chain moves by, but does not go below zero: it is
\* short of the chain by the least so far, again.
LEMMA ShortAfterBlock ==
  ASSUME NEW a \in Known, NEW n \in Heights, n + 1 \in Heights, Synced <= n, NEW b \in Nat, Short(b, n, a)
  PROVE  Short(IF b + Chain[n + 1][a] - Chain[n][a] < 0 THEN 0 ELSE b + Chain[n + 1][a] - Chain[n][a], n + 1, a)
  <1> DEFINE new == b + Chain[n + 1][a] - Chain[n][a]
  <1>1. Synced \in Nat /\ n \in Nat /\ n + 1 \in Heights /\ \A k \in Synced .. n + 1 : Chain[k][a] \in Nat
    <2>1. Synced \in Nat /\ n \in Nat /\ n + 1 <= LastBlock
      BY ChainFacts, HeightFacts
    <2>2. \A k \in Synced .. n + 1 : k \in Heights
      BY <2>1, Bounds, HeightFacts
    <2> QED
      BY <2>1, <2>2, ChainFacts
  <1>2. PICK h \in Synced .. n : /\ b = Chain[n][a] - Chain[h][a]
                                 /\ \A k \in Synced .. n : Chain[h][a] <= Chain[k][a]
    BY DEF Short
  <1>3. \A k \in Synced .. n + 1 : k \in Synced .. n \/ k = n + 1
    BY <1>1
  <1>4. h \in Synced .. n + 1 /\ n + 1 \in Synced .. n + 1 /\ n \in Synced .. n + 1
    BY <1>1
  <1>5. new = Chain[n + 1][a] - Chain[h][a]
    BY <1>1, <1>2, <1>4
  <1>6. CASE new < 0
    <2>1. Chain[n + 1][a] < Chain[h][a]
      BY <1>1, <1>4, <1>5, <1>6
    <2>2. \A k \in Synced .. n + 1 : Chain[n + 1][a] <= Chain[k][a]
      BY <1>1, <1>2, <1>3, <1>4, <2>1
    <2>3. 0 = Chain[n + 1][a] - Chain[n + 1][a]
      BY <1>1, <1>4
    <2> QED
      BY <1>4, <1>6, <2>2, <2>3 DEF Short
  <1>7. CASE ~(new < 0)
    <2>1. Chain[h][a] <= Chain[n + 1][a]
      BY <1>1, <1>4, <1>5, <1>7
    <2>2. \A k \in Synced .. n + 1 : Chain[h][a] <= Chain[k][a]
      BY <1>2, <1>3, <2>1
    <2> HIDE DEF new
    <2> QED
      BY <1>4, <1>5, <1>7, <2>2 DEF Short, new
  <1> QED
    BY <1>6, <1>7

\* A flush writes what the node said; while Run works that is the balance at the
\* height of the store, if nothing has touched it up to the node's head.
LEMMA StoredFlush ==
  ASSUME Typing, Stages, Carried, StoredRight, EndFlush
  PROVE  StoredRight'
  <1>1. UNCHANGED <<run, result, storeHeight>>
    BY DEF EndFlush, feeder
  <1>2. \A a \in Known : /\ readAt'[a] = IF InBuffer(a) # {} THEN Flushed(a).at ELSE readAt[a]
                         /\ balance'[a] = IF InBuffer(a) # {} THEN Flushed(a).value ELSE balance[a]
                         /\ a \in zeroed' <=> IF InBuffer(a) # {} THEN Flushed(a).answer = "failedCall"
                                                                 ELSE a \in zeroed
    BY DEF EndFlush
  <1>3. ASSUME NEW a \in Known, InBuffer(a) # {}
        PROVE  /\ Flushed(a).at \in Synced .. LastBlock
               /\ Flushed(a).answer \in {"balance", "failedCall"}
               /\ Flushed(a).value = IF Flushed(a).answer = "balance" THEN Chain[Flushed(a).at][a] ELSE 0
    <2>1. PICK i \in DOMAIN buf : Flushed(a) = buf[i] /\ buf[i].addr = a /\ buf[i] \in Update
      BY <1>3, FlushedFacts DEF Typing
    <2>2. Right(buf[i])
      BY DEF Carried, AllRight
    <2>3. buf[i].at \in Heights /\ buf[i].answer \in {"balance", "failedCall"}
      BY <2>1 DEF Update
    <2> QED
      BY <2>1, <2>2, <2>3, HeightFacts, ChainFacts, Bounds DEF Right
  <1>4. \A a \in Written' : readAt'[a] \in Synced .. LastBlock
    BY <1>2, <1>3 DEF StoredRight, Written
  <1>5. result # "listFailed" => storeHeight = Synced
    <2>1. result # "listFailed" => writerDone = "none" /\ result = "none"
      BY DEF EndFlush, Stages, Typing, FeederTypes
    <2> QED
      BY <2>1 DEF Stages, StoredRight
  <1>6. ASSUME result # "listFailed", NEW a \in Written', a \notin zeroed', Quiet(a, readAt'[a])
        PROVE  balance'[a] = Chain[storeHeight][a]
    <2>1. a \in Known
      BY DEF Written
    <2>2. CASE InBuffer(a) # {}
      <3>1. Flushed(a).answer = "balance"
        BY <1>2, <1>3, <1>6, <2>1, <2>2
      <3>2. readAt'[a] \in Synced .. readAt'[a] /\ balance'[a] = Chain[readAt'[a]][a]
        BY <1>2, <1>3, <2>1, <2>2, <3>1, Bounds, ChainFacts, HeightFacts
      <3> QED
        BY <1>5, <1>6, <3>2 DEF Quiet
    <2>3. CASE InBuffer(a) = {}
      <3>1. readAt'[a] = readAt[a] /\ balance'[a] = balance[a] /\ a \in Written /\ a \notin zeroed
        BY <1>2, <1>6, <2>1, <2>3 DEF Written
      <3> QED
        BY <1>6, <3>1 DEF StoredRight
    <2> QED
      BY <2>2, <2>3
  <1>7. ASSUME result # "listFailed", NEW a \in zeroed'
        PROVE  Short(balance'[a], storeHeight, a)
    <2>1. a \in Known
      BY DEF EndFlush
    <2>2. CASE InBuffer(a) # {}
      <3>1. Flushed(a).answer = "failedCall"
        BY <1>2, <1>7, <2>1, <2>2
      <3>2. balance'[a] = 0
        BY <1>2, <1>3, <2>1, <2>2, <3>1
      <3> QED
        BY <1>5, <1>7, <2>1, <3>2, ShortAtFirst
    <2>3. CASE InBuffer(a) = {}
      <3>1. balance'[a] = balance[a] /\ a \in zeroed
        BY <1>2, <1>7, <2>1, <2>3
      <3> QED
        BY <1>7, <3>1 DEF StoredRight
    <2> QED
      BY <2>2, <2>3
  <1>8. \A a \in zeroed' : Short(balance[a], storeHeight, a)' <=> Short(balance'[a], storeHeight, a)
    BY <1>1 DEF Short
  <1>9. \A a : Quiet(a, readAt[a])' <=> Quiet(a, readAt'[a])
    BY DEF Quiet
  <1> QED
    BY <1>1, <1>4, <1>6, <1>7, <1>8, <1>9 DEF StoredRight

\* The live sync moves a right balance with the chain.
LEMMA StoredSync ==
  ASSUME Typing, StoredRight, SyncNextBlock
  PROVE  StoredRight'
  <1>1. run = "returned" /\ UNCHANGED <<run, result, readAt, zeroed>> /\ storeHeight' = storeHeight + 1
    BY DEF SyncNextBlock, feeder
  <1>2. storeHeight \in Heights /\ storeHeight + 1 \in Heights /\ Synced <= storeHeight
    BY HeightFacts, Bounds DEF SyncNextBlock, Typing, NodeTypes
  <1>3. ASSUME NEW a \in Known, balance[a] = Chain[storeHeight][a]
        PROVE  balance'[a] = Chain[storeHeight + 1][a]
    <2>1. Chain[storeHeight][a] \in Nat /\ Chain[storeHeight + 1][a] \in Nat
      BY <1>2, ChainFacts
    <2>2. balance'[a] = LET new == balance[a] + Chain[storeHeight + 1][a] - Chain[storeHeight][a]
                        IN IF new < 0 THEN 0 ELSE new
      BY DEF SyncNextBlock
    <2> QED
      BY <1>3, <2>1, <2>2
  <1>4. Written' = Written /\ Written \subseteq Known /\ zeroed \subseteq Known
    BY <1>1 DEF Written, Typing, BalanceTypes
  <1>5. ASSUME NEW a \in Known, Short(balance[a], storeHeight, a)
        PROVE  Short(balance'[a], storeHeight + 1, a)
    <2>1. balance'[a] = IF balance[a] + Chain[storeHeight + 1][a] - Chain[storeHeight][a] < 0 THEN 0
                        ELSE balance[a] + Chain[storeHeight + 1][a] - Chain[storeHeight][a]
      BY DEF SyncNextBlock
    <2>2. balance[a] \in Nat
      BY DEF Typing, BalanceTypes
    <2> QED
      BY <1>2, <1>5, <2>1, <2>2, ShortAfterBlock
  <1>6. \A a : Short(balance[a], storeHeight, a)' <=> Short(balance'[a], storeHeight + 1, a)
    BY <1>1 DEF Short
  <1>7. \A a : Quiet(a, readAt[a])' <=> Quiet(a, readAt[a])
    BY <1>1 DEF Quiet
  <1> QED
    BY <1>1, <1>3, <1>4, <1>5, <1>6, <1>7 DEF StoredRight

LEMMA StoredInductive ==
  ASSUME Typing, Stages, Carried, StoredRight, [ReconcileNext]_reconcileVars
  PROVE  StoredRight'
  <1>1. CASE UNCHANGED stored /\ result' \in {result, "listFailed"} /\ (run = "returned" => run' = run)
    BY <1>1 DEF StoredRight, Written, stored, Short, Quiet
  <1>2. CASE Return
    BY <1>2 DEF Return, Returns, Stages, StoredRight, Written, stored, Typing, FlushTypes, Short, Quiet
  <1>3. CASE FeederStep /\ ~Return
    <2>1. UNCHANGED stored
      BY <1>3, Frames
    <2>2. result' \in {result, "listFailed"} /\ (run = "returned" => run' = run)
      BY <1>3 DEF FeederStep, Count, List, Listed, ListFails, Feed, CloseWork, CloseUpdates, Returns
    <2> QED
      BY <1>1, <2>1, <2>2
  <1>4. ASSUME NEW w \in Workers, WorkerStep(w)
        PROVE  StoredRight'
    BY <1>1, <1>4, Frames DEF feeder
  <1>5. CASE UpdateWriterStep /\ ~EndFlush
    <2>1. UNCHANGED stored /\ UNCHANGED feeder
      BY <1>5, Frames DEF UpdateWriterStep, Receive, LastFlush, BeginFlush, FlushFails, Drain
    <2> QED
      BY <1>1, <2>1 DEF feeder
  <1>6. CASE Produce \/ Finalize \/ UNCHANGED reconcileVars
    BY <1>1, <1>6, Frames DEF feeder, reconcileVars
  <1> QED
    BY <1>2, <1>3, <1>4, <1>5, <1>6, StoredFlush, StoredSync DEF ReconcileNext

\* From the reconciliation on, however far the live sync goes: a balance no block
\* between the store and the head at the fetch has touched is right if the node
\* answered for it; one written as zero for a failed call is short by the least
\* the chain has had for it since.
THEOREM QuietBalances == ReconcileSpec => []QuietIsRight
  <1> DEFINE Inv == Typing /\ Stages /\ Carried /\ StoredRight
  <1>1. ReconcileInit => Inv
    BY TypingInit, StagesInit, CarriedInit, StoredInit
  <1>2. Inv /\ [ReconcileNext]_reconcileVars => Inv'
    BY TypingInductive, StagesInductive, CarriedInductive, StoredInductive
  <1>3. Inv => QuietIsRight
    <2> SUFFICES ASSUME Inv, result \in {"ok", "tooManyErrors"}, NEW a \in Known
                 PROVE  IF a \in zeroed
                        THEN \E h \in Synced .. storeHeight :
                               /\ balance[a] = Chain[storeHeight][a] - Chain[h][a]
                               /\ \A k \in Synced .. storeHeight : Chain[h][a] <= Chain[k][a]
                        ELSE readAt[a] # NotWritten /\ Quiet(a, readAt[a]) => balance[a] = Chain[storeHeight][a]
      BY DEF QuietIsRight
    <2>1. CASE a \in zeroed
      BY <2>1 DEF StoredRight, Short
    <2>2. CASE a \notin zeroed
      BY <2>2 DEF StoredRight, Written
    <2> QED
      BY <2>1, <2>2
  <1> QED
    BY <1>1, <1>2, <1>3, PTL DEF ReconcileSpec
================================================================================
