------------------------------- MODULE Reconcile -------------------------------
(***************************************************************************)
(* internal/reconcile: Run asks a REST node for the VHP balance of every   *)
(* known address and writes the answers. A feeder (Run itself) lists the   *)
(* addresses page by page, workers fetch, a writer flushes in batches; two *)
(* bounded channels lie between them. main() goes on to the live sync      *)
(* whatever Run returns. The node answers at its head, the store follows   *)
(* the last irreversible block.                                            *)
(*                                                                         *)
(* Addresses are numbered in the order they are listed in. A batch of the  *)
(* store is atomic (StoreBatch); here it has a begin and an end, because   *)
(* the feeder reads in between.                                            *)
(***************************************************************************)
EXTENDS Integers, Sequences, FiniteSets

CONSTANTS
  Total,          \* number of known addresses
  Workers,        \* `concurrency' fetching goroutines
  WorkCap,        \* capacity of the work channel
  UpdateCap,      \* capacity of the updates channel
  WriteBatch,     \* updates per flush
  PageSize,       \* addresses per page
  MaxRetries,     \* attempts per address
  LastBlock,      \* bound: the last block
  Chain,          \* Chain[h][a]: the balance of a after block h
  Synced,         \* height of the store when Run begins
  MaxFailures     \* bound on SQL errors, unanswered requests and failed calls

Known == 1 .. Total
Heights == 0 .. LastBlock

ASSUME ReconcileAssumption ==
  /\ Total \in Nat /\ LastBlock \in Nat /\ MaxFailures \in Nat
  /\ {WorkCap, UpdateCap, WriteBatch, PageSize, MaxRetries} \subseteq Nat \ {0}
  /\ Chain \in [Heights -> [Known -> Nat]]
  /\ Synced \in Heights
  /\ Workers # {}

VARIABLES
  run,            \* where Run stands
  result,         \* what it returned, or "none"
  listed, fed,    \* addresses on the pages read so far; how many were sent
  handle,         \* the flush in whose transaction a page is being read, or 0
  work,           \* channel of addresses
  workClosed,
  worker,         \* what each worker does
  updates,        \* channel of balances
  updatesClosed,
  writer,         \* where the writer stands
  buf,            \* updates not flushed yet
  flushing,       \* the number of the flush that is inside a batch, or 0
  flushes,        \* flushes that got into a batch
  writerDone,     \* what the writer has sent, or "none"
  failed,         \* addresses whose fetch was given up
  readAt,         \* per address, the head at which the written value was read
  zeroed,         \* addresses whose written value is the "0" of a failed call
  balance,        \* the stored balances
  storeHeight,    \* sync_state of the store
  nodeLib,        \* the last irreversible block of the node
  nodeHead,       \* its head
  failures

feeder  == <<run, result, listed, fed, handle>>
fetch   == <<work, workClosed, worker, failed>>
writing == <<writer, buf, flushing, flushes, writerDone>>
stored  == <<balance, readAt, zeroed, storeHeight>>
node    == <<nodeLib, nodeHead>>
reconcileVars ==
  <<feeder, fetch, updates, updatesClosed, writing, stored, node, failures>>

NotWritten == LastBlock + 1
Idle == [phase |-> "idle", addr |-> 0, tries |-> 0, value |-> 0, answer |-> "balance", at |-> 0]

\* The migration gave balances without an event: an address may hold what the
\* chain says, or nothing.
ReconcileInit ==
  /\ run = "counting" /\ result = "none"
  /\ listed = 0 /\ fed = 0 /\ handle = 0
  /\ work = <<>> /\ workClosed = FALSE
  /\ worker = [w \in Workers |-> Idle]
  /\ updates = <<>> /\ updatesClosed = FALSE
  /\ writer = "receiving" /\ buf = <<>>
  /\ flushing = 0 /\ flushes = 0 /\ writerDone = "none"
  /\ failed = {}
  /\ readAt = [a \in Known |-> NotWritten] /\ zeroed = {}
  /\ balance \in {Chain[Synced], [a \in Known |-> 0]}
  /\ storeHeight = Synced
  /\ nodeLib = Synced
  /\ nodeHead \in Synced .. LastBlock
  /\ failures = 0

Returns(r) == run' = "returned" /\ result' = r
SqlError == failures < MaxFailures /\ failures' = failures + 1

-----------------------------------------------------------------------------
(* Run: the feeder *)

\* GetAddresses(1, 0) and GetSyncState; the goroutines start.
Count ==
  /\ run = "counting"
  /\ \/ run' = "feeding" /\ UNCHANGED <<result, failures>>
     \/ SqlError /\ Returns("listFailed")
  /\ UNCHANGED <<listed, fed, handle, fetch, updates, updatesClosed, writing, stored, node>>

\* GetAddresses(pageSize, offset) begins: exec() gives the transaction the
\* writer has open, if any.
List ==
  /\ run = "feeding"
  /\ fed = listed /\ listed < Total
  /\ run' = "listing"
  /\ handle' = flushing
  /\ UNCHANGED <<result, listed, fed, fetch, updates, updatesClosed, writing, stored, node, failures>>

\* The page is read: in that transaction while it is open, or on the connection
\* while no transaction holds it.
Listed ==
  /\ run = "listing"
  /\ handle = flushing
  /\ listed' = IF listed + PageSize > Total THEN Total ELSE listed + PageSize
  /\ run' = "feeding"
  /\ UNCHANGED <<result, fed, handle, fetch, updates, updatesClosed, writing, stored, node, failures>>

\* The transaction has ended in between, or the read fails: Run returns and
\* leaves its goroutines.
ListFails ==
  /\ run = "listing"
  /\ \/ handle # 0 /\ handle # flushing /\ UNCHANGED failures
     \/ SqlError
  /\ Returns("listFailed")
  /\ UNCHANGED <<listed, fed, handle, fetch, updates, updatesClosed, writing, stored, node>>

\* Mutant: the feeder does not wait for room in the channel.
FeedAhead ==
  /\ run = "feeding"
  /\ fed < listed
  /\ work' = Append(work, fed + 1)
  /\ fed' = fed + 1
  /\ UNCHANGED <<run, result, listed, handle, workClosed, worker, failed, updates, updatesClosed,
                 writing, stored, node, failures>>

\* work <- a.Address
Feed ==
  /\ run = "feeding"
  /\ fed < listed
  /\ Len(work) < WorkCap
  /\ work' = Append(work, fed + 1)
  /\ fed' = fed + 1
  /\ UNCHANGED <<run, result, listed, handle, workClosed, worker, failed, updates, updatesClosed,
                 writing, stored, node, failures>>

\* close(work)
CloseWork ==
  /\ run = "feeding"
  /\ fed = Total
  /\ workClosed' = TRUE
  /\ run' = "joining"
  /\ UNCHANGED <<result, listed, fed, handle, work, worker, failed, updates, updatesClosed,
                 writing, stored, node, failures>>

\* Mutant: close(updateCh) without wg.Wait().
CloseUpdatesEarly ==
  /\ run = "joining"
  /\ updatesClosed' = TRUE
  /\ run' = "awaiting"
  /\ UNCHANGED <<result, listed, fed, handle, fetch, updates, writing, stored, node, failures>>

\* wg.Wait(); close(updateCh)
CloseUpdates ==
  /\ run = "joining"
  /\ \A w \in Workers : worker[w].phase = "exited"
  /\ updatesClosed' = TRUE
  /\ run' = "awaiting"
  /\ UNCHANGED <<result, listed, fed, handle, fetch, updates, writing, stored, node, failures>>

\* writeErr := <-writerDone, and the rate of fetch errors.
Return ==
  /\ run = "awaiting"
  /\ writerDone # "none"
  /\ Returns(IF writerDone = "error" THEN "writeFailed"
             ELSE IF 10 * Cardinality(failed) > Total THEN "tooManyErrors" ELSE "ok")
  /\ UNCHANGED <<listed, fed, handle, fetch, updates, updatesClosed, writing, stored, node, failures>>

-----------------------------------------------------------------------------
(* Workers *)

\* for addr := range work
Take(w) ==
  /\ run # "counting"
  /\ worker[w].phase = "idle"
  /\ work # <<>>
  /\ worker' = [worker EXCEPT ![w] = [Idle EXCEPT !.phase = "fetching", !.addr = Head(work)]]
  /\ work' = Tail(work)
  /\ UNCHANGED <<feeder, workClosed, failed, updates, updatesClosed, writing, stored, node, failures>>

\* fetchBalance: the value at the node's head. HTTP 400 or 404 is taken for "no
\* balance" and gives "0", and koinos-rest answers a failed call with 400 too.
Fetch(w) ==
  /\ worker[w].phase = "fetching"
  /\ \E answer \in {"balance", "failedCall"} :
       /\ IF answer = "balance" THEN UNCHANGED failures
          ELSE failures < MaxFailures /\ failures' = failures + 1
       /\ worker' = [worker EXCEPT ![w].phase = "sending", ![w].answer = answer, ![w].at = nodeHead,
                       ![w].value = IF answer = "balance" THEN Chain[nodeHead][worker[w].addr] ELSE 0]
  /\ UNCHANGED <<feeder, work, workClosed, failed, updates, updatesClosed, writing, stored, node>>

\* An error or another status: again, up to maxRetries times; then the address
\* counts as an error and the worker goes on.
FetchFails(w) ==
  /\ worker[w].phase = "fetching"
  /\ failures < MaxFailures /\ failures' = failures + 1
  /\ IF worker[w].tries + 1 < MaxRetries
     THEN worker' = [worker EXCEPT ![w].tries = @ + 1] /\ UNCHANGED failed
     ELSE worker' = [worker EXCEPT ![w] = Idle] /\ failed' = failed \cup {worker[w].addr}
  /\ UNCHANGED <<feeder, work, workClosed, updates, updatesClosed, writing, stored, node>>

\* updateCh <- balanceUpdate{...}
Send(w) ==
  /\ worker[w].phase = "sending"
  /\ Len(updates) < UpdateCap
  /\ updates' = Append(updates, [addr |-> worker[w].addr, value |-> worker[w].value,
                                 answer |-> worker[w].answer, at |-> worker[w].at])
  /\ worker' = [worker EXCEPT ![w] = Idle]
  /\ UNCHANGED <<feeder, work, workClosed, failed, updatesClosed, writing, stored, node, failures>>

\* The channel is closed and empty.
WorkerExit(w) ==
  /\ worker[w].phase = "idle"
  /\ work = <<>> /\ workClosed
  /\ worker' = [worker EXCEPT ![w].phase = "exited"]
  /\ UNCHANGED <<feeder, work, workClosed, failed, updates, updatesClosed, writing, stored, node, failures>>

-----------------------------------------------------------------------------
(* The writer *)

\* for u := range updateCh
Receive ==
  /\ writer = "receiving"
  /\ updates # <<>>
  /\ buf' = Append(buf, Head(updates))
  /\ updates' = Tail(updates)
  /\ writer' = IF Len(buf) + 1 >= WriteBatch THEN "full" ELSE "receiving"
  /\ UNCHANGED <<feeder, fetch, updatesClosed, flushing, flushes, writerDone, stored, node, failures>>

\* Mutant: without the final flush.
LastFlushForgotten ==
  /\ writer = "receiving"
  /\ updates = <<>> /\ updatesClosed
  /\ writer' = "exited" /\ writerDone' = "ok"
  /\ UNCHANGED <<feeder, fetch, updates, updatesClosed, buf, flushing, flushes, stored, node, failures>>

\* The channel is closed and empty: the final flush, or nothing to flush.
LastFlush ==
  /\ writer = "receiving"
  /\ updates = <<>> /\ updatesClosed
  /\ IF buf = <<>> THEN writer' = "exited" /\ writerDone' = "ok"
                   ELSE writer' = "last" /\ UNCHANGED writerDone
  /\ UNCHANGED <<feeder, fetch, updates, updatesClosed, buf, flushing, flushes, stored, node, failures>>

\* BeginBatch; a query of the feeder and the begin wait for one connection.
BeginFlush ==
  /\ writer \in {"full", "last"}
  /\ flushing = 0
  /\ flushes' = flushes + 1
  /\ flushing' = flushes + 1
  /\ UNCHANGED <<feeder, fetch, updates, updatesClosed, writer, buf, writerDone, stored, node, failures>>

\* The last update of the buffer for an address, if any.
InBuffer(a) == {i \in DOMAIN buf : buf[i].addr = a}
Flushed(a) == buf[CHOOSE i \in InBuffer(a) : \A j \in InBuffer(a) : j <= i]

\* Mutant: the buffer is not emptied after a flush.
EndFlushKeepsBuffer ==
  /\ flushing # 0
  /\ balance' = [a \in Known |-> IF InBuffer(a) # {} THEN Flushed(a).value ELSE balance[a]]
  /\ readAt' = [a \in Known |-> IF InBuffer(a) # {} THEN Flushed(a).at ELSE readAt[a]]
  /\ zeroed' = {a \in Known : IF InBuffer(a) # {} THEN Flushed(a).answer = "failedCall" ELSE a \in zeroed}
  /\ flushing' = 0
  /\ IF writer = "last" THEN writer' = "exited" /\ writerDone' = "ok"
                        ELSE writer' = "receiving" /\ UNCHANGED writerDone
  /\ UNCHANGED <<feeder, fetch, updates, updatesClosed, buf, flushes, storeHeight, node, failures>>

\* SetBalance for the whole buffer, CommitBatch.
EndFlush ==
  /\ flushing # 0
  /\ balance' = [a \in Known |-> IF InBuffer(a) # {} THEN Flushed(a).value ELSE balance[a]]
  /\ readAt' = [a \in Known |-> IF InBuffer(a) # {} THEN Flushed(a).at ELSE readAt[a]]
  /\ zeroed' = {a \in Known : IF InBuffer(a) # {} THEN Flushed(a).answer = "failedCall" ELSE a \in zeroed}
  /\ buf' = <<>>
  /\ flushing' = 0
  /\ IF writer = "last" THEN writer' = "exited" /\ writerDone' = "ok"
                        ELSE writer' = "receiving" /\ UNCHANGED writerDone
  /\ UNCHANGED <<feeder, fetch, updates, updatesClosed, flushes, storeHeight, node, failures>>

\* Mutant: after a failed flush the writer just stops.
FlushStops ==
  /\ writer \in {"full", "last"}
  /\ SqlError
  /\ flushing' = 0
  /\ writerDone' = "error"
  /\ writer' = "exited"
  /\ UNCHANGED <<feeder, fetch, updates, updatesClosed, buf, flushes, stored, node>>

\* BeginBatch, SetBalance or CommitBatch fails: the error is reported and, if
\* updates may still come, the channel is drained.
FlushFails ==
  /\ writer \in {"full", "last"}
  /\ SqlError
  /\ flushing' = 0
  /\ writerDone' = "error"
  /\ writer' = IF writer = "full" THEN "draining" ELSE "exited"
  /\ UNCHANGED <<feeder, fetch, updates, updatesClosed, buf, flushes, stored, node>>

\* for range updateCh {}
Drain ==
  /\ writer = "draining"
  /\ IF updates # <<>>
     THEN updates' = Tail(updates) /\ UNCHANGED writer
     ELSE updatesClosed /\ writer' = "exited" /\ UNCHANGED updates
  /\ UNCHANGED <<feeder, fetch, updatesClosed, buf, flushing, flushes, writerDone, stored, node, failures>>

-----------------------------------------------------------------------------
(* The node, and the live sync that main() enters after Run *)

Produce ==
  /\ nodeHead < LastBlock
  /\ nodeHead' = nodeHead + 1
  /\ UNCHANGED <<feeder, fetch, updates, updatesClosed, writing, stored, nodeLib, failures>>

Finalize ==
  /\ nodeLib < nodeHead
  /\ nodeLib' = nodeLib + 1
  /\ UNCHANGED <<feeder, fetch, updates, updatesClosed, writing, stored, nodeHead, failures>>

\* Mutant: the live sync does not wait for Run.
SyncBlockMeanwhile ==
  /\ storeHeight < nodeLib
  /\ flushing = 0
  /\ storeHeight' = storeHeight + 1
  /\ balance' = [a \in Known |->
       LET new == balance[a] + Chain[storeHeight + 1][a] - Chain[storeHeight][a]
       IN IF new < 0 THEN 0 ELSE new]
  /\ UNCHANGED <<feeder, fetch, updates, updatesClosed, writing, readAt, zeroed, node, failures>>

\* A block's events move the stored balance by what they move the chain's, but
\* not below zero; BeginBatch waits for a flush.
SyncNextBlock ==
  /\ run = "returned"
  /\ storeHeight < nodeLib
  /\ flushing = 0
  /\ storeHeight' = storeHeight + 1
  /\ balance' = [a \in Known |->
       LET new == balance[a] + Chain[storeHeight + 1][a] - Chain[storeHeight][a]
       IN IF new < 0 THEN 0 ELSE new]
  /\ UNCHANGED <<feeder, fetch, updates, updatesClosed, writing, readAt, zeroed, node, failures>>

FeederStep == Count \/ List \/ Listed \/ ListFails \/ Feed \/ CloseWork \/ CloseUpdates \/ Return
WorkerStep(w) == Take(w) \/ Fetch(w) \/ FetchFails(w) \/ Send(w) \/ WorkerExit(w)
UpdateWriterStep == Receive \/ LastFlush \/ BeginFlush \/ EndFlush \/ FlushFails \/ Drain

ReconcileNext ==
  \/ FeederStep
  \/ \E w \in Workers : WorkerStep(w)
  \/ UpdateWriterStep
  \/ Produce \/ Finalize \/ SyncNextBlock

ReconcileSpec == ReconcileInit /\ [][ReconcileNext]_reconcileVars

\* Every goroutine goes on when it can; the node may stop producing.
ReconcileFairSpec ==
  /\ ReconcileSpec
  /\ WF_reconcileVars(FeederStep) /\ WF_reconcileVars(UpdateWriterStep)
  /\ \A w \in Workers : WF_reconcileVars(WorkerStep(w))

-----------------------------------------------------------------------------
(* Properties *)

Update == [addr : Known, value : Nat, answer : {"balance", "failedCall"}, at : Heights]

\* Every variable has its type; no channel is over its capacity.
ReconcileTypeOK ==
  /\ run \in {"counting", "feeding", "listing", "joining", "awaiting", "returned"}
  /\ result \in {"none", "ok", "listFailed", "writeFailed", "tooManyErrors"}
  /\ listed \in 0 .. Total /\ fed \in 0 .. listed
  /\ handle \in 0 .. flushes /\ flushing \in {0, flushes} /\ flushes \in Nat
  /\ work \in Seq(Known) /\ Len(work) <= WorkCap /\ workClosed \in BOOLEAN
  /\ \A w \in Workers : worker[w].phase \in {"idle", "fetching", "sending", "exited"}
                        /\ worker[w].addr \in 0 .. Total
  /\ updates \in Seq(Update) /\ Len(updates) <= UpdateCap /\ updatesClosed \in BOOLEAN
  /\ writer \in {"receiving", "full", "last", "draining", "exited"}
  /\ buf \in Seq(Update) /\ Len(buf) <= WriteBatch
  /\ writerDone \in {"none", "ok", "error"}
  /\ failed \subseteq Known
  /\ readAt \in [Known -> 0 .. NotWritten] /\ zeroed \subseteq Known
  /\ balance \in [Known -> Nat]
  /\ storeHeight \in Heights /\ nodeLib \in Heights /\ nodeHead \in Heights
  /\ failures \in 0 .. MaxFailures

\* In the hands of a goroutine or on the way to one.
InHand(a) ==
  \/ \E i \in DOMAIN work : work[i] = a
  \/ \E w \in Workers : worker[w].phase \in {"fetching", "sending"} /\ worker[w].addr = a
  \/ \E i \in DOMAIN updates : updates[i].addr = a
  \/ \E i \in DOMAIN buf : buf[i].addr = a

\* When Run returns without an error of the store, every known address has been
\* written or is counted as a fetch error: none is lost in a channel, in the
\* writer's buffer or between two pages, and none is both. When it returns from
\* a failed listing, without closing the channels, the goroutines it leaves
\* behind may go on: what they hold is counted neither as written nor as an
\* error and, unless a flush has failed, an address is held, written or an error
\* exactly if it was fed.
EveryAddressSettled ==
  /\ result \in {"ok", "tooManyErrors"} => \A a \in Known : a \in failed <=> readAt[a] = NotWritten
  /\ result = "listFailed" => \A a \in Known :
       /\ a \in failed => readAt[a] = NotWritten
       /\ InHand(a) => a \notin failed /\ readAt[a] = NotWritten
       /\ writerDone # "error" =>
            (a <= fed <=> InHand(a) \/ a \in failed \/ readAt[a] # NotWritten)

\* No worker sends on the closed channel, which would panic, and the writer
\* does not stop while updates may still come: the order close(work), wait,
\* close(updateCh) holds on every path, the drain after a failed flush included.
NoSendAfterClose ==
  /\ updatesClosed => \A w \in Workers : worker[w].phase = "exited"
  /\ writer = "exited" => updatesClosed /\ updates = <<>>

\* No block between the synced height and h has touched the balance.
Quiet(a, h) == \A k \in Synced .. h : Chain[k][a] = Chain[Synced][a]

\* From the reconciliation on, however far the sync goes: a balance the node
\* answered for is right if nothing had touched it up to the head at the fetch;
\* one written as zero for a failed call stays short by the least the address
\* has held since, which the live sync never makes up for.
QuietIsRight ==
  result \in {"ok", "tooManyErrors"} => \A a \in Known :
    IF a \in zeroed
    THEN \E h \in Synced .. storeHeight :
           /\ balance[a] = Chain[storeHeight][a] - Chain[h][a]
           /\ \A k \in Synced .. storeHeight : Chain[h][a] <= Chain[k][a]
    ELSE readAt[a] # NotWritten /\ Quiet(a, readAt[a]) => balance[a] = Chain[storeHeight][a]

\* reconcile.go:36, of Run: "updates the store with authoritative values". An
\* address written by a Run that reports success, and not touched meanwhile,
\* would have the node's balance.
AuthoritativeValues ==
  result = "ok" => \A a \in Known :
    readAt[a] # NotWritten /\ Quiet(a, readAt[a]) => balance[a] = Chain[storeHeight][a]

\* Run returns: neither a failed flush nor full channels nor fetch errors leave
\* the feeder, the workers and the writer waiting for each other.
RunReturns == run = "feeding" ~> run = "returned"
=============================================================================
