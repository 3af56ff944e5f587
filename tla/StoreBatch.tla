------------------------------ MODULE StoreBatch ------------------------------
(***************************************************************************)
(* The concurrency of internal/store: one database connection, batches     *)
(* guarded by a mutex that stays locked from BeginBatch to CommitBatch or  *)
(* RollbackBatch, and readers that pick the transaction or the database in *)
(* exec() without that mutex.                                              *)
(*                                                                         *)
(* A table is known by the number of the batch that wrote it last; a batch *)
(* writes its tables one statement at a time. An HTTP handler is a         *)
(* sequence of queries. SideReaders are handlers of another process        *)
(* (--api-only), which has a connection of its own on the same file.       *)
(***************************************************************************)
EXTENDS Integers, Sequences

CONSTANTS
  Writers,       \* goroutines that open batches
  Main,          \* the one that runs main()
  Readers,       \* API handlers of the indexing process
  SideReaders,   \* API handlers of an --api-only process
  None,          \* nobody
  Handlers,      \* the handlers in use
  MaxBatches,    \* bound: no writer asks for a batch once so many have begun
  MaxErrors      \* bound on SQL errors and crashes

AllReaders == Readers \cup SideReaders

\* The tables a batch of each kind writes, in the order of its statements
\* ("rows" stands for addresses, balances, transfers and blocks). The last page
\* of an import sets the record to done.
Statements ==
  [register  |-> <<"tokens", "backfills">>,
   page      |-> <<"rows", "backfills">>,
   lastpage  |-> <<"rows", "backfills">>,
   sync      |-> <<"rows", "height">>,
   reconcile |-> <<"rows">>]

\* The queries of a handler, in order.
Plan ==
  [status    |-> <<"height", "rows", "rows", "rows", "height">>,
   stats     |-> <<"rows", "rows", "rows", "height", "tokens">>,
   address   |-> <<"rows", "rows">>,
   holders   |-> <<"rows", "rows">>,
   blocks    |-> <<"rows">>,
   recent    |-> <<"height", "rows">>,
   tokens    |-> <<"tokens", "backfills">>]

Tables == {"rows", "height", "tokens", "backfills"}
Kinds == {"register", "page", "lastpage", "sync", "reconcile"}
NoTx == 0

ASSUME StoreBatchAssumption ==
  /\ Main \in Writers
  /\ None \notin Writers \cup AllReaders
  /\ Writers \cap AllReaders = {}
  /\ Readers \cap SideReaders = {}
  /\ Handlers \subseteq DOMAIN Plan
  /\ MaxBatches \in Nat
  /\ MaxErrors \in Nat

VARIABLES
  mu,         \* who holds s.mu, or None
  tx,         \* s.tx: the number of a batch, or NoTx
  conn,       \* who has the one connection, or None
  committed,  \* per table, the batch whose rows are committed
  open,       \* the same as the open transaction sees it
  batches,    \* the batches begun so far: kind and what became of them
  pc,         \* where each writer stands
  mine,       \* the batch a writer has begun, or NoTx
  step,       \* its next statement
  request,    \* what each reader is doing
  serving,    \* main() has started the API server
  errors      \* SQL errors and crashes so far

store   == <<mu, tx, conn, committed, open, batches>>
writers == <<pc, mine, step>>
storeVars == <<store, writers, request, serving, errors>>

NoRequest == [phase |-> "idle", handler |-> "none", handle |-> NoTx, seen |-> <<>>]

StoreInit ==
  /\ mu = None /\ tx = NoTx /\ conn = None
  /\ committed = [t \in Tables |-> 0]
  /\ open = [t \in Tables |-> 0]
  /\ batches = <<>>
  /\ pc = [w \in Writers |-> "idle"]
  /\ mine = [w \in Writers |-> NoTx]
  /\ step = [w \in Writers |-> 1]
  /\ request = [r \in AllReaders |-> NoRequest]
  /\ serving = FALSE
  /\ errors = 0

-----------------------------------------------------------------------------
(* Writers *)

\* main() registers before it starts the API, then imports and syncs;
\* reconciliation has a writer goroutine of its own.
MayBegin(w, kind) ==
  IF w = Main
  THEN \/ kind = "register" /\ ~serving
       \/ kind \in {"page", "lastpage", "sync"} /\ serving
  ELSE kind = "reconcile" /\ serving

\* The caller gets to BeginBatch.
CallBegin(w) ==
  /\ pc[w] = "idle"
  /\ Len(batches) < MaxBatches
  /\ \E kind \in Kinds : MayBegin(w, kind)
  /\ pc' = [pc EXCEPT ![w] = "waiting"]
  /\ UNCHANGED <<store, mine, step, request, serving, errors>>

\* Mutant: BeginBatch releases the mutex before it returns.
LockBriefly(w) ==
  /\ pc[w] = "waiting"
  /\ mu = None
  /\ pc' = [pc EXCEPT ![w] = "locked"]
  /\ UNCHANGED <<store, mine, step, request, serving, errors>>

\* s.mu.Lock()
Lock(w) ==
  /\ pc[w] = "waiting"
  /\ mu = None
  /\ mu' = w
  /\ pc' = [pc EXCEPT ![w] = "locked"]
  /\ UNCHANGED <<tx, conn, committed, open, batches, mine, step, request, serving, errors>>

\* Mutant: an error return of BeginBatch that forgets the mutex.
BeginFailsLocked(w) ==
  /\ pc[w] = "locked"
  /\ tx # NoTx \/ errors < MaxErrors
  /\ errors' = IF tx # NoTx THEN errors ELSE errors + 1
  /\ pc' = [pc EXCEPT ![w] = "idle"]
  /\ UNCHANGED <<store, mine, step, request, serving>>

\* A batch already in progress, or an error of db.Begin().
BeginFails(w) ==
  /\ pc[w] = "locked"
  /\ tx # NoTx \/ errors < MaxErrors
  /\ errors' = IF tx # NoTx THEN errors ELSE errors + 1
  /\ mu' = None
  /\ pc' = [pc EXCEPT ![w] = "idle"]
  /\ UNCHANGED <<tx, conn, committed, open, batches, mine, step, request, serving>>

\* db.Begin() waits for the connection, with the mutex held.
Begin(w, kind) ==
  /\ pc[w] = "locked"
  /\ MayBegin(w, kind)
  /\ tx = NoTx
  /\ conn = None
  /\ conn' = w
  /\ batches' = Append(batches, [kind |-> kind, state |-> "open"])
  /\ tx' = Len(batches) + 1
  /\ mine' = [mine EXCEPT ![w] = Len(batches) + 1]
  /\ step' = [step EXCEPT ![w] = 1]
  /\ open' = committed
  /\ pc' = [pc EXCEPT ![w] = "writing"]
  /\ UNCHANGED <<mu, committed, request, serving, errors>>

StatementsOf(b) == Statements[batches[b].kind]

\* One statement: exec() gives the transaction, since this writer opened it.
Statement(w) ==
  /\ pc[w] = "writing"
  /\ step[w] <= Len(StatementsOf(mine[w]))
  /\ LET table == StatementsOf(mine[w])[step[w]] IN
       IF tx # NoTx
       THEN open' = [open EXCEPT ![table] = mine[w]] /\ UNCHANGED committed
       ELSE conn = None /\ committed' = [committed EXCEPT ![table] = mine[w]] /\ UNCHANGED open
  /\ step' = [step EXCEPT ![w] = @ + 1]
  /\ UNCHANGED <<mu, tx, conn, batches, pc, mine, request, serving, errors>>

Ending(b) == [batches EXCEPT ![b].state = "ending"]

\* A statement fails and the caller calls RollbackBatch.
StatementFails(w) ==
  /\ pc[w] = "writing"
  /\ tx # NoTx
  /\ step[w] <= Len(StatementsOf(mine[w]))
  /\ errors < MaxErrors
  /\ errors' = errors + 1
  /\ batches' = Ending(tx)
  /\ pc' = [pc EXCEPT ![w] = "rollingback"]
  /\ UNCHANGED <<mu, tx, conn, committed, open, mine, step, request, serving>>

\* CommitBatch up to the point where sql.Tx.Commit marks the transaction done
\* and cancels the queries that run in it.
StartCommit(w) ==
  /\ pc[w] = "writing"
  /\ tx # NoTx
  /\ step[w] > Len(StatementsOf(mine[w]))
  /\ batches' = Ending(tx)
  /\ pc' = [pc EXCEPT ![w] = "committing"]
  /\ UNCHANGED <<mu, tx, conn, committed, open, mine, step, request, serving, errors>>

\* No query runs in the transaction any more; the connection is released.
Drained == \A r \in AllReaders : request[r].phase = "rows" => request[r].handle # tx

\* Mutant: a commit writes only what differs in the table written last.
FinishCommitPartly(w) ==
  /\ pc[w] = "committing"
  /\ Drained
  /\ LET table == StatementsOf(mine[w])[step[w] - 1] IN
       committed' = [committed EXCEPT ![table] = open[table]]
  /\ batches' = [batches EXCEPT ![mine[w]].state = "committed"]
  /\ conn' = None
  /\ pc' = [pc EXCEPT ![w] = "clearing"]
  /\ UNCHANGED <<mu, tx, open, mine, step, request, serving, errors>>

FinishCommit(w) ==
  /\ pc[w] = "committing"
  /\ Drained
  /\ committed' = open
  /\ batches' = [batches EXCEPT ![mine[w]].state = "committed"]
  /\ conn' = None
  /\ pc' = [pc EXCEPT ![w] = "clearing"]
  /\ UNCHANGED <<mu, tx, open, mine, step, request, serving, errors>>

\* Mutant: the number of a batch that was rolled back is used again.
FinishRollbackForgets(w) ==
  /\ \/ pc[w] = "rollingback" /\ UNCHANGED errors
     \/ pc[w] = "committing" /\ errors < MaxErrors /\ errors' = errors + 1
  /\ Drained
  /\ batches' = SubSeq(batches, 1, mine[w] - 1)
  /\ open' = committed
  /\ conn' = None
  /\ pc' = [pc EXCEPT ![w] = "clearing"]
  /\ UNCHANGED <<mu, tx, committed, mine, step, request, serving>>

\* A rollback, or a commit that fails: the database is as before the batch.
FinishRollback(w) ==
  /\ \/ pc[w] = "rollingback" /\ UNCHANGED errors
     \/ pc[w] = "committing" /\ errors < MaxErrors /\ errors' = errors + 1
  /\ Drained
  /\ batches' = [batches EXCEPT ![mine[w]].state = "rolledback"]
  /\ open' = committed
  /\ conn' = None
  /\ pc' = [pc EXCEPT ![w] = "clearing"]
  /\ UNCHANGED <<mu, tx, committed, mine, step, request, serving>>

\* s.tx = nil
ClearTx(w) ==
  /\ pc[w] = "clearing"
  /\ tx' = NoTx
  /\ pc' = [pc EXCEPT ![w] = "unlocking"]
  /\ UNCHANGED <<mu, conn, committed, open, batches, mine, step, request, serving, errors>>

\* s.mu.Unlock()
Unlock(w) ==
  /\ pc[w] = "unlocking"
  /\ mu' = None
  /\ pc' = [pc EXCEPT ![w] = "idle"]
  /\ mine' = [mine EXCEPT ![w] = NoTx]
  /\ step' = [step EXCEPT ![w] = 1]
  /\ UNCHANGED <<tx, conn, committed, open, batches, request, serving, errors>>

-----------------------------------------------------------------------------
(* Readers *)

PlanOf(r) == Plan[request[r].handler]
NextTable(r) == PlanOf(r)[Len(request[r].seen) + 1]

\* A request arrives at the process that serves it.
Request(r, h) ==
  /\ request[r].phase \in {"idle", "answered", "failed"}
  /\ r \in Readers => serving
  /\ request' = [request EXCEPT ![r] =
                   [phase |-> "exec", handler |-> h, handle |-> NoTx, seen |-> <<>>]]
  /\ UNCHANGED <<store, writers, serving, errors>>

\* exec(): s.tx is read once, without the mutex. A side process has no batch.
Exec(r) ==
  /\ request[r].phase = "exec"
  /\ request' = [request EXCEPT ![r].phase = "query",
                                ![r].handle = IF r \in SideReaders THEN NoTx ELSE tx]
  /\ UNCHANGED <<store, writers, serving, errors>>

Shown(version, dirty) == [batch |-> version, dirty |-> dirty]

\* Mutant: without SetMaxOpenConns(1) a read finds a connection of its own and
\* an open transaction does not hold it up.
QueryAnyConnection(r) ==
  LET handle == request[r].handle
      table  == NextTable(r)
  IN /\ request[r].phase = "query"
     /\ handle # NoTx => batches[handle].state = "open"
     /\ \E version \in {open[table], committed[table]} :
          request' = [request EXCEPT ![r].phase = "rows",
                        ![r].seen = Append(@, Shown(version, handle # NoTx))]
     /\ UNCHANGED <<store, writers, serving, errors>>

\* The query runs: in the transaction while that is open, on the connection of
\* the process as soon as it is free, or in a side process at any time.
Query(r) ==
  LET handle == request[r].handle
      table  == NextTable(r)
      Show(version) == request' = [request EXCEPT ![r].phase = "rows",
                                     ![r].seen = Append(@, Shown(version, handle # NoTx))]
  IN /\ request[r].phase = "query"
     /\ \/ /\ handle # NoTx
           /\ batches[handle].state = "open"
           /\ Show(open[table])
           /\ UNCHANGED conn
        \/ /\ handle = NoTx
           /\ r \in Readers
           /\ conn = None
           /\ conn' = r
           /\ Show(committed[table])
        \/ /\ r \in SideReaders
           /\ Show(committed[table])
           /\ UNCHANGED conn
     /\ UNCHANGED <<mu, tx, committed, open, batches, writers, serving, errors>>

\* Mutant: a handler tries again with the transaction it has.
QueryTriesAgain(r) ==
  /\ request[r].phase = "query"
  /\ request[r].handle # NoTx
  /\ batches[request[r].handle].state # "open"
  /\ UNCHANGED storeVars

\* The transaction ended after exec(): sql.ErrTxDone, or the query is
\* cancelled while its rows are read. The handler answers 500.
QueryFails(r) ==
  /\ request[r].phase \in {"query", "rows"}
  /\ request[r].handle # NoTx
  /\ batches[request[r].handle].state # "open"
  /\ request' = [request EXCEPT ![r].phase = "failed"]
  /\ UNCHANGED <<store, writers, serving, errors>>

\* rows.Close() releases the connection; then the next query, or the answer.
CloseRows(r) ==
  /\ request[r].phase = "rows"
  /\ conn' = IF conn = r THEN None ELSE conn
  /\ request' = [request EXCEPT ![r].phase =
                   IF Len(request[r].seen) = Len(PlanOf(r)) THEN "answered" ELSE "exec"]
  /\ UNCHANGED <<mu, tx, committed, open, batches, writers, serving, errors>>

-----------------------------------------------------------------------------
(* The process *)

\* Mutant: the API is started before the tokens are registered.
StartApiEarly ==
  /\ ~serving
  /\ serving' = TRUE
  /\ UNCHANGED <<store, writers, request, errors>>

\* The goroutine of apiServer.Start, once registration is done.
StartApi ==
  /\ ~serving
  /\ pc[Main] = "idle"
  /\ serving' = TRUE
  /\ UNCHANGED <<store, writers, request, errors>>

\* The indexing process dies; SQLite rolls its open transaction back. What its
\* API answered before stands; a side process goes on.
Crash ==
  /\ errors < MaxErrors
  /\ errors' = errors + 1
  /\ mu' = None /\ tx' = NoTx
  /\ conn' = None
  /\ batches' = [b \in DOMAIN batches |->
                   IF batches[b].state \in {"open", "ending"}
                   THEN [batches[b] EXCEPT !.state = "rolledback"] ELSE batches[b]]
  /\ pc' = [w \in Writers |-> "idle"]
  /\ request' = [r \in AllReaders |->
                   IF r \in Readers /\ request[r].phase # "answered" THEN NoRequest ELSE request[r]]
  /\ open' = committed
  /\ mine' = [w \in Writers |-> NoTx]
  /\ step' = [w \in Writers |-> 1]
  /\ serving' = FALSE
  /\ UNCHANGED committed

WriterStep(w) ==
  \/ Lock(w) \/ BeginFails(w) \/ \E kind \in Kinds : Begin(w, kind)
  \/ Statement(w) \/ StatementFails(w)
  \/ StartCommit(w) \/ FinishCommit(w) \/ FinishRollback(w)
  \/ ClearTx(w) \/ Unlock(w)

ReaderStep(r) == Exec(r) \/ Query(r) \/ QueryFails(r) \/ CloseRows(r)

StoreNext ==
  \/ \E w \in Writers : CallBegin(w) \/ WriterStep(w)
  \/ \E r \in AllReaders : ReaderStep(r) \/ \E h \in Handlers : Request(r, h)
  \/ StartApi
  \/ Crash

StoreSpec == StoreInit /\ [][StoreNext]_storeVars

\* Goroutines keep running. A released connection goes to a goroutine that
\* waits for it, so no waiting one is passed over for ever.
StoreFairSpec ==
  /\ StoreSpec
  /\ \A w \in Writers : SF_storeVars(WriterStep(w))
  /\ \A r \in AllReaders : SF_storeVars(ReaderStep(r))

-----------------------------------------------------------------------------
(* Properties *)

BatchStates == {"open", "ending", "committed", "rolledback"}
WriterPhases == {"idle", "waiting", "locked", "writing", "committing", "rollingback",
                 "clearing", "unlocking"}
ReaderPhases == {"idle", "exec", "query", "rows", "answered", "failed"}

Batch == [kind : Kinds, state : BatchStates]

\* Every variable has its type.
StoreTypeOK ==
  /\ mu \in Writers \cup {None}
  /\ batches \in Seq(Batch)
  /\ tx \in 0 .. Len(batches)
  /\ conn \in Writers \cup AllReaders \cup {None}
  /\ committed \in [Tables -> 0 .. Len(batches)]
  /\ open \in [Tables -> 0 .. Len(batches)]
  /\ pc \in [Writers -> WriterPhases]
  /\ mine \in [Writers -> 0 .. Len(batches)]
  /\ step \in [Writers -> 1 .. 3]
  /\ DOMAIN request = AllReaders
  /\ serving \in BOOLEAN
  /\ errors \in 0 .. MaxErrors

InBatch(w) == pc[w] \in {"writing", "committing", "rollingback"}

\* BeginBatch admits one writer at a time: the one inside a batch holds the
\* mutex and the connection, and s.tx is its transaction, also after failed
\* begins, failed commits and rollbacks.
OneBatch ==
  /\ \A v, w \in Writers : InBatch(v) /\ InBatch(w) => v = w
  /\ \A w \in Writers : InBatch(w) => mu = w /\ conn = w /\ tx = mine[w]
  /\ mu = None => tx = NoTx

TablesOf(kind) == {Statements[kind][i] : i \in DOMAIN Statements[kind]}
Place(kind, table) == CHOOSE i \in DOMAIN Statements[kind] : Statements[kind][i] = table

\* Batches are atomic and serial: each table holds what the last committed
\* batch that writes it wrote, nothing of a batch that is open or rolled back.
CommittedWhole ==
  \A t \in Tables :
    LET writing == {b \in DOMAIN batches : batches[b].state = "committed"
                                           /\ t \in TablesOf(batches[b].kind)}
    IN IF writing = {} THEN committed[t] = 0
       ELSE committed[t] \in writing /\ \A b \in writing : b <= committed[t]

\* What one answer shows of a batch it shows in its later queries too: once
\* a query has met rows of a batch, a later one on another table of that batch
\* meets them as well, unless the batch was rolled back in between, or was
\* still open at the first query and wrote that table later.
AnswersAgree ==
  \A r \in AllReaders :
    LET seen == request[r].seen IN
    \A i, j \in DOMAIN seen : i < j /\ seen[i].batch # 0 =>
      LET b == seen[i].batch
          kind == batches[b].kind
          first == PlanOf(r)[i]
          later == PlanOf(r)[j]
      IN \/ batches[b].state = "rolledback"
         \/ later \notin TablesOf(kind)
         \/ seen[i].dirty /\ Place(kind, first) < Place(kind, later)
         \/ seen[j].batch >= b

\* GET /tokens never lists a registered token without its import record (it
\* would call it Indexed), although tokens and records are two queries and a
\* registration may come between or around them.
TokensHaveRecords ==
  \A r \in AllReaders :
    LET seen == request[r].seen IN
    (/\ request[r].phase = "answered"
     /\ request[r].handler = "tokens"
     /\ seen[1].batch # 0) => seen[2].batch >= seen[1].batch

\* No writer and no reader waits for ever: not for the mutex, not for the one
\* connection, not for queries running in the transaction.
NobodyWaitsForEver ==
  /\ \A w \in Writers : pc[w] # "idle" ~> pc[w] = "idle"
  /\ \A r \in AllReaders :
       request[r].phase \in {"exec", "query", "rows"} ~>
         request[r].phase \in {"idle", "answered", "failed"}
=============================================================================
