------------------------------- MODULE MCServing -------------------------------
(***************************************************************************)
(* The parts of the program around the two syncs, for TLC: the store's     *)
(* batches and readers (StoreBatch), the answers of the API                *)
(* (TransferQueries, ExplorerQueries), the reconciliation (Reconcile) and  *)
(* the life of the HTTP server (ApiServer). They share no variable, so one *)
(* run checks them next to each other: `part' says which of them moves in  *)
(* a behaviour, the others stay in one initial state.                      *)
(***************************************************************************)
EXTENDS StoreBatch, TransferQueries, ExplorerQueries, Reconcile, ApiServer, TLC

CONSTANTS
  Parts,        \* the parts a run is about
  alice, bob,   \* two addresses
  koin          \* a token

VARIABLE part

\* Workers and requests do not differ (for the runs of invariants only).
Alike == Permutations(Workers) \cup Permutations(Requests)

everything == <<part, storeVars, transfersVars, explorerVars, reconcileVars, serverVars>>

\* Reconcile: in block 2 the first address sends one unit to the second; the
\* others do not move.
MCChain == [h \in Heights |-> [k \in Known |->
  CASE k = 1 -> IF h < 2 THEN 2 ELSE 1
    [] k = 2 -> IF h < 2 THEN 0 ELSE 1
    [] OTHER -> 1]]

\* TransferQueries: a transfer between the two addresses, one of an address to
\* itself, a mint.
MCMoves == {[type |-> "transfer", from |-> alice, to |-> bob],
            [type |-> "transfer", from |-> alice, to |-> alice],
            [type |-> "mint", from |-> NoAddr, to |-> alice]}

Init ==
  /\ part \in Parts
  /\ StoreInit
  /\ TransfersInit
  /\ ExplorerInit
  /\ ReconcileInit /\ (part # "reconcile" => balance = MCChain[Synced] /\ nodeHead = Synced)
  /\ ServerInit /\ (part # "server" => apiOnly)

\* A handler of the indexing process (of two or fewer queries) beside both
\* writers, until it fails if it does; or a handler of another process beside
\* main() and its restarts; or both.
StoreMoves ==
  \/ part = "store"
  \/ /\ part = "api beside writers"
     /\ \A r \in SideReaders : request'[r] = request[r]
     /\ \A r \in Readers : request'[r].handler # "status" /\ request[r].phase # "failed"
  \/ /\ part = "other process"
     /\ \A r \in Readers : request'[r] = request[r]
     /\ \A w \in Writers \ {Main} : pc'[w] = pc[w]

\* Answers to whoever asks while blocks and replayed rows come in; and the walk
\* of one client to its end or to a rollback, with one token and a short chain,
\* where the address sends or receives.
TransferMoves ==
  \/ part = "transfers" /\ UNCHANGED <<walk, saved, rollbacks>>
  \/ /\ part = "walk"
     /\ height' <= 2
     /\ walk = NoWalk => rollbacks' = rollbacks
     /\ walk = NoWalk \/ (walk.on /\ ~walk.disturbed)
     /\ \A i \in DOMAIN transfers' :
          transfers'[i].token = koin /\ transfers'[i].from # transfers'[i].to

\* Rankings and ranges over any chain; and one call of GetProducers beside
\* batches of three blocks in all, where two addresses sign and one holds; the
\* chain rests once something the call saw has been rolled back.
ExplorerMoves ==
  \/ part = "explorer" /\ durable' = durable /\ report' = report
  \/ /\ part = "producers"
     /\ head' <= 3
     /\ \A a \in Addresses : bal'[a] # 0 => a = 1 /\ bal'[a] = 8
     /\ \A h \in DOMAIN signer' : signer'[h] < 3
     /\ report.undone => head' = head /\ durable' = durable

Next ==
  \/ /\ StoreNext /\ StoreMoves
     /\ UNCHANGED <<part, transfersVars, explorerVars, reconcileVars, serverVars>>
  \/ /\ TransfersNext /\ TransferMoves
     /\ UNCHANGED <<part, storeVars, explorerVars, reconcileVars, serverVars>>
  \/ /\ ExplorerNext /\ ExplorerMoves
     /\ UNCHANGED <<part, storeVars, transfersVars, reconcileVars, serverVars>>
  \/ /\ part = "reconcile" /\ ReconcileNext
     /\ UNCHANGED <<part, storeVars, transfersVars, explorerVars, serverVars>>
  \/ /\ part = "server" /\ ServerNext
     /\ UNCHANGED <<part, storeVars, transfersVars, explorerVars, reconcileVars>>

Spec == Init /\ [][Next]_everything

\* The fairness the modules state, each for the part that moves.
FairSpec ==
  /\ Spec
  /\ \A w \in Writers : SF_storeVars(WriterStep(w))
  /\ \A r \in AllReaders : SF_storeVars(ReaderStep(r))
  /\ WF_reconcileVars(part = "reconcile" /\ FeederStep)
  /\ WF_reconcileVars(part = "reconcile" /\ UpdateWriterStep)
  /\ \A w \in Workers : WF_reconcileVars(part = "reconcile" /\ WorkerStep(w))
  /\ WF_serverVars(part = "server" /\ StartStep)
  /\ WF_serverVars(part = "server" /\ DrainStep)
  /\ WF_serverVars(part = "server" /\ CallerStep)
  /\ WF_serverVars(caller = "reconcile" /\ WorkDone)

\* Every variable has its type.
TypeOK == StoreTypeOK /\ TransfersTypeOK /\ ExplorerTypeOK /\ ReconcileTypeOK /\ ServerTypeOK
================================================================================
