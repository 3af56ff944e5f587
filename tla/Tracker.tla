------------------------------- MODULE Tracker -------------------------------
(***************************************************************************)
(* The process of cmd/koinos-token-tracker: main() registers the tokens    *)
(* named by --track-token, loads every token the database knows, imports   *)
(* the pending histories, catches up with the LIB once, and then calls     *)
(* SyncToHead for ever.  It may be stopped or killed anywhere and started  *)
(* again with other flags.                                                 *)
(*                                                                         *)
(* BlockSync and HistoryBackfill run on the same store, one after the      *)
(* other.  The account history service serves the history of the same      *)
(* chain and lags behind the LIB by an arbitrary distance.                 *)
(*                                                                         *)
(* phase: down -> register -> backfill -> startup -> live                  *)
(***************************************************************************)
EXTENDS TokenStore, FiniteSetsExt

CONSTANTS Body, Chains, GenesisLib, BatchSize, EmptyRetryLimit, PageSize,
          Faults, MaxFaults

(* The assumptions of BlockSync and HistoryBackfill; MaxSeq leaves room    *)
(* for an entry in every block.                                            *)
ASSUME TrackerAssumption ==
    /\ Body \in [Blocks -> BlockBody]
    /\ Chains \subseteq [Heights -> Blocks]
    /\ GenesisLib \in 0 .. MaxHeight
    /\ BatchSize \in Nat \ {0} /\ EmptyRetryLimit \in Nat
    /\ PageSize \in Nat \ {0} /\ MaxHeight <= MaxSeq
    /\ Faults \subseteq {"empty", "short", "rpc", "write", "crash", "power"}
    /\ MaxFaults \in Nat

VARIABLES
    chain, head, lib, indexed,                          \* node and history service
    db, tx, durable, extras,                            \* store, cfg.ExtraTokens
    phase, flags,                                       \* main()
    pc, cur, target, safe, items, pos, k, retries,      \* SyncToHead
    stage, todo, token, seq, covered, page, outcome, at, op,    \* runBackfills, Run
    faults

node      == <<chain, head, lib>>
store     == <<db, tx, durable>>
syncer    == <<pc, cur, target, safe, items, pos, k, retries>>
importer  == <<stage, todo, token, seq, covered, page, outcome, at, op>>
vars      == <<node, indexed, store, extras, phase, flags, syncer, importer, faults>>

(* The blocks of chain c that hold an event of contract t.                 *)
EventHeights(c, t) ==
    {h \in Heights : \E i \in DOMAIN Body[c[h]].events : Body[c[h]].events[i].source = t}

(* The account histories of chain c: for each contract one entry per block *)
(* that holds an event of it, by height.                                   *)
HistoryOn(c) == [t \in Extras |->
    LET blocks == EventHeights(c, t)
        nth(i) == CHOOSE h \in blocks : Cardinality({g \in blocks : g <= h}) = i
    IN  [i \in 1 .. Cardinality(blocks) |->
            [height |-> nth(i), events |-> Body[c[nth(i)]].events]]]

History == HistoryOn(chain)

Sync   == INSTANCE BlockSync
Import == INSTANCE HistoryBackfill WITH
              hist <- History, k <- op,
              Histories <- {HistoryOn(c) : c \in Chains}, LiveAccounts <- {}

Phases == {"down", "register", "backfill", "startup", "live"}

TypeOK == Sync!TypeOK /\ Import!TypeOK /\ phase \in Phases /\ flags \subseteq Extras

Init ==
    /\ Sync!Init
    /\ extras = {}
    /\ phase = "down" /\ flags = {} /\ indexed = 0
    /\ stage = "paused" /\ todo = {} /\ token = NoAddr /\ seq = 0 /\ covered = FALSE
    /\ page = Import!NoPage /\ outcome = "more" /\ at = 0 /\ op = 0

----------------------------------------------------------------------------
(* The outside world.                                                      *)

Environment ==
    /\ \/ (Sync!ProduceBlock \/ Sync!Finalize) /\ indexed' = indexed
       \/ indexed < lib /\ indexed' = indexed + 1 /\ UNCHANGED <<node, store, extras, syncer, faults>>
    /\ UNCHANGED <<phase, flags, importer>>

----------------------------------------------------------------------------
(* main().                                                                 *)

Start ==
    /\ phase = "down"
    /\ phase' = "register"
    /\ flags' \in SUBSET Extras
    /\ UNCHANGED <<node, indexed, store, extras, syncer, importer, faults>>

Write(s) ==
    /\ db' = s /\ tx' = s
    /\ durable' \in IF "power" \in Faults THEN {durable, s} ELSE {s}

(* Mutant: the cutoff is the LIB of the node, not the sync height.         *)
RegisterTokenAtLib ==
    /\ phase = "register"
    /\ \E t \in flags :
        /\ flags' = flags \ {t}
        /\ IF db.bf[t].known
           THEN UNCHANGED store
           ELSE Write(UpsertBackfill(UpsertToken(db, t), t,
                    [NotRegistered EXCEPT !.known = TRUE, !.cutoff = lib]))
    /\ UNCHANGED <<node, indexed, extras, phase, syncer, importer, faults>>

(* registerTrackedTokens: token and backfill record in one batch, with the *)
(* current sync height as the cutoff.                                      *)
RegisterToken ==
    /\ phase = "register"
    /\ \E t \in flags :
        /\ flags' = flags \ {t}
        /\ IF db.bf[t].known
           THEN UNCHANGED store
           ELSE Write(UpsertBackfill(UpsertToken(db, t), t,
                    [NotRegistered EXCEPT !.known = TRUE, !.cutoff = db.height]))
    /\ UNCHANGED <<node, indexed, extras, phase, syncer, importer, faults>>

(* Mutant: the base tokens are loaded as extra tokens too.                 *)
LoadAllTokens ==
    /\ phase = "register"
    /\ flags = {}
    /\ extras' = db.tokens
    /\ phase' = "backfill"
    /\ UNCHANGED <<node, indexed, store, flags, syncer, importer, faults>>

(* Mutant: only tokens that are still to be imported are loaded.           *)
LoadPendingTokens ==
    /\ phase = "register"
    /\ flags = {}
    /\ extras' = {t \in db.tokens \ {Koin, Vhp} : ~db.bf[t].done}
    /\ phase' = "backfill"
    /\ UNCHANGED <<node, indexed, store, flags, syncer, importer, faults>>

(* loadExtraTokens: every token of the database, not just this run's flags.*)
LoadExtraTokens ==
    /\ phase = "register"
    /\ flags = {}
    /\ extras' = db.tokens \ {Koin, Vhp}
    /\ phase' = "backfill"
    /\ UNCHANGED <<node, indexed, store, flags, syncer, importer, faults>>

(* Mutant: a failed import lets the block sync start all the same.         *)
BackfillOnce ==
    /\ phase = "backfill"
    /\ UNCHANGED <<node, indexed, extras, flags, syncer>>
    /\ Import!BackfillStep \/ Import!HttpError \/ Import!WriteError
    /\ phase' = IF stage' \in {"ready", "paused"} THEN "startup" ELSE "backfill"

(* The retry loop around runBackfills.                                     *)
Backfill ==
    /\ phase = "backfill"
    /\ UNCHANGED <<node, indexed, extras, flags, syncer>>
    /\ Import!BackfillStep \/ Import!HttpError \/ Import!WriteError
    /\ phase' = IF stage' = "ready" THEN "startup" ELSE "backfill"

(* SyncToHead, at startup and then from the ticker.  The first call that   *)
(* returns nil, even with nothing to do, ends the startup.                 *)
SyncToHead ==
    /\ phase \in {"startup", "live"}
    /\ UNCHANGED <<indexed, flags, importer>>
    /\ \/ Sync!SyncStep \/ Sync!EmptyAnswer
       \/ phase = "live" /\ (Sync!RpcError \/ Sync!WriteError)
    /\ phase' = IF pc # "idle" /\ pc' = "idle" THEN "live" ELSE phase

NothingToSync ==
    /\ phase = "startup"
    /\ pc = "idle"
    /\ db.height >= Sync!TargetHeight
    /\ phase' = "live"
    /\ UNCHANGED <<node, indexed, store, extras, flags, syncer, importer, faults>>

----------------------------------------------------------------------------
(* The process ends: a signal, a crash, or an os.Exit of main() when a     *)
(* registration or the startup sync fails.  A batch that was open is gone. *)

Stopped ==
    /\ phase' = "down" /\ flags' = {} /\ extras' = {}
    /\ pc' = "idle" /\ Sync!ResetLocals
    /\ stage' = "paused" /\ Import!ResetLocals
    /\ UNCHANGED <<node, indexed>>

Crash ==
    /\ phase # "down"
    /\ Sync!Fail("crash")
    /\ Stopped
    /\ tx' = db
    /\ UNCHANGED <<db, durable>>

PowerLoss ==
    /\ phase # "down"
    /\ Sync!Fail("power")
    /\ Stopped
    /\ db' = durable /\ tx' = durable /\ durable' = durable

MainStep ==
    \/ Start \/ RegisterToken \/ LoadExtraTokens
    \/ Backfill \/ SyncToHead \/ NothingToSync

Next == Environment \/ MainStep \/ Crash \/ PowerLoss

Spec == Init /\ [][Next]_vars

(* A supervisor restarts the process (restart: always), the retry loop and *)
(* the ticker keep it going, and the services keep up with the chain.      *)
FairSpec == Spec /\ WF_vars(MainStep) /\ WF_vars(Environment)

----------------------------------------------------------------------------
(* Properties.                                                             *)

Registered == {t \in Extras : db.bf[t].known}
Indexed    == {t \in Registered : db.bf[t].done}

(* The events of token t in blocks 1..db.height, as positions.             *)
Moves(t) ==
    LET src(h) == {t} IN Sync!Positions(src, 1, db.height)

(* No block above the cutoff is indexed before the token's history is: its *)
(* spends would be clamped at zero against funding not yet imported.       *)
SyncWaitsForImport ==
    \A t \in Registered : ~db.bf[t].done => db.height = db.bf[t].cutoff

(* A token once indexed is complete: import and live sync meet exactly at  *)
(* the cutoff, whenever it was registered and however often the process    *)
(* was restarted with other flags in between.                              *)
WholeHistoryOnce ==
    \A t \in Indexed, a \in Accounts : db.bal[t][a] = Sync!Net(a, Moves(t))

(* The same for its transfer history; a token never registered has none.   *)
WholeTransfersOnce ==
    /\ \A t \in Indexed :
          Cardinality({r \in db.rows : r.token = t}) = Cardinality(Moves(t))
    /\ \A r \in db.rows : r.token \in {Koin, Vhp} \cup Registered

(* Whatever is irreversible gets indexed, for every registered token.      *)
CatchesUp ==
    \A n \in Heights : lib >= n ~> db.height >= n /\ Registered = Indexed
=============================================================================
