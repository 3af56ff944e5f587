--------------------------- MODULE HistoryBackfill ---------------------------
(***************************************************************************)
(* internal/backfill and runBackfills: import the history of every token   *)
(* registered with --track-token up to its cutoff height, before the block *)
(* sync may process anything above that height.                            *)
(*                                                                         *)
(* External: `hist' is each contract's complete irreversible account       *)
(* history, ascending; the history indexer has reached height `indexed'    *)
(* and serves the entries up to there, block by block.  Entry number i has *)
(* sequence number i - 1.  The KOIN contract has an entry in every block,  *)
(* so HistoryHeight answers `indexed'.                                     *)
(*                                                                         *)
(* stage:                                                                  *)
(*   paused   -> main() is about to call runBackfills (again)              *)
(*   next     -> runBackfills takes the next pending record                *)
(*   collect  -> Run is at the head of its loop                            *)
(*   coverage -> the page ended the history; HistoryHeight is being asked  *)
(*   apply    -> a batch is open, event k of entry `at' of the page next   *)
(*   verify   -> the replay is done, CheckToken runs                       *)
(*   ready    -> runBackfills returned nil                                 *)
(***************************************************************************)
EXTENDS TokenStore, FiniteSetsExt

CONSTANTS
    Histories,          \* the histories a run may start from
    LiveAccounts,       \* accounts the live sync has seen before the start
    PageSize,           \* PageSize
    Faults, MaxFaults   \* as in BlockSync: rpc, write, crash, power

Entry == [height : Heights, events : Seq(Event)]

ASSUME BackfillAssumption ==
    /\ Histories \subseteq [Extras -> Seq(Entry)]
    /\ \A hs \in Histories, t \in Extras :
          /\ Len(hs[t]) <= MaxSeq
          /\ \A i, j \in DOMAIN hs[t] : i < j => hs[t][i].height <= hs[t][j].height
    /\ LiveAccounts \subseteq Accounts
    /\ PageSize \in Nat \ {0}
    /\ Faults \subseteq {"empty", "short", "rpc", "write", "crash", "power"}
    /\ MaxFaults \in Nat

VARIABLES
    hist, indexed,              \* the account history service
    db, tx, durable,            \* the store, as in BlockSync
    stage, todo,                \* runBackfills
    token, seq, covered, page, outcome, at, k,  \* locals of Run
    faults

service == <<hist, indexed>>
store   == <<db, tx, durable>>
locals  == <<todo, token, seq, covered, page, outcome, at, k>>
vars    == <<service, store, stage, locals, faults>>

(* What Collect returns: the entries fetched, and the entries kept, those  *)
(* before the first one above the cutoff.  Its outcome for Run: read more, *)
(* the last page, or an exhausted history of a lagging indexer.            *)
Page     == [fetched : 0 .. PageSize, kept : 0 .. PageSize]
NoPage   == [fetched |-> 0, kept |-> 0]
Outcomes == {"more", "last", "lag"}

Stages == {"paused", "next", "collect", "coverage", "apply", "verify", "ready"}

TypeOK ==
    /\ hist \in [Extras -> Seq(Entry)] /\ indexed \in 0 .. MaxHeight
    /\ db \in Database /\ tx \in Database /\ durable \in Database
    /\ stage \in Stages /\ todo \subseteq Extras
    /\ token \in Extras \cup {NoAddr} /\ seq \in 0 .. MaxSeq
    /\ covered \in BOOLEAN /\ outcome \in Outcomes
    /\ page \in Page /\ at \in Nat /\ k \in Nat
    /\ faults \in 0 .. MaxFaults

(* Tokens registered at sync height h, on a database that has seen some    *)
(* accounts through other tokens, and nothing of these.                    *)
LiveSeen(h) == [x \in Addresses |-> IF x \in LiveAccounts /\ h > 0 THEN h ELSE NotSeen]

RegisteredAt(h, regs) ==
    [EmptyDatabase EXCEPT
        !.height = h,
        !.seen   = LiveSeen(h),
        !.tokens = @ \cup regs,
        !.bf     = [t \in Extras |->
            IF t \in regs THEN [NotRegistered EXCEPT !.known = TRUE, !.cutoff = h]
            ELSE NotRegistered]]

Init ==
    /\ hist \in Histories /\ indexed \in 0 .. MaxHeight
    /\ \E h \in 0 .. MaxHeight, regs \in SUBSET Extras :
          /\ db = RegisteredAt(h, regs)
          /\ tx = db /\ durable = db
    /\ stage = "paused" /\ todo = {}
    /\ token = NoAddr /\ seq = 0 /\ covered = FALSE
    /\ page = NoPage /\ outcome = "more" /\ at = 0 /\ k = 0
    /\ faults = 0

----------------------------------------------------------------------------
(* The account history service.                                            *)

AdvanceIndexer ==
    /\ indexed < MaxHeight
    /\ indexed' = indexed + 1
    /\ UNCHANGED <<hist, store, stage, locals, faults>>

Visible(t) == Cardinality({i \in DOMAIN hist[t] : hist[t][i].height <= indexed})

----------------------------------------------------------------------------
(* opsOf: which events of an entry are replayed, and which stop the replay.*)

Recognised(t, e) == e.source = t /\ e.kind \in TransferKinds

Unusable(t, e) == Recognised(t, e) /\ e.value > MaxSafeValue

Replayed(t, e) ==
    /\ Recognised(t, e)
    /\ e.value \in 1 .. MaxSafeValue
    /\ Debited(e) # NoAddr \/ Credited(e) # NoAddr

(* One Op of apply: first-seen heights, balances, the transfer row.        *)
Replay(s, h, t, e) ==
    LET seen == LowerFirstSeen(s, {Debited(e), Credited(e)} \ {NoAddr}, h)
    IN  RecordTransfer(MoveValue(seen, t, e), h, t, e)

----------------------------------------------------------------------------
(* runBackfills and Run.                                                   *)

ResetLocals ==
    /\ todo' = {} /\ token' = NoAddr /\ seq' = 0 /\ covered' = FALSE
    /\ page' = NoPage /\ outcome' = "more" /\ at' = 0 /\ k' = 0

(* Mutant: the open batch is committed when a page fails.                  *)
PauseCommits ==
    /\ stage' = "paused"
    /\ db' = tx /\ tx' = tx /\ durable' = tx
    /\ ResetLocals
    /\ UNCHANGED service

(* An error: main() waits a minute and calls runBackfills again.           *)
Pause ==
    /\ stage' = "paused"
    /\ tx' = db
    /\ ResetLocals
    /\ UNCHANGED <<service, db, durable>>

(* Mutant: a replay that has begun is not taken up again.                  *)
ListPendingFresh ==
    /\ stage = "paused"
    /\ todo' = {t \in Extras : db.bf[t].known /\ ~db.bf[t].done /\ db.bf[t].next = 0}
    /\ stage' = "next"
    /\ UNCHANGED <<service, store, token, seq, covered, page, outcome, at, k, faults>>

ListPending ==
    /\ stage = "paused"
    /\ todo' = {t \in Extras : db.bf[t].known /\ ~(db.bf[t].done /\ db.bf[t].verified)}
    /\ stage' = "next"
    /\ UNCHANGED <<service, store, token, seq, covered, page, outcome, at, k, faults>>

(* A record that is not done is replayed from its cursor; one that is done *)
(* but not verified is only checked again.                                 *)
TakeToken ==
    /\ stage = "next"
    /\ \E t \in todo :
        /\ token' = t
        /\ todo' = todo \ {t}
        /\ seq' = db.bf[t].next
        /\ stage' = IF db.bf[t].done THEN "verify" ELSE "collect"
    /\ covered' = FALSE
    /\ UNCHANGED <<service, store, page, outcome, at, k, faults>>

AllDone ==
    /\ stage = "next"
    /\ todo = {}
    /\ stage' = "ready"
    /\ ResetLocals
    /\ UNCHANGED <<service, store, faults>>

(* One page from seq on: it stops before the first entry above the cutoff, *)
(* which proves that the history reaches past it.  An exhausted history    *)
(* proves nothing unless the indexer was known to be past the cutoff when  *)
(* the page was fetched.  An event that cannot be replayed is an error.    *)
CollectPage ==
    LET entries == hist[token]
        left    == Visible(token) - seq
        fetched == IF left > PageSize THEN PageSize ELSE left
        above   == {i \in 1 .. fetched : entries[seq + i].height > db.bf[token].cutoff}
        kept    == IF above = {} THEN fetched ELSE Min(above) - 1
        end     == fetched < PageSize /\ above = {}
        stuck   == \E i \in 1 .. kept : \E j \in DOMAIN entries[seq + i].events :
                       Unusable(token, entries[seq + i].events[j])
    IN  /\ stage = "collect"
        /\ IF stuck
           THEN Pause
           ELSE /\ page' = [fetched |-> fetched, kept |-> kept]
                /\ outcome' = IF above # {} \/ (end /\ covered) THEN "last" ELSE "more"
                /\ stage' = IF end /\ ~covered THEN "coverage" ELSE "apply"
                /\ tx' = db
                /\ at' = 1 /\ k' = 1
                /\ UNCHANGED <<service, db, durable, todo, token, seq, covered>>
        /\ UNCHANGED faults

(* Mutant: an indexer past the cutoff ends the replay without reading the  *)
(* tail again.                                                             *)
CheckCoverageOnce ==
    /\ stage = "coverage"
    /\ covered' = (indexed >= db.bf[token].cutoff)
    /\ outcome' = IF covered' THEN "last" ELSE "lag"
    /\ stage' = "apply"
    /\ UNCHANGED <<service, store, todo, token, seq, page, at, k, faults>>

(* Mutant: the indexer must be beyond the cutoff, not at it.               *)
CheckCoverageBeyond ==
    /\ stage = "coverage"
    /\ covered' = (indexed > db.bf[token].cutoff)
    /\ outcome' = IF covered' THEN "more" ELSE "lag"
    /\ stage' = "apply"
    /\ UNCHANGED <<service, store, todo, token, seq, page, at, k, faults>>

(* HistoryHeight: past the cutoff, the tail is read once more; below it,   *)
(* or unknown, the page is applied and the replay taken up again later.    *)
CheckCoverage ==
    /\ stage = "coverage"
    /\ \/ covered' = (indexed >= db.bf[token].cutoff) /\ faults' = faults
       \/ covered' = FALSE /\ "rpc" \in Faults /\ faults < MaxFaults /\ faults' = faults + 1
    /\ outcome' = IF covered' THEN "more" ELSE "lag"
    /\ stage' = "apply"
    /\ UNCHANGED <<service, store, todo, token, seq, page, at, k>>

ApplyOp ==
    /\ stage = "apply"
    /\ at <= page.kept
    /\ LET entry == hist[token][seq + at]
       IN  IF k <= Len(entry.events)
           THEN /\ tx' = IF Replayed(token, entry.events[k])
                         THEN Replay(tx, entry.height, token, entry.events[k])
                         ELSE tx
                /\ k' = k + 1
                /\ UNCHANGED at
           ELSE /\ at' = at + 1
                /\ k' = 1
                /\ UNCHANGED tx
    /\ UNCHANGED <<service, db, durable, stage, todo, token, seq, covered, page, outcome, faults>>

(* Mutant: the cursor moves by the page size, not by what was read.        *)
NextSeqByPage == seq + PageSize

(* Mutant: the cursor stays on the last entry that was read.               *)
NextSeqAtLast == IF page.kept = 0 THEN seq ELSE seq + page.kept - 1

(* LastSeq stays 0 when no entry was kept: the cursor then moves to 1 if   *)
(* the very first entry is above the cutoff.                               *)
NextSeq ==
    LET lastSeq == IF page.kept = 0 THEN 0 ELSE seq + page.kept - 1
    IN  IF page.fetched > 0 /\ lastSeq >= seq THEN lastSeq + 1 ELSE seq

(* A commit reaches the disk at the next checkpoint (synchronous = NORMAL).*)
Write(s) ==
    /\ db' = s /\ tx' = s
    /\ durable' \in IF "power" \in Faults THEN {durable, s} ELSE {s}

(* The page and its progress record in one batch; then the error of a      *)
(* lagging indexer, the end of Run, or the next page.                      *)
CommitPage ==
    /\ stage = "apply"
    /\ at > page.kept
    /\ Write(UpsertBackfill(tx, token,
             [db.bf[token] EXCEPT !.next = NextSeq, !.done = (outcome = "last")]))
    /\ CASE outcome = "lag" ->
              /\ stage' = "paused"
              /\ ResetLocals
         [] outcome = "last" ->
              /\ stage' = "verify"
              /\ page' = NoPage /\ outcome' = "more" /\ at' = 0 /\ k' = 0
              /\ UNCHANGED <<todo, token, seq, covered>>
         [] OTHER ->
              /\ stage' = "collect"
              /\ seq' = NextSeq
              /\ UNCHANGED <<todo, token, covered, page, outcome, at, k>>
    /\ UNCHANGED <<service, faults>>

(* verifyBackfill: the check does not run, or runs and is recorded.  What  *)
(* the node answers about the holders is not modelled: any outcome.        *)
Verify ==
    /\ stage = "verify"
    /\ \/ UNCHANGED store
       \/ \E v \in BOOLEAN :
             Write(UpsertBackfill(db, token, [db.bf[token] EXCEPT !.verified = v]))
    /\ stage' = "next"
    /\ token' = NoAddr /\ seq' = 0 /\ covered' = FALSE
    /\ UNCHANGED <<service, todo, page, outcome, at, k, faults>>

BackfillStep ==
    \/ ListPending \/ TakeToken \/ AllDone
    \/ CollectPage \/ CheckCoverage \/ ApplyOp \/ CommitPage \/ Verify

----------------------------------------------------------------------------
(* Faults.                                                                 *)

Fail(kind) ==
    /\ kind \in Faults
    /\ faults < MaxFaults
    /\ faults' = faults + 1

HttpError  == stage = "collect" /\ Fail("rpc") /\ Pause
WriteError == stage = "apply" /\ Fail("write") /\ Pause
Crash      == stage # "paused" /\ Fail("crash") /\ Pause

PowerLoss ==
    /\ Fail("power")
    /\ db' = durable /\ tx' = durable
    /\ stage' = "paused"
    /\ ResetLocals
    /\ UNCHANGED <<service, durable>>

Next ==
    \/ AdvanceIndexer \/ BackfillStep
    \/ HttpError \/ WriteError \/ Crash \/ PowerLoss

Spec == Init /\ [][Next]_vars

(* main() calls runBackfills again a minute after it failed, Run loops     *)
(* until it returns, and the history indexer keeps following the chain.    *)
FairSpec == Spec /\ WF_vars(BackfillStep) /\ WF_vars(AdvanceIndexer)

----------------------------------------------------------------------------
(* Reference definitions.                                                  *)

Registered == {t \in Extras : db.bf[t].known}

(* The entries a progress record claims: all up to the cutoff once done,   *)
(* before that those below the cursor.                                     *)
Claimed(t) ==
    {i \in DOMAIN hist[t] : IF db.bf[t].done THEN hist[t][i].height <= db.bf[t].cutoff
                            ELSE i <= db.bf[t].next}

At(t, p) == hist[t][p[1]].events[p[2]]

(* The token's events with a value and a party, as positions.              *)
Moves(t, entries) ==
    UNION {{<<i, j>> : j \in {n \in DOMAIN hist[t][i].events :
                                LET e == hist[t][i].events[n]
                                IN  /\ e.source = t /\ e.kind # "other" /\ e.value > 0
                                    /\ {Debited(e), Credited(e)} # {NoAddr}}}
           : i \in entries}

Net(t, a, ps) ==
    LET gain(p)  == IF Credited(At(t, p)) = a THEN At(t, p).value ELSE 0
        spend(p) == IF Debited(At(t, p)) = a THEN At(t, p).value ELSE 0
    IN  MapThenSumSet(gain, ps) - MapThenSumSet(spend, ps)

RowsOf(t) == {r \in db.rows : r.token = t}

----------------------------------------------------------------------------
(* Properties.                                                             *)

(* Balances and progress never part: whatever failed, crashed or lost      *)
(* power between pages, a token's balances are the sum of exactly the      *)
(* entries its progress record claims, each counted once.                  *)
ReplayedOnce ==
    \A t \in Registered, a \in Accounts :
        db.bal[t][a] = Net(t, a, Moves(t, Claimed(t)))

(* So is the transfer history, and none of it lies above the cutoff.       *)
RowsMatchProgress ==
    \A t \in Registered :
        /\ Cardinality(RowsOf(t)) = Cardinality(Moves(t, Claimed(t)))
        /\ \A r \in RowsOf(t) :
              /\ r.height <= db.bf[t].cutoff
              /\ \E p \in Moves(t, Claimed(t)) :
                    /\ r.height = hist[t][p[1]].height /\ r.kind = At(t, p).kind
                    /\ r.from = Debited(At(t, p)) /\ r.to = Credited(At(t, p))
                    /\ r.value = At(t, p).value

(* An address moves back to its first replayed activity, and only back.    *)
FirstSeenLowered ==
    \A a \in Accounts :
        LET heights == UNION {{hist[t][p[1]].height :
                                 p \in {q \in Moves(t, Claimed(t)) :
                                          a \in {Debited(At(t, q)), Credited(At(t, q))}}}
                              : t \in Registered}
        IN  db.seen[a] = Min(heights \cup {LiveSeen(db.height)[a]})

(* The block sync is let go only when every registered token's history up  *)
(* to the sync height has been imported, also what the history indexer     *)
(* served only after the last short page.                                  *)
ReadyMeansComplete ==
    stage = "ready" => \A t \in Registered :
        Cardinality(RowsOf(t)) =
        Cardinality(Moves(t, {i \in DOMAIN hist[t] : hist[t][i].height <= db.height}))

(* The block sync is not held back for ever: once errors stop and the      *)
(* history indexer has caught up, every replay finishes.                   *)
EventuallyReady == <>[](stage = "ready")
=============================================================================
