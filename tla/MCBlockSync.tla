---------------------------- MODULE MCBlockSync ----------------------------
(***************************************************************************)
(* A chain of four blocks around a migration at height 3, for two holders  *)
(* a and b, the base tokens, and one extra token.  Values above 3 stand    *)
(* for values beyond int64.  The blocks mix legacy and current contracts,  *)
(* a block whose batch holds the migration in the middle, a mint spent in  *)
(* the same block, a self-transfer, a reverted transaction, zero and       *)
(* oversized values.                                                       *)
(***************************************************************************)
EXTENDS BlockSync

CONSTANTS a, b, extra, b1, b2, b3, b4, fork

Ev(src, kind, from, to, v) ==
    [source |-> src, kind |-> kind, from |-> from, to |-> to, value |-> v,
     impacted |-> {from, to} \ {NoAddr}, reverted |-> FALSE]

Reverted(e) == [e EXCEPT !.reverted = TRUE]

Content(signer, parties, events) ==
    [signer |-> signer, parties |-> parties, events |-> events]

MCBlocks == {b1, b2, b3, b4, fork}

MCBody == [blk \in MCBlocks |->
    CASE blk = b1 -> Content(a, {a}, <<
              Ev(OldKoin, "mint", NoAddr, a, 2),
              Ev(OldVhp, "mint", NoAddr, b, 1),
              Ev(extra, "mint", NoAddr, a, 3),
              Ev(extra, "transfer", a, b, 2)>>)
      [] blk = b2 -> Content(a, {}, <<
              Ev(OldKoin, "transfer", a, b, 1),
              Ev(Vhp, "mint", NoAddr, a, 1),
              Reverted(Ev(extra, "transfer", a, b, 1))>>)
      [] blk = b3 -> Content(b, {a}, <<
              Ev(OldKoin, "burn", b, NoAddr, 1),
              Ev(Koin, "mint", NoAddr, b, 1),
              Ev(OldVhp, "transfer", b, a, 1),
              Ev(Vhp, "mint", NoAddr, b, 2)>>)
      [] blk = b4 -> Content(NoAddr, {b}, <<
              Ev(Vhp, "transfer", b, a, 1),
              Ev(Koin, "transfer", a, a, 1),
              Ev(extra, "burn", b, NoAddr, 1),
              Ev(extra, "mint", NoAddr, b, 0),
              Ev(extra, "other", a, b, 1)>>)
      [] blk = fork -> Content(b, {}, <<
              Ev(OldKoin, "mint", NoAddr, b, 2),
              Ev(extra, "mint", NoAddr, b, 4)>>)]

(* Two final chains: the fork block is on neither.                         *)
MCChains == {<<b1, b2, b3, b4>>, <<b1, b2, b3, b1>>}

(* For liveness the contents of blocks do not matter: one event each.      *)
MCShortChains == {<<b1, b2, b3>>}

MCShortBody == [blk \in MCBlocks |-> [MCBody[blk] EXCEPT !.events = SubSeq(@, 1, 1)]]

(* A final chain that holds the oversized extra-token mint.                *)
MCOversizeChains == {<<fork, b1, b2, b3>>}

(* A node that answers with no or too few blocks does so for the last      *)
(* range of a sync only: for an earlier range the loop would go on above   *)
(* the blocks it did not get (the run block_sync_gap).                     *)
Incomplete == pc = "fetch" /\ pc' # "idle" /\ faults' # faults

TailNext == Next /\ (Incomplete => cur + BatchSize > target)

TailSpec == Init /\ [][TailNext]_vars /\ WF_vars(SyncStep)
=============================================================================
