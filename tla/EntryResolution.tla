---------------------------- MODULE EntryResolution ----------------------------
(***************************************************************************)
(* How the history replay finds out in which block a transaction is        *)
(* (backfill.Client: blockOf, getJSONOrFallback; Collect).  An entry of an *)
(* account history names a transaction, not its height.  The client asks   *)
(* for the blocks containing it, and takes the one that is the block at    *)
(* its height on the primary node's chain.  Both answers are cached and    *)
(* never dropped while one call of Run lasts, and the chain goes on.       *)
(*                                                                         *)
(* The primary node (external): two branches share the blocks up to        *)
(* ForkAt; it follows `branch', and may change its mind until the LIB is   *)
(* past the fork.  A transaction is at most once on a branch, and may also *)
(* be in blocks of forks nobody follows.                                   *)
(*                                                                         *)
(* stage: entry -> Collect takes the next entry; containing -> the blocks  *)
(* of the transaction are asked for; candidates -> at the head of the loop *)
(* over them; canonical -> candidate `cand' is compared with the chain;    *)
(* stopped -> an entry above the cutoff ended the replay; failed -> Run    *)
(* returned an error and is called again.                                  *)
(***************************************************************************)
EXTENDS Integers, FiniteSets

CONSTANTS
    Txs,             \* transactions, numbered: their order within a block
    Placements,      \* where the transactions may be
    MaxHeight,       \* bound: the highest block
    ForkAt,          \* the last block the two branches share
    StartLibs,       \* the LIBs of the primary node a run may start with
    Cutoffs,         \* the cutoff heights
    Missing,         \* transactions the primary's transaction store lacks
    HasFallback,     \* a fallback node is configured
    MaxFaults        \* bound: failed or partial answers

Heights  == 1 .. MaxHeight
Branches == {"a", "b"}
Block    == Heights \X {"trunk", "a", "b", "dead"}
NoBlock  == <<0, "none">>

ASSUME ResolutionAssumption ==
    /\ Txs \subseteq Nat /\ IsFiniteSet(Txs) /\ Missing \subseteq Txs
    /\ {MaxHeight, ForkAt, MaxFaults} \subseteq Nat
    /\ Placements \subseteq [Txs -> [a : 0 .. MaxHeight, b : 0 .. MaxHeight, dead : SUBSET Heights]]
    /\ \A p \in Placements, t \in Txs :
          /\ \E br \in Branches : p[t][br] # 0
          /\ p[t].a = p[t].b \/ \A br \in Branches : p[t][br] \notin 1 .. ForkAt
    /\ StartLibs \subseteq Heights /\ Cutoffs \subseteq Heights
    /\ HasFallback \in BOOLEAN

VARIABLES
    at, cutoff,                    \* the transactions, and the record's cutoff
    branch, lib,                   \* the primary node
    blocks, canon,                 \* Client.blocks and Client.canon
    seq, tx, left, cand, stage,    \* locals of Run, Collect and blockOf
    placed,                        \* the height each replayed entry was given
    faults

node   == <<at, cutoff, branch, lib>>
caches == <<blocks, canon>>
resolutionVars   == <<node, caches, seq, tx, left, cand, stage, placed, faults>>

NoTx == 0

ResolutionInit ==
    /\ at \in Placements /\ cutoff \in Cutoffs
    /\ branch \in Branches /\ lib \in StartLibs
    /\ blocks = {} /\ canon = [h \in Heights |-> NoBlock]
    /\ seq = 0 /\ tx = NoTx /\ left = {} /\ cand = NoBlock /\ stage = "entry"
    /\ placed = [t \in Txs |-> 0]
    /\ faults = 0

-----------------------------------------------------------------------------
(* The primary node.                                                         *)

BlockAt(h, br) == IF h <= ForkAt THEN <<h, "trunk">> ELSE <<h, br>>

Containing(t) ==
    {BlockAt(at[t][br], br) : br \in {br \in Branches : at[t][br] # 0}}
    \cup {<<h, "dead">> : h \in at[t].dead}

\* The irreversible history: the account's transactions, in chain order.
History == {t \in Txs : at[t][branch] \in 1 .. lib}

\* How many entries come before that of t: its sequence number.
SeqOf(t) ==
    Cardinality({s \in History : \/ at[s][branch] < at[t][branch]
                                 \/ at[s][branch] = at[t][branch] /\ s < t})

AdvanceLib ==
    /\ lib < MaxHeight
    /\ lib' = lib + 1
    /\ UNCHANGED <<at, cutoff, branch, caches, seq, tx, left, cand, stage, placed, faults>>

Reorganise ==
    /\ lib <= ForkAt
    /\ branch' \in Branches \ {branch}
    /\ UNCHANGED <<at, cutoff, lib, caches, seq, tx, left, cand, stage, placed, faults>>

-----------------------------------------------------------------------------
(* Collect and blockOf.                                                      *)

Fault == faults < MaxFaults /\ faults' = faults + 1

NextEntry ==
    /\ stage = "entry"
    /\ tx' \in History /\ SeqOf(tx') = seq
    /\ stage' = "containing"
    /\ UNCHANGED <<node, caches, seq, left, cand, placed, faults>>

Answer(ids) ==
    /\ left' = ids
    /\ stage' = "candidates"
    /\ UNCHANGED <<node, caches, seq, tx, cand, placed>>

Fail ==
    /\ stage' = "failed"
    /\ UNCHANGED <<node, caches, seq, tx, left, cand, placed>>

\* The primary knows every block of a transaction it has.  What it does not
\* answer is asked of the fallback, which may know only some of the blocks.
AskContaining ==
    /\ stage = "containing"
    /\ \/ tx \notin Missing /\ Answer(Containing(tx)) /\ UNCHANGED faults
       \/ tx \in Missing /\ HasFallback /\ Answer(Containing(tx)) /\ UNCHANGED faults
       \/ /\ HasFallback /\ Fault
          /\ \E ids \in (SUBSET Containing(tx)) \ {{}} : Answer(ids)
       \/ Fail /\ IF tx \in Missing /\ ~HasFallback THEN UNCHANGED faults ELSE Fault

\* Mutant: the block after the cutoff is still replayed.
PlaceOneMore(h) ==
    /\ IF h > cutoff + 1
       THEN /\ stage' = "stopped"
            /\ UNCHANGED <<seq, placed>>
       ELSE /\ stage' = "entry"
            /\ seq' = seq + 1
            /\ placed' = [placed EXCEPT ![tx] = h]
    /\ left' = {} /\ cand' = NoBlock
    /\ UNCHANGED <<node, tx>>

\* Collect with the height of the entry: above the cutoff it stops the replay.
Place(h) ==
    /\ IF h > cutoff
       THEN /\ stage' = "stopped"
            /\ UNCHANGED <<seq, placed>>
       ELSE /\ stage' = "entry"
            /\ seq' = seq + 1
            /\ placed' = [placed EXCEPT ![tx] = h]
    /\ left' = {} /\ cand' = NoBlock
    /\ UNCHANGED <<node, tx>>

Skip(id) ==
    /\ left' = left \ {id}
    /\ cand' = NoBlock /\ stage' = "candidates"
    /\ UNCHANGED <<node, blocks, seq, tx, placed>>

\* Mutant: any cached block is taken, not only a candidate.
TakeAnyCached ==
    /\ stage = "candidates"
    /\ \E id \in blocks : Place(id[1])
    /\ UNCHANGED <<caches, faults>>

\* A candidate in Client.blocks is taken at once.
TakeCached ==
    /\ stage = "candidates"
    /\ \E id \in left \cap blocks : Place(id[1])
    /\ UNCHANGED <<caches, faults>>

\* The block itself may come from either node; without it the candidate is
\* passed over.
AskBlock ==
    /\ stage = "candidates"
    /\ \E id \in left \ blocks :
         \/ /\ cand' = id /\ stage' = "canonical"
            /\ UNCHANGED <<node, caches, seq, tx, left, placed, faults>>
         \/ Skip(id) /\ Fault /\ UNCHANGED canon

\* Mutant: the first containing block is taken.
CompareNothing ==
    /\ stage = "canonical"
    /\ Place(cand[1]) /\ blocks' = blocks \cup {cand}
    /\ UNCHANGED <<canon, faults>>

\* The block at the candidate's height, from Client.canon or from the primary
\* node, and only from it: the candidate is taken if it is that block.
Compare ==
    LET h  == cand[1]
        id == IF canon[h] # NoBlock THEN canon[h] ELSE BlockAt(h, branch)
    IN /\ stage = "canonical"
       /\ \/ /\ canon' = [canon EXCEPT ![h] = id]
             /\ IF id = cand THEN Place(h) /\ blocks' = blocks \cup {cand}
                             ELSE Skip(cand)
             /\ UNCHANGED faults
          \/ canon[h] = NoBlock /\ Skip(cand) /\ Fault /\ UNCHANGED canon

\* Mutant: the entry is passed over.
ExhaustedPasses ==
    /\ stage = "candidates"
    /\ left = {}
    /\ stage' = "entry" /\ seq' = seq + 1
    /\ UNCHANGED <<node, caches, tx, left, cand, placed, faults>>

\* Mutant: the same candidates are gone through for ever.
ExhaustedRepeats ==
    /\ stage = "candidates"
    /\ left = {}
    /\ UNCHANGED resolutionVars

\* No candidate was on the chain, or those that were could not be looked up.
Exhausted ==
    /\ stage = "candidates"
    /\ left = {}
    /\ Fail
    /\ UNCHANGED faults

\* main() calls runBackfills again: a new client, from the last committed page.
Retry ==
    /\ stage = "failed"
    /\ stage' = "entry" /\ tx' = NoTx /\ left' = {} /\ cand' = NoBlock
    /\ blocks' = {} /\ canon' = [h \in Heights |-> NoBlock]
    /\ \E s \in 0 .. seq :
         /\ seq' = s
         /\ placed' = [t \in Txs |-> IF t \in History /\ SeqOf(t) < s THEN placed[t] ELSE 0]
    /\ UNCHANGED <<node, faults>>

ReplayStep ==
    \/ NextEntry \/ AskContaining \/ TakeCached \/ AskBlock \/ Compare \/ Exhausted \/ Retry

ResolutionNext == AdvanceLib \/ Reorganise \/ ReplayStep

ResolutionSpec == ResolutionInit /\ [][ResolutionNext]_resolutionVars

\* The chain goes on and Run is called until it returns without an error.
ResolutionFairSpec == ResolutionSpec /\ WF_resolutionVars(AdvanceLib) /\ WF_resolutionVars(ReplayStep)

-----------------------------------------------------------------------------
(* Properties.                                                               *)

\* Every variable has its type; an entry is placed only within the cutoff.
ResolutionTypeOK ==
    /\ branch \in Branches /\ lib \in Heights
    /\ blocks \subseteq Block /\ canon \in [Heights -> Block \cup {NoBlock}]
    /\ seq \in 0 .. Cardinality(History) /\ tx \in Txs \cup {NoTx}
    /\ left \subseteq Block /\ cand \in Block \cup {NoBlock}
    /\ stage \in {"entry", "containing", "candidates", "canonical", "stopped", "failed"}
    /\ placed \in [Txs -> 0 .. cutoff]
    /\ faults \in 0 .. MaxFaults

\* However the chain switched between the answers the caches hold, a replayed
\* entry carries the height its transaction has on the irreversible chain.
PlacedRight == \A t \in Txs : placed[t] # 0 => placed[t] = at[t][branch]

\* The replay is ended by a transaction that really is above the cutoff, also
\* when the height it was given is one that a reorganisation took back.
StopIsAboveCutoff == stage = "stopped" => at[tx][branch] > cutoff

\* When it ends, nothing at or below the cutoff was passed over.
NothingLeftOut ==
    stage = "stopped" => \A t \in Txs : at[t][branch] \in 1 .. cutoff => placed[t] # 0

\* What is replayed is the history up to the cutoff, each entry at its height and
\* none of it missing, whichever blocks the node took back in between.
ReplayExact == PlacedRight /\ StopIsAboveCutoff /\ NothingLeftOut

\* Failed answers, and answers the caches made useless, delay the replay but
\* do not keep an irreversible transaction up to the cutoff out of it.
EveryEntryPlaced ==
    \A t \in Txs : [](at[t][branch] \in 1 .. cutoff /\ at[t][branch] <= lib => <>(placed[t] # 0))
================================================================================
