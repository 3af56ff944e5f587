---------------------------- MODULE ImportDataProofs ----------------------------
(***************************************************************************)
(* Theorems about what an import reads. EntryResolution: the heights the   *)
(* replay gives to its entries are right and no entry is missing when it   *)
(* ends, whatever the forks, the failed answers and the state of the       *)
(* caches, as long as the node that serves the history had made the cutoff *)
(* irreversible. EventDecoding: the two decoders agree on every payload,   *)
(* of any length and with any values and addresses. Verification: what is  *)
(* recorded as verified is what the comparison found, for every number of  *)
(* holders and whatever the node answers.                                  *)
(***************************************************************************)
EXTENDS EntryResolution, EventDecoding, Verification, FiniteSetTheorems, TLAPS

----------------------------------------------------------------------------
(* EntryResolution.                                                        *)

\* The REST node is not behind the node the block sync reads from.
CutoffIrreversible == \A c \in Cutoffs, l \in StartLibs : c <= l

-----------------------------------------------------------------------------
\* id was the primary's block at height h, and still is if h is within the
\* cutoff, or if the cutoff is above the fork and so no branch can change.
Trusted(h, id) ==
    /\ \E br \in Branches : id = BlockAt(h, br)
    /\ h <= cutoff \/ cutoff > ForkAt => id = BlockAt(h, branch)

NodeInv ==
    /\ at \in Placements /\ cutoff \in Nat /\ branch \in Branches
    /\ lib \in Nat /\ cutoff <= lib

CacheInv ==
    /\ DOMAIN canon = Heights
    /\ \A h \in Heights : canon[h] # NoBlock => Trusted(h, canon[h])
    /\ \A id \in blocks : \E h \in Heights : Trusted(h, id)

Irreversible(t) == t \in Txs /\ at[t][branch] \in 1 .. lib

EntryInv ==
    /\ stage \in {"containing", "candidates", "canonical", "stopped"} => Irreversible(tx)
    /\ stage \in {"candidates", "canonical"} => left \subseteq Containing(tx)
    /\ stage = "canonical" => cand \in Containing(tx)
    /\ stage = "stopped" => at[tx][branch] > cutoff

PlacedInv ==
    /\ DOMAIN placed = Txs
    /\ \A t \in Txs : placed[t] # 0 => placed[t] = at[t][branch] /\ placed[t] <= cutoff

Inv == NodeInv /\ CacheInv /\ EntryInv /\ PlacedInv

-----------------------------------------------------------------------------
\* A transaction is where it is on a branch, at most once, and the branches
\* agree up to the fork.
LEMMA PlacementFacts ==
    ASSUME NodeInv, NEW t \in Txs, NEW br \in Branches
    PROVE  /\ at[t][br] \in 0 .. MaxHeight
           /\ at[t][br] \in 1 .. ForkAt => \A other \in Branches : at[t][other] = at[t][br]
           /\ MaxHeight \in Nat /\ ForkAt \in Nat
  BY ResolutionAssumption DEF NodeInv, Branches

\* Blocks of different heights, and blocks of dead forks, are never confused.
LEMMA BlockIds ==
    /\ \A h, i \in Int, br, other \in Branches :
         BlockAt(h, br) = BlockAt(i, other) => h = i /\ (h <= ForkAt \/ br = other)
    /\ \A h, i \in Int, br \in Branches : BlockAt(h, br) # <<i, "dead">> /\ BlockAt(h, br) # NoBlock
    /\ \A h \in Int, br \in Branches : BlockAt(h, br)[1] = h
  BY DEF BlockAt, Branches, NoBlock

\* The heart of the matter: a candidate that is trusted is the block of the
\* transaction on the irreversible chain, or both are above the cutoff.
LEMMA TrustedIsHome ==
    ASSUME NodeInv, NEW t \in Txs, Irreversible(t),
           NEW id \in Containing(t), NEW h \in Heights, Trusted(h, id)
    PROVE  /\ id[1] = h /\ h \in Nat \ {0}
           /\ h <= cutoff => at[t][branch] = h
           /\ h > cutoff => at[t][branch] > cutoff
  <1>1. h \in 1 .. MaxHeight /\ h \in Int
    BY ResolutionAssumption DEF Heights
  <1>2. PICK br \in Branches : id = BlockAt(h, br)
    BY DEF Trusted
  <1>3. id[1] = h
    BY <1>1, <1>2, BlockIds
  <1>4. PICK other \in Branches : at[t][other] # 0 /\ id = BlockAt(at[t][other], other)
    <2>1. \A i \in at[t].dead : id # <<i, "dead">>
      <3> SUFFICES ASSUME NEW i \in at[t].dead PROVE id # <<i, "dead">>
        OBVIOUS
      <3>1. i \in Int
        BY ResolutionAssumption DEF NodeInv, Heights
      <3> QED
        BY <1>1, <1>2, <3>1, BlockIds
    <2> QED
      BY <2>1 DEF Containing
  <1>5. at[t][other] \in Int /\ at[t][branch] \in Int /\ cutoff \in Int /\ lib \in Int /\ ForkAt \in Int
    BY PlacementFacts DEF NodeInv
  <1>6. at[t][other] = h /\ (h <= ForkAt \/ br = other)
    <2> DEFINE i == at[t][other]
    <2>1. i \in Int /\ BlockAt(h, br) = BlockAt(i, other)
      BY <1>2, <1>4, <1>5
    <2> HIDE DEF i
    <2>2. h = i /\ (h <= ForkAt \/ br = other)
      BY <1>1, <2>1, BlockIds
    <2> QED
      BY <2>2 DEF i
  <1>7. h <= ForkAt => at[t][branch] = h
    BY <1>1, <1>5, <1>6, PlacementFacts DEF NodeInv
  <1>8. (h <= cutoff \/ cutoff > ForkAt) /\ h > ForkAt => at[t][branch] = h
    <2> SUFFICES ASSUME h <= cutoff \/ cutoff > ForkAt, h > ForkAt PROVE at[t][branch] = h
      OBVIOUS
    <2>1. id = BlockAt(h, branch) /\ branch \in Branches
      BY DEF Trusted, NodeInv
    <2>2. other = branch
      <3>1. BlockAt(h, branch) = BlockAt(h, other)
        BY <1>4, <1>6, <2>1
      <3> QED
        BY <1>1, <1>5, <2>1, <3>1, BlockIds
    <2> QED
      BY <1>6, <2>2
  <1>9. h > cutoff => at[t][branch] > cutoff
    <2> SUFFICES ASSUME h > cutoff, at[t][branch] <= cutoff PROVE FALSE
      BY <1>1, <1>5
    <2>1. h > ForkAt /\ cutoff <= ForkAt
      BY <1>1, <1>5, <1>7, <1>8
    <2>2. at[t][branch] \in 1 .. ForkAt
      BY <1>5, <2>1 DEF Irreversible
    <2>3. at[t][other] = at[t][branch]
      BY <2>2, PlacementFacts DEF NodeInv
    <2> QED
      BY <1>1, <1>5, <1>6, <2>3
  <1> QED
    BY <1>1, <1>3, <1>5, <1>7, <1>8, <1>9

-----------------------------------------------------------------------------
LEMMA InvInit ==
    ASSUME CutoffIrreversible, ResolutionInit
    PROVE  Inv
  <1>1. NodeInv
    BY ResolutionAssumption DEF ResolutionInit, NodeInv, CutoffIrreversible, Heights
  <1> QED
    BY <1>1 DEF ResolutionInit, Inv, CacheInv, EntryInv, PlacedInv

\* The node moves on: what is trusted, irreversible and placed stays so.
LEMMA InvNode ==
    ASSUME Inv, AdvanceLib \/ Reorganise
    PROVE  Inv'
  <1>1. /\ UNCHANGED <<at, cutoff, blocks, canon, tx, left, cand, stage, placed>>
        /\ branch' \in Branches /\ lib' \in Nat /\ lib <= lib'
        /\ branch' = branch \/ lib <= ForkAt
    BY DEF Inv, NodeInv, AdvanceLib, Reorganise, caches
  <1>2. NodeInv'
    BY <1>1 DEF Inv, NodeInv
  <1>3. \A t \in Txs : at[t][branch] \in 1 .. lib => at'[t][branch'] = at[t][branch]
    <2> SUFFICES ASSUME NEW t \in Txs, at[t][branch] \in 1 .. lib, lib <= ForkAt
                 PROVE  at[t][branch'] = at[t][branch]
      BY <1>1
    <2>1. at[t][branch] \in 1 .. ForkAt
      BY PlacementFacts DEF Inv, NodeInv
    <2> QED
      BY <1>1, <2>1, PlacementFacts DEF Inv, NodeInv
  <1>4. \A h \in Heights : \A id : Trusted(h, id) => Trusted(h, id)'
    <2> SUFFICES ASSUME NEW h \in Heights, NEW id, Trusted(h, id), lib <= ForkAt,
                        h <= cutoff \/ cutoff > ForkAt
                 PROVE  id = BlockAt(h, branch')
      BY <1>1 DEF Trusted, BlockAt
    <2>1. h <= ForkAt
      BY ResolutionAssumption DEF Inv, NodeInv, Heights
    <2> QED
      BY <2>1 DEF Trusted, BlockAt
  <1>5. CacheInv'
    BY <1>1, <1>4 DEF Inv, CacheInv
  <1>6. EntryInv'
    BY <1>1, <1>3 DEF Inv, NodeInv, EntryInv, Irreversible, Containing, BlockAt
  <1>7. PlacedInv'
    <2> SUFFICES ASSUME NEW t \in Txs, placed[t] # 0
                 PROVE  placed[t] = at'[t][branch'] /\ placed[t] <= cutoff
      BY <1>1 DEF Inv, PlacedInv
    <2>1. at[t][branch] \in 1 .. lib
      BY PlacementFacts DEF Inv, NodeInv, PlacedInv
    <2> QED
      BY <1>3, <2>1 DEF Inv, PlacedInv
  <1> QED
    BY <1>2, <1>5, <1>6, <1>7 DEF Inv

\* Collect with a trusted candidate.
LEMMA InvPlace ==
    ASSUME Inv, NEW h \in Heights, NEW id \in Containing(tx), Trusted(h, id), Irreversible(tx),
           Place(id[1])
    PROVE  NodeInv' /\ EntryInv' /\ PlacedInv'
  <1>1. /\ id[1] = h /\ h \in Nat \ {0}
        /\ h <= cutoff => at[tx][branch] = h
        /\ h > cutoff => at[tx][branch] > cutoff
    BY TrustedIsHome DEF Inv, Irreversible
  <1>2. NodeInv' /\ UNCHANGED <<at, cutoff, branch, lib, tx>>
    BY DEF Inv, NodeInv, Place, node
  <1>3. EntryInv'
    BY <1>1, <1>2 DEF EntryInv, Place, Irreversible
  <1>4. PlacedInv'
    BY <1>1, <1>2 DEF Inv, NodeInv, PlacedInv, Place, Irreversible
  <1> QED
    BY <1>2, <1>3, <1>4

LEMMA InvReplay ==
    ASSUME Inv, ReplayStep
    PROVE  Inv'
  <1>1. CASE NextEntry
    <2>1. UNCHANGED <<at, cutoff, branch, lib, blocks, canon, placed>>
      BY <1>1 DEF NextEntry, node, caches
    <2>2. EntryInv'
      BY <1>1, <2>1 DEF Inv, NextEntry, EntryInv, Irreversible, History
    <2> QED
      BY <2>1, <2>2 DEF Inv, NodeInv, CacheInv, PlacedInv, Trusted
  <1>2. CASE AskContaining
    <2>1. UNCHANGED <<at, cutoff, branch, lib, blocks, canon, tx, placed>> /\ stage = "containing"
      BY <1>2 DEF AskContaining, Answer, Fail, node, caches
    <2>2. \/ stage' = "candidates" /\ left' \subseteq Containing(tx)
          \/ stage' = "failed"
      BY <1>2 DEF AskContaining, Answer, Fail
    <2>3. EntryInv'
      BY <2>1, <2>2 DEF Inv, EntryInv, Irreversible, Containing
    <2> QED
      BY <2>1, <2>3 DEF Inv, NodeInv, CacheInv, PlacedInv, Trusted
  <1>3. CASE TakeCached
    <2>1. PICK id \in left \cap blocks : Place(id[1])
      BY <1>3 DEF TakeCached
    <2>2. Irreversible(tx) /\ id \in Containing(tx)
      BY <1>3, <2>1 DEF Inv, EntryInv, TakeCached
    <2>3. PICK h \in Heights : Trusted(h, id)
      BY <2>1 DEF Inv, CacheInv
    <2>4. NodeInv' /\ EntryInv' /\ PlacedInv'
      BY <2>1, <2>2, <2>3, InvPlace
    <2>5. CacheInv'
      BY <1>3, <2>1 DEF Inv, CacheInv, TakeCached, caches, Place, node, Trusted
    <2> QED
      BY <2>4, <2>5 DEF Inv
  <1>4. CASE AskBlock
    <2>1. UNCHANGED <<at, cutoff, branch, lib, blocks, canon, tx, placed>> /\ stage = "candidates"
      BY <1>4 DEF AskBlock, Skip, node, caches
    <2>2. \/ stage' = "canonical" /\ cand' \in left /\ left' = left
          \/ stage' = "candidates" /\ left' \subseteq left
      BY <1>4 DEF AskBlock, Skip
    <2>3. EntryInv'
      BY <2>1, <2>2 DEF Inv, EntryInv, Irreversible, Containing
    <2> QED
      BY <2>1, <2>3 DEF Inv, NodeInv, CacheInv, PlacedInv, Trusted
  <1>5. CASE Compare
    <2> DEFINE h  == cand[1]
               id == IF canon[h] # NoBlock THEN canon[h] ELSE BlockAt(h, branch)
    <2>1. Irreversible(tx) /\ cand \in Containing(tx) /\ left \subseteq Containing(tx)
      BY <1>5 DEF Inv, EntryInv, Compare
    <2>2. h \in Heights
      <3>1. \A br \in Branches : at[tx][br] # 0 => BlockAt(at[tx][br], br)[1] \in Heights
        BY <2>1, PlacementFacts, BlockIds DEF Inv, NodeInv, Irreversible, Heights
      <3>2. \A i \in at[tx].dead : <<i, "dead">>[1] \in Heights
        BY <2>1, ResolutionAssumption DEF Inv, NodeInv, Irreversible
      <3> QED
        BY <2>1, <3>1, <3>2 DEF Containing
    <2>3. Trusted(h, id)
      BY <2>2 DEF Inv, NodeInv, CacheInv, Trusted
    <2>4. CASE canon' = [canon EXCEPT ![h] = id] /\ id = cand /\ Place(h) /\ blocks' = blocks \cup {cand}
      <3>1. NodeInv' /\ EntryInv' /\ PlacedInv'
        BY <2>1, <2>2, <2>3, <2>4, InvPlace
      <3>2. UNCHANGED <<cutoff, branch>>
        BY <2>4 DEF Place, node
      <3>3. \A i \in Heights : \A b : Trusted(i, b) => Trusted(i, b)'
        BY <3>2 DEF Trusted
      <3>4. CacheInv'
        BY <2>2, <2>3, <2>4, <3>3 DEF Inv, CacheInv
      <3> QED
        BY <3>1, <3>4 DEF Inv
    <2>5. CASE canon' \in {canon, [canon EXCEPT ![h] = id]} /\ Skip(cand)
      <3>1. UNCHANGED <<at, cutoff, branch, lib, blocks, tx, placed>>
            /\ stage' = "candidates" /\ left' \subseteq left
        BY <2>5 DEF Skip, node
      <3>2. NodeInv' /\ EntryInv' /\ PlacedInv'
        BY <2>1, <3>1 DEF Inv, NodeInv, EntryInv, PlacedInv, Irreversible, Containing
      <3>3. \A i \in Heights : \A b : Trusted(i, b) => Trusted(i, b)'
        BY <3>1 DEF Trusted
      <3>4. CacheInv'
        BY <2>2, <2>3, <2>5, <3>1, <3>3 DEF Inv, CacheInv
      <3> QED
        BY <3>2, <3>4 DEF Inv
    <2> QED
      BY <1>5, <2>4, <2>5 DEF Compare
  <1>6. CASE Exhausted
    BY <1>6 DEF Exhausted, Fail, node, caches, Inv, NodeInv, CacheInv, EntryInv, PlacedInv, Trusted
  <1>7. CASE Retry
    <2>1. UNCHANGED <<at, cutoff, branch, lib>> /\ stage' = "entry" /\ blocks' = {}
          /\ canon' = [h \in Heights |-> NoBlock]
      BY <1>7 DEF Retry, node
    <2>2. PICK s \in 0 .. seq :
            placed' = [t \in Txs |-> IF t \in History /\ SeqOf(t) < s THEN placed[t] ELSE 0]
      BY <1>7 DEF Retry
    <2>3. PlacedInv'
      BY <2>1, <2>2 DEF Inv, PlacedInv
    <2> QED
      BY <2>1, <2>3 DEF Inv, NodeInv, CacheInv, EntryInv
  <1> QED
    BY <1>1, <1>2, <1>3, <1>4, <1>5, <1>6, <1>7 DEF ReplayStep

LEMMA InvStutter == Inv /\ UNCHANGED resolutionVars => Inv'
  BY DEF resolutionVars, node, caches, Inv, NodeInv, CacheInv, EntryInv, PlacedInv, Trusted,
         Irreversible, Containing, BlockAt

LEMMA InvAlways ==
    ASSUME CutoffIrreversible
    PROVE  ResolutionSpec => []Inv
  <1>1. ResolutionInit => Inv
    BY InvInit
  <1>2. Inv /\ [ResolutionNext]_resolutionVars => Inv'
    BY InvNode, InvReplay, InvStutter DEF ResolutionNext
  <1> QED
    BY <1>1, <1>2, PTL DEF ResolutionSpec

-----------------------------------------------------------------------------
(* Nothing is passed over.                                                   *)

Before(s, t) ==
    \/ at[s][branch] < at[t][branch]
    \/ at[s][branch] = at[t][branch] /\ s < t

\* The replay has handed over exactly the entries numbered below seq.
SeqInv ==
    /\ seq \in Nat /\ seq <= Cardinality(History)
    /\ stage \in {"containing", "candidates", "canonical", "stopped"} => SeqOf(tx) = seq
    /\ \A t \in History : SeqOf(t) < seq => placed[t] # 0

LEMMA HistoryFacts ==
    NodeInv => /\ IsFiniteSet(History) /\ Cardinality(History) \in Nat
               /\ \A t \in History : t \in Nat /\ at[t][branch] \in Nat
  <1> SUFFICES ASSUME NodeInv
               PROVE  /\ IsFiniteSet(History) /\ Cardinality(History) \in Nat
                      /\ \A t \in History : t \in Nat /\ at[t][branch] \in Nat
    OBVIOUS
  <1>1. IsFiniteSet(History)
    BY ResolutionAssumption, FS_Subset DEF History
  <1>2. \A t \in History : t \in Nat /\ at[t][branch] \in Nat
    BY ResolutionAssumption DEF History
  <1> QED
    BY <1>1, <1>2, FS_CardinalityType

\* Sequence numbers follow the order of the chain, and tell entries apart.
LEMMA SeqOfFacts ==
    ASSUME NodeInv, NEW t \in History
    PROVE  /\ SeqOf(t) \in Nat /\ SeqOf(t) + 1 <= Cardinality(History)
           /\ \A u \in History : Before(t, u) => SeqOf(t) < SeqOf(u)
           /\ \A u \in History : SeqOf(u) = SeqOf(t) => u = t
  <1> DEFINE P(u) == {s \in History : Before(s, u)}
  <1>1. \A u : SeqOf(u) = Cardinality(P(u))
    BY DEF SeqOf, Before
  <1>2. \A u : IsFiniteSet(P(u)) /\ Cardinality(P(u)) \in Nat
    <2> TAKE u
    <2>1. IsFiniteSet(History) /\ P(u) \subseteq History
      BY HistoryFacts
    <2>2. IsFiniteSet(P(u))
      BY <2>1, FS_Subset
    <2> QED
      BY <2>2, FS_CardinalityType
  <1>3. \A v \in History : v \notin P(v) /\ Cardinality(P(v) \cup {v}) = Cardinality(P(v)) + 1
    <2> TAKE v \in History
    <2>1. v \notin P(v)
      BY HistoryFacts DEF Before
    <2> QED
      BY <1>2, <2>1, FS_AddElement
  <1>4. Cardinality(P(t)) + 1 <= Cardinality(History)
    <2>1. P(t) \cup {t} \in SUBSET History
      OBVIOUS
    <2>2. Cardinality(P(t) \cup {t}) <= Cardinality(History)
      BY <2>1, HistoryFacts, FS_Subset
    <2> QED
      BY <1>3, <2>2
  <1>5. \A u, v \in History : Before(u, v) => Cardinality(P(u)) < Cardinality(P(v))
    <2> SUFFICES ASSUME NEW u \in History, NEW v \in History, Before(u, v)
                 PROVE  Cardinality(P(u)) < Cardinality(P(v))
      OBVIOUS
    <2>1. \A s \in P(u) : Before(s, v)
      BY HistoryFacts DEF Before
    <2>2. P(u) \cup {u} \in SUBSET P(v)
      BY <2>1
    <2>3. Cardinality(P(u) \cup {u}) <= Cardinality(P(v))
      BY <1>2, <2>2, FS_Subset
    <2>4. Cardinality(P(u)) + 1 <= Cardinality(P(v))
      BY <1>3, <2>3
    <2> QED
      BY <1>2, <2>4
  <1>6. \A u \in History : u # t => Before(t, u) \/ Before(u, t)
    BY HistoryFacts DEF Before
  <1>7. \A u \in History : Cardinality(P(u)) = Cardinality(P(t)) => u = t
    <2> SUFFICES ASSUME NEW u \in History, u # t, Cardinality(P(u)) = Cardinality(P(t)) PROVE FALSE
      OBVIOUS
    <2>1. Cardinality(P(t)) < Cardinality(P(u)) \/ Cardinality(P(u)) < Cardinality(P(t))
      BY <1>5, <1>6
    <2> QED
      BY <1>2, <2>1
  <1> QED
    BY <1>1, <1>2, <1>4, <1>5, <1>7

LEMMA SeqOfIsNat == NodeInv => \A t \in History : SeqOf(t) \in Nat
  BY SeqOfFacts

LEMMA SeqInit ==
    ASSUME CutoffIrreversible, ResolutionInit
    PROVE  SeqInv
  <1>1. NodeInv
    BY InvInit DEF Inv
  <1>2. \A t \in History : SeqOf(t) \in Nat
    BY <1>1, SeqOfIsNat
  <1> QED
    BY <1>1, <1>2, HistoryFacts DEF ResolutionInit, SeqInv

\* A growing history keeps the numbers it has given, and goes on after them.
LEMMA SeqAdvance ==
    ASSUME Inv, SeqInv, AdvanceLib
    PROVE  SeqInv'
  <1>1. UNCHANGED <<at, branch, seq, tx, stage, placed>> /\ lib' = lib + 1 /\ lib \in Nat
    BY DEF AdvanceLib, Inv, NodeInv
  <1>2. NodeInv'
    BY InvNode DEF Inv
  <1>a. (IsFiniteSet(History) /\ Cardinality(History) \in Nat)' /\ (\A t \in History : SeqOf(t) \in Nat)'
    <2>1. (NodeInv => IsFiniteSet(History) /\ Cardinality(History) \in Nat)'
      BY HistoryFacts, PTL
    <2>2. (NodeInv => \A t \in History : SeqOf(t) \in Nat)'
      BY SeqOfIsNat, PTL
    <2> QED
      BY <1>2, <2>1, <2>2
  <1>3. History \subseteq History' /\ \A t \in History' : t \in History \/ at[t][branch] = lib + 1
    BY <1>1, ResolutionAssumption DEF Inv, NodeInv, History
  <1>4. \A t \in History : SeqOf(t)' = SeqOf(t)
    <2> SUFFICES ASSUME NEW t \in History PROVE SeqOf(t)' = SeqOf(t)
      OBVIOUS
    <2>1. \A s \in History' : s \in History \/ ~Before(s, t)
      BY <1>1, <1>3 DEF Before, History
    <2>2. {s \in History' : Before(s, t)} = {s \in History : Before(s, t)}
      BY <1>3, <2>1
    <2> QED
      BY <1>1, <2>2 DEF SeqOf, Before
  <1>5. \A t \in History' : t \notin History => SeqOf(t)' >= seq
    <2> SUFFICES ASSUME NEW t \in History', t \notin History PROVE SeqOf(t)' >= seq
      OBVIOUS
    <2> DEFINE P == {s \in History' : Before(s, t)}
    <2>1. History \subseteq P
      BY <1>1, <1>3 DEF Before, History
    <2>2. IsFiniteSet(P)
      <3>1. P \in SUBSET History'
        OBVIOUS
      <3> QED
        BY <1>a, <3>1, FS_Subset
    <2>3. Cardinality(History) <= Cardinality(P) /\ Cardinality(P) \in Nat
      BY <2>1, <2>2, FS_Subset, FS_CardinalityType
    <2>4. SeqOf(t)' = Cardinality(P)
      BY <1>1 DEF SeqOf, Before
    <2>5. Cardinality(History) \in Nat
      BY HistoryFacts DEF Inv
    <2> QED
      BY <2>3, <2>4, <2>5 DEF SeqInv
  <1>6. seq <= Cardinality(History')
    <2>1. IsFiniteSet(History') /\ Cardinality(History)' \in Nat
      BY <1>a
    <2>2. Cardinality(History) <= Cardinality(History') /\ Cardinality(History) \in Nat
      BY <1>3, <2>1, FS_Subset, HistoryFacts DEF Inv
    <2> QED
      BY <2>1, <2>2 DEF SeqInv
  <1>7. stage \in {"containing", "candidates", "canonical", "stopped"} => tx \in History
    BY DEF Inv, EntryInv, Irreversible, History
  <1>8. \A t \in History' : SeqOf(t)' < seq => placed[t] # 0
    <2> SUFFICES ASSUME NEW t \in History', SeqOf(t)' < seq PROVE placed[t] # 0
      OBVIOUS
    <2>1. SeqOf(t)' \in Nat /\ seq \in Nat
      BY <1>a DEF SeqInv
    <2>2. t \in History
      BY <1>5, <2>1
    <2> QED
      BY <1>4, <2>2 DEF SeqInv
  <1> QED
    BY <1>1, <1>4, <1>6, <1>7, <1>8 DEF SeqInv

\* A node that may still reorganise has its whole history on the trunk.
LEMMA SeqReorganise ==
    ASSUME Inv, SeqInv, Reorganise
    PROVE  SeqInv'
  <1>1. UNCHANGED <<at, lib, seq, tx, stage, placed>> /\ branch' \in Branches /\ lib <= ForkAt /\ lib \in Nat
    BY DEF Reorganise, Inv, NodeInv
  <1>2. \A t \in Txs, i \in 1 .. lib : at[t][branch] = i <=> at[t][branch'] = i
    <2> SUFFICES ASSUME NEW t \in Txs, NEW i \in 1 .. lib
                 PROVE  at[t][branch] = i <=> at[t][branch'] = i
      OBVIOUS
    <2>1. i \in 1 .. ForkAt
      BY <1>1, PlacementFacts DEF Inv, NodeInv
    <2> QED
      BY <1>1, <2>1, PlacementFacts DEF Inv, NodeInv
  <1>3. History' = History /\ \A t \in History : at[t][branch'] = at[t][branch]
    BY <1>1, <1>2 DEF History
  <1>4. \A t \in History : SeqOf(t)' = SeqOf(t)
    BY <1>1, <1>3 DEF SeqOf
  <1>5. stage \in {"containing", "candidates", "canonical", "stopped"} => tx \in History
    BY DEF Inv, EntryInv, Irreversible, History
  <1> QED
    BY <1>1, <1>3, <1>4, <1>5 DEF SeqInv

\* The entry handed over is the one with the next number.
LEMMA SeqPlace ==
    ASSUME Inv, SeqInv, NEW h \in Nat \ {0}, tx \in History, SeqOf(tx) = seq, Place(h)
    PROVE  SeqInv'
  <1>1. UNCHANGED <<at, branch, lib, tx>> /\ cutoff \in Nat
    BY DEF Place, node, Inv, NodeInv
  <1>2. History' = History /\ \A t : SeqOf(t)' = SeqOf(t)
    BY <1>1 DEF History, SeqOf
  <1>3. CASE h > cutoff
    BY <1>1, <1>2, <1>3 DEF Place, SeqInv
  <1>4. CASE ~(h > cutoff)
    <2>1. stage' = "entry" /\ seq' = seq + 1 /\ placed' = [placed EXCEPT ![tx] = h]
      BY <1>4 DEF Place
    <2>2. seq + 1 <= Cardinality(History) /\ seq \in Nat
      BY SeqOfFacts DEF Inv, SeqInv
    <2>3. \A t \in History : SeqOf(t) < seq + 1 => placed'[t] # 0
      <3> SUFFICES ASSUME NEW t \in History, SeqOf(t) < seq + 1 PROVE placed'[t] # 0
        OBVIOUS
      <3>1. SeqOf(t) \in Nat
        BY SeqOfFacts DEF Inv
      <3>2. SeqOf(t) < seq \/ t = tx
        BY <2>2, <3>1, SeqOfFacts DEF Inv
      <3>3. t \in DOMAIN placed
        BY DEF Inv, PlacedInv, History
      <3> QED
        BY <2>1, <3>2, <3>3 DEF SeqInv
    <2> QED
      BY <1>2, <2>1, <2>2, <2>3 DEF SeqInv
  <1> QED
    BY <1>3, <1>4

LEMMA SeqReplay ==
    ASSUME Inv, SeqInv, ReplayStep
    PROVE  SeqInv'
  <1>1. UNCHANGED <<at, branch, lib>> => History' = History /\ \A t : SeqOf(t)' = SeqOf(t)
    BY DEF History, SeqOf
  <1>2. stage \in {"containing", "candidates", "canonical", "stopped"} =>
          tx \in History /\ SeqOf(tx) = seq
    BY DEF Inv, EntryInv, Irreversible, History, SeqInv
  <1>3. CASE NextEntry
    <2>1. UNCHANGED <<at, branch, lib, seq, placed>> /\ SeqOf(tx') = seq
      BY <1>3 DEF NextEntry, node
    <2>2. SeqOf(tx)' = SeqOf(tx')
      BY <2>1 DEF SeqOf, History
    <2> QED
      BY <1>1, <2>1, <2>2 DEF SeqInv
  <1>4. CASE AskContaining \/ AskBlock \/ Exhausted
    <2>1. UNCHANGED <<at, branch, lib, seq, tx, placed>>
      BY <1>4 DEF AskContaining, AskBlock, Exhausted, Answer, Fail, Skip, node
    <2>2. stage \in {"containing", "candidates"}
      BY <1>4 DEF AskContaining, AskBlock, Exhausted
    <2> QED
      BY <1>1, <1>2, <2>1, <2>2 DEF SeqInv
  <1>5. CASE TakeCached
    <2>1. PICK id \in left \cap blocks : Place(id[1])
      BY <1>5 DEF TakeCached
    <2>2. stage = "candidates" /\ Irreversible(tx) /\ id \in Containing(tx)
      BY <1>5, <2>1 DEF TakeCached, Inv, EntryInv
    <2>3. PICK h \in Heights : Trusted(h, id)
      BY <2>1 DEF Inv, CacheInv
    <2>4. id[1] \in Nat \ {0}
      BY <2>2, <2>3, TrustedIsHome DEF Inv, Irreversible
    <2> QED
      BY <1>2, <2>1, <2>2, <2>4, SeqPlace
  <1>6. CASE Compare
    <2>1. stage = "canonical" /\ (Place(cand[1]) \/ Skip(cand))
      BY <1>6 DEF Compare
    <2>2. CASE Skip(cand)
      <3>1. UNCHANGED <<at, branch, lib, seq, tx, placed>>
        BY <2>2 DEF Skip, node
      <3> QED
        BY <1>1, <1>2, <2>1, <3>1 DEF SeqInv
    <2>3. CASE Place(cand[1])
      <3>1. cand[1] \in Nat \ {0}
        <4>1. cand \in Containing(tx) /\ tx \in Txs
          BY <2>1 DEF Inv, EntryInv, Irreversible
        <4>2. \A br \in Branches : at[tx][br] # 0 => BlockAt(at[tx][br], br)[1] \in Nat \ {0}
          BY <4>1, PlacementFacts, BlockIds DEF Inv
        <4>3. \A i \in at[tx].dead : <<i, "dead">>[1] \in Nat \ {0}
          BY <4>1, ResolutionAssumption DEF Inv, NodeInv, Heights
        <4> QED
          BY <4>1, <4>2, <4>3 DEF Containing
      <3> QED
        BY <1>2, <2>1, <2>3, <3>1, SeqPlace
    <2> QED
      BY <2>1, <2>2, <2>3
  <1>7. CASE Retry
    <2>1. UNCHANGED <<at, branch, lib>> /\ stage' = "entry"
      BY <1>7 DEF Retry, node
    <2>2. PICK s \in 0 .. seq :
            /\ seq' = s
            /\ placed' = [t \in Txs |-> IF t \in History /\ SeqOf(t) < s THEN placed[t] ELSE 0]
      BY <1>7 DEF Retry
    <2>3. \A t \in History : t \in Txs /\ SeqOf(t) \in Nat
      BY SeqOfFacts DEF Inv, History
    <2>4. Cardinality(History) \in Nat
      BY HistoryFacts DEF Inv
    <2> QED
      BY <1>1, <2>1, <2>2, <2>3, <2>4 DEF SeqInv
  <1> QED
    BY <1>3, <1>4, <1>5, <1>6, <1>7 DEF ReplayStep

LEMMA SeqStutter == SeqInv /\ UNCHANGED resolutionVars => SeqInv'
  BY DEF resolutionVars, node, SeqInv, History, SeqOf

\* When the replay stops, the entries up to the cutoff come before the one it
\* stopped at, so all of them have been handed over.
LEMMA NothingMissing == Inv /\ SeqInv => NothingLeftOut
  <1> SUFFICES ASSUME Inv, SeqInv, stage = "stopped", NEW t \in Txs, at[t][branch] \in 1 .. cutoff
               PROVE  placed[t] # 0
    BY DEF NothingLeftOut
  <1>1. tx \in History /\ at[tx][branch] > cutoff /\ SeqOf(tx) = seq
    BY DEF Inv, EntryInv, Irreversible, History, SeqInv
  <1>2. t \in History
    BY DEF Inv, NodeInv, History
  <1>3. Before(t, tx)
    BY <1>1, <1>2, HistoryFacts DEF Before, Inv, NodeInv
  <1>4. SeqOf(t) < SeqOf(tx)
    BY <1>1, <1>2, <1>3, SeqOfFacts DEF Inv
  <1> QED
    BY <1>1, <1>2, <1>4 DEF SeqInv

-----------------------------------------------------------------------------
\* Whatever the caches hold, and whichever blocks were taken back since they were
\* filled: a replayed entry carries the height its transaction has on the
\* irreversible chain (blockOf, Collect); only a transaction above the cutoff ends
\* the replay (Collect's Stopped); and then nothing up to the cutoff is missing.
THEOREM ReplayRight ==
    ASSUME CutoffIrreversible
    PROVE  ResolutionSpec => []ReplayExact
  <1>1. ResolutionInit => Inv /\ SeqInv
    BY InvInit, SeqInit
  <1>2. Inv /\ SeqInv /\ [ResolutionNext]_resolutionVars => SeqInv'
    BY SeqAdvance, SeqReorganise, SeqReplay, SeqStutter DEF ResolutionNext
  <1>3. Inv /\ SeqInv => ReplayExact
    BY NothingMissing DEF Inv, EntryInv, PlacedInv, PlacedRight, StopIsAboveCutoff, ReplayExact
  <1> QED
    BY <1>1, <1>2, <1>3, InvAlways, PTL DEF ResolutionSpec

-----------------------------------------------------------------------------
(* Types.                                                                    *)

Shape ==
    /\ lib \in Heights /\ cutoff \in Nat
    /\ blocks \subseteq Block /\ canon \in [Heights -> Block \cup {NoBlock}]
    /\ tx \in Txs \cup {NoTx} /\ left \subseteq Block /\ cand \in Block \cup {NoBlock}
    /\ stage \in {"entry", "containing", "candidates", "canonical", "stopped", "failed"}
    /\ stage = "canonical" => cand \in Block
    /\ placed \in [Txs -> 0 .. cutoff] /\ faults \in 0 .. MaxFaults

LEMMA BlocksOfBranch ==
    \A h \in Heights, br \in Branches : BlockAt(h, br) \in Block
  BY DEF BlockAt, Block, Branches

LEMMA BlocksOfTx ==
    ASSUME NodeInv, NEW t \in Txs
    PROVE  Containing(t) \subseteq Block
  <1>1. \A br \in Branches : at[t][br] # 0 => at[t][br] \in Heights
    BY PlacementFacts DEF Heights
  <1>2. at[t].dead \subseteq Heights
    BY ResolutionAssumption DEF NodeInv
  <1>3. \A h \in Heights : <<h, "dead">> \in Block
    BY DEF Block
  <1> QED
    BY <1>1, <1>2, <1>3, BlocksOfBranch DEF Containing

\* What taking or passing over a candidate leaves.
LEMMA PlaceTypes ==
    ASSUME Shape, NEW h \in Heights, Place(h), tx \in Txs
    PROVE  /\ UNCHANGED <<at, cutoff, branch, lib, tx>>
           /\ left' = {} /\ cand' = NoBlock /\ stage' \in {"stopped", "entry"}
           /\ placed' \in [Txs -> 0 .. cutoff]
  <1>1. CASE h > cutoff
    BY <1>1 DEF Place, Shape, node
  <1>2. CASE ~(h > cutoff)
    <2>1. h \in 0 .. cutoff
      BY <1>2, ResolutionAssumption DEF Heights, Shape
    <2>2. placed' = [placed EXCEPT ![tx] = h]
      BY <1>2 DEF Place
    <2>3. placed' \in [Txs -> 0 .. cutoff]
      BY <2>1, <2>2 DEF Shape
    <2> QED
      BY <1>2, <2>3 DEF Place, node
  <1> QED
    BY <1>1, <1>2

LEMMA ShapeInit == ResolutionInit => Shape
  BY ResolutionAssumption DEF ResolutionInit, Shape, Heights

LEMMA ShapeStep == Inv /\ Shape /\ [ResolutionNext]_resolutionVars => Shape'
  <1> SUFFICES ASSUME Inv, Shape, [ResolutionNext]_resolutionVars PROVE Shape'
    OBVIOUS
  <1>0. /\ stage \in {"containing", "candidates", "canonical"} => tx \in Txs
        /\ tx \in Txs => Containing(tx) \subseteq Block
        /\ branch \in Branches /\ MaxFaults \in Nat /\ MaxHeight \in Nat
    BY BlocksOfTx, ResolutionAssumption DEF Inv, NodeInv, EntryInv, Irreversible
  <1>1. CASE AdvanceLib \/ Reorganise \/ UNCHANGED resolutionVars
    BY <1>0, <1>1 DEF AdvanceLib, Reorganise, Shape, Heights, caches, resolutionVars, node
  <1>2. CASE NextEntry
    BY <1>2 DEF NextEntry, History, Shape, node, caches
  <1>3. CASE AskContaining
    <2>1. tx \in Txs /\ stage = "containing"
      BY <1>0, <1>3 DEF AskContaining
    <2>2. faults' \in 0 .. MaxFaults
      BY <1>0, <1>3 DEF AskContaining, Fault, Shape
    <2>3. /\ UNCHANGED <<node, caches, tx, cand, placed>>
          /\ \/ stage' = "candidates" /\ left' \subseteq Containing(tx)
             \/ stage' = "failed" /\ left' = left
      BY <1>3 DEF AskContaining, Answer, Fail
    <2> QED
      BY <1>0, <2>1, <2>2, <2>3 DEF Shape, node, caches
  <1>4. CASE TakeCached
    <2>1. PICK id \in left \cap blocks : Place(id[1])
      BY <1>4 DEF TakeCached
    <2>2. id[1] \in Heights
      BY <2>1 DEF Shape, Block
    <2> QED
      BY <1>0, <1>4, <2>1, <2>2, PlaceTypes DEF TakeCached, Shape, caches
  <1>5. CASE AskBlock
    BY <1>0, <1>5 DEF AskBlock, Skip, Fault, Shape, node, caches
  <1>6. CASE Compare
    <2>1. cand \in Block /\ cand[1] \in Heights /\ tx \in Txs
      BY <1>0, <1>6 DEF Compare, Shape, Block
    <2>2. CASE Skip(cand) /\ Fault /\ UNCHANGED canon
      BY <1>0, <2>1, <2>2 DEF Skip, Fault, Shape, node
    <2>3. ASSUME NEW id, id = (IF canon[cand[1]] # NoBlock THEN canon[cand[1]]
                                                          ELSE BlockAt(cand[1], branch)),
                 canon' = [canon EXCEPT ![cand[1]] = id], UNCHANGED faults,
                 IF id = cand THEN Place(cand[1]) /\ blocks' = blocks \cup {cand} ELSE Skip(cand)
          PROVE  Shape'
      <3>1. id \in Block \cup {NoBlock}
        BY <1>0, <2>1, <2>3, BlocksOfBranch DEF Shape
      <3>2. canon' \in [Heights -> Block \cup {NoBlock}]
        BY <2>3, <3>1 DEF Shape
      <3>3. CASE id = cand
        BY <2>1, <2>3, <3>2, <3>3, PlaceTypes DEF Shape
      <3>4. CASE id # cand
        BY <2>1, <2>3, <3>2, <3>4 DEF Skip, Shape, node
      <3> QED
        BY <3>3, <3>4
    <2> QED
      BY <1>6, <2>2, <2>3 DEF Compare
  <1>7. CASE Exhausted
    BY <1>7 DEF Exhausted, Fail, Shape, node, caches
  <1>8. CASE Retry
    <2>1. 0 \in 0 .. cutoff
      BY DEF Shape
    <2>2. PICK s : placed' = [t \in Txs |-> IF t \in History /\ SeqOf(t) < s THEN placed[t] ELSE 0]
      BY <1>8 DEF Retry
    <2>3. placed' \in [Txs -> 0 .. cutoff]
      BY <2>1, <2>2 DEF Shape
    <2> QED
      BY <1>8, <2>3 DEF Retry, Shape, node
  <1> QED
    BY <1>1, <1>2, <1>3, <1>4, <1>5, <1>6, <1>7, <1>8 DEF ResolutionNext, ReplayStep

\* The caches and the locals of Run, Collect and blockOf stay within their types:
\* no entry beyond the served history is asked for, and none is placed above the
\* cutoff, though the history grows while failed pages are tried again.
THEOREM ResolutionTyped ==
    ASSUME CutoffIrreversible
    PROVE  ResolutionSpec => []ResolutionTypeOK
  <1>1. ResolutionInit => Inv /\ SeqInv /\ Shape
    BY InvInit, SeqInit, ShapeInit
  <1>2. Inv /\ SeqInv /\ [ResolutionNext]_resolutionVars => SeqInv'
    BY SeqAdvance, SeqReorganise, SeqReplay, SeqStutter DEF ResolutionNext
  <1>3. Inv /\ SeqInv /\ Shape => ResolutionTypeOK
    <2> SUFFICES ASSUME Inv, SeqInv, Shape PROVE ResolutionTypeOK
      OBVIOUS
    <2>1. seq \in 0 .. Cardinality(History)
      BY HistoryFacts DEF Inv, SeqInv
    <2> QED
      BY <2>1 DEF Inv, NodeInv, Shape, ResolutionTypeOK
  <1> QED
    BY <1>1, <1>2, <1>3, ShapeStep, InvAlways, PTL DEF ResolutionSpec

----------------------------------------------------------------------------
(* EventDecoding.                                                          *)

\* As long as the live decoder reads, it holds exactly the fields that the
\* replay's decoder takes for an event of this kind.
InStep ==
  ~live.stopped =>
    /\ name.kind \in Kinds => live.value = replay.nums[ValueField]
    /\ name.kind = "transfer" => live.from = replay.addrs[1] /\ live.to = replay.addrs[2]
    /\ name.kind = "mint"     => live.from = NoAddr /\ live.to = replay.addrs[1]
    /\ name.kind = "burn"     => live.from = replay.addrs[1] /\ live.to = NoAddr

DecodingInv == DecodingTypeOK /\ InStep

LEMMA DecodingStarts == DecodingInit => DecodingInv
  <1> SUFFICES ASSUME DecodingInit PROVE DecodingInv
    OBVIOUS
  <1>1. name \in Names /\ done = FALSE /\ live = UnreadLive /\ replay = UnreadReplay
    BY DEF DecodingInit
  <1>2. DecodingTypeOK
    BY <1>1 DEF DecodingTypeOK, UnreadLive, UnreadReplay, Addrs
  <1>3. InStep
    BY <1>1 DEF InStep, UnreadLive, UnreadReplay, ValueField
  <1> QED
    BY <1>2, <1>3 DEF DecodingInv

\* A field is stored by both or by neither, unless the live decoder has stopped.
LEMMA DecodingBytes == DecodingInv /\ Bytes => DecodingInv'
  <1> SUFFICES ASSUME DecodingInv, Bytes PROVE DecodingInv'
    OBVIOUS
  <1>1. PICK num \in 1 .. 4, a \in Addrs : LiveBytes(num, a) /\ ReplayBytes(num, a)
    BY DEF Bytes
  <1>2. name' = name /\ done' = done /\ ~done
    BY DEF Bytes
  <1>3. DecodingTypeOK'
    BY <1>1, <1>2 DEF DecodingInv, DecodingTypeOK, LiveBytes, ReplayBytes
  <1>4. InStep'
    BY <1>1, <1>2 DEF DecodingInv, DecodingTypeOK, InStep, LiveBytes, ReplayBytes, ValueField, Names, Kinds
  <1> QED
    BY <1>3, <1>4 DEF DecodingInv

LEMMA DecodingVarint == DecodingInv /\ Varint => DecodingInv'
  <1> SUFFICES ASSUME DecodingInv, Varint PROVE DecodingInv'
    OBVIOUS
  <1>1. PICK num \in 1 .. 4, v \in Values : LiveVarint(num, v) /\ ReplayVarint(num, v)
    BY DEF Varint
  <1>2. name' = name /\ done' = done /\ ~done
    BY DEF Varint
  <1>3. DecodingTypeOK'
    BY <1>1, <1>2 DEF DecodingInv, DecodingTypeOK, LiveVarint, ReplayVarint
  <1>4. InStep'
    BY <1>1, <1>2 DEF DecodingInv, DecodingTypeOK, InStep, LiveVarint, ReplayVarint, ValueField, Names, Kinds
  <1> QED
    BY <1>3, <1>4 DEF DecodingInv

LEMMA DecodingRest == DecodingInv /\ (Group \/ Malformed \/ End \/ NewEvent) => DecodingInv'
  <1> SUFFICES ASSUME DecodingInv, Group \/ Malformed \/ End \/ NewEvent PROVE DecodingInv'
    OBVIOUS
  <1>1. CASE Group
    BY <1>1 DEF Group, DecodingInv, DecodingTypeOK, InStep
  <1>2. CASE Malformed
    BY <1>2 DEF Malformed, DecodingInv, DecodingTypeOK, InStep
  <1>3. CASE End
    BY <1>3 DEF End, DecodingInv, DecodingTypeOK, InStep, ValueField
  <1>4. CASE NewEvent
    <2>1. name' \in Names /\ done' = FALSE /\ live' = UnreadLive /\ replay' = UnreadReplay
      BY <1>4 DEF NewEvent
    <2>2. DecodingTypeOK'
      BY <2>1 DEF DecodingTypeOK, UnreadLive, UnreadReplay, Addrs
    <2>3. InStep'
      BY <2>1 DEF InStep, UnreadLive, UnreadReplay, ValueField
    <2> QED
      BY <2>2, <2>3 DEF DecodingInv
  <1> QED
    BY <1>1, <1>2, <1>3, <1>4

LEMMA DecodingAlways == DecodingSpec => []DecodingInv
  <1>1. DecodingInv /\ [DecodingNext]_decodingVars => DecodingInv'
    <2>1. DecodingInv /\ UNCHANGED decodingVars => DecodingInv'
      BY DEF decodingVars, DecodingInv, DecodingTypeOK, InStep, ValueField
    <2> QED
      BY <2>1, DecodingBytes, DecodingVarint, DecodingRest DEF DecodingNext
  <1> QED
    BY <1>1, DecodingStarts, PTL DEF DecodingSpec

\* Every variable of the two loops has its type (indexer.go, backfill.go).
THEOREM DecodersTyped == DecodingSpec => []DecodingTypeOK
  <1>1. DecodingInv => DecodingTypeOK
    BY DEF DecodingInv
  <1> QED
    BY <1>1, DecodingAlways, PTL

\* parseTransferEvent, parseMintEvent and parseBurnEvent move the same value
\* between the same addresses as decodeRawTokenEvent with opsOf.
THEOREM DecodersAgree == DecodingSpec => []SameMove
  <1>1. DecodingInv => SameMove
    <2> SUFFICES ASSUME DecodingInv, name.ends, live.stopped = replay.bad, Replayed # Refused
                 PROVE  /\ MovesValue(Counted) <=> MovesValue(Replayed)
                        /\ MovesValue(Counted) => Counted = Replayed
      BY DEF SameMove
    <2>1. ~MovesValue(Nothing)
      BY DEF MovesValue, Nothing, Kinds
    <2>2. CASE name.kind \notin Kinds
      BY <2>1, <2>2 DEF Counted, Replayed
    <2>3. CASE name.kind \in Kinds
      <3>1. ~replay.bad /\ ~live.stopped
        <4>1. ~replay.bad
          <5>1. replay.bad \/ Decoded.value > MaxSafeValue => Replayed = Refused
            BY <2>3 DEF Replayed
          <5> QED
            BY <5>1
        <4> QED
          BY <4>1 DEF DecodingInv, DecodingTypeOK
      <3>2. /\ live.value = Decoded.value /\ live.from = Decoded.from /\ live.to = Decoded.to
            /\ Decoded.value \in Nat /\ Decoded.kind = name.kind
        BY <2>3, <3>1, DecodingAssumption DEF DecodingInv, DecodingTypeOK, InStep, Decoded, ValueField, Kinds
      <3>3. Decoded = [kind |-> name.kind, from |-> live.from, to |-> live.to, value |-> live.value]
        BY <3>2 DEF Decoded
      <3>4. Decoded.value <= MaxSafeValue
        <4>1. replay.bad \/ Decoded.value > MaxSafeValue => Replayed = Refused
          BY <2>3 DEF Replayed
        <4> QED
          BY <3>2, <4>1, DecodingAssumption
      <3>5. CASE Decoded.value = 0
        BY <2>1, <2>3, <3>1, <3>2, <3>4, <3>5 DEF Counted, Replayed, Refused
      <3>6. CASE Decoded.value # 0
        <4>1. Counted = Decoded
          BY <2>3, <3>2, <3>3, <3>4, <3>6, DecodingAssumption DEF Counted
        <4>2. Replayed = Decoded \/ (Replayed = Nothing /\ {Decoded.from, Decoded.to} = {NoAddr})
          BY <2>3, <3>1, <3>4, <3>6 DEF Replayed
        <4> QED
          BY <2>1, <4>1, <4>2 DEF MovesValue
      <3> QED
        BY <3>5, <3>6
    <2> QED
      BY <2>2, <2>3
  <1> QED
    BY <1>1, DecodingAlways, PTL

----------------------------------------------------------------------------
(* Verification.                                                           *)

\* What the check has to look at.
ToCheck == IF mode = "dryrun" THEN touched ELSE {a \in Addresses : stored[a] # 0}

\* The chain went from `final' to `head' by the pending changes, through states
\* in which every balance is one.
Path ==
    {f \in [1 .. Len(pending) + 1 -> [Addresses -> Balances]] :
       /\ f[1] = final /\ f[Len(pending) + 1] = head
       /\ \A i \in 1 .. Len(pending) :
            f[i + 1] = [f[i] EXCEPT ![pending[i][1]] = @ + pending[i][2]]}

\* So many changes the block sync can have applied, each of at most MaxBalance.
Bound == MaxBalance * (moves - Len(pending) + 1)

ChainInv ==
    /\ pending \in Seq(Addresses \X Int) /\ Path # {}
    /\ moves \in 0 .. MaxMoves /\ Len(pending) <= moves
    /\ stored \in [Addresses -> Nat] /\ \A a \in Addresses : stored[a] <= Bound
    /\ touched \subseteq Addresses

ControlInv ==
    /\ mode \in {"import", "dryrun"}
    /\ phase \in {"list", "lookup", "asking", "record", "sync", "down", "reported"}
    /\ todo \subseteq Addresses /\ missed \subseteq Addresses
    /\ asked \in Addresses \cup {Nobody}
    /\ phase \notin {"asking", "down"} => asked = Nobody
    /\ attempt \in 0 .. MaxRetries /\ setbacks \in 0 .. MaxSetbacks
    /\ res \in [checked : Nat, mismatches : Nat, failures : Nat]
    /\ rec \in [verified : BOOLEAN, mismatches : 0 .. Cardinality(Addresses),
                failures : 0 .. Cardinality(Addresses)]

Seen == ToCheck \ (todo \cup missed \cup (IF phase = "asking" THEN {asked} ELSE {}))

CheckInv ==
    phase \in {"lookup", "asking", "record"} =>
       /\ snap = stored
       /\ todo \subseteq ToCheck /\ missed \subseteq ToCheck \ todo
       /\ phase = "asking" => asked \in ToCheck \ (todo \cup missed)
       /\ phase = "record" => todo = {}
       /\ res.mismatches + res.failures = Cardinality(missed)
       /\ res.checked > 0 => ToCheck # {}
       /\ pending = <<>> => \A a \in Seen : stored[a] = head[a]

VerificationInv == ChainInv /\ ControlInv /\ CheckInv

LEMMA PathEnds ==
  ASSUME ChainInv
  PROVE  /\ head \in [Addresses -> Balances] /\ final \in [Addresses -> Balances]
         /\ pending = <<>> => head = final
PROOF
  <1>1. PICK f \in Path : TRUE
    BY DEF ChainInv
  <1>2. Len(pending) \in Nat /\ (pending = <<>> => Len(pending) = 0)
    BY DEF ChainInv
  <1>3. 1 \in 1 .. Len(pending) + 1 /\ Len(pending) + 1 \in 1 .. Len(pending) + 1
    BY <1>2
  <1> QED
    BY <1>1, <1>2, <1>3 DEF Path

LEMMA BoundGrows ==
  ASSUME NEW m \in Nat, NEW i \in Nat
  PROVE  m * (i + 1) = m * i + m /\ m * i \in Nat
  OBVIOUS

LEMMA BoundKept ==
  ASSUME NEW m \in Nat, NEW i \in Nat, NEW j \in Nat, i <= j
  PROVE  m * i <= m * j
PROOF
  <1>1. PICK d \in Nat : j = i + d
    BY j - i \in Nat
  <1>2. m * j = m * i + m * d /\ m * d \in Nat /\ m * i \in Nat
    BY <1>1
  <1> QED
    BY <1>2

LEMMA ChainStarts == VerificationInit => VerificationInv
PROOF
  <1> SUFFICES ASSUME VerificationInit PROVE VerificationInv
    OBVIOUS
  <1>1. Len(pending) = 0 /\ pending \in Seq(Addresses \X Int)
    BY DEF VerificationInit
  <1>2. [i \in 1 .. 1 |-> final] \in Path
    BY <1>1 DEF VerificationInit, Path
  <1>3. Bound = MaxBalance
    BY <1>1, VerificationAssumption DEF Bound, VerificationInit
  <1>4. ChainInv
    BY <1>1, <1>2, <1>3, VerificationAssumption DEF ChainInv, VerificationInit, Balances
  <1>5. Cardinality(Addresses) \in Nat
    BY FS_CardinalityType, VerificationAssumption
  <1>6. ControlInv
    BY <1>5, VerificationAssumption DEF ControlInv, VerificationInit, NoResult
  <1> QED
    BY <1>4, <1>6 DEF VerificationInv, CheckInv, VerificationInit

LEMMA ChainGrows ==
  ASSUME VerificationInv, ChainMoves
  PROVE  VerificationInv'
PROOF
  <1>1. PICK a \in Addresses, n \in Balances :
           /\ n # head[a] /\ head' = [head EXCEPT ![a] = n]
           /\ pending' = Append(pending, <<a, n - head[a]>>)
    BY DEF ChainMoves
  <1> DEFINE len == Len(pending)
  <1>2. /\ len \in Nat /\ len <= moves /\ moves \in Nat /\ moves' = moves + 1 /\ moves < MaxMoves
        /\ final' = final /\ stored' = stored /\ touched' = touched
        /\ pending \in Seq(Addresses \X Int) /\ MaxBalance \in Nat /\ MaxMoves \in Nat
    BY VerificationAssumption DEF VerificationInv, ChainInv, ChainMoves
  <1>3. head \in [Addresses -> Balances] /\ head[a] \in Int /\ n \in Int
    BY <1>2, PathEnds DEF VerificationInv, Balances
  <1>4. /\ pending' \in Seq(Addresses \X Int) /\ Len(pending') = len + 1
        /\ pending'[len + 1] = <<a, n - head[a]>>
        /\ \A i \in 1 .. len : pending'[i] = pending[i]
    <2>1. <<a, n - head[a]>> \in Addresses \X Int
      BY <1>3
    <2> QED
      BY <1>1, <1>2, <2>1
  <1>5. PICK f \in Path : TRUE
    BY DEF VerificationInv, ChainInv
  <1>6. /\ f \in [1 .. len + 1 -> [Addresses -> Balances]]
        /\ f[1] = final /\ f[len + 1] = head
        /\ \A i \in 1 .. len : f[i + 1] = [f[i] EXCEPT ![pending[i][1]] = @ + pending[i][2]]
    BY <1>5 DEF Path
  <1> DEFINE g == [i \in 1 .. len + 2 |-> IF i = len + 2 THEN head' ELSE f[i]]
  <1>7. head' \in [Addresses -> Balances]
    BY <1>1, <1>3
  <1>8. g \in [1 .. len + 2 -> [Addresses -> Balances]] /\ g[1] = final
        /\ g[len + 2] = head' /\ g[len + 1] = head
        /\ \A i \in 1 .. len : g[i] = f[i] /\ g[i + 1] = f[i + 1]
    BY <1>2, <1>6, <1>7
  <1>9. head' = [head EXCEPT ![a] = @ + (n - head[a])]
    <2>1. head[a] + (n - head[a]) = n
      BY <1>3
    <2> QED
      BY <1>1, <2>1
  <1> HIDE DEF g
  <1>10. \A i \in 1 .. len + 1 : g[i + 1] = [g[i] EXCEPT ![pending'[i][1]] = @ + pending'[i][2]]
    <2> SUFFICES ASSUME NEW i \in 1 .. len + 1
                 PROVE  g[i + 1] = [g[i] EXCEPT ![pending'[i][1]] = @ + pending'[i][2]]
      OBVIOUS
    <2>1. CASE i \in 1 .. len
      BY <1>4, <1>6, <1>8, <2>1
    <2>2. CASE i = len + 1
      <3>1. g[i + 1] = head' /\ g[i] = head
        BY <1>2, <1>8, <2>2
      <3>2. pending'[i][1] = a /\ pending'[i][2] = n - head[a]
        BY <1>4, <2>2
      <3> QED
        BY <1>9, <3>1, <3>2
    <2> QED
      BY <1>2, <2>1, <2>2
  <1>11. Path' # {}
    <2>1. len + 2 = Len(pending') + 1
      BY <1>2, <1>4
    <2> QED
      BY <1>2, <1>4, <1>8, <1>10, <2>1 DEF Path
  <1>12. Bound' = Bound
    BY <1>2, <1>4 DEF Bound
  <1>13. ChainInv'
    BY <1>2, <1>4, <1>11, <1>12 DEF ChainInv, VerificationInv
  <1>14. ControlInv'
    BY DEF ControlInv, VerificationInv, ChainMoves, locals
  <1>15. pending' # <<>>
    BY <1>2, <1>4
  <1>16. ToCheck' = ToCheck
    BY DEF ToCheck, ChainMoves
  <1>17. CheckInv'
    BY <1>15, <1>16 DEF CheckInv, VerificationInv, ChainMoves, locals
  <1> QED
    BY <1>13, <1>14, <1>17 DEF VerificationInv

LEMMA BlockApplied ==
  ASSUME VerificationInv, SyncBlock
  PROVE  VerificationInv'
PROOF
  <1> DEFINE a == pending[1][1]
             d == pending[1][2]
             len == Len(pending)
  <1>1. /\ final' = [final EXCEPT ![a] = @ + d]
        /\ stored' = [stored EXCEPT ![a] = Clamped(@ + d)]
        /\ touched' = touched \cup {a} /\ pending' = Tail(pending)
        /\ moves' = moves /\ head' = head /\ pending # <<>>
    BY DEF SyncBlock
  <1>2. /\ len \in Nat /\ len >= 1 /\ len <= moves /\ moves \in Nat
        /\ pending \in Seq(Addresses \X Int) /\ MaxBalance \in Nat
    BY <1>1, VerificationAssumption DEF VerificationInv, ChainInv
  <1>3. a \in Addresses /\ d \in Int
    <2>1. pending[1] \in Addresses \X Int
      BY <1>2
    <2> QED
      BY <2>1
  <1>4. /\ pending' \in Seq(Addresses \X Int) /\ Len(pending') = len - 1
        /\ \A i \in 1 .. len - 1 : pending'[i] = pending[i + 1]
    BY <1>1, <1>2
  <1>5. PICK f \in Path : TRUE
    BY DEF VerificationInv, ChainInv
  <1>6. /\ f \in [1 .. len + 1 -> [Addresses -> Balances]]
        /\ f[1] = final /\ f[len + 1] = head
        /\ \A i \in 1 .. len : f[i + 1] = [f[i] EXCEPT ![pending[i][1]] = @ + pending[i][2]]
    BY <1>5 DEF Path
  <1>7. f[2] = final'
    <2>1. 1 \in 1 .. len /\ 1 + 1 = 2
      BY <1>2
    <2>2. f[1 + 1] = [f[1] EXCEPT ![pending[1][1]] = @ + pending[1][2]]
      BY <1>6, <2>1
    <2> QED
      BY <1>1, <1>6, <2>1, <2>2
  <1> DEFINE g == [i \in 1 .. len |-> f[i + 1]]
  <1>8. /\ g \in [1 .. len -> [Addresses -> Balances]]
        /\ \A i \in 1 .. len : g[i] = f[i + 1]
    BY <1>2, <1>6
  <1> HIDE DEF g
  <1>9. g[1] = final' /\ g[len] = head'
    <2>1. 1 \in 1 .. len /\ len \in 1 .. len /\ 1 + 1 = 2
      BY <1>2
    <2>2. g[1] = f[1 + 1] /\ g[len] = f[len + 1]
      BY <1>8, <2>1
    <2> QED
      BY <1>1, <1>6, <1>7, <2>1, <2>2
  <1>10. \A i \in 1 .. len - 1 : g[i + 1] = [g[i] EXCEPT ![pending'[i][1]] = @ + pending'[i][2]]
    <2> SUFFICES ASSUME NEW i \in 1 .. len - 1
                 PROVE  g[i + 1] = [g[i] EXCEPT ![pending'[i][1]] = @ + pending'[i][2]]
      OBVIOUS
    <2>1. i \in 1 .. len /\ i + 1 \in 1 .. len
      BY <1>2
    <2> QED
      BY <1>4, <1>6, <1>8, <2>1
  <1>11. Path' # {}
    <2>1. Len(pending') + 1 = len /\ Len(pending') = len - 1
      BY <1>2, <1>4
    <2>2. g \in Path'
      BY <1>8, <1>9, <1>10, <2>1 DEF Path
    <2> QED
      BY <2>2
  <1>12. d <= MaxBalance
    <2>1. final[a] \in Balances /\ final'[a] \in Balances /\ final'[a] = final[a] + d
      <3>1. final \in [Addresses -> Balances] /\ final' \in [Addresses -> Balances]
        <4>1. 2 \in 1 .. len + 1 /\ 1 \in 1 .. len + 1
          BY <1>2
        <4> QED
          BY <1>6, <1>7, <4>1
      <3> HIDE DEF a, d
      <3> QED
        BY <1>1, <1>3, <3>1
    <2> QED
      BY <1>2, <1>3, <2>1 DEF Balances
  <1>13. Bound' = Bound + MaxBalance /\ Bound \in Nat
    <2>1. moves - len + 1 \in Nat /\ moves' - Len(pending') + 1 = (moves - len + 1) + 1
      BY <1>1, <1>2, <1>4
    <2> QED
      BY <1>2, <2>1, BoundGrows DEF Bound
  <1>14. stored' \in [Addresses -> Nat] /\ \A b \in Addresses : stored'[b] <= Bound'
    <2>1. stored \in [Addresses -> Nat] /\ \A b \in Addresses : stored[b] <= Bound
      BY DEF VerificationInv, ChainInv
    <2>2. Clamped(stored[a] + d) \in Nat /\ Clamped(stored[a] + d) <= Bound + MaxBalance
      BY <1>2, <1>3, <1>12, <1>13, <2>1 DEF Clamped
    <2> HIDE DEF a, d
    <2>3. stored' = [stored EXCEPT ![a] = Clamped(stored[a] + d)]
      BY <1>1
    <2>4. \A b \in Addresses : stored'[b] = IF b = a THEN Clamped(stored[a] + d) ELSE stored[b]
      BY <2>1, <2>3
    <2>5. stored' \in [Addresses -> Nat]
      BY <2>1, <2>2, <2>3
    <2>6. \A b \in Addresses : stored[b] <= Bound + MaxBalance
      BY <1>2, <1>13, <2>1
    <2>7. \A b \in Addresses : stored'[b] <= Bound + MaxBalance
      BY <2>2, <2>4, <2>6
    <2> QED
      BY <1>13, <2>5, <2>7
  <1>15. ChainInv'
    BY <1>1, <1>2, <1>3, <1>4, <1>11, <1>14 DEF ChainInv, VerificationInv
  <1>16. ControlInv' /\ CheckInv'
    BY DEF ControlInv, CheckInv, VerificationInv, SyncBlock, locals
  <1> QED
    BY <1>15, <1>16 DEF VerificationInv

\* The check itself leaves chain and store alone.
LEMMA ChainAlone ==
  ASSUME VerificationInv, UNCHANGED <<mode, chain, stored, touched>>
  PROVE  ChainInv' /\ ToCheck' = ToCheck /\ IsFiniteSet(missed)
PROOF
  <1>1. Path' = Path /\ Bound' = Bound
    BY DEF Path, Bound, chain
  <1>2. ChainInv'
    BY <1>1 DEF ChainInv, VerificationInv, chain
  <1> QED
    BY <1>2, FS_Subset, VerificationAssumption DEF ToCheck, VerificationInv, ControlInv

LEMMA CheckListed ==
  ASSUME VerificationInv, List
  PROVE  VerificationInv'
PROOF
  <1>1. ChainInv' /\ ToCheck' = ToCheck
    BY ChainAlone DEF List
  <1>2. ToCheck \subseteq Addresses /\ todo' = ToCheck /\ missed' = {} /\ snap' = stored /\ stored' = stored
    BY DEF List, ToCheck, VerificationInv, ChainInv
  <1>3. IsFiniteSet(ToCheck) /\ Cardinality(ToCheck) \in Nat
    BY <1>2, FS_Subset, FS_CardinalityType, VerificationAssumption
  <1>4. /\ res' \in [checked : Nat, mismatches : Nat, failures : Nat]
        /\ res'.mismatches = 0 /\ res'.failures = 0
        /\ res'.checked > 0 => ToCheck # {}
    BY <1>2, <1>3, FS_EmptySet DEF List, NoResult
  <1>5. ControlInv'
    BY <1>2, <1>4 DEF List, ControlInv, VerificationInv
  <1>6. CheckInv'
    BY <1>1, <1>2, <1>4, FS_EmptySet DEF List, CheckInv, Seen
  <1> QED
    BY <1>1, <1>5, <1>6 DEF VerificationInv

LEMMA CheckAsks ==
  ASSUME VerificationInv, NextHolder \/ AskAgain \/ Finish
  PROVE  VerificationInv'
PROOF
  <1>1. ChainInv' /\ ToCheck' = ToCheck
    BY ChainAlone DEF NextHolder, AskAgain, Finish
  <1>2. ControlInv'
    BY VerificationAssumption DEF NextHolder, AskAgain, Finish, ControlInv, VerificationInv, locals
  <1>3. CASE NextHolder
    BY <1>1, <1>2, <1>3 DEF NextHolder, CheckInv, Seen, VerificationInv, chain
  <1>4. CASE AskAgain
    BY <1>1, <1>2, <1>4 DEF AskAgain, CheckInv, Seen, VerificationInv, chain
  <1>5. CASE Finish
    BY <1>1, <1>2, <1>5 DEF Finish, CheckInv, Seen, VerificationInv, chain, locals
  <1> QED
    BY <1>3, <1>4, <1>5

LEMMA CheckAnswered ==
  ASSUME VerificationInv, Answered \/ LookupFails
  PROVE  VerificationInv'
PROOF
  <1>1. ChainInv' /\ ToCheck' = ToCheck /\ IsFiniteSet(missed)
    BY ChainAlone DEF Answered, LookupFails
  <1>2. /\ phase = "asking" /\ phase' = "lookup" /\ asked' = Nobody
        /\ todo' = todo /\ snap' = snap /\ stored' = stored /\ head' = head /\ pending' = pending
        /\ mode' = mode /\ rec' = rec /\ attempt' = attempt /\ setbacks' = setbacks
    BY DEF Answered, LookupFails, chain
  <1>3. /\ snap = stored /\ todo \subseteq ToCheck /\ missed \subseteq ToCheck \ todo
        /\ asked \in ToCheck \ (todo \cup missed) /\ asked \in Addresses
        /\ res.mismatches + res.failures = Cardinality(missed)
        /\ res.checked > 0 => ToCheck # {}
        /\ pending = <<>> => \A a \in ToCheck \ (todo \cup missed \cup {asked}) : stored[a] = head[a]
        /\ res \in [checked : Nat, mismatches : Nat, failures : Nat]
    BY <1>2 DEF VerificationInv, CheckInv, ControlInv, ChainInv, ToCheck, Seen
  <1>4. Cardinality(missed) \in Nat /\ Cardinality(missed \cup {asked}) = Cardinality(missed) + 1
    BY <1>1, <1>3, FS_CardinalityType, FS_AddElement
  <1>5. /\ res' \in [checked : Nat, mismatches : Nat, failures : Nat]
        /\ \/ missed' = missed /\ head[asked] = stored[asked]
              /\ res'.mismatches + res'.failures = res.mismatches + res.failures
           \/ missed' = missed \cup {asked}
              /\ res'.mismatches + res'.failures = res.mismatches + res.failures + 1
    <2>1. CASE Answered
      <3> DEFINE same == head[asked] = snap[asked]
      <3>1. /\ res' = [res EXCEPT !.checked = IF mode = "dryrun" THEN @ + 1 ELSE @,
                                 !.mismatches = IF same THEN @ ELSE @ + 1]
            /\ missed' = IF same THEN missed ELSE missed \cup {asked}
        BY <2>1 DEF Answered
      <3>2. same <=> head[asked] = stored[asked]
        BY <1>3
      <3> HIDE DEF same
      <3>3. /\ res'.checked = IF mode = "dryrun" THEN res.checked + 1 ELSE res.checked
            /\ res'.mismatches = IF same THEN res.mismatches ELSE res.mismatches + 1
            /\ res'.failures = res.failures
            /\ res' = [checked |-> res'.checked, mismatches |-> res'.mismatches,
                       failures |-> res'.failures]
        BY <1>3, <3>1
      <3>4. res'.checked \in Nat /\ res'.mismatches \in Nat /\ res'.failures \in Nat
        BY <1>3, <3>3
      <3>5. res' \in [checked : Nat, mismatches : Nat, failures : Nat]
        BY <3>3, <3>4
      <3> QED
        BY <1>3, <3>1, <3>2, <3>3, <3>5
    <2>2. CASE LookupFails
      BY <1>3, <2>2 DEF LookupFails
    <2> QED
      BY <2>1, <2>2
  <1>6. ControlInv'
    BY <1>2, <1>3, <1>5 DEF ControlInv, VerificationInv
  <1>7. /\ todo' \subseteq ToCheck' /\ missed' \subseteq ToCheck' \ todo'
        /\ ToCheck' # {} /\ Seen' \subseteq ToCheck \ (todo \cup missed)
        /\ asked \in Seen' => missed' = missed
    BY <1>1, <1>2, <1>3, <1>5 DEF Seen
  <1>8. res'.mismatches + res'.failures = Cardinality(missed')
    BY <1>3, <1>4, <1>5
  <1>9. pending' = <<>> => \A a \in Seen' : stored'[a] = head'[a]
    BY <1>1, <1>2, <1>3, <1>5, <1>7 DEF Seen
  <1>10. CheckInv'
    BY <1>2, <1>3, <1>7, <1>8, <1>9 DEF CheckInv
  <1> QED
    BY <1>1, <1>6, <1>10 DEF VerificationInv

LEMMA CheckRecorded ==
  ASSUME VerificationInv, Record
  PROVE  VerificationInv'
PROOF
  <1>1. ChainInv' /\ IsFiniteSet(missed)
    BY ChainAlone DEF Record
  <1>2. /\ res \in [checked : Nat, mismatches : Nat, failures : Nat]
        /\ res.mismatches + res.failures = Cardinality(missed)
    BY DEF VerificationInv, CheckInv, ControlInv, Record
  <1>3. Cardinality(missed) <= Cardinality(Addresses) /\ Cardinality(Addresses) \in Nat
    BY FS_Subset, FS_CardinalityType, VerificationAssumption DEF VerificationInv, ControlInv
  <1>4. /\ res.mismatches \in 0 .. Cardinality(Addresses)
        /\ res.failures \in 0 .. Cardinality(Addresses) /\ Passes(res) \in BOOLEAN
    BY <1>2, <1>3 DEF Passes
  <1>5. ControlInv'
    BY <1>4 DEF Record, ControlInv, VerificationInv, locals
  <1> QED
    BY <1>1, <1>5 DEF VerificationInv, CheckInv, Record

LEMMA CheckInterrupted ==
  ASSUME VerificationInv, RecordFails \/ Stop \/ Start
  PROVE  VerificationInv'
PROOF
  <1>1. ChainInv'
    BY ChainAlone DEF RecordFails, Stop, Start
  <1>2. ControlInv'
    BY VerificationAssumption DEF RecordFails, Stop, Start, Setback, ControlInv, VerificationInv, locals
  <1>3. phase' \notin {"lookup", "asking", "record"}
    BY DEF RecordFails, Stop, Start
  <1> QED
    BY <1>1, <1>2, <1>3 DEF VerificationInv, CheckInv

LEMMA VerificationAlways == VerificationSpec => []VerificationInv
PROOF
  <1>1. VerificationInv /\ [VerificationNext]_verificationVars => VerificationInv'
    <2> SUFFICES ASSUME VerificationInv, [VerificationNext]_verificationVars
                 PROVE  VerificationInv'
      OBVIOUS
    <2>1. CASE UNCHANGED verificationVars
      <3>1. ChainInv' /\ ToCheck' = ToCheck
        BY <2>1, ChainAlone DEF verificationVars
      <3> QED
        BY <2>1, <3>1
        DEF VerificationInv, ControlInv, CheckInv, Seen, verificationVars, chain, locals
    <2> QED
      BY <2>1, ChainGrows, BlockApplied, CheckListed, CheckAsks, CheckAnswered,
         CheckRecorded, CheckInterrupted DEF VerificationNext, CheckStep
  <1> QED
    BY <1>1, ChainStarts, PTL DEF VerificationSpec

(* The balances that a check compares, the cursor of its loop and what it  *)
(* records keep their types: no intermediate state of the chain and no     *)
(* number of retries, stops and lost records takes them out of range.      *)
THEOREM VerificationTyped == VerificationSpec => []VerificationTypeOK
PROOF
  <1>1. VerificationInv => VerificationTypeOK
    <2> SUFFICES ASSUME VerificationInv PROVE VerificationTypeOK
      OBVIOUS
    <2>1. stored \in [Addresses -> Stored]
      <3>1. moves - Len(pending) + 1 \in Nat /\ moves - Len(pending) + 1 <= MaxMoves + 1
            /\ MaxMoves + 1 \in Nat /\ MaxBalance \in Nat
        BY VerificationAssumption DEF VerificationInv, ChainInv
      <3>2. Bound <= MaxBalance * (MaxMoves + 1) /\ Bound \in Nat /\ MaxBalance * (MaxMoves + 1) \in Nat
        BY <3>1, BoundKept DEF Bound
      <3>3. \A a \in Addresses : stored[a] \in Stored
        BY <3>2 DEF VerificationInv, ChainInv, Stored
      <3> QED
        BY <3>3 DEF VerificationInv, ChainInv
    <2> QED
      BY <2>1, PathEnds DEF VerificationTypeOK, VerificationInv, ChainInv, ControlInv
  <1> QED
    BY <1>1, VerificationAlways, PTL

(* What a check records is true (CheckToken, verifyBackfill and            *)
(* runBackfillDryRun): its numbers are those of one whole check, whichever *)
(* lookups failed or were retried and however often the process stopped;   *)
(* and if it says verified, and the chain stood still, each holder that    *)
(* the import left, or each address of a dry run, has its balance.         *)
THEOREM RecordsAreTrue == VerificationSpec => RecordIsTrue
PROOF
  <1> DEFINE told ==
        LET checked == IF mode = "dryrun" THEN touched ELSE {a \in Addresses : stored[a] # 0}
        IN /\ todo = {} /\ asked = Nobody
           /\ rec'.mismatches + rec'.failures = Cardinality(missed)
           /\ rec'.verified /\ pending = <<>> =>
                checked # {} /\ \A a \in checked : stored[a] = final[a]
  <1>1. VerificationInv /\ [VerificationNext]_verificationVars => [rec' # rec => told]_verificationVars
    <2> SUFFICES ASSUME VerificationInv, VerificationNext, rec' # rec PROVE told
      BY DEF verificationVars
    <2>1. Record
      BY DEF VerificationNext, CheckStep, ChainMoves, SyncBlock, List, NextHolder, Answered,
             AskAgain, LookupFails, Finish, RecordFails, Stop, Start
    <2>2. /\ todo = {} /\ asked = Nobody /\ IsFiniteSet(missed) /\ missed \subseteq ToCheck
          /\ res \in [checked : Nat, mismatches : Nat, failures : Nat]
          /\ res.mismatches + res.failures = Cardinality(missed)
          /\ res.checked > 0 => ToCheck # {}
          /\ pending = <<>> => head = final /\ \A a \in ToCheck \ missed : stored[a] = head[a]
      BY <2>1, ChainAlone, PathEnds
      DEF Record, VerificationInv, CheckInv, ControlInv, Seen
    <2>3. /\ rec'.verified = Passes(res) /\ rec'.mismatches = res.mismatches
          /\ rec'.failures = res.failures
      BY <2>1 DEF Record
    <2>4. Passes(res) => missed = {} /\ ToCheck # {}
      BY <2>2, FS_EmptySet DEF Passes
    <2> QED
      BY <2>2, <2>3, <2>4 DEF ToCheck
  <1> QED
    BY <1>1, VerificationAlways, PTL DEF VerificationSpec, RecordIsTrue
================================================================================
