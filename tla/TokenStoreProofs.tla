-------------------------- MODULE TokenStoreProofs --------------------------
(***************************************************************************)
(* The lemmas about the statements of the store that the proofs about      *)
(* BlockSync and HistoryBackfill share, and those about sums over sets.    *)
(***************************************************************************)
EXTENDS TokenStore, FiniteSetsExt, FiniteSetTheorems, WellFoundedInduction, TLAPS

----------------------------------------------------------------------------
(* Sums over finite sets.  The folds of the community modules are          *)
(* recursive functions on the subsets of the set; what holds of their      *)
(* value follows for a least set, by number of elements, on which it fails.*)

Picked(S) == CHOOSE x \in S : TRUE

(* g maps each subset of S to the sum of f over it.                         *)
SumsUp(g, f, S) ==
    g = [s \in SUBSET S |-> IF s = {} THEN 0 ELSE f[Picked(s)] + g[s \ {Picked(s)}]]

Summable(f, S) == \A x \in S : f[x] \in Int

SumOver(f, S) == (CHOOSE g : SumsUp(g, f, S))[S]

LEMMA LeastNat ==
  ASSUME NEW N \in SUBSET Nat, N # {}
  PROVE  \E n \in N : \A m \in N : n <= m
PROOF
  <1> DEFINE Less == {p \in Nat \X Nat : p[1] < p[2]}
  <1>1. IsWellFoundedOn(Less, Nat)
    BY NatLessThanWellFounded DEF OpToRel
  <1> HIDE DEF Less
  <1>2. PICK n \in N : \A m \in N : ~(<<m, n>> \in Less)
    BY <1>1, WFMin
  <1>3. ASSUME NEW m \in N
        PROVE  n <= m
    <2>1. n \in Nat /\ m \in Nat /\ <<m, n>> \in Nat \X Nat
      OBVIOUS
    <2>2. ~(m < n)
      BY <1>2, <2>1 DEF Less
    <2> QED
      BY <2>1, <2>2
  <1> QED
    BY <1>3

LEMMA MinFacts ==
  ASSUME NEW S \in SUBSET Nat, S # {}
  PROVE  Min(S) \in S /\ \A x \in S : Min(S) <= x
  BY LeastNat DEF Min

LEMMA FiniteImage ==
  ASSUME NEW S, IsFiniteSet(S), NEW f
  PROVE  IsFiniteSet({f[x] : x \in S})
PROOF
  <1> DEFINE T == {f[x] : x \in S}
             g == [x \in S |-> f[x]]
  <1>1. g \in Surjection(S, T)
    BY DEF Surjection
  <1> QED
    BY <1>1, FS_Surjection

LEMMA PickedIn == ASSUME NEW S, S # {} PROVE Picked(S) \in S
  BY DEF Picked

LEMMA SumsExist ==
  ASSUME NEW S, IsFiniteSet(S), NEW f
  PROVE  \E g : SumsUp(g, f, S)
PROOF
  <1> DEFINE Level(n) == {s \in SUBSET S : Cardinality(s) <= n}
             Next(g, s) == IF s = {} THEN 0 ELSE f[Picked(s)] + g[s \ {Picked(s)}]
             Good(n) == \E g : g = [s \in Level(n) |-> Next(g, s)]
             Bad == {n \in Nat : ~Good(n)}
  <1>0. \A s \in SUBSET S : IsFiniteSet(s) /\ Cardinality(s) \in Nat /\ Cardinality(s) <= Cardinality(S)
    BY FS_Subset, FS_CardinalityType
  <1>1. Good(0)
    <2>1. \A s \in Level(0) : s = {}
      BY <1>0, FS_EmptySet
    <2> DEFINE g == [s \in Level(0) |-> 0]
    <2>2. g = [s \in Level(0) |-> Next(g, s)]
      BY <2>1
    <2> QED
      BY <2>2
  <1>2. ASSUME NEW n \in Nat, Good(n)
        PROVE  Good(n + 1)
    <2>1. PICK g : g = [s \in Level(n) |-> Next(g, s)]
      BY <1>2
    <2> DEFINE h == [s \in Level(n + 1) |-> Next(g, s)]
    <2>2. \A s \in Level(n) : s \in Level(n + 1) /\ h[s] = g[s]
      <3>1. \A s \in Level(n) : s \in Level(n + 1)
        BY <1>0
      <3>2. \A s \in Level(n) : g[s] = Next(g, s)
        BY <2>1
      <3> QED
        BY <3>1, <3>2
    <2>3. ASSUME NEW s \in Level(n + 1), s # {}
          PROVE  h[s \ {Picked(s)}] = g[s \ {Picked(s)}]
      <3>1. Picked(s) \in s
        BY <2>3, PickedIn
      <3>2. Cardinality(s \ {Picked(s)}) = Cardinality(s) - 1
        BY <1>0, <3>1, FS_RemoveElement
      <3>3. s \ {Picked(s)} \in Level(n)
        BY <1>0, <3>2
      <3> QED
        BY <2>2, <3>3
    <2>4. \A s \in Level(n + 1) : Next(g, s) = Next(h, s)
      BY <2>3
    <2>5. h = [s \in Level(n + 1) |-> Next(h, s)]
      <3> HIDE DEF Next, Level
      <3> QED BY <2>4
    <2> QED
      BY <2>5
  <1>3. Bad = {}
    <2> SUFFICES ASSUME Bad # {} PROVE FALSE
      OBVIOUS
    <2>1. PICK n \in Bad : \A m \in Bad : n <= m
      <3> HIDE DEF Good
      <3> QED BY LeastNat
    <2> HIDE DEF Good
    <2>2. n # 0 /\ n \in Nat
      BY <1>1
    <2>3. n - 1 \in Nat /\ n - 1 \notin Bad
      BY <2>1, <2>2
    <2> QED
      BY <1>2, <2>3
  <1>4. Good(Cardinality(S))
    <2>1. Cardinality(S) \in Nat
      BY FS_CardinalityType
    <2> HIDE DEF Good
    <2> QED
      BY <1>3, <2>1
  <1>5. Level(Cardinality(S)) = SUBSET S
    BY <1>0
  <1> QED
    BY <1>4, <1>5 DEF SumsUp

LEMMA SumsStep ==
  ASSUME NEW S, NEW f, NEW g, SumsUp(g, f, S)
  PROVE  /\ g[{}] = 0
         /\ \A s \in SUBSET S : s # {} => g[s] = f[Picked(s)] + g[s \ {Picked(s)}]
  BY DEF SumsUp

(* Two sums of the same values agree.                                       *)
LEMMA SumsAgree ==
  ASSUME NEW S, IsFiniteSet(S), NEW T, S \subseteq T, NEW f, NEW e, NEW g, NEW h,
         SumsUp(g, f, S), SumsUp(h, e, T), \A x \in S : f[x] = e[x]
  PROVE  \A s \in SUBSET S : g[s] = h[s]
PROOF
  <1> DEFINE Bad == {n \in Nat : \E s \in SUBSET S : Cardinality(s) = n /\ g[s] # h[s]}
  <1>0. \A s \in SUBSET S : IsFiniteSet(s) /\ Cardinality(s) \in Nat
    BY FS_Subset, FS_CardinalityType
  <1>1. Bad = {}
    <2> SUFFICES ASSUME Bad # {} PROVE FALSE
      OBVIOUS
    <2>1. PICK n \in Bad : \A m \in Bad : n <= m
      BY LeastNat
    <2>2. PICK s \in SUBSET S : Cardinality(s) = n /\ g[s] # h[s]
      OBVIOUS
    <2>3. s # {}
      BY <2>2, SumsStep
    <2>4. Picked(s) \in s
      BY <2>3, PickedIn
    <2> DEFINE r == s \ {Picked(s)}
    <2>5. Cardinality(r) = Cardinality(s) - 1 /\ Cardinality(r) \in Nat
      BY <1>0, <2>4, FS_RemoveElement
    <2>6. ~(n <= Cardinality(r)) /\ r \in SUBSET S
      <3>1. n \in Nat /\ Cardinality(r) = n - 1
        BY <2>2, <2>5
      <3> QED
        BY <3>1
    <2>7. g[r] = h[r]
      BY <2>1, <2>5, <2>6
    <2>8. g[s] = f[Picked(s)] + g[r] /\ h[s] = e[Picked(s)] + h[r] /\ f[Picked(s)] = e[Picked(s)]
      BY <2>3, <2>4, SumsStep
    <2> QED
      BY <2>2, <2>7, <2>8
  <1> QED
    BY <1>0, <1>1

(* A sum of integers is one, and takes its terms in any order.              *)
LEMMA SumsInAnyOrder ==
  ASSUME NEW S, IsFiniteSet(S), NEW f, Summable(f, S), NEW g, SumsUp(g, f, S)
  PROVE  \A s \in SUBSET S : g[s] \in Int /\ \A x \in s : g[s] = f[x] + g[s \ {x}]
PROOF
  <1> DEFINE Ok(s) == g[s] \in Int /\ \A x \in s : g[s] = f[x] + g[s \ {x}]
             Bad == {n \in Nat : \E s \in SUBSET S : Cardinality(s) = n /\ ~Ok(s)}
  <1>0. \A s \in SUBSET S : IsFiniteSet(s) /\ Cardinality(s) \in Nat
    BY FS_Subset, FS_CardinalityType
  <1>1. Bad = {}
    <2> SUFFICES ASSUME Bad # {} PROVE FALSE
      OBVIOUS
    <2>1. PICK n \in Bad : \A m \in Bad : n <= m
      <3> HIDE DEF Ok
      <3> QED BY LeastNat
    <2>2. PICK s \in SUBSET S : Cardinality(s) = n /\ ~Ok(s)
      OBVIOUS
    <2>3. s # {}
      <3>1. g[{}] = 0
        BY SumsStep
      <3>2. Ok({})
        BY <3>1
      <3> QED
        BY <2>2, <3>2
    <2> DEFINE y == Picked(s)
    <2>4. y \in s
      BY <2>3, PickedIn
    <2> HIDE DEF y
    <2>5. ASSUME NEW x \in s
          PROVE  Ok(s \ {x})
      <3>1. Cardinality(s \ {x}) = Cardinality(s) - 1 /\ Cardinality(s \ {x}) \in Nat
        BY <1>0, FS_RemoveElement
      <3> HIDE DEF Ok
      <3>2. Cardinality(s \ {x}) \notin Bad /\ s \ {x} \in SUBSET S
        BY <1>0, <2>1, <2>2, <3>1
      <3> QED
        BY <3>1, <3>2
    <2>6. g[s] = f[y] + g[s \ {y}]
      <3>1. \A r \in SUBSET S : r # {} => g[r] = f[Picked(r)] + g[r \ {Picked(r)}]
        BY SumsStep
      <3> QED
        BY <2>3, <3>1 DEF y
    <2>7. g[s] \in Int
      <3>1. f[y] \in Int /\ g[s \ {y}] \in Int
        BY <2>4, <2>5 DEF Summable
      <3> QED
        BY <2>6, <3>1
    <2>8. ASSUME NEW x \in s, x # y
          PROVE  g[s] = f[x] + g[s \ {x}]
      <3>1. g[s \ {y}] = f[x] + g[(s \ {y}) \ {x}] /\ g[s \ {x}] = f[y] + g[(s \ {x}) \ {y}]
        BY <2>4, <2>5, <2>8
      <3>2. (s \ {y}) \ {x} = (s \ {x}) \ {y}
        OBVIOUS
      <3>3. g[(s \ {x}) \ {y}] \in Int
        <4>1. Cardinality(s \ {x}) = Cardinality(s) - 1
          BY <1>0, FS_RemoveElement
        <4>2. y \in s \ {x} /\ IsFiniteSet(s \ {x})
          BY <2>4, <2>8, <1>0
        <4>3. Cardinality((s \ {x}) \ {y}) = Cardinality(s \ {x}) - 1 /\ Cardinality((s \ {x}) \ {y}) \in Nat
          BY <1>0, <4>2, FS_RemoveElement
        <4> HIDE DEF Ok
        <4>4. Cardinality((s \ {x}) \ {y}) \notin Bad /\ (s \ {x}) \ {y} \in SUBSET S
          BY <1>0, <2>1, <2>2, <4>1, <4>3
        <4>5. Ok((s \ {x}) \ {y})
          BY <4>3, <4>4
        <4> QED
          BY <4>5 DEF Ok
      <3>4. f[x] \in Int /\ f[y] \in Int
        BY <2>4 DEF Summable
      <3> DEFINE rest == g[(s \ {x}) \ {y}]
      <3>5. g[s \ {y}] = f[x] + rest /\ g[s \ {x}] = f[y] + rest /\ rest \in Int
        BY <3>1, <3>2, <3>3
      <3> HIDE DEF rest
      <3>6. g[s] = f[y] + (f[x] + rest)
        BY <2>6, <3>5
      <3>7. f[y] + (f[x] + rest) = f[x] + (f[y] + rest)
        BY <3>4, <3>5
      <3> QED
        BY <3>5, <3>6, <3>7
    <2> QED
      BY <2>2, <2>6, <2>7, <2>8
  <1> QED
    BY <1>0, <1>1

LEMMA SumChosen ==
  ASSUME NEW S, IsFiniteSet(S), NEW f
  PROVE  \E g : SumsUp(g, f, S) /\ SumOver(f, S) = g[S]
  <1> DEFINE g == CHOOSE g : SumsUp(g, f, S)
  <1>1. SumsUp(g, f, S)
    <2> HIDE DEF SumsUp
    <2> QED BY SumsExist
  <1>2. SumOver(f, S) = g[S]
    BY DEF SumOver
  <1> HIDE DEF g
  <1> QED
    BY <1>1, <1>2

(* A sum is the sum of its parts.                                           *)
LEMMA SumFacts ==
  ASSUME NEW S, IsFiniteSet(S), NEW f, Summable(f, S)
  PROVE  /\ SumOver(f, S) \in Int
         /\ S = {} => SumOver(f, S) = 0
         /\ \A x \in S : SumOver(f, S) = SumOver(f, S \ {x}) + f[x]
  <1>1. PICK g : SumsUp(g, f, S) /\ SumOver(f, S) = g[S]
    BY SumChosen
  <1>2. \A s \in SUBSET S : g[s] \in Int /\ \A x \in s : g[s] = f[x] + g[s \ {x}]
    BY <1>1, SumsInAnyOrder
  <1>3. ASSUME NEW x \in S
        PROVE  SumOver(f, S \ {x}) = g[S \ {x}]
    <2>1. IsFiniteSet(S \ {x})
      BY FS_Subset
    <2>2. PICK h : SumsUp(h, f, S \ {x}) /\ SumOver(f, S \ {x}) = h[S \ {x}]
      BY <2>1, SumChosen
    <2>3. S \ {x} \subseteq S
      OBVIOUS
    <2>4. \A s \in SUBSET (S \ {x}) : h[s] = g[s]
      BY <1>1, <2>1, <2>2, <2>3, SumsAgree
    <2> QED
      BY <2>2, <2>4
  <1>4. S = {} => SumOver(f, S) = 0
    BY <1>1, SumsStep
  <1>5. S \in SUBSET S /\ \A x \in S : S \ {x} \in SUBSET S
    OBVIOUS
  <1>6. ASSUME NEW x \in S
        PROVE  SumOver(f, S) = SumOver(f, S \ {x}) + f[x]
    <2>1. SumOver(f, S) = f[x] + g[S \ {x}] /\ g[S \ {x}] \in Int /\ f[x] \in Int
      BY <1>1, <1>2, <1>5 DEF Summable
    <2> QED
      BY <1>3, <2>1
  <1> QED
    BY <1>1, <1>2, <1>4, <1>5, <1>6

LEMMA SumAdd ==
  ASSUME NEW S, IsFiniteSet(S), NEW x, x \notin S, NEW f, Summable(f, S \cup {x})
  PROVE  SumOver(f, S \cup {x}) = SumOver(f, S) + f[x]
  <1>1. IsFiniteSet(S \cup {x})
    BY FS_AddElement
  <1>2. (S \cup {x}) \ {x} = S
    OBVIOUS
  <1> QED
    BY <1>1, <1>2, SumFacts DEF Summable

LEMMA SumSame ==
  ASSUME NEW S, IsFiniteSet(S), NEW f, NEW e, \A x \in S : f[x] = e[x]
  PROVE  SumOver(f, S) = SumOver(e, S)
  <1>1. PICK g : SumsUp(g, f, S) /\ SumOver(f, S) = g[S]
    BY SumChosen
  <1>2. PICK h : SumsUp(h, e, S) /\ SumOver(e, S) = h[S]
    BY SumChosen
  <1> QED
    BY <1>1, <1>2, SumsAgree

----------------------------------------------------------------------------
(* Every statement of the store maps databases to databases.               *)

LEMMA EmptyDatabaseType == EmptyDatabase \in Database
  BY StoreAssumption
  DEF EmptyDatabase, Database, NotRegistered, BackfillRecord, Heights, NotSeen, Tokens

LEMMA SetSyncStateType ==
  ASSUME NEW s \in Database, NEW h \in 0 .. MaxHeight
  PROVE  SetSyncState(s, h) \in Database
  BY DEF SetSyncState, Database

LEMMA InsertBlockType ==
  ASSUME NEW s \in Database, NEW h \in Heights, NEW blk \in Blocks
  PROVE  InsertBlock(s, h, blk) \in Database
  BY DEF InsertBlock, Database

LEMMA UpsertAddressesType ==
  ASSUME NEW s \in Database, NEW addrs, NEW h \in Heights
  PROVE  UpsertAddresses(s, addrs, h) \in Database
PROOF
  <1> DEFINE seen == [a \in Addresses |->
                        IF a \in addrs /\ s.seen[a] = NotSeen THEN h ELSE s.seen[a]]
  <1>1. s.seen \in [Addresses -> 1 .. NotSeen] /\ h \in 1 .. NotSeen
    BY StoreAssumption DEF Database, Heights, NotSeen
  <1>2. seen \in [Addresses -> 1 .. NotSeen]
    BY <1>1
  <1>3. [s EXCEPT !.seen = seen] \in Database
    <2> HIDE DEF seen
    <2> QED BY <1>2 DEF Database
  <1> QED
    BY <1>3 DEF UpsertAddresses

LEMMA ResetTokenBalancesType ==
  ASSUME NEW s \in Database, NEW t \in Tokens
  PROVE  ResetTokenBalances(s, t) \in Database
  BY DEF ResetTokenBalances, Database

LEMMA AdjustBalanceType ==
  ASSUME NEW s \in Database, NEW t \in Tokens,
         NEW acct \in Accounts \cup {NoAddr}, NEW delta \in Int
  PROVE  AdjustBalance(s, t, acct, delta) \in Database
PROOF
  <1>1. CASE acct = NoAddr
    BY <1>1 DEF AdjustBalance
  <1>2. CASE acct # NoAddr
    <2> DEFINE sum == s.bal[t][acct] + delta
               new == IF sum < 0 THEN 0 ELSE sum
               row == [s.bal[t] EXCEPT ![acct] = new]
               bal == [s.bal EXCEPT ![t] = row]
    <2>1. /\ s.bal \in [Tokens -> [Accounts -> Nat]]
          /\ s.bal[t] \in [Accounts -> Nat]
          /\ acct \in Accounts
      BY <1>2 DEF Database
    <2>2. s.bal[t][acct] \in Nat
      BY <2>1
    <2>3. new \in Nat
      BY <2>2
    <2>4. row \in [Accounts -> Nat]
      <3> HIDE DEF new
      <3> QED BY <2>1, <2>3
    <2>5. bal \in [Tokens -> [Accounts -> Nat]]
      <3> HIDE DEF row
      <3> QED BY <2>1, <2>4
    <2>6. [s EXCEPT !.bal = bal] \in Database
      <3> HIDE DEF bal
      <3> QED BY <2>5 DEF Database
    <2>7. AdjustBalance(s, t, acct, delta) = [s EXCEPT !.bal = bal]
      BY <1>2 DEF AdjustBalance
    <2> QED
      BY <2>6, <2>7
  <1> QED
    BY <1>1, <1>2

LEMMA DeleteTransfersType ==
  ASSUME NEW s \in Database, NEW h
  PROVE  DeleteTransfersAtHeight(s, h) \in Database
PROOF
  <1> DEFINE kept == {r \in s.rows : r.height # h}
  <1>1. kept \in SUBSET Transfer
    BY DEF Database
  <1>2. [s EXCEPT !.rows = kept] \in Database
    <2> HIDE DEF kept
    <2> QED BY <1>1 DEF Database
  <1> QED
    BY <1>2 DEF DeleteTransfersAtHeight

LEMMA InsertTransferType ==
  ASSUME NEW s \in Database, NEW h \in Heights, NEW t \in Tokens,
         NEW kind \in TransferKinds, NEW from \in Accounts \cup {NoAddr},
         NEW to \in Accounts \cup {NoAddr}, NEW v \in Nat
  PROVE  InsertTransfer(s, h, t, kind, from, to, v) \in Database
PROOF
  <1> DEFINE new == [id |-> s.lastId + 1, height |-> h, token |-> t,
                     kind |-> kind, from |-> from, to |-> to, value |-> v]
             all == s.rows \cup {new}
             nid == s.lastId + 1
  <1>1. s.lastId \in Nat /\ s.rows \in SUBSET Transfer
    BY DEF Database
  <1>2. nid \in Nat
    BY <1>1
  <1>3. new \in Transfer
    BY <1>2 DEF Transfer
  <1>4. all \in SUBSET Transfer
    <2> HIDE DEF new
    <2> QED BY <1>1, <1>3
  <1>5. [s EXCEPT !.lastId = nid, !.rows = all] \in Database
    <2> HIDE DEF nid, all
    <2> QED BY <1>2, <1>4 DEF Database
  <1> QED
    BY <1>5 DEF InsertTransfer

LEMMA NormalizeTokenType ==
  ASSUME NEW ext \in SUBSET Extras, NEW src, IsTokenEvent(ext, src)
  PROVE  NormalizeToken(src) \in Tokens
PROOF
  <1>1. CASE src = OldKoin
    BY <1>1 DEF NormalizeToken, Tokens
  <1>2. CASE src # OldKoin /\ src = OldVhp
    BY <1>2 DEF NormalizeToken, Tokens
  <1>3. CASE src # OldKoin /\ src # OldVhp
    <2>1. NormalizeToken(src) = src
      BY <1>3 DEF NormalizeToken
    <2> QED
      BY <1>3, <2>1 DEF IsTokenEvent, BaseContracts, Tokens
  <1> QED
    BY <1>1, <1>2, <1>3

LEMMA MoveValueType ==
  ASSUME NEW s \in Database, NEW t \in Tokens, NEW e \in Event
  PROVE  MoveValue(s, t, e) \in Database
PROOF
  <1>1. /\ Debited(e) \in Accounts \cup {NoAddr}
        /\ Credited(e) \in Accounts \cup {NoAddr}
        /\ e.value \in Int /\ -e.value \in Int
    BY DEF Event, Debited, Credited
  <1>2. AdjustBalance(s, t, Debited(e), -e.value) \in Database
    BY <1>1, AdjustBalanceType
  <1> QED
    BY <1>1, <1>2, AdjustBalanceType DEF MoveValue

LEMMA RecordTransferType ==
  ASSUME NEW s \in Database, NEW h \in Heights, NEW t \in Tokens,
         NEW e \in Event, e.kind \in TransferKinds
  PROVE  RecordTransfer(s, h, t, e) \in Database
PROOF
  <1>1. /\ Debited(e) \in Accounts \cup {NoAddr}
        /\ Credited(e) \in Accounts \cup {NoAddr}
        /\ e.value \in Nat
    BY DEF Event, Debited, Credited
  <1> QED
    BY <1>1, InsertTransferType DEF RecordTransfer

LEMMA LowerFirstSeenType ==
  ASSUME NEW s \in Database, NEW addrs, NEW h \in Heights
  PROVE  LowerFirstSeen(s, addrs, h) \in Database
PROOF
  <1> DEFINE seen == [a \in Addresses |->
                        IF a \in addrs /\ h < s.seen[a] THEN h ELSE s.seen[a]]
  <1>1. s.seen \in [Addresses -> 1 .. NotSeen] /\ h \in 1 .. NotSeen
    BY StoreAssumption DEF Database, Heights, NotSeen
  <1>2. seen \in [Addresses -> 1 .. NotSeen]
    BY <1>1
  <1>3. [s EXCEPT !.seen = seen] \in Database
    <2> HIDE DEF seen
    <2> QED BY <1>2 DEF Database
  <1> QED
    BY <1>3 DEF LowerFirstSeen

LEMMA UpsertBackfillType ==
  ASSUME NEW s \in Database, NEW t \in Extras, NEW rec \in BackfillRecord
  PROVE  /\ UpsertBackfill(s, t, rec) \in Database
         /\ UpsertBackfill(s, t, rec).bf = [s.bf EXCEPT ![t] = rec]
  BY DEF UpsertBackfill, Database

(* The statements of a replayed event leave the progress records alone.    *)
LEMMA ProgressKept ==
  ASSUME NEW s \in Database
  PROVE  /\ \A addrs, h : LowerFirstSeen(s, addrs, h).bf = s.bf
         /\ \A t, e : MoveValue(s, t, e).bf = s.bf
         /\ \A h, t, e : RecordTransfer(s, h, t, e).bf = s.bf
PROOF
  <1>1. "bf" \in DOMAIN s
    BY DEF Database
  <1>2. ASSUME NEW r, "bf" \in DOMAIN r, NEW t, NEW x, NEW delta
        PROVE  /\ AdjustBalance(r, t, x, delta).bf = r.bf
               /\ "bf" \in DOMAIN AdjustBalance(r, t, x, delta)
    BY <1>2 DEF AdjustBalance
  <1>3. \A t, e : MoveValue(s, t, e).bf = s.bf
    BY <1>1, <1>2 DEF MoveValue
  <1> QED
    BY <1>1, <1>3 DEF LowerFirstSeen, RecordTransfer, InsertTransfer

(* What the two statements on balances change, and that they change        *)
(* nothing else.                                                           *)
OnlyBalances(s, r) ==
    /\ r.height = s.height /\ r.blocks = s.blocks /\ r.seen = s.seen
    /\ r.rows = s.rows /\ r.lastId = s.lastId /\ r.tokens = s.tokens /\ r.bf = s.bf

LEMMA AdjustBalanceEffect ==
  ASSUME NEW s \in Database, NEW t \in Tokens,
         NEW acct \in Accounts \cup {NoAddr}, NEW delta \in Int
  PROVE  LET r == AdjustBalance(s, t, acct, delta)
         IN  /\ OnlyBalances(s, r)
             /\ \A u \in Tokens, x \in Accounts :
                   r.bal[u][x] = IF u # t \/ x # acct THEN s.bal[u][x]
                                 ELSE IF s.bal[u][x] + delta < 0 THEN 0
                                 ELSE s.bal[u][x] + delta
PROOF
  <1> DEFINE r == AdjustBalance(s, t, acct, delta)
  <1>1. CASE acct = NoAddr
    <2>1. r = s
      BY <1>1 DEF AdjustBalance
    <2>2. \A x \in Accounts : x # acct
      BY <1>1, ContractsAssumption DEF Addresses
    <2> QED
      BY <2>1, <2>2 DEF OnlyBalances
  <1>2. CASE acct # NoAddr
    <2>1. s.bal \in [Tokens -> [Accounts -> Nat]] /\ acct \in Accounts
      BY <1>2 DEF Database
    <2> DEFINE sum == s.bal[t][acct] + delta
               bal == [s.bal EXCEPT ![t] = [s.bal[t] EXCEPT ![acct] = IF sum < 0 THEN 0 ELSE sum]]
    <2>2. r = [s EXCEPT !.bal = bal]
      BY <1>2 DEF AdjustBalance
    <2>3. \A u \in Tokens, x \in Accounts :
             bal[u][x] = IF u # t \/ x # acct THEN s.bal[u][x]
                         ELSE IF s.bal[u][x] + delta < 0 THEN 0 ELSE s.bal[u][x] + delta
      BY <2>1
    <2> HIDE DEF bal
    <2>4. OnlyBalances(s, r) /\ r.bal = bal
      BY <2>2 DEF OnlyBalances, Database
    <2> QED
      BY <2>3, <2>4
  <1> QED
    BY <1>1, <1>2

(* A debit that the balance covers is never cut off at zero.               *)
LEMMA MoveValueEffect ==
  ASSUME NEW s \in Database, NEW t \in Tokens, NEW e \in Event
  PROVE  LET r == MoveValue(s, t, e)
         IN  /\ OnlyBalances(s, r)
             /\ \A u \in Tokens \ {t}, x \in Accounts : r.bal[u][x] = s.bal[u][x]
             /\ (Debited(e) \in Accounts => s.bal[t][Debited(e)] >= e.value) =>
                   \A x \in Accounts :
                      r.bal[t][x] = s.bal[t][x] + (IF x = Credited(e) THEN e.value ELSE 0)
                                                - (IF x = Debited(e) THEN e.value ELSE 0)
PROOF
  <1>1. /\ Debited(e) \in Accounts \cup {NoAddr}
        /\ Credited(e) \in Accounts \cup {NoAddr}
        /\ e.value \in Nat /\ e.value \in Int /\ -e.value \in Int
    BY DEF Event, Debited, Credited
  <1> DEFINE q == AdjustBalance(s, t, Debited(e), -e.value)
             r == AdjustBalance(q, t, Credited(e), e.value)
  <1>2. q \in Database
    BY <1>1, AdjustBalanceType
  <1>3. /\ OnlyBalances(s, q)
        /\ \A u \in Tokens, x \in Accounts :
              q.bal[u][x] = IF u # t \/ x # Debited(e) THEN s.bal[u][x]
                            ELSE IF s.bal[u][x] + (-e.value) < 0 THEN 0
                            ELSE s.bal[u][x] + (-e.value)
    <2> PICK m \in Int : m = -e.value
      BY <1>1
    <2>0. Debited(e) \in Accounts \cup {NoAddr}
      BY <1>1
    <2>1. LET p == AdjustBalance(s, t, Debited(e), m)
          IN  /\ OnlyBalances(s, p)
              /\ \A u \in Tokens, x \in Accounts :
                    p.bal[u][x] = IF u # t \/ x # Debited(e) THEN s.bal[u][x]
                                  ELSE IF s.bal[u][x] + m < 0 THEN 0
                                  ELSE s.bal[u][x] + m
      BY <2>0, AdjustBalanceEffect
    <2> QED
      BY <2>1
  <1> HIDE DEF q
  <1>4. /\ OnlyBalances(q, r)
        /\ \A u \in Tokens, x \in Accounts :
              r.bal[u][x] = IF u # t \/ x # Credited(e) THEN q.bal[u][x]
                            ELSE IF q.bal[u][x] + e.value < 0 THEN 0
                            ELSE q.bal[u][x] + e.value
    BY <1>1, <1>2, AdjustBalanceEffect
  <1>5. MoveValue(s, t, e) = r
    BY DEF MoveValue, q
  <1> HIDE DEF r
  <1>6. OnlyBalances(s, r)
    BY <1>3, <1>4 DEF OnlyBalances
  <1>7. \A u \in Tokens \ {t}, x \in Accounts : r.bal[u][x] = s.bal[u][x]
    BY <1>3, <1>4
  <1>8. \A u \in Tokens, x \in Accounts : s.bal[u][x] \in Nat
    BY DEF Database
  <1>9. ASSUME Debited(e) \in Accounts => s.bal[t][Debited(e)] >= e.value, NEW x \in Accounts
        PROVE  r.bal[t][x] = s.bal[t][x] + (IF x = Credited(e) THEN e.value ELSE 0)
                                         - (IF x = Debited(e) THEN e.value ELSE 0)
    <2> DEFINE v == e.value
               b == s.bal[t][x]
               c == q.bal[t][x]
    <2>1. v \in Nat /\ b \in Nat
      BY <1>1, <1>8
    <2>2. c = IF x = Debited(e) THEN b - v ELSE b
      <3>1. CASE x = Debited(e)
        <4>1. b >= v
          BY <1>9, <3>1
        <4>2. c = IF b + (-v) < 0 THEN 0 ELSE b + (-v)
          BY <1>3, <3>1
        <4> HIDE DEF b, c, v
        <4> QED
          BY <2>1, <3>1, <4>1, <4>2
      <3>2. CASE x # Debited(e)
        BY <1>3, <3>2
      <3> QED
        BY <3>1, <3>2
    <2>3. c \in Nat
      BY <1>2 DEF Database
    <2>4. r.bal[t][x] = IF x # Credited(e) THEN c ELSE IF c + v < 0 THEN 0 ELSE c + v
      BY <1>4
    <2> HIDE DEF b, c, v
    <2> SUFFICES r.bal[t][x] = b + (IF x = Credited(e) THEN v ELSE 0)
                                 - (IF x = Debited(e) THEN v ELSE 0)
      BY DEF b, v
    <2> QED
      BY <2>1, <2>2, <2>3, <2>4
  <1> QED
    BY <1>5, <1>6, <1>7, <1>9
=============================================================================
