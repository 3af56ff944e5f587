---------------------------- MODULE ExplorerQueries ----------------------------
(***************************************************************************)
(* The rankings and ranges of the explorer: GET /holders (GetTopHolders),  *)
(* /producers (GetProducers), /blocks (handleBlocks, GetBlocks) and the    *)
(* holder counts of /stats (GetStats), over a chain that grows in batches. *)
(* Balances are stored as decimal text, and ranked as text. A handler of   *)
(* this process reads what the open batch has written (exec() answers with *)
(* its transaction), and what it read may be rolled back before its next   *)
(* query. GetProducers is followed query by query; a page of holders is    *)
(* one query, and /blocks takes a height that may have been read earlier.  *)
(***************************************************************************)
EXTENDS Naturals, Sequences, FiniteSets, FiniteSetsExt

CONSTANTS
  Addresses,       \* addresses, here numbers: the order rows are scanned in
  NoSigner,        \* the empty signer of a block
  Amounts,         \* balances
  Radix,           \* radix of the text of a balance (ten)
  MaxHolders,      \* largest page (1000)
  MaxHolderOffset, \* maxOffset (100000)
  ProducerWindow,  \* windowBlocks
  NewestBlocks,    \* the default page of /blocks is this long (50)
  Span,            \* a page of /blocks is at most Span + 1 long (1000)
  MaxBlock         \* bound on the chain

ASSUME ExplorerAssumption ==
  /\ Addresses \subseteq Nat /\ IsFiniteSet(Addresses) /\ NoSigner \notin Addresses
  /\ Amounts \subseteq Nat
  /\ Radix \in Nat \ {0, 1}
  /\ {MaxHolders, ProducerWindow, NewestBlocks, Span} \subseteq Nat \ {0}
  /\ {MaxHolderOffset, MaxBlock} \subseteq Nat

VARIABLES
  bal,      \* the balance of each address in one token (VHP for producers)
  signer,   \* who signed each stored block
  head,     \* MAX(height)
  durable,  \* these three as the last commit left them
  report    \* one call of GetProducers

chain == <<bal, signer, head, durable>>
explorerVars == <<chain, report>>

Stored == DOMAIN signer

\* What a call of GetProducers has read: the head and, from it, since; up to
\* where and what it counted; the VHP of every entry; the last block of some,
\* and whose time it has. `undone' tells of a rollback since the call began.
NoReport ==
  [step |-> "none", head |-> 0, since |-> 0, upto |-> 0, blocks |-> <<>>,
   vhp |-> <<>>, last |-> <<>>, timed |-> {}, undone |-> FALSE]

Now == [bal |-> bal, signer |-> signer, head |-> head]

ExplorerInit ==
  /\ bal = [a \in Addresses |-> 0]
  /\ signer = <<>>
  /\ head = 0
  /\ durable = Now
  /\ report = NoReport

\* Mutant: a block without a signer is not stored.
StoreBlockIfSigned(h, s) ==
  /\ h \in head + 1 .. head + 2 /\ h <= MaxBlock
  /\ head' = h
  /\ signer' = IF s = NoSigner THEN signer
               ELSE [i \in Stored \cup {h} |-> IF i = h THEN s ELSE signer[i]]
  /\ \E a \in Addresses, n \in Amounts : bal' = [bal EXCEPT ![a] = n]
  /\ UNCHANGED <<durable, report>>

\* A block is stored and moves balances; the store may lack a block before it.
StoreBlock(h, s) ==
  /\ h \in head + 1 .. head + 2 /\ h <= MaxBlock
  /\ head' = h
  /\ signer' = [i \in Stored \cup {h} |-> IF i = h THEN s ELSE signer[i]]
  /\ \E a \in Addresses, n \in Amounts : bal' = [bal EXCEPT ![a] = n]
  /\ UNCHANGED <<durable, report>>

\* CommitBatch.
CommitBlocks == durable' = Now /\ UNCHANGED <<bal, signer, head, report>>

\* RollbackBatch, or a commit that fails.
UndoBlocks ==
  /\ durable # Now
  /\ bal' = durable.bal /\ signer' = durable.signer /\ head' = durable.head
  /\ report' = [report EXCEPT !.undone = report.step # "none"]
  /\ UNCHANGED durable

-----------------------------------------------------------------------------
(* Text *)

\* The digits of a number, without leading zeros.
Text[n \in Nat] == IF n < Radix THEN <<n>> ELSE Append(Text[n \div Radix], n % Radix)

\* s > t as SQLite compares text.
TextAbove(s, t) ==
  \E i \in DOMAIN s : /\ \A j \in 1 .. i - 1 : j \in DOMAIN t /\ s[j] = t[j]
                      /\ i \in DOMAIN t => s[i] > t[i]

-----------------------------------------------------------------------------
(* GetTopHolders *)

Holders == {a \in Addresses : bal[a] # 0}

\* Mutant: ORDER BY balance DESC.
RanksByText(a, b) ==
  \/ TextAbove(Text[bal[a]], Text[bal[b]])
  \/ Text[bal[a]] = Text[bal[b]] /\ a < b

\* ORDER BY LENGTH(balance) DESC, balance DESC; equals stay in scan order.
Ranks(a, b) ==
  LET s == Text[bal[a]]
      t == Text[bal[b]]
  IN \/ Len(s) > Len(t)
     \/ Len(s) = Len(t) /\ TextAbove(s, t)
     \/ s = t /\ a < b

Ranked ==
  [k \in 1 .. Cardinality(Holders) |->
     CHOOSE a \in Holders : Cardinality({b \in Holders : Ranks(b, a)}) = k - 1]

\* The page handleHolders answers; Cardinality(Holders) is the total.
HoldersPage(limit, offset) ==
  LET l == Min({limit, MaxHolders})
      o == Min({offset, MaxHolderOffset})
  IN SubSeq(Ranked, o + 1, Min({l + o, Len(Ranked)}))

-----------------------------------------------------------------------------
(* GetProducers, one query after the other *)

\* SELECT COALESCE(MAX(height), 0), and since.
ReadHead ==
  /\ report.step = "none"
  /\ report' = [report EXCEPT !.step = "head", !.head = head, !.upto = head,
                  !.since = IF head > ProducerWindow THEN head - ProducerWindow ELSE 0]
  /\ UNCHANGED chain

\* Mutant: height >= since.
WindowInclusive(since) == {h \in Stored : h >= since /\ signer[h] # NoSigner}

\* height > since
InWindow(since) == {h \in Stored : h > since /\ signer[h] # NoSigner}

\* GROUP BY signer
ReadCounts ==
  /\ report.step = "head"
  /\ LET window == InWindow(report.since)
     IN report' = [report EXCEPT !.step = "counts", !.upto = head,
                     !.blocks = [a \in {signer[h] : h \in window} |->
                                   Cardinality({h \in window : signer[h] = a})]]
  /\ UNCHANGED chain

\* The holders of VHP join the signers.
ReadHolders ==
  /\ report.step = "counts"
  /\ report' = [report EXCEPT !.step = "entries",
                  !.vhp = [a \in DOMAIN report.blocks \cup Holders |-> bal[a]]]
  /\ UNCHANGED chain

\* COALESCE(MAX(height), 0) of one signer
SignedBy(a) == {h \in Stored : signer[h] = a}
Newest(a) == IF SignedBy(a) = {} THEN 0 ELSE Max(SignedBy(a))

\* The last block of the next entry, in the order of the map.
ReadLast(a) ==
  /\ report.step = "entries"
  /\ a \in DOMAIN report.vhp \ DOMAIN report.last
  /\ DOMAIN report.last = report.timed
  /\ report' = [report EXCEPT
       !.last = [b \in {a} \cup DOMAIN report.last |-> IF b = a THEN Newest(a) ELSE report.last[b]],
       !.timed = IF Newest(a) = 0 THEN @ \cup {a} ELSE @]
  /\ UNCHANGED chain

\* The time of that block; without the row (sql.ErrNoRows) the call fails.
ReadTime(a) ==
  /\ report.step = "entries"
  /\ a \in DOMAIN report.last \ report.timed
  /\ report' = IF report.last[a] \in Stored
               THEN [report EXCEPT !.timed = @ \cup {a}]
               ELSE [report EXCEPT !.step = "failed"]
  /\ UNCHANGED chain

ProducersStep == ReadHead \/ ReadCounts \/ ReadHolders \/ \E a \in Addresses : ReadLast(a) \/ ReadTime(a)

ExplorerNext ==
  \/ \E h \in 1 .. MaxBlock, s \in Addresses \cup {NoSigner} : StoreBlock(h, s)
  \/ CommitBlocks \/ UndoBlocks
  \/ ProducersStep

ExplorerSpec == ExplorerInit /\ [][ExplorerNext]_explorerVars

\* total
TotalBlocks == MapThenSumSet(LAMBDA a : report.blocks[a], DOMAIN report.blocks)

-----------------------------------------------------------------------------
(* handleBlocks *)

Refused == [from |-> 0, to |-> 0, rows |-> {}, ok |-> FALSE]

\* Mutant: the default page starts at to - 50.
RangeOneMore(from, to, height) ==
  IF to # 0 THEN <<from, to>>
  ELSE <<IF height > NewestBlocks THEN height - NewestBlocks ELSE from, height>>

\* to = 0 stands for the newest blocks, whatever from is on a long chain;
\* height is the answer of GetSyncState, read before the blocks are.
RangeAsked(from, to, height) ==
  IF to # 0 THEN <<from, to>>
  ELSE <<IF height > NewestBlocks - 1 THEN height - (NewestBlocks - 1) ELSE from, height>>

BlocksOf(from0, to0, height) ==
  LET from == RangeAsked(from0, to0, height)[1]
      to1  == RangeAsked(from0, to0, height)[2]
      to   == IF to1 - from > Span THEN from + Span ELSE to1
  IN IF from > to1 THEN Refused
     ELSE [from |-> from, to |-> to, rows |-> {h \in Stored : from <= h /\ h <= to}, ok |-> TRUE]

-----------------------------------------------------------------------------
(* Properties *)

\* Balances, signers of the blocks up to a stored head.
ChainOK(b, s, h) ==
  /\ b \in [Addresses -> Amounts \cup {0}]
  /\ DOMAIN s \subseteq 1 .. h /\ h \in 0 .. MaxBlock
  /\ h # 0 => h \in DOMAIN s
  /\ \A i \in DOMAIN s : s[i] \in Addresses \cup {NoSigner}

\* Every variable has its type.
ExplorerTypeOK ==
  /\ ChainOK(bal, signer, head) /\ ChainOK(durable.bal, durable.signer, durable.head)
  /\ report.step \in {"none", "head", "counts", "entries", "failed"} /\ report.undone \in BOOLEAN
  /\ {report.head, report.since, report.upto} \subseteq 0 .. MaxBlock
  /\ DOMAIN report.blocks \subseteq Addresses /\ DOMAIN report.vhp \subseteq Addresses
  /\ report.timed \subseteq DOMAIN report.last /\ DOMAIN report.last \subseteq DOMAIN report.vhp

\* The pages of a given limit, up to the one at the largest offset, joined
\* together: the first holders, nobody twice and nobody richer left out.
PagesJoin(asked) ==
  LET limit == Min({asked, MaxHolders})
      pages == MaxHolderOffset \div limit + 1
      walk[k \in 0 .. pages] ==
        IF k = 0 THEN <<>> ELSE walk[k - 1] \o HoldersPage(asked, (k - 1) * limit)
      seen  == walk[pages]
      shown == {seen[i] : i \in DOMAIN seen}
  IN /\ Len(seen) = Min({Cardinality(Holders), pages * limit})
     /\ shown \subseteq Holders /\ Cardinality(shown) = Len(seen)
     /\ \A i, j \in DOMAIN seen : i < j => bal[seen[i]] >= bal[seen[j]]
     /\ \A a \in shown, b \in Holders \ shown : bal[a] >= bal[b]

\* Comparing balances by length and then as text ranks them by value, and the
\* pages before the clamp, of any size, joined together are the first holders,
\* richest first, and everybody when the total is within reach of the largest
\* offset. (Pages at a larger offset all repeat the page at MaxHolderOffset.)
RankedByValue == \A asked \in 1 .. MaxHolders + 1 : PagesJoin(asked)

\* However batches are stored, committed and rolled back between its queries,
\* GET /producers answers with a total above the window by no more than the
\* blocks stored between the first two queries. Unless something it saw was
\* rolled back: the total is every signed block between since and the head at
\* the second query; a producer credited with blocks has its last block after
\* since, and one without has it outside that range; and no call fails.
ProducersAddUp ==
  /\ \/ TotalBlocks <= ProducerWindow
     \/ TotalBlocks + report.head <= ProducerWindow + report.upto
  /\ ~report.undone =>
       /\ report.step \in {"counts", "entries"} =>
            TotalBlocks = Cardinality({h \in InWindow(report.since) : h <= report.upto})
       /\ \A a \in DOMAIN report.last :
            IF a \in DOMAIN report.blocks THEN report.last[a] > report.since
            ELSE report.last[a] <= report.since \/ report.last[a] > report.upto
       /\ report.step # "failed"

\* Asking for the range after the one answered, again and again, shows every
\* stored block; no answer is longer than Span + 1, and without `to' it is the
\* newest NewestBlocks heights of the moment the height was read, whatever has
\* been stored or rolled back since.
BlocksCovered ==
  /\ \A from, to \in 1 .. head : from <= to =>
       LET first == BlocksOf(from, to, head)
           next  == BlocksOf(first.to + 1, to, head)
       IN /\ first.ok /\ Cardinality(first.rows) <= Span + 1
          /\ {h \in Stored : from <= h /\ h <= first.to} = first.rows
          /\ first.to < to => next.ok /\ next.from = first.to + 1
  /\ \A height \in NewestBlocks .. MaxBlock : NewestBlocks <= Span + 1 =>
       BlocksOf(0, 0, height).rows = {h \in Stored : h <= height /\ h + NewestBlocks > height}

\* GET /holders, /producers and /blocks: ranking, window and ranges are right on
\* any chain, with missing and unsigned blocks, while it grows and is undone.
ExplorerAnswersRight == RankedByValue /\ ProducersAddUp /\ BlocksCovered
================================================================================
