----------------------------- MODULE TokenStore -----------------------------
(***************************************************************************)
(* internal/store: the tables of the SQLite database as one record, and    *)
(* each SQL statement as an operator from a database to a database.        *)
(*                                                                         *)
(* A missing row of `balances' reads as "0" (GetBalance), so the table is  *)
(* a total function.  `seen' holds first_seen_height, NotSeen standing for *)
(* a missing row of `addresses'.  Transfers are a set of rows told apart   *)
(* by their autoincrement id.  Timestamps and texts are left out.          *)
(***************************************************************************)
EXTENDS TokenEvents

CONSTANTS
    MaxHeight,          \* bound: the highest block of a run
    MaxSeq,             \* bound: the longest account history of a token
    Blocks, NoBlock     \* block ids, and "no row for this height"

ASSUME StoreAssumption ==
    /\ MaxHeight \in Nat \ {0}
    /\ MaxSeq \in Nat
    /\ NoBlock \notin Blocks

Heights == 1 .. MaxHeight
NotSeen == MaxHeight + 1

Transfer == [id : Nat, height : Heights, token : Tokens, kind : TransferKinds,
             from : Accounts \cup {NoAddr}, to : Accounts \cup {NoAddr}, value : Nat]

BackfillRecord == [known : BOOLEAN, next : 0 .. MaxSeq, cutoff : 0 .. MaxHeight,
                   done : BOOLEAN, verified : BOOLEAN]

Database == [height : 0 .. MaxHeight,                      \* sync_state
             blocks : [Heights -> Blocks \cup {NoBlock}],  \* blocks
             seen   : [Addresses -> 1 .. NotSeen],         \* addresses
             bal    : [Tokens -> [Accounts -> Nat]],       \* balances
             rows   : SUBSET Transfer, lastId : Nat,       \* transfers
             tokens : SUBSET Tokens,                       \* tokens
             bf     : [Extras -> BackfillRecord]]          \* token_backfill

NotRegistered == [known |-> FALSE, next |-> 0, cutoff |-> 0,
                  done |-> FALSE, verified |-> FALSE]

(* The schema of a new file, with the two base tokens main() seeds.        *)
EmptyDatabase ==
    [height |-> 0,
     blocks |-> [h \in Heights |-> NoBlock],
     seen   |-> [a \in Addresses |-> NotSeen],
     bal    |-> [t \in Tokens |-> [a \in Accounts |-> 0]],
     rows   |-> {}, lastId |-> 0,
     tokens |-> {Koin, Vhp},
     bf     |-> [t \in Extras |-> NotRegistered]]

----------------------------------------------------------------------------
SetSyncState(s, h) == [s EXCEPT !.height = h]

InsertBlock(s, h, b) == [s EXCEPT !.blocks[h] = b]

UpsertToken(s, t) == [s EXCEPT !.tokens = @ \cup {t}]

UpsertBackfill(s, t, rec) == [s EXCEPT !.bf[t] = rec]

(* Mutant: INSERT OR REPLACE instead of ON CONFLICT DO NOTHING.            *)
ReplaceAddresses(s, addrs, h) ==
    [s EXCEPT !.seen = [a \in Addresses |-> IF a \in addrs THEN h ELSE s.seen[a]]]

(* ON CONFLICT DO NOTHING, for every address of a block.                   *)
UpsertAddresses(s, addrs, h) ==
    [s EXCEPT !.seen = [a \in Addresses |->
        IF a \in addrs /\ s.seen[a] = NotSeen THEN h ELSE s.seen[a]]]

(* Mutant: the update without its WHERE clause.                            *)
OverwriteFirstSeen(s, addrs, h) ==
    [s EXCEPT !.seen = [a \in Addresses |-> IF a \in addrs THEN h ELSE s.seen[a]]]

(* ON CONFLICT DO UPDATE ... WHERE the new height is lower; the empty      *)
(* address is skipped by the caller.                                       *)
LowerFirstSeen(s, addrs, h) ==
    [s EXCEPT !.seen = [a \in Addresses |->
        IF a \in addrs /\ h < s.seen[a] THEN h ELSE s.seen[a]]]

(* Both writers of balances do GetBalance, add, clamp at zero, SetBalance. *)
AdjustBalance(s, t, a, delta) ==
    IF a = NoAddr THEN s
    ELSE [s EXCEPT !.bal[t][a] = IF @ + delta < 0 THEN 0 ELSE @ + delta]

ResetTokenBalances(s, t) == [s EXCEPT !.bal[t] = [a \in Accounts |-> 0]]

DeleteTransfersAtHeight(s, h) == [s EXCEPT !.rows = {r \in @ : r.height # h}]

InsertTransfer(s, h, t, kind, from, to, v) ==
    [s EXCEPT !.lastId = @ + 1,
              !.rows = @ \cup {[id |-> s.lastId + 1, height |-> h, token |-> t,
                                kind |-> kind, from |-> from, to |-> to, value |-> v]}]

(* One event applied to the balances and to the history: the debit comes   *)
(* before the credit, and each reads the balance the previous one wrote.   *)
MoveValue(s, t, e) ==
    AdjustBalance(AdjustBalance(s, t, Debited(e), -e.value), t, Credited(e), e.value)

RecordTransfer(s, h, t, e) ==
    InsertTransfer(s, h, t, e.kind, Debited(e), Credited(e), e.value)
=============================================================================
