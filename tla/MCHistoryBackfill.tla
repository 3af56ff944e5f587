------------------------- MODULE MCHistoryBackfill -------------------------
(***************************************************************************)
(* Two extra tokens, pages of two entries.  The first token's history has  *)
(* two entries in one block, so that a page boundary falls inside it, an   *)
(* entry of nothing but foreign and empty events, and entries on both      *)
(* sides of every cutoff; in another history it is empty.                  *)
(***************************************************************************)
EXTENDS HistoryBackfill

CONSTANTS a, b, one, two

Ev(src, kind, from, to, v) ==
    [source |-> src, kind |-> kind, from |-> from, to |-> to, value |-> v,
     impacted |-> {from, to} \ {NoAddr}, reverted |-> FALSE]

At1(h, events) == [height |-> h, events |-> events]

LongHistory == <<
    At1(1, <<Ev(one, "mint", NoAddr, a, 3)>>),
    At1(1, <<Ev(one, "transfer", a, b, 2), Ev(two, "mint", NoAddr, b, 1)>>),
    At1(2, <<Ev(one, "transfer", b, NoAddr, 0), Ev(one, "transfer", NoAddr, NoAddr, 1)>>),
    At1(2, <<Ev(one, "burn", b, NoAddr, 1)>>),
    At1(3, <<Ev(one, "transfer", b, b, 1), Ev(one, "mint", NoAddr, b, 1)>>)>>

ShortHistory == <<At1(2, <<Ev(two, "mint", NoAddr, b, 1)>>)>>

MCHistories == {[t \in Extras |-> IF t = one THEN LongHistory ELSE ShortHistory],
                [t \in Extras |-> IF t = one THEN << >> ELSE ShortHistory]}
=============================================================================
