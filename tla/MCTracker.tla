----------------------------- MODULE MCTracker -----------------------------
(***************************************************************************)
(* One extra token with an event in every block of a chain of three, so    *)
(* that every split between import and live sync shows, and one with none  *)
(* but in the first block.                                                 *)
(***************************************************************************)
EXTENDS Tracker

CONSTANTS a, b, one, two, b1, b2, b3

Ev(src, kind, from, to, v) ==
    [source |-> src, kind |-> kind, from |-> from, to |-> to, value |-> v,
     impacted |-> {}, reverted |-> FALSE]

MCBlocks == {b1, b2, b3}

MCBody == [blk \in MCBlocks |->
    [signer |-> NoAddr, parties |-> {},
     events |-> CASE blk = b1 -> <<Ev(one, "mint", NoAddr, a, 2), Ev(two, "mint", NoAddr, a, 1)>>
                  [] blk = b2 -> <<Ev(one, "transfer", a, b, 2)>>
                  [] blk = b3 -> <<Ev(one, "burn", b, NoAddr, 1)>>]]

MCChains == {<<b1, b2, b3>>}
=============================================================================
