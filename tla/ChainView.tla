------------------------------ MODULE ChainView ------------------------------
(***************************************************************************)
(* What the block sync promises, without batches, retries or crashes: the  *)
(* indexed chain is at every moment a prefix of the irreversible chain.    *)
(* It grows by publishing more of it, and only a power loss can throw it   *)
(* back, to a shorter prefix.                                              *)
(*                                                                         *)
(* Both chains are sequences of blocks, from height 1 on.                  *)
(***************************************************************************)
EXTENDS Integers, Sequences

CONSTANTS Blocks, MaxHeight

VARIABLES final, indexed

(* The first n irreversible blocks.                                        *)
Prefix(n) == [h \in 1 .. n |-> final[h]]

Init ==
    /\ \E n \in 0 .. MaxHeight : final \in [1 .. n -> Blocks]
    /\ indexed = << >>

(* The node declares one more block irreversible.                          *)
Finalize ==
    /\ \E blk \in Blocks : final' = Append(final, blk)
    /\ UNCHANGED indexed

Publish ==
    /\ \E n \in Len(indexed) + 1 .. Len(final) : indexed' = Prefix(n)
    /\ UNCHANGED final

Lose ==
    /\ \E n \in 0 .. Len(indexed) : indexed' = Prefix(n)
    /\ UNCHANGED final

Next == Finalize \/ Publish \/ Lose

Spec == Init /\ [][Next]_<<final, indexed>>
=============================================================================
