------------------------- MODULE MCTransferProjection -------------------------
(***************************************************************************)
(* Instances of TransferProjection: indexing starts at height 1, and fork  *)
(* "b" replaces height 2 of fork "a".                                      *)
(***************************************************************************)
EXTENDS TransferProjection

MCBlocks == {<<1, "a">>, <<2, "a">>, <<2, "b">>}

MCNumber == [b \in Blocks |-> b[1]]

MCParent == [b \in Blocks |-> IF b[1] = 1 THEN NoHash ELSE <<1, "a">>]

\* The part of ChainFacts about providers is not used.
MCChains == {}
MCTxs == {}
MCTxsOf == [b \in Blocks |-> {}]
===============================================================================
