----------------------------- MODULE MCLiveIndexer ----------------------------
(***************************************************************************)
(* Instances of LiveIndexer.  A block is its height and the fork it was    *)
(* mined on: fork "b" leaves fork "a" above height 1, fork "c" above the   *)
(* genesis block, where findCommonAncestor never looks.                    *)
(***************************************************************************)
EXTENDS LiveIndexer

CONSTANT MaxHeight

Fork(f, base) == [i \in 1 .. MaxHeight + 1 |-> <<i - 1, IF i - 1 <= base THEN "a" ELSE f>>]

ForkA == Fork("a", MaxHeight)
ForkB == Fork("b", 1)
ForkC == Fork("c", 0)

Prefixes(s) == {SubSeq(s, 1, k) : k \in 1 .. Len(s)}
Elements(s) == {s[i] : i \in DOMAIN s}

TwoChains == Prefixes(ForkA) \cup Prefixes(ForkB)
TwoChainBlocks == Elements(ForkA) \cup Elements(ForkB)

ThreeChains == TwoChains \cup Prefixes(ForkC)
ThreeChainBlocks == TwoChainBlocks \cup Elements(ForkC)

MCNumber == [b \in Blocks |-> b[1]]

ParentFork(b) ==
    CASE b[2] = "b" /\ b[1] = 2 -> "a"
      [] b[2] = "c" /\ b[1] = 1 -> "a"
      [] OTHER -> b[2]

MCParent == [b \in Blocks |-> IF b[1] = 0 THEN NoHash ELSE <<b[1] - 1, ParentFork(b)>>]

MCTxs == {"tx1", "tx2"}

\* Both forks carry one transaction, the winning one another of its own.
ForkTxs == [b \in Blocks |->
    CASE b \in {<<2, "a">>, <<3, "b">>} -> {"tx1"}
      [] b = <<2, "b">> -> {"tx2"}
      [] OTHER -> {}]
===============================================================================
