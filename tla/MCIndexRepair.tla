----------------------------- MODULE MCIndexRepair ----------------------------
(***************************************************************************)
(* Instances of IndexRepair: a chain of three blocks whose last one        *)
(* replaced another.                                                       *)
(***************************************************************************)
EXTENDS IndexRepair

Settled == <<"c0", "c1", "c2">>

OnlyChain == {Settled}

Fork == {"f2"}

AllBlocks == {Settled[i] : i \in DOMAIN Settled} \cup Fork

MCNumber == [b \in Blocks |->
    CASE b = "f2" -> 2
      [] OTHER -> (CHOOSE i \in DOMAIN Settled : Settled[i] = b) - 1]

MCParent == [b \in Blocks |->
    CASE b = "f2" -> "c1" [] b = "c0" -> NoHash
      [] OTHER -> Settled[MCNumber[b]]]

NoTxs == [b \in Blocks |-> {}]
===============================================================================
