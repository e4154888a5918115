------------------------------ MODULE MCRiskScan ------------------------------
(***************************************************************************)
(* Instances of RiskScan: two events of a block with a token in common.     *)
(***************************************************************************)
EXTENDS RiskScan, TLC

CONSTANTS j1, j2, pool, token

Events == j1 :> <<pool, token>> @@ j2 :> <<token>>
===============================================================================
