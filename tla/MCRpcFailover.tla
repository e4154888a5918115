----------------------------- MODULE MCRpcFailover ----------------------------
(***************************************************************************)
(* Instances of RpcFailover: two providers and an archive.                  *)
(***************************************************************************)
EXTENDS RpcFailover, TLC

CONSTANTS p1, p2, archive

InTurn == p1 :> p2 @@ p2 :> archive @@ archive :> p1
===============================================================================
