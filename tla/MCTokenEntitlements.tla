-------------------------- MODULE MCTokenEntitlements --------------------------
(***************************************************************************)
(* An instance of TokenEntitlements: two tiers above free.                 *)
(***************************************************************************)
EXTENDS TokenEntitlements

MCMinimums == <<1, 2>>
===============================================================================
