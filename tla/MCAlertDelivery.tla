--------------------------- MODULE MCAlertDelivery ----------------------------
(***************************************************************************)
(* Instances of AlertDelivery: a rule delivered through a channel and one   *)
(* delivered to an endpoint.                                                *)
(***************************************************************************)
EXTENDS AlertDelivery, TLC

CONSTANTS r1, r2, d1, hook

Owners == d1 :> r1 @@ hook :> r2
===============================================================================
