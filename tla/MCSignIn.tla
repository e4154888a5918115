-------------------------------- MODULE MCSignIn --------------------------------
(***************************************************************************)
(* An instance of SignIn.  Requests, nonces and wallets are alike; users   *)
(* are row ids, and alike too.                                             *)
(***************************************************************************)
EXTENDS SignIn, TLC

Alike == Permutations(Requests) \cup Permutations(Nonces)
         \cup Permutations(Wallets) \cup Permutations(Users)
===============================================================================
