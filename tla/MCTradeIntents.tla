------------------------------ MODULE MCTradeIntents ------------------------------
(***************************************************************************)
(* An instance of TradeIntents: two transactions that swap a quote.        *)
(***************************************************************************)
EXTENDS TradeIntents, TLC

CONSTANTS q1

MCCallOf == [t \in Txs |-> q1]

Alike == Permutations(Requests) \cup Permutations(Intents) \cup Permutations(Txs)
===============================================================================
