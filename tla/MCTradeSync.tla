---------------------------- MODULE MCTradeSync ----------------------------
(* Small instances of TradeSync for TLC. *)
EXTENDS TradeSync, TLC

Symmetry == Permutations(Tickets) \union Permutations(Runs)
=============================================================================
