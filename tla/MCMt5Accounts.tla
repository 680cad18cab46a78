--------------------------- MODULE MCMt5Accounts ---------------------------
(* Small instances of Mt5Accounts for TLC. *)
EXTENDS Mt5Accounts, TLC

CONSTANTS a1, a2, a3, usd

OneCurrency == (a1 :> usd) @@ (a2 :> usd) @@ (a3 :> usd)

\* The accounts are interchangeable; so are the tabs.
Symmetry == Permutations(Accounts) \union Permutations(Tabs)
=============================================================================
