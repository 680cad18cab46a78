------------------------------ MODULE MCLedger ------------------------------
(* A small calendar for TLC: years of two months, one of them too short for most days. *)
EXTENDS Ledger, TLC

MCDaysIn == 0 :> 3 @@ 1 :> 1 @@ 2 :> 2 @@ 3 :> 1

\* The ids are interchangeable; so are the tabs.
Symmetry == Permutations(Entries) \union Permutations(Tabs)
=============================================================================
