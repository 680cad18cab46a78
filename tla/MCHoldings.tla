----------------------------- MODULE MCHoldings -----------------------------
\* Holdings on a small instance.
EXTENDS Holdings, TLC
CONSTANTS t1, t2
MCTabs == {t1, t2}
MCFigures == {"typed", "corrected"}
MCPrices == {1, 2}
MCBuyPrice == [figs \in MCFigures |-> IF figs = "typed" THEN 1 ELSE 2]
Symmetry == Permutations(MCTabs)
=============================================================================
