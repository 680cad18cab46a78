------------------------------ MODULE MCEquity ------------------------------
\* Equity on small books.
EXTENDS Equity
MCProfits == {-1, 0, 2}
MCGaps == {1, 3}
=============================================================================
