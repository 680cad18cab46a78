----------------------------- MODULE MCTerminal -----------------------------
(* Small instances of Terminal for TLC. *)
EXTENDS Terminal

CONSTANTS c1, c2, i1, i2

\* Two calls can overlap or follow each other.
TwoCalls == {c1, c2}

\* One registration more than the trader needs.
TwoRegistrations == {i1, i2}
=============================================================================
