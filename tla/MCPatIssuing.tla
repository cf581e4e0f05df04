----------------------------- MODULE MCPatIssuing -----------------------------
EXTENDS PatIssuing, TLC
Symmetry == Permutations(Row) \cup Permutations(Handler)
=============================================================================
