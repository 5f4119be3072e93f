---------------------------- MODULE MCRateWindow ----------------------------
EXTENDS RateWindow, TLC
Symmetry == Permutations(Handlers)
=============================================================================
