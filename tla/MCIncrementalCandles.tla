------------------------- MODULE MCIncrementalCandles -------------------------
EXTENDS IncrementalCandles, TLC

Symmetry == Permutations(Loaders)
=============================================================================
