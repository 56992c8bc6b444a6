---------------------------- MODULE MCLiveOperation ----------------------------
EXTENDS LiveOperation, TLC

MCSymmetry == Permutations(Orders) \cup Permutations(Holders)
=============================================================================
