--------------------------- MODULE MCShadowOperation ---------------------------
EXTENDS ShadowOperation, TLC

MCSymmetry == Permutations(Workers)
=============================================================================
