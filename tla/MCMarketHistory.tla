-------------------------- MODULE MCMarketHistory ---------------------------
(* Two months of two days; the market was renamed on the second day. A range *)
(* is the whole history, one that ends inside the second month or one that   *)
(* starts inside the first. A year of Yahoo's is three days long and its     *)
(* third day may come back broken.                                           *)
EXTENDS MarketHistory, TLC

MCRequests == {<<1, 4>>, <<1, 3>>, <<2, 4>>}
MCRecent == {4}
JobSymmetry == Permutations(Jobs)
MCWindow == [full |-> 1, deep |-> 3]
=============================================================================
