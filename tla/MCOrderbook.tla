---------------------------- MODULE MCOrderbook ----------------------------
(* Orderbook on small instances; the constants are in the .cfg files.      *)
EXTENDS Orderbook

\* The ids of the feed are interchangeable.
IdSymmetry == Permutations(Ids)
=============================================================================
