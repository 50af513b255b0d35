-------------------------- MODULE MCImbalanceStrat --------------------------
(* ImbalanceStrat on small instances; the constants are in the .cfg files. *)
EXTENDS ImbalanceStrat

\* Volumes can be negative, and add up to zero without being zero.
SmallVols == -1 .. 1
=============================================================================
