---------------------------- MODULE MCLoadStats ----------------------------
(* Performs few enough to be counted together, in any number of buckets.   *)
EXTENDS LoadStats, Functions

CONSTANT MaxTotal

MCCounts == {f \in [Upkeeps -> 0..MaxPerforms] : FoldFunction(+, 0, f) <= MaxTotal}
=============================================================================
