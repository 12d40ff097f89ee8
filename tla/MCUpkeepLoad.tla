---------------------------- MODULE MCUpkeepLoad ----------------------------
EXTENDS UpkeepLoad, TLC

(* No definition tells the terminals apart. *)
TerminalSymmetry == Permutations(Terminals)
=============================================================================
