--------------------------- MODULE MCContractSetup ---------------------------
(* The terminals are alike. *)
EXTENDS ContractSetup, TLC

TerminalSymmetry == Permutations(Terminals)
=============================================================================
