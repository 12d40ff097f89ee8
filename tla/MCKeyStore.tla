----------------------------- MODULE MCKeyStore -----------------------------
(* Three names: two that an import-ganache gives, two that a pattern        *)
(* matches, and an import-geth of two keys, one under a name in use.        *)
EXTENDS KeyStore, TLC

CONSTANTS g0, g1, k

MCAliases == {g0, g1, k}
MCPatterns == {{g0, g1}}
MCGanache == <<g0, g1>>
MCGeth == {<<k, g1>>}

TerminalSymmetry == Permutations(Terminals)
=============================================================================
