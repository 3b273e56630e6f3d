------------------------------- MODULE MCLock -------------------------------
(* Small instances of Lock for TLC.                                        *)
EXTENDS LockInvariant, TLC

CONSTANTS n1, n2, k1, k2, c1, c2

ClientSym == Permutations({c1, c2})
NodeClientSym == Permutations({n1, n2}) \cup Permutations({c1, c2})
=============================================================================
