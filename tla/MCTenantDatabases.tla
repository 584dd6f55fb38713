--------------------------- MODULE MCTenantDatabases ---------------------------
EXTENDS TenantDatabases, TLC
CONSTANTS b1, b2, e1, e2, w1, w2
Symmetry == Permutations({b1, b2}) \cup Permutations({e1, e2}) \cup Permutations({w1, w2})
================================================================================
