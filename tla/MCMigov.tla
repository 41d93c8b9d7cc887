------------------------------ MODULE MCMigov ------------------------------
EXTENDS Migov, TLC

CONSTANTS p0, p1

\* CPUs 0 and 1 share a policy; CPU 2 is beyond the record.
Clusters == (0 :> p0) @@ (1 :> p0) @@ (2 :> p1)

Symmetric == Permutations(Memory)
=============================================================================
