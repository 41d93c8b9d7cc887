---------------------------- MODULE MCMievQueue ----------------------------
EXTENDS MievQueue, TLC

\* Readers and writers are interchangeable.
Symmetric == Permutations(Readers) \cup Permutations(Writers)
=============================================================================
