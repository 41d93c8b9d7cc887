SPECIFICATION Spec
CONSTANTS
  p0 = p0
  p1 = p1
  Cpus = {0, 1, 2}
  Policies = {p0, p1}
  PolicyOf <- Clusters
  Memory = {a1, a2, a3, a4}
  Null = Null
  MaxCpus = 2
  Freqs = {0, 1, 2}
SYMMETRY Symmetric
INVARIANTS
  GovernedSeesOwn
  MemoryIsAccountedFor
