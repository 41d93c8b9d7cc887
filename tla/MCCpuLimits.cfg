SPECIFICATION Spec
CONSTANTS
  NumCpus = 3
  PolicyOf <- Clusters
  RawTable <- Tables
  Callers = {k1, k2}
  Asked = {1, 2, 3}
  Freqs = {0, 85}
  Readings <- Reports
  Params <- Choices
  UintMax = 127
  NoReading = NoReading
  Idle = Idle
SYMMETRY Symmetric
CHECK_DEADLOCK FALSE
INVARIANTS
  TypeOK
  CapIsReleasable
PROPERTIES
  StepIsLimited
  LightensOnlyWhenAsked
  ReleaseUncapsPolicy
