SPECIFICATION Spec
CONSTANTS
  Readers = {r1, r2}
  Writers = {w1, w2}
  NoOwner = NoOwner
  FifoSize = 2
  MaxEvent = 2
  Counts = {2}
  MaxWrites = 3
SYMMETRY Symmetric
INVARIANTS
  TypeOK
  CriticalSectionStable
  NoLostWakeup
  RecordsContiguous
  TornOnlyWhenRefused
PROPERTIES
  ImplementsStream
