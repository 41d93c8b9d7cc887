SPECIFICATION Spec
CONSTANT
  Files = {f1, f2, f3}
INVARIANTS
  TypeOK
  PinnedOnceLive
PROPERTIES
  OrphansOnlyByFailedLoad
