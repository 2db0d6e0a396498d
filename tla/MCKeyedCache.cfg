CONSTANTS
  Fibers = {f1, f2, f3}
  Keys = {k1}
  Values = {v1, v2}
  Garbled = Garbled
  Unknown = Unknown
  None = None
SPECIFICATION Spec
SYMMETRY Symmetry
INVARIANTS OneAtATime LookupCoherent
PROPERTIES ImplementsStore
