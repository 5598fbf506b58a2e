SPECIFICATION Spec
CONSTANTS
  f1 = f1
  f2 = f2
  d1 = d1
  d2 = d2
  Factories = {f1, f2}
  Drivers = {d1, d2}
  MaxRefs = 2
  MaxLocks = 1
INVARIANTS
  TypeOK
  UnloadedMeansUnused
  CountsReferences
  ListedMeansLoadable
