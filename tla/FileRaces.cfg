SPECIFICATION Spec
CONSTANTS
  Tasks = {t1, t2}
  Files = {f1}
  Docs = {d1, d2}
  Contents = {a, b}
  Orig = Orig
  NoDoc = NoDoc
  NoFile = NoFile
  NoPath = NoPath
  Missing = Missing
  MaxFaults = 1
SYMMETRY Symmetry
INVARIANTS TypeOK IndexCurrent DocAccounted IndexingHasOwner
PROPERTIES IndexSpec
CHECK_DEADLOCK FALSE
