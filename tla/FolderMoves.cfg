SPECIFICATION Spec
CONSTANTS
  Tasks = {t1, t2}
  Projects = {p1, p2}
  Folders = {f1, f2, f3, f4}
  NoFolder = NoFolder
SYMMETRY Symmetry
INVARIANTS ParentInProject ForestUnlessRaced
CHECK_DEADLOCK FALSE
