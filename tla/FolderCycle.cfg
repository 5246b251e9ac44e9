SPECIFICATION Spec
CONSTANTS
  Tasks = {t1, t2}
  Projects = {p1}
  Folders = {f1, f2}
  NoFolder = NoFolder
SYMMETRY Symmetry
INVARIANTS Acyclic
CHECK_DEADLOCK FALSE
