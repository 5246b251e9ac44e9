SPECIFICATION Spec
CONSTANTS
  Tasks = {t1, t2}
  Projects = {p1}
  Artifacts = {a1}
  NoProject = NoProject
  NoArtifact = NoArtifact
  PageSize = 1
  MaxFaults = 0
SYMMETRY Symmetry
INVARIANTS RollbackOnlyUntracked
CHECK_DEADLOCK FALSE
