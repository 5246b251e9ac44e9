SPECIFICATION Spec
CONSTANTS
  Tasks = {t1}
  Chats = {c1, c2}
  Snaps = {s1}
  NoChat = NoChat
  NoSnap = NoSnap
  SnapshotCap = 2
  ForkCap = 3
  HistoryLimit = 3
  PageSize = 2
  MaxSaid = 3
  MaxWrites = 6
SYMMETRY Symmetry
INVARIANTS PromptChronological
CHECK_DEADLOCK FALSE
