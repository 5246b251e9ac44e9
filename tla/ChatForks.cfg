SPECIFICATION Spec
CONSTANTS
  Tasks = {t1, t2}
  Chats = {c1, c2}
  Snaps = {s1}
  NoChat = NoChat
  NoSnap = NoSnap
  SnapshotCap = 1
  ForkCap = 2
  HistoryLimit = 2
  PageSize = 1
  MaxSaid = 3
  MaxWrites = 6
SYMMETRY Symmetry
INVARIANTS TypeOK  QuestionInPrompt
 
CHECK_DEADLOCK FALSE
