SPECIFICATION ServiceSpec
CONSTANTS
  Off = Off
  Tasks = {t1, t2}
  Projects = {p1, p2}
  Artifacts = {a1, a2}
  NoProject = NoProject
  NoArtifact = NoArtifact
  PageSize = 1
  MaxFaults = 1
  Clients = {c1}
  Texts = {e, a, b}
  Empty = e
  Rows = {r1, r2}
  NoRow = NoRow
  Absent = Absent
  MaxWrites = 5
  MaxSnaps = 2
  TTL = 2
  MaxClock = 5
  Agents = {g1, g2}
  NoAgent = NoAgent
  MaxRows = 3
  MaxTokens = 2
  Keys = {k1, k2, k3}
  NoKey = NoKey
  Limit = 2
  Window = 4
  MaxKeys = 2
  MaxTime = 7
  Docs = {d1, d2, d3}
  Folders = {f1, f2}
  MaxScore = 2
  MaxTopK = 2
  MaxScope = 2
  MaxChanges = 1
  Files = {x1, x2, x3}
  Root = Root
  MaxPage = 2
  MaxEdits = 1
  Chats = {h1}
  Detached = Detached
  None = None
  MaxAdds = 2
SYMMETRY Symmetry
INVARIANTS PartTyped NothingUntracked OneRow EffectsAccounted DecidedRecently AskedIsDone DoneMeansStored LimitUnlessCrowded ScopedAnswer CopyFaithful 
PROPERTIES VersionedSpec CustodySpec
CHECK_DEADLOCK FALSE
