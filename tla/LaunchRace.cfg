SPECIFICATION Spec
CONSTANTS
  Shells = {s1, s2}
  Pids = {i1, i2}
  NoPid = NoPid
  MaxKills = 0
INVARIANTS OneDaemon
