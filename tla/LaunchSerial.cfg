SPECIFICATION DaemonSpec
CONSTANTS
  Off = Off
  Shells = {s1}
  Pids = {i1, i2, i3}
  NoPid = NoPid
  MaxKills = 2
  Procs = {p1, p2}
  NoProc = NoProc
  MaxFaults = 2
  MaxRolls = 1
  Conns = {c1, c2}
  MaxLines = 1
INVARIANTS PartsTyped OneDaemon DaemonFound SparesOthers ChatsKept ServesFullSchema BlockedOnce  SpecificCode
 
CHECK_DEADLOCK FALSE
