SPECIFICATION FairSpec
CONSTANTS
  Projects = {p1}
  Tasks = {t1, t2, t3}
  KbIds = {k1, k2}
  NoKb = NoKb
  Free = Free
  Nobody = Nobody
  MaxLost = 1
  MaxCrashes = 1
  
PROPERTIES  CallsEnd
CHECK_DEADLOCK FALSE
