SPECIFICATION FairSpec
CONSTANTS
  Tasks = {t1, t2}
  Files = {f1, f2}
  Docs = {d1}
  Contents = {a}
  Orig = Orig
  NoDoc = NoDoc
  NoFile = NoFile
  NoPath = NoPath
  Missing = Missing
  MaxFaults = 0
 
PROPERTIES IndexingEnds
CHECK_DEADLOCK FALSE
