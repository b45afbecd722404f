SPECIFICATION Spec
CONSTANTS
  a1 = a1
  a2 = a2
  r1 = r1
  v1 = v1
  short = short
  long = long
  edited = edited
  foreign = foreign
  Admins = {a1, a2}
  Requests = {r1}
  Viewers = {v1}
  Configs = {short, long, edited}
  Foreign = foreign
  Size <- Lengths
  Override <- Environment
  FirstConfig = edited
  DiskMayFail = FALSE
  MaxSwaps = 3
  MaxEnds = 0
CHECK_DEADLOCK FALSE
INVARIANTS
  SavedIsRunning
