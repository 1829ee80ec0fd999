SPECIFICATION Spec
CONSTANTS
  a1 = a1
  a2 = a2
  f1 = f1
  f2 = f2
  Assets = {a1, a2}
  Folders = {f1, f2}
  Contents = {c1, c2}
  FolderOf <- MCAlbums
  Unsupported = {}
  Legacy = {}
  Policy = "include"
  MaxStamp = 2
  Nil = Nil
  Lanes = {l1, l2}
  Large = {a2}
  Parts = 2
  Mishaps = {"put"}
  MaxMishaps = 1
  Videos = {}
  VideoLanes = {}
  Breaker = 1
  MaxRuns = 1
  MaxActs = 0
INVARIANT QuietBackupStored
CHECK_DEADLOCK FALSE
