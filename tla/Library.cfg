SPECIFICATION LibrarySpec
CONSTANTS
  Nil = Nil
  MaxJobs <- MCMaxJobs
  MaxActs <- MCMaxActs
  MaxMishaps = 1
  x = x
  y = y
  v1 = v1
  v2 = v2
  v3 = v3
  Photos = {x, y}
  Videos = {y}
  VaultIds = {v1, v2, v3}
  MaxSaves = 1
  Pins = {1, 2}
  VaultDisks <- MCVaultDisks
  Archives = {a1, a2}
  ZipIds = {z1, z2}
  MaxTokens = 4
  Files = {f1, f2, f3}
  Media = {f1, f2}
  Accounts = {u1, u2}
  p1 = p1
  p2 = p2
  p3 = p3
  Shots <- MCShots
  Matching <- MCMatching
  PerPage = 2
  LivePhotos = {p1}
  MaxHistory = 4
  DeviceTimes = {2, 3, 6, 7, 10}
  CameraTimes = {12}
  CloudTimes = {1, 4, 6, 8, 11}
  Synced = {6}
  PairedVideos = {9}
  MonthEnds = {5}
  PageLimit = 2
  MinShown = 1
  WindowTarget = 1
  MaxWindowPages = 2
  StockTimes = {0, 1, 3, 4, 6}
  ArrivingTimes = {2, 5}
  VideoTimes = {3}
  GridPage = 2
INVARIANTS
  LibraryTypeOK
  NothingLost
  ModePlaintextGone
  TransfersFollowed
  ViewerInStep
  FeedInOrder
  GridFollows
CHECK_DEADLOCK FALSE
