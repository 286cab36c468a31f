CONSTANTS
  u1 = u1  u2 = u2
  i1 = i1  i2 = i2  i3 = i3
  n1 = n1
  r1 = r1  r2 = r2
  Blank = ""
  Requests = {r1, r2}
  Users    = {u1}
  Ids      = {i1, i2}
  Names    = {n1}
  Statuses = {}
  Offered      <- FolderCalls
  SeedFolders  <- OneFolder
  SeedTorrents <- NoRows
  MaxFills  = 2
  MaxWrites = 1
  MaxFaults = 1
SPECIFICATION FairSpec
CHECK_DEADLOCK FALSE
INVARIANTS
  EntriesAccountedFor
PROPERTIES
  VersionsRetire
