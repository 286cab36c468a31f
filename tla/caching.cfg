CONSTANTS
  u1 = u1  u2 = u2
  i1 = i1  i2 = i2  i3 = i3
  n1 = n1
  r1 = r1  r2 = r2
  Blank = ""
  Requests = {r1, r2}
  Users    = {u1, u2}
  Ids      = {i1, i2, i3}
  Names    = {n1}
  Statuses = {"gone"}
  Offered      <- MostCalls
  SeedFolders  <- OneFolder
  SeedTorrents <- OneTorrent
  MaxFills  = 2
  MaxWrites = 2
  MaxFaults = 0
SPECIFICATION Spec
VIEW RepliesApart
SYMMETRY AnyRequest
CHECK_DEADLOCK FALSE
INVARIANTS
  TypeOK
  CachedIsPast
  EtagIdentifiesBytes
  SchemaKept
PROPERTIES
  OwnRowsOnly
  TorrentsGoOnlyByDelete
  ImplementsReadThrough
