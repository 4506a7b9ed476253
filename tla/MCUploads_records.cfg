\* Two requests of two users through one slot, every kind of archive, private or
\* shared with a workspace, and shared text, on a worker that crashes once.
SPECIFICATION UploadsSpec
CONSTANTS
  a = a
  b = b
  blank = blank
  big = big
  u1 = u1
  u2 = u2
  w1 = w1
  Users = {u1, u2}
  Workspaces = {w1}
  Calls = {r1, r2}
  Workers = {p1}
  Concurrency = 1
  Archives <- AnyArchive
  MaxFiles = 2
  MaxCrashes = 1
  Contents = {a, b, blank, big}
  TooLarge = {big}
  Unreadable = {}
  Blank = {blank}
  MemberOf <- OneMember
  Paths <- UploadPaths
  Private = Private
  NoFile = NoFile
  NoPoint = NoPoint
SYMMETRY Requests
INVARIANTS SlotsRespected StagingAccounted RecordsBacked ReplyMatchesRecords SharedTextRetrievable RetrievalAllowed
CHECK_DEADLOCK FALSE
