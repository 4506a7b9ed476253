\* What uploads do not keep (check one at a time; not among the regular runs):
\* a document shared with a workspace when it is uploaded again for oneself, and
\* the files of a request when another worker process starts.
SPECIFICATION UploadsSpec
CONSTANTS
  a = a
  b = b
  blank = blank
  big = big
  u1 = u1
  u2 = u2
  w1 = w1
  Users = {u1, u2}
  Workspaces = {w1}
  Calls = {r1, r2}
  Workers = {p1, p2}
  Concurrency = 1
  Archives <- OnlyA
  MaxFiles = 1
  MaxCrashes = 1
  Contents = {a, b, blank, big}
  TooLarge = {big}
  Unreadable = {}
  Blank = {blank}
  MemberOf <- OneMember
  Paths <- UploadPaths
  Private = Private
  NoFile = NoFile
  NoPoint = NoPoint
SYMMETRY Requests
INVARIANTS SharedDocumentRetrievable ActiveStagingKept
CHECK_DEADLOCK FALSE
