\* Three uploads through one slot.
SPECIFICATION FairUploadsSpec
CONSTANTS
  a = a
  b = b
  blank = blank
  big = big
  u1 = u1
  u2 = u2
  w1 = w1
  Users = {u1}
  Workspaces = {}
  Calls = {r1, r2, r3}
  Workers = {p1}
  Concurrency = 1
  Archives <- OneFile
  MaxFiles = 1
  MaxCrashes = 0
  Contents = {a, b, blank, big}
  TooLarge = {big}
  Unreadable = {}
  Blank = {blank}
  MemberOf <- NoMembership
  Paths <- UploadPaths
  Private = Private
  NoFile = NoFile
  NoPoint = NoPoint
PROPERTY UploadsAnswered
CHECK_DEADLOCK FALSE
