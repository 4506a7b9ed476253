\* What ingestion on the desktop does not keep (check one at a time; not among the
\* regular runs): the text of a file edited between the hash and the extraction and
\* edited back, the event of a document whose row was committed.
SPECIFICATION DesktopSpec
CONSTANTS
  local = local
  Users = {local}
  user = local
  Workspaces = {}
  Paths = {p}
  Contents = {a, b, bad}
  TooLarge = {}
  Unreadable = {bad}
  Blank = {}
  Calls = {k}
  MemberOf <- NoMembership
  Private = Private
  NoFile = NoFile
  NoPoint = NoPoint
  MaxEdits = 4
  MaxQueue = 2
  MaxRestarts = 1
INVARIANTS TextFollowsDisk IndexedInFeed
CHECK_DEADLOCK FALSE
