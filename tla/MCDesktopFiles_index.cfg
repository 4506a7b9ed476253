\* One path, two texts and one that does not parse, an application restart.
SPECIFICATION DesktopSpec
CONSTANTS
  local = local
  Users = {local}
  user = local
  Workspaces = {}
  Paths = {p}
  Contents = {a, b, bad}
  TooLarge = {}
  Unreadable = {bad}
  Blank = {}
  Calls = {k}
  MemberOf <- NoMembership
  Private = Private
  NoFile = NoFile
  NoPoint = NoPoint
  MaxEdits = 4
  MaxQueue = 2
  MaxRestarts = 1
INVARIANTS IndexFollowsDisk
CHECK_DEADLOCK FALSE
