\* One tab of the console: two accounts, one of them invited, two workspaces.
SPECIFICATION ConsoleSpec
CONSTANTS
  Account = {a1, a2}
  Invited = a2
  Reassigned = {a1}
  Workspace = {w1, w2}
  NoOne = NoOne
  NoWhere = NoWhere
  Slots = {s1, s2}
  MaxSessions = 1
SYMMETRY TabSymmetry
INVARIANTS OwnDataShown SelectionListed TokenShown
CHECK_DEADLOCK FALSE
