\* What late answers and the dashboard do not keep (check one at a time; not
\* among the regular runs).
SPECIFICATION ConsoleSpec
CONSTANTS
  Account = {a1, a2}
  Invited = a2
  Reassigned = {a1}
  Workspace = {w1, w2}
  NoOne = NoOne
  NoWhere = NoWhere
  Slots = {s1, s2}
  MaxSessions = 1
SYMMETRY TabSymmetry
INVARIANTS OwnDataAlwaysShown TokenAlwaysShown ReportOfSelected ListOfSelected GeneratedWhereShown SignedInHasToken
CHECK_DEADLOCK FALSE
