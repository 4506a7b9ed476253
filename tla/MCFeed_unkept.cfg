\* What runs of processing and deep dives do not keep (check one at a time; not
\* among the regular runs): a dismissed card stays dismissed, an event is considered.
SPECIFICATION FairFeedSpec
CONSTANTS
  Users = {u1}
  Refs = {r1, r2}
  Topics = {t1, t2}
  Kinds = {"plain", "muted"}
  Workspaces = {}
  NoSpace = NoSpace
  Tags = {}
  Admins = {}
  Managers = {}
  Stored <- Whole
  Polls = {j1}
  Dives = {d1}
  Alone = TRUE
  Expires = TRUE
  Limit = 1
  Reach = 3
  MaxEvents = 2
  MaxDigests = 1
  MaxOut = 0
PROPERTIES DismissedStays EventsConsidered
CHECK_DEADLOCK FALSE
