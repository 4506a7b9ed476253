\* Two requests of one user over one event.
SPECIFICATION FeedSpec
CONSTANTS
  Users = {u1}
  Refs = {r1}
  Topics = {t1}
  Kinds = {"plain"}
  Workspaces = {}
  NoSpace = NoSpace
  Tags = {}
  Admins = {}
  Managers = {}
  Stored <- Whole
  Polls = {j1, j2}
  Dives = {d1}
  Alone = FALSE
  Expires = FALSE
  Limit = 1
  Reach = 2
  MaxEvents = 1
  MaxDigests = 1
  MaxOut = 0
INVARIANT OneCardPerSource
CHECK_DEADLOCK FALSE
