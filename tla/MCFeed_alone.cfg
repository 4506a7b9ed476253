\* Two users, each with one run at a time, over two events, and two generations at a time.
SPECIFICATION FeedSpec
CONSTANTS
  Users = {u1, u2}
  Refs = {r1}
  Topics = {t1}
  Kinds = {"plain"}
  Workspaces = {w1}
  NoSpace = NoSpace
  Tags = {g1}
  Admins = {u1, u2}
  Managers = {}
  Stored <- Whole
  Polls = {j1, j2}
  Dives = {d1}
  Alone = TRUE
  Expires = FALSE
  Limit = 2
  Reach = 3
  MaxEvents = 2
  MaxDigests = 2
  MaxOut = 1
SYMMETRY FeedSymmetry
INVARIANTS OneCardPerSource DigestOfUser
CHECK_DEADLOCK FALSE
