\* What the runtime does not keep (check one at a time; not among the
\* regular runs): a critical event that found the bus full is drained, a session
\* that ended is summarised.
CONSTANTS
  plain = plain
  file = file
  file2 = file2
  end = end
  NoEvent = NoEvent
  Events = {plain, file, end}
  Kind <- MCKind
  Critical = {file, end}
  BusMax = 1
  IngestMax = 1
  SummaryMax = 1
SPECIFICATION FairSpec
INVARIANT CriticalDrained
PROPERTY SessionsRemembered
