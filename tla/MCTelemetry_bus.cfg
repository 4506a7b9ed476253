\* Four events through a bus of two slots and queues of one, on either Python.
SPECIFICATION FairSpec
CONSTANTS
  plain = plain
  file = file
  file2 = file2
  end = end
  NoEvent = NoEvent
  Events = {plain, file, file2, end}
  Kind <- MCKind
  Critical = {file, file2, end}
  BusMax = 2
  IngestMax = 1
  SummaryMax = 1
INVARIANTS JoinCountsMatch NoLostWakeup AcceptedDrained SummarySeesEarlier
PROPERTY EventsSettled
