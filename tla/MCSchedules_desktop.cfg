\* Two schedules, days of three ticks, a week of two days, one other generation.
SPECIFICATION SchedulesSpec
CONSTANTS
  Keys = {daily_tech, current_events}
  DefaultKey = daily_tech
  EventsKey = current_events
  OtherKey = other
  Jobs = {j1}
  Ids = {s1, s2}
  NoId = NoId
  DayLength = 3
  Daily = 2
  Weekly = 5
INVARIANTS SourcesRespected TemplatesExist
PROPERTIES DigestsApart AllTried
SYMMETRY Interchangeable
