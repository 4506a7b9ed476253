\* A failed transaction of the thread, with one schedule.
SPECIFICATION WorkingSpec
CONSTANTS
  Keys = {daily_tech, current_events}
  DefaultKey = daily_tech
  EventsKey = current_events
  OtherKey = other
  Jobs = {j1}
  Ids = {s1}
  NoId = NoId
  DayLength = 3
  Daily = 2
  Weekly = 5
PROPERTIES DueTried
