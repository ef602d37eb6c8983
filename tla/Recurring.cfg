\* Days, instances, configurations and occurrences are bounded.
CONSTANTS
  Requests = {r1, r2}
  Clients <- Either
  Intervals = {1}
  Ends <- Every
  Due = 0
  Crashes = TRUE
  MaxDay = 3
  MaxTasks = 2
  MaxConfigs = 2
  Starts <- Winter
  Configs <- All
  MaxSteps = 6
SPECIFICATION SchedulesSpec
INVARIANTS CountTracksInstances MarkMatchesConfig OnTheCalendar
PROPERTIES InstancesAsDue WeeklyIsNext
SYMMETRY Symmetry
CHECK_DEADLOCK FALSE
