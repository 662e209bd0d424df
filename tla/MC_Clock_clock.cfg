SPECIFICATION ClockSpec
CONSTANTS
  Starts <- AnyDay
  Horizon = 9000
  TimeUpdates <- Menu
  WeatherUpdate = 1
  Night <- Midnight
INVARIANTS
  KeepsTime

  
CHECK_DEADLOCK FALSE
