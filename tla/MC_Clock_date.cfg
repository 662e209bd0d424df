SPECIFICATION ClockSpec
CONSTANTS
  Starts <- YearEnds
  Horizon = 600
  TimeUpdates <- TenMinutes
  WeatherUpdate = 1
  Night <- NoNight
PROPERTIES
  DateIsRight
CHECK_DEADLOCK FALSE
