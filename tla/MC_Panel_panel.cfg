SPECIFICATION Spec
CONSTANTS
  Pictures <- TwoPictures
  Timeout = 4
  MaxRefreshes = 5
INVARIANT DriverAgrees
PROPERTIES
  RefreshIsWhole
  ComesToRest
CHECK_DEADLOCK FALSE
