\* A UDP and an HTTP tracker; a magnet link; intervals are clamped both ways.
CONSTANTS
  Timeout = 2
  Magnet = TRUE
  Trackers = {udp, http}
  Udp = {udp}
  MaxAttempts = 2
  Intervals = {0, 9}
  MinInterval = 1
  MaxInterval = 2
  DhtPeriod = 1
  MaxTasks = 2
  MaxReports = 1
SPECIFICATION AnnouncesSpec
INVARIANTS
  AnnouncesTypeOK
  ProgressProtects
  AnswersBelonged
PROPERTIES
  StarvedEnds
  AnnouncedAgain
CHECK_DEADLOCK FALSE
