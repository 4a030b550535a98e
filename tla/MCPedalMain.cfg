CONSTANTS
  WinSize    = 3
  MaxStep    = 1
  HalfWord   = 4
  PedalLevel = 0
  KeepCount  = 1
  CountMod   = 4
  MaxReports = 5
  MaxTicks   = 2
  MaxIdle    = 1
SPECIFICATION Spec
INVARIANTS PedalInv PedalingMeansMoving NoReportLoggedTwice OneLogPerTick NoFalseIdle
PROPERTIES ImplementsTravel PedalingEndsForAReason TickServed ReportNoticed
