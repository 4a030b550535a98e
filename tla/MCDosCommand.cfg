CONSTANTS
  Names            <- MCNames
  Default          <- MCDefault
  Erased           <- MCErased
  DECAY_TABLE_SIZE = 14
  Margin           = 5
  Lines            <- MCLines
  MaxItems         = 9
SPECIFICATION Spec
INVARIANT ConsoleInv
PROPERTY SimStops
