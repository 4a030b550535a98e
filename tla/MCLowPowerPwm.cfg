CONSTANTS
  Leds     = {"led"}
  MinTicks = 5
  Full     = 256
  Periods  = {512, 65536}
  Duties   = {0, 1, 128, 255}
SPECIFICATION PwmSpec
INVARIANTS PhaseLegal StoppedIsDark PwmInv
PROPERTIES BlinkTakesPeriod
