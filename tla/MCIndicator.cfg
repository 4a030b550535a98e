CONSTANTS
  Leds     = {"power", "battery"}
  MinTicks = 5
  Full     = 256
  Periods  = {6554, 65536, 163840}
  Duties   = {0, 25, 38, 128, 2560}
  Readings <- BatteryReadings
SPECIFICATION Spec
INVARIANTS IndicatorInv LevelIsShown OffIsDark
PROPERTIES PedalingDarkens LedsBlink
