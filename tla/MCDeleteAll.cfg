CONSTANTS
  Keys        = {"config", "other"}
  ConfigKey   = "config"
  Texts       = {"a", "b"}
  None        = "zeros"
  QueueSize   = 2
  Space       = 4
  MaxStored   = 2
  MaxCommands = 1
  MaxResets   = 0
SPECIFICATION Spec
PROPERTY DeletesUntilNoneLeft
