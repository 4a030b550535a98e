CONSTANTS
  Keys        = {"config", "other"}
  ConfigKey   = "config"
  Texts       = {"a", "b"}
  None        = "zeros"
  QueueSize   = 2
  Space       = 4
  MaxStored   = 2
  MaxCommands = 3
  MaxResets   = 1
SPECIFICATION Spec
INVARIANTS FdsInv RecordIsAsked ReadyBeforeUse
PROPERTIES ConfigSurvives GivesUpForAReason DeleteAllEnds ImplementsStore
