CONSTANTS
  Serials = {"first", "second"}
  Default = "0000000000"
  None    = "none"
SPECIFICATION Spec
INVARIANTS StartupInv NothingElseTooEarly AdvertisesItsSerial
PROPERTY ComesUp
