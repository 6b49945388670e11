CONSTANTS
  Users = {ann, bob}
  MaxSaid = 4
  MaxCrashes = 2
SPECIFICATION Spec
INVARIANTS Contiguous SavedIsSpoken RecoveredIsSpoken LossIsBounded
PROPERTY NothingOverwritten
CHECK_DEADLOCK FALSE
