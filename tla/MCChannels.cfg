CONSTANTS
  Channels = {c1, c2, c3}
  Users = {ann}
  Pieces = {a, b}
  MaxAdds = 3
  MaxSteps = 3
  MaxEvents = 3
  Readd = TRUE
SPECIFICATION Spec
SYMMETRY ChannelSymmetry
INVARIANTS TreeMatches RowIsFound PathNamesChannel
PROPERTY MovedBefore
CHECK_DEADLOCK FALSE
