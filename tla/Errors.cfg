CONSTANTS
  k1 = k1
  k2 = k2
  a = a
  b = b
  Key <- Keys
  Value <- Values
  Name <- Names
  Score <- Scores
  NaN = NaN
  Infinity = 20
  Rank <- Ranks
  NotANumber = NotANumber
  Malformed <- Requests
  Unknown <- Commands
  TwoLines <- CommandsWithBreak
  NoString = NoString
  NoScore = NoScore
  NoSet = NoSet
SPECIFICATION Spec
SYMMETRY AnyOrder
INVARIANT ErrorsAreErrors
CHECK_DEADLOCK FALSE
