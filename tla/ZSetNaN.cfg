CONSTANTS
  Node <- Names
  NULL = NULL
  Score <- FewScoresAndNaN
  NaN = NaN
  Rank <- NoRanks
  NoScore = NoScore
  Nil = Nil
SPECIFICATION Spec
INVARIANT ListedByScore
