CONSTANTS
  Node <- Names
  NULL = NULL
  Score <- FewScores
  NaN = NaN
  Rank <- Ranks
  NoScore = NoScore
  Nil = Nil
SPECIFICATION Spec
INVARIANTS
  TypeOK
  SameEntries
PROPERTY Refines
