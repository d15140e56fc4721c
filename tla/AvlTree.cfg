CONSTANTS
  Node <- EightNodes
  NULL = NULL
  MaxOutside = 2
SPECIFICATION Spec
INVARIANTS
  TypeOK
  LinksAgree
  InOrder
  SizesAreExact
  RanksAgree
  OffsetForward
PROPERTY InsertKeepsBalanced
