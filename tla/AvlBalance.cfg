CONSTANTS
  Node <- EightNodes
  NULL = NULL
  MaxOutside = 2
SPECIFICATION Spec
INVARIANT Balanced
