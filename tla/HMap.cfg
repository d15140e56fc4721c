CONSTANTS
  Key <- MCKey
  Value = {empty, v}
  Empty = empty
  NoValue = none
  hcode <- MChcode
  init_size = 2
  k_max_load_factor = 1
  k_rehashing_work = 1
SPECIFICATION FairSpec
INVARIANTS
  TypeOK
  OnePlacePerKey
  InItsSlot
  SizeIsExact
  MigrationInBounds
  LoadBounded
PROPERTIES
  Refines
  Terminates
