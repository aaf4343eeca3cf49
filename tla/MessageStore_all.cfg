SPECIFICATION Spec
CONSTANTS
  Msgs = {m1, m2}
  MaxTime = 3
  MaxSyncs = 1
  MaxCrashes = 1
  Stamped = TRUE
SYMMETRY Symmetry
INVARIANTS NewestCovers MarkerIsRead ArchiveConverges
PROPERTIES NothingGoesBack
CHECK_DEADLOCK FALSE
