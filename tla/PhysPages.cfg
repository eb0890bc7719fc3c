\* Four pages; the panics leave the kernel spinning, so it may stop.
CONSTANTS
  KERNEND = 8192
  PHYEND = 24576
SPECIFICATION Spec
INVARIANTS
  TypeOK
  FreeListSound
PROPERTY
  PoolSpec
CHECK_DEADLOCK FALSE
