\* As Vm.cfg, with one statement of the comments.
CONSTANTS
  PAGE_SIZE = 2
  FAN = 2
  FAN2 = 4
  NFREE = {11, 17, 18, 19, 20, 26}
  Env = {1, 2}
  KBASE = 8
  KVAS = {8, 14}
  NENV = 2
  SEGVAS = {4, 6}
  SIZES = {0, 1, 2, 3, 6}
SPECIFICATION Spec
PROPERTY
  ShrinkReturns
CHECK_DEADLOCK FALSE
