\* Two envs; tables of two entries, roots of four: the user's part, the
\* kernel, the entry that envs[] and UVPT share, and one above.  With 11 pages
\* the first env fails, with 17 to 20 its image and heap run out of pages, with
\* 26 there is room for a second one.
CONSTANTS
  PAGE_SIZE = 2
  FAN = 2
  FAN2 = 4
  NFREE = {11, 17, 18, 19, 20, 26}
  Env = {1, 2}
  KBASE = 8
  KVAS = {8, 14}
  NENV = 2
  SEGVAS = {4, 6}
  SIZES = {0, 1, 2, 3, 6}
SPECIFICATION Spec
INVARIANTS
  VmTypeOK
  PagesOwnedOnce
  KernelShared
PROPERTY
  SpaceSpec
\* Every panic is final.
CHECK_DEADLOCK FALSE
