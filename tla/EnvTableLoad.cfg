\* Memory for one env and a part of another.
CONSTANTS
  NENV = 2
  NASID = 2
  UINT = 32
  NPAGES = {8}
  KTABLES = 1
  MAX_ALLOCS = 6
  NULL = NULL
  E_BAD_ENV = BadEnv
  FAULT = Fault
  uvmunmap_returns = {FALSE}
SPECIFICATION Spec
INVARIANT
  RunnableIsLoaded
CHECK_DEADLOCK FALSE
