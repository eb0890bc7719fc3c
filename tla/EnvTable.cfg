\* Envs come and go in memory that is short: two ASIDs for four entries; with
\* 8 pages a second env fails on its page table, with 11 on its image, and with
\* 32, enough for five envs, the ASIDs run out first.
CONSTANTS
  NENV = 4
  NASID = 2
  UINT = 64
  NPAGES = {8, 11, 32}
  KTABLES = 2
  MAX_ALLOCS = 7
  NULL = NULL
  E_BAD_ENV = BadEnv
  FAULT = Fault
  uvmunmap_returns = {TRUE, FALSE}
SPECIFICATION Spec
INVARIANTS
  TypeOK
  FreeXorLive
  AsidsMatchLive
  IdsResolve
  PagesNotInvented
  PhantomNeverAllocated
\* Every panic is final.
CHECK_DEADLOCK FALSE
