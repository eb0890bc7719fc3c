\* The two envs of rv_main.
CONSTANT NCREATE = 2
SPECIFICATION BootSpec
INVARIANT NothingLeftBehind
PROPERTY FirstEnvRuns
\* The first interrupt is the end of the behaviour.
CHECK_DEADLOCK FALSE
