SPECIFICATION Spec
CONSTANTS
N = 3
PoolSize = 4
Cap = 1
Kill <- KillAt
INVARIANTS TypeOK MessagesMatch OneThreadPerSocket CleanEnd
PROPERTIES AllFinish AllEnd RoundsImplementLockstep
