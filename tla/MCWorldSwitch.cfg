CONSTANTS
  Vcpus = {0, 1, 2}
  NULL = NULL
  VCPU_SCHED_MAX = 3
  VCPU_COUNT = 3
  Zero = Zero
  Reset = Reset
SPECIFICATION WsSpec
INVARIANT ListsAndKeysPrivate
PROPERTY YieldLosesNothing
