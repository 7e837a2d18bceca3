CONSTANTS
  Vcpus = {v1, v2, v3, v4, v5}
  NULL = NULL
  VCPU_SCHED_MAX = 3
SPECIFICATION SchedSpec
INVARIANTS SchedTypeOK QueueWellFormed CurrentIsQueued YieldFindsAnother
PROPERTY QueueOnlyGrows
