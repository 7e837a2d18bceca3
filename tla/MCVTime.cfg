CONSTANTS
  Vcpus = {0, 1}
  NULL = NULL
  VCPU_SCHED_MAX = 2
  VCPU_COUNT = 2
  W = 2
  CntvoffAdded = FALSE
SPECIFICATION VtSpec
INVARIANT CachedOffsetFresh
PROPERTY TimerSettingKept
