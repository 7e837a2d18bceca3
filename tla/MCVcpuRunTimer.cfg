CONSTANTS
  Vcpus = {0, 1}
  NULL = NULL
  VCPU_SCHED_MAX = 2
  VCPU_COUNT = 2
SPECIFICATION RunSpec
PROPERTY TimerAccessEmulated
