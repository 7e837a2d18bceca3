CONSTANTS
  Vcpus = {0, 1, 2, 3, 4, 5, 6, 7}
  NULL = NULL
  VCPU_SCHED_MAX = 8
  VCPU_COUNT = 8
SPECIFICATION FairRunSpec
INVARIANTS RunTypeOK LatchTracksGuest LoopPointerFresh RequestBelongsToCurrent
PROPERTIES TurnsInOrder RequestServed EveryVcpuRuns
