CONSTANTS
  Vcpus = {0, 1}
  NULL = NULL
  VCPU_SCHED_MAX = 2
  VCPU_COUNT = 2
  Gprs = {"x0", "x16"}
  Vals = {z, a}
  Zero = z
  HostVal = host
  PcMod = 3
SPECIFICATION TfSpec
INVARIANTS TfTypeOK NoHostRegisterLeak
PROPERTY ImplementsPrivateCpu
