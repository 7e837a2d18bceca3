CONSTANTS
  Entries = 6
  Invalid = Invalid
  PageSize = 2
  SectionSizes <- MCSectionSizes
  RamBase = 72
  UartBase = 4
  El2L2Max = 2
  El2L3Max = 3
  S2L2Max = 3
  S2L3Max = 12
  S2Calls <- MCOnlyMainCall
  MainCall <- MCMainCall
  MaxBuilds = 1
  Vcpus = {0, 1}
  Nobody = Nobody
  GuestStack <- MCGuestStack
  Under <- MCUnder
  FrameFirst = 5
  Slots <- MCSlots
  GUEST_SHARED_BASE = 108
  GUEST_SHARED_STRIDE = 2
  GUEST_WORK_BASE = 120
  GUEST_WORK_SIZE = 2
  GUEST_WORK_STRIDE = 4
SPECIFICATION MemSpec
INVARIANT PrivateCarveOut
