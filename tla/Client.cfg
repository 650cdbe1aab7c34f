SPECIFICATION Spec
CONSTANTS
  k1 = k1
  k2 = k2
  n1 = n1
  n2 = n2
  Call = {k1, k2}
  Mixes <- MCMixes
  Node = {n1, n2}
  FirstMaster = n1
  Sentinels <- MCSentinels
  MaxFaults = 1
  Nobody = Nobody
  SlotOf <- CrcSlot
  FanoutCalls <- MCFanoutCalls
  FanoutFaults = 1
  Missing = Missing
INVARIANTS TellsTheTruth CalmCallSucceeds FanoutIsOneCommand
PROPERTIES CallsReturn
CHECK_DEADLOCK FALSE
