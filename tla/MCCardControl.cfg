SPECIFICATION FairSpec
CONSTANTS
  a1 = a1
  a2 = a2
  t1 = t1
  t2 = t2
  t3 = t3
  Thread = {t1, t2}
  NoThread = NoThread
  ADC_address <- MCAddress
  HVON = HVON
  POWER = POWER
  HVs <- MCHVs
  Calls <- MCLocked
  Faults = {"writeFails", "sendFails"}
INVARIANTS TypeOK SataConsistent
PROPERTIES OnlyOwnBits LockGivenBack
