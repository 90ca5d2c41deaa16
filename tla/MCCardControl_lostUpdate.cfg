SPECIFICATION Spec
CONSTANTS
  a1 = a1
  a2 = a2
  t1 = t1
  t2 = t2
  t3 = t3
  Thread = {t1, t2}
  NoThread = NoThread
  ADC_address <- MCAddress
  HVON = HVON
  POWER = POWER
  HVs <- MCHVs
  Calls <- MCGui
  Faults = {}
PROPERTIES OnlyOwnBits
CHECK_DEADLOCK FALSE
