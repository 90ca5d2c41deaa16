SPECIFICATION Spec
CONSTANTS
  a1 = a1
  a2 = a2
  t1 = t1
  t2 = t2
  t3 = t3
  Thread = {t1, t2, t3}
  NoThread = NoThread
  ADC_address <- MCAddress
  HVON = HVON
  POWER = POWER
  HVs <- MCHVs
  Calls <- MCMixed
  Faults = {"readFails"}
SYMMETRY MCSymmetry
INVARIANTS CopyIsCurrent SyncIsPulse
CHECK_DEADLOCK FALSE
