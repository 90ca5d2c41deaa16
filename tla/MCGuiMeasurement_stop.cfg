SPECIFICATION Spec
CONSTANTS
  Meas = {m1, m2}
  NoMeas = NoMeas
  EnvSets <- MCNone
INVARIANTS RunningIndicates
CHECK_DEADLOCK FALSE
