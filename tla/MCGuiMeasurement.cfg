SPECIFICATION FairSpec
CONSTANTS
  Meas = {m1, m2}
  NoMeas = NoMeas
  EnvSets <- MCEnvSets
INVARIANTS TypeOK OneMeasurement OneProgram CopiedIsOwn UpdatesWhenIdle
PROPERTIES MeasurementEnds
CHECK_DEADLOCK FALSE
