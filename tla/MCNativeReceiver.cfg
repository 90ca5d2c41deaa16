SPECIFICATION Spec
CONSTANTS
  AdcCounts = {1, 2, 3}
  Requests <- MCRequests
  sample_number = 5
  MTUs = {52, 114}
  DefaultOctets = 8
  Faults = {"noNetwork", "v2", "sendError", "commandLost", "portInUse", "loss", "noTrigger"}
  MaxMeasure = 2
  Endless = 3
CHECK_DEADLOCK FALSE
INVARIANTS TypeOK FreshData Complete
PROPERTIES MeasurementEnds
