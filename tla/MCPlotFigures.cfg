SPECIFICATION Spec
CONSTANTS
  Title = {"APD-1-1", "matrix"}
  ndim <- MCndim
  Type = {"8x8", "FC"}
  Versions <- MCVersions
  None = None
  Programs = {"plot", "control"}
  ToggleOptions = {"raw autoscale"}
  MaxFigures = 3
  MaxNesting = 2
  MaxEvents = 7
CHECK_DEADLOCK FALSE
INVARIANTS TypeOK PlotsAsShown
