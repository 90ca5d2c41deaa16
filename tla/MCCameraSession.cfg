SPECIFICATION Spec
CONSTANTS
  c1 = c1
  c2 = c2
  Camera = {c1, c2}
  Kinds <- MCKinds
  Satas <- MCSatas
  NTimers = 2
  Setting <- MCSetting
  Mode = {"none", "external"}
  Word <- MCWord
  NoCommand = NoCommand
  Faults = {"openFails", "noAnswer", "sendError", "loss", "noInterface"}
  MaxCalls = 5
CHECK_DEADLOCK FALSE
INVARIANTS TypeOK OpenIsIdentified SataRestored LoadedIsMemory SharedIsUnused
PROPERTIES ModeKeepsSetup
