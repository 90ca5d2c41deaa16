SPECIFICATION Spec
CONSTANTS
  NBoards = 2
  Channel = {1, 2, 3}
  Fitted = {1, 2}
  Names <- MCNames
  channel_map <- MCMap
  Configs <- MCConfigs
  NoEntry = NoEntry
  Invalid = Invalid
  Value = {0, 1, 3}
  Code = {0, 1}
  MaxLevel = 3
  Byte = 2
  Faults = {"noAnswer", "loss"}
  MaxClicks = 3
CHECK_DEADLOCK FALSE
INVARIANTS TypeOK ShownIsSet TriggersAreConfig
