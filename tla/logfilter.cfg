CONSTANTS
  pp = pp
  s = s
  g1 = g1
  g2 = g2
  Programs = {pp, s}
  Groups = {g1, g2}
  Short = {s}
  AnyGroup = AnyGroup
  Levels = {3, 6}
  MaxCommands = 3
  TypeCol = 3
  Go = 5
  Types = {0, 1, 2, 3, 4}
  Faults = {"devices", "log", "title", "create", "write"}
  DeviceIds = {"a", "b", "c"}
  DeviceLines <- MCDeviceLines
  Tables <- MCTables
  RowLists <- MCRowLists
  MaxNear = 1
  HexBytes = {"b1", "b2", "b3", "b4", "b5", "b6"}
  Inputs <- MCInputs
  Sessions <- MCSessions
  LineSize = 2
  BufSize = 3
  MaxSize = 3
  MaxText = 5
SPECIFICATION MCSpec
CHECK_DEADLOCK FALSE
INVARIANTS
  LastRuleDecides
  CountsRight
  ArrayRight
  FirstVideo
