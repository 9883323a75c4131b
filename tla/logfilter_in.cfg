CONSTANTS
  pp = pp
  qq = qq
  s = s
  g1 = g1
  g2 = g2
  Programs = {pp, qq, s}
  Groups = {g1, g2}
  Short = {s}
  AnyGroup = AnyGroup
  Levels = {3, 6, 8}
  MaxCommands = 2
SPECIFICATION Spec
CHECK_DEADLOCK FALSE
INVARIANTS
  InRulesInclude
