SPECIFICATION Spec
CONSTANTS
  Nodes = {self, a, b, c}
  Self = self
  Costs = {1, 3}
  Infinity = 50
  None = None
  MaxUpdates = 2
  MaxChange = 1
INVARIANTS TypeOK SearchIsExact TableIsShortest RaisesWhenCutOff
PROPERTIES SettledIsFinal UpdateEnds
CHECK_DEADLOCK FALSE
