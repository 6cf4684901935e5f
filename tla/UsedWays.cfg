CONSTANTS
  Slack = 2
  MaxWay = 6
SPECIFICATION Spec
INVARIANT MarkedAreUsed
