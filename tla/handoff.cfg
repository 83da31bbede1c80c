SPECIFICATION HandoffSpec
CONSTANTS
  MaxConns = 3
  DescriptorLimit = 2
  Null = Null
  Garbage = Garbage
  Listen = Listen
INVARIANT AloneIsItself
PROPERTIES AloneIsServed
CHECK_DEADLOCK FALSE
