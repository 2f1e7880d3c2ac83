SPECIFICATION Spec
CONSTANT Configs <- TheConfigs
PROPERTIES
  StartsUp
  StackEnds
CHECK_DEADLOCK FALSE
