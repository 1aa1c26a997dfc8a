CONSTANTS
  First = {0, 1}
  Second = {2}
  dependsOn <- Dependencies
  maxParallel = 2
  maxRetries = 1
SPECIFICATION Spec
PROPERTY OrchestrationEnds
CHECK_DEADLOCK FALSE
