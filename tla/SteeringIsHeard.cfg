SPECIFICATION Spec
CONSTANTS
    EventBuffer = 1
    MaxProcesses = 1
    MaxSteps = 2
    MaxCalls = 2
    MaxStale = 0
    MaxSteers = 1
PROPERTY SteeringIsHeard
CHECK_DEADLOCK FALSE
