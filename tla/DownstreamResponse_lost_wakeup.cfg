SPECIFICATION ResponseFairSpec
CONSTANTS
    Threshold = 2
    MaxWrites = 3
    MaxHostCalls = 2

PROPERTIES StreamedEarly
CHECK_DEADLOCK FALSE
