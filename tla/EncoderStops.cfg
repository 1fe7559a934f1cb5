SPECIFICATION Spec
CONSTANTS
    MaxWorks = 1
    INPUTS = 1
    OUTPUTS = 1
PROPERTY StopReturns
\* The threads that wait for each other are what the property is about.
CHECK_DEADLOCK FALSE
