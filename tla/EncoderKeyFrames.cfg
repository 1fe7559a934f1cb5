SPECIFICATION MCSpec
CONSTANTS
    MaxEncodes = 1
    MaxDecodes = 1
    MaxAsks = 1
INVARIANT KeyFramePeriodPositive
\* The client may stop setting parameters.
CHECK_DEADLOCK FALSE
