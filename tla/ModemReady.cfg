SPECIFICATION Spec
CONSTANTS
    Retries = 2
    PollTurns = 2
    GiveUp = 2
    BaseMs = 1
    MaxMs = 3
    MaxEvents = 2
PROPERTY ReadyReported
\* A daemon that was terminated does nothing more.
CHECK_DEADLOCK FALSE
