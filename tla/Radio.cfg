\* A stopped runtime whose deliveries are all taken has nothing left to do.
\* So has a link whose engine failed for good or whose modem fell silent, and a
\* layer whose requests are all submitted and answered.
CHECK_DEADLOCK FALSE
SPECIFICATION MCSpec
CONSTANTS
    SUBMISSION_CAPACITY = 1
    ACCEPTED_LIMIT = 2
    OUTPUT_CAPACITY = 1
    SUBMIT_TURN = 1
    MAX_BACKOFF = 2
    WakeFails = TRUE
    MaxId = 3
    MaxSignals = 2
    MaxResets = 1
INVARIANTS
    AnsweredOnce
    NothingHidden
    EveryRequestAccounted
    NoneStranded
    NewestRules
PROPERTY Attribution
