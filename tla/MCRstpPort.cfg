SPECIFICATION Spec
CONSTANTS
    ForwardDelay = 2
    TimerModulus = 5
    MaxEvents = 4
CONSTRAINT Whole
INVARIANT BlockedIsStill
PROPERTY ForwardsAfterDelay
