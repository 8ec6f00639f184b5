SPECIFICATION Spec
CONSTANTS
    e1 = e1
    e2 = e2
    d1 = d1
    d2 = d2
    Interfaces <- MCInterfaces
    Stations <- MCStations
    Ttls = {1, 2}
    MaxTime = 2
    MaxRequests = 2
CONSTRAINTS OneOnceAsked EveryFirst
CHECK_DEADLOCK FALSE
INVARIANTS TypeOK ListedOnce AnswerMatches
PROPERTIES RemovedWhenExpired KeepsRunning
