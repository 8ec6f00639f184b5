SPECIFICATION Spec
CONSTANTS
    Interfaces = {e1, e2}
    Vlans = {1, 2}
    DefaultVlan = 1
    DefaultVlans = {1}
    MaxFaults = 1
SYMMETRY Symmetry
CONSTRAINTS OneAfterTrouble DefaultsAsStarted
VIEW WhatIsRead
CHECK_DEADLOCK FALSE
INVARIANTS TypeOK VlanHasBridge Isolation AccessForwards NothingLeftBehind
