SPECIFICATION Spec
CONSTANTS
    Interfaces = {e1}
    Vlans = {1, 2}
    DefaultVlan = 1
    DefaultVlans = {1}
    MaxFaults = 0
CHECK_DEADLOCK FALSE
INVARIANTS DeletesSucceed
