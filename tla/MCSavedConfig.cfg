SPECIFICATION Spec
CONSTANTS
    Interfaces = {e1, e2}
    MaxVlan = 5
    DefaultVlans = {1, 4}
    Lists <- MCLists
    LineTokens = 2
    MaxCommands = 3
INVARIANTS TypeOK TrunksNeverWiden PortsSurvive VlansSurvive ReloadRestores
