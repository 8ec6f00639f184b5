SPECIFICATION Spec
CONSTANTS
    swcli1 = swcli1
    swcli2 = swcli2
    swcon = swcon
    t1 = t1
    t2 = t2
    Shells <- MCShells
    Consoles = {swcon}
    Telnets <- MCTelnets
    Interfaces = {1}
    Vlans = {1}
    Times = {5, 254, 255}
    MaxSets = 2
CONSTRAINT Apart
SYMMETRY Alike
INVARIANTS MenuFitsTarget ReadOnlyAtPrivilegeOne LastWins SessionsListed
