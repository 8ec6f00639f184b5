SPECIFICATION FairSpec
CONSTANTS
  N = 2
  Own = 5
  Frame <- TwoPorts
  BridgeTimes <- Fresh
  TimerModulus = 5
  MaxFrames = 2
INVARIANTS
  TypeOK
  DeafOnlyAfterError
  DesignatedAnnounces
  SettledTree
PROPERTIES
  ReceivedOnlyImproves
  ForgetsDeadNeighbour
  ReadsEveryBpdu
