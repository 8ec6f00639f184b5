SPECIFICATION Spec
CONSTANTS
  N = 1
  Own = 5
  Frame <- OnePort
  BridgeTimes <- Fresh
  TimerModulus = 5
  MaxFrames = 4
INVARIANT
  ActsOnOneBpdu
