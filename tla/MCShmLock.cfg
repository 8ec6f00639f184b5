SPECIFICATION FairSpec
CONSTANTS
  swcli = swcli
  swctl = swctl
  Proc = {swcli, swctl}
  Thread = {swcli, swctl}
  ProcOf <- OneThreadEach
  Value = {0, 1}
  Zero = 0
  MaxArea = 2
  BootOrdered = TRUE
  NoThread = NoThread
  Lost = Lost
  Torn = Torn
INVARIANTS
  TypeOK
  SectionExclusive
  SectionHoldsSemaphore
  SectionMapped
  StuckOnlyIfLost
PROPERTIES
  SemaphoreReturns
  ImplementsAtomicConfig
CHECK_DEADLOCK FALSE
