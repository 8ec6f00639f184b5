SPECIFICATION Spec
CONSTANTS
  cdpd = cdpd
  swcfgload = swcfgload
  Proc = {cdpd, swcfgload}
  Thread = {cdpd, swcfgload}
  ProcOf <- OneThreadEach
  Value = {0, 1}
  Zero = 0
  MaxArea = 2
  BootOrdered = FALSE
  NoThread = NoThread
  Lost = Lost
  Torn = Torn
INVARIANT UsesLaidOutArea
CHECK_DEADLOCK FALSE
