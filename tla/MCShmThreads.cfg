SPECIFICATION Spec
CONSTANTS
  cdpd = cdpd
  sender = sender
  receiver = receiver
  Proc = {cdpd}
  Thread = {sender, receiver}
  ProcOf <- OneProcess
  Value = {0, 1}
  Zero = 0
  MaxArea = 2
  BootOrdered = TRUE
  NoThread = NoThread
  Lost = Lost
  Torn = Torn
INVARIANT SectionHoldsSemaphore
CHECK_DEADLOCK FALSE
