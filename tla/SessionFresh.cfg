\* One run per question: the instance of SessionCore.cfg.
SPECIFICATION Spec
CONSTANTS
  Threads = {a, b}
  Existing = {a}
  NoThread = NoThread
  MaxReconnectAttempts = 2
  MaxTurns = 2
  MaxSends = 2
  MaxInputs = 3
  MaxLaunches = 2
PROPERTY FreshTaskStaysFresh
CHECK_DEADLOCK FALSE
