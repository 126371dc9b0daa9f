\* The instance of RequestSafety.cfg with three switches.
SPECIFICATION Spec
CONSTANTS
  Ids = {r1}
  Threads = {a, b}
  NoThread = NoThread
  MaxConns = 2
  MaxInputs = 3
INVARIANT NoInertRequest
CHECK_DEADLOCK FALSE
