\* Two concurrent calls, one automatic and one interactive server request,
\* one line of noise (a repeat, a notification or a bad line), one I/O thread.
SPECIFICATION Spec
CONSTANTS
  Calls = {c1, c2}
  AutoRequests = {a1}
  UserRequests = {u1}
  NoCall = NoCall
  NoRequest = NoRequest
  MaxNoise = 1
  IoThreads = 1
SYMMETRY CallSymmetry
INVARIANTS TypeOK Correlated PendingUnsettled EndAnnouncedLast AutoRequestKept
PROPERTY KeepsContract
CHECK_DEADLOCK FALSE
