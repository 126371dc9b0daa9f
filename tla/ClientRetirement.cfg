\* A host that waits for the retirement of its client: the last call may be
\* registered after the table was drained for the last time.
SPECIFICATION FairSpec
CONSTANTS
  Calls = {c1, c2}
  AutoRequests = {}
  UserRequests = {}
  NoCall = NoCall
  NoRequest = NoRequest
  MaxNoise = 1
  IoThreads = 1
PROPERTY ClientIsRetired
CHECK_DEADLOCK FALSE
