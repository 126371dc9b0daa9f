\* Two calls whose answers race with a bad line, the exit of the child and a write
\* to the broken pipe, with two I/O threads so that every order of the steps of the
\* reader and the writer is tried; no symmetry, as the run is temporal.
SPECIFICATION FairSpec
CONSTANTS
  Calls = {c1, c2}
  AutoRequests = {}
  UserRequests = {}
  NoCall = NoCall
  NoRequest = NoRequest
  MaxNoise = 1
  IoThreads = 2
PROPERTIES StreamEnds EarlyCallSettles
CHECK_DEADLOCK FALSE
