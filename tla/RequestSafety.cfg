\* One request id on two connections and two threads; one switch, besides the thread that
\* a send selects and the one that a new connection reopens.  No symmetry, as the run is
\* temporal as well.
SPECIFICATION FairSpec
CONSTANTS
  Ids = {r1}
  Threads = {a, b}
  NoThread = NoThread
  MaxConns = 2
  MaxInputs = 1
INVARIANTS AtMostOneReply LiveIsCurrent LiveInOpenTask LiveHasSurface LatchReleased
PROPERTIES LostOnlyByLoad RequestsSurface
CHECK_DEADLOCK FALSE
