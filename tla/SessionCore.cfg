\* Two threads, one of them new; two messages; three other inputs; a reconnect,
\* with launches that may fail as often as they like.
SPECIFICATION FairSpec
CONSTANTS
  Threads = {a, b}
  Existing = {a}
  NoThread = NoThread
  MaxReconnectAttempts = 2
  MaxTurns = 2
  MaxSends = 2
  MaxInputs = 3
  MaxLaunches = 2
INVARIANTS TypeOK ConnectingMeansLaunching NeverAbandoned TurnOfSelected
PROPERTY OfflineEnds
CHECK_DEADLOCK FALSE
