\* Queries that are prefixes of one another and an alias; a history of two entries,
\* so that the third confirm evicts one; five changes of the input in one palette.
SPECIFICATION FairSpec
CONSTANTS
  Queries <- SomeQueries
  Alias <- SomeAliases
  MatchCount <- SomeCounts
  MaxHistory = 2
  MaxUpdates = 5
INVARIANTS TypeOK ShownIsCurrent SelectedInRange HistorySound
PROPERTIES LoadingEnds BrowseKeepsText
CHECK_DEADLOCK FALSE
