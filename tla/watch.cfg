CONSTANTS
  MaxBeats = 2
  MaxReconnectAttempts = 3
  MaxBreaks = 2
SPECIFICATION FairWatchSpec
INVARIANTS TypeOK ToldOnce
PROPERTIES EventuallyTold PollingEnds
