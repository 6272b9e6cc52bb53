CONSTANTS
  MaxBeats = 1
  MaxReconnectAttempts = 2
  MaxBreaks = 0
SPECIFICATION FairWatchSpec
PROPERTIES EveryEndIsShown
