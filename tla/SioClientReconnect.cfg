CONSTANTS
  MaxConns = 3
  Reconnect = TRUE
  MaxReconnectAttempts = 1
  DelayMin = 2
  DelayMax = 5
SPECIFICATION FairSpec
INVARIANTS TypeOK AtMostOneLive
PROPERTIES EpisodeEnds  
