CONSTANTS
  MaxConns = 3
  Reconnect = TRUE
  MaxReconnectAttempts = 1
  DelayMin = 2
  DelayMax = 5
SPECIFICATION Spec
INVARIANT BackoffRestartsAtMin
