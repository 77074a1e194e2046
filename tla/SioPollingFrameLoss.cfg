CONSTANTS
  ChannelCap = 1
  MaxFrames = 2
  MaxPosts = 3
  MaxGets = 2
  Queries <- MCPlainQueries
SPECIFICATION Spec
INVARIANTS
  NoFrameLost
CHECK_DEADLOCK FALSE
