CONSTANTS
  ChannelCap = 1
  MaxFrames = 2
  MaxPosts = 3
  MaxGets = 2
  Queries <- MCPlainQueries
SPECIFICATION FairSpec
INVARIANTS
  TypeOK
  AckedPostsServed
PROPERTIES
  ServerStreamEnds
CHECK_DEADLOCK FALSE
