SPECIFICATION FairSpec
CONSTANTS
  server = server
  thread = thread
  f1 = f1
  f2 = f2
  Scopes = {server, thread}
  Followers = {f1, f2}
  FollowScope <- MCFollowScope
  History <- MCHistory
  Batches <- MCBatches
  MaxLog = 6
  MaxDrops = 2
  PageSize = 2
  ChannelCap = 1
  PipeCap = 1
  ChannelLimit = 1
INVARIANT CaughtUpWhenQuiet
PROPERTIES ExactlyOnceInOrder EventuallyDelivered
CHECK_DEADLOCK FALSE
