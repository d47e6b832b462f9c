SPECIFICATION FairSpec
CONSTANTS
  MaxConn = 2
INVARIANTS OnlineIsSubscribed ClosedIsOffline
PROPERTIES FeedKept ClosingEnds EventuallyOnline
CHECK_DEADLOCK FALSE
