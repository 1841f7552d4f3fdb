CONSTANTS
  s1 = s1
  s2 = s2
  str1 = str1
  NoKey = NoKey
  NoEvent = NoEvent
  NoSub = NoSub
  Subs = {s1, s2}
  Streams = {str1}
  Keys = {}
  AsyncPublishers = {p1}
  SyncPublishers = {p2}
  ReplayCapacity = 1
  MaxSeq = 2
  Topic <- QuotaTopic
  Policy <- MixedPolicy
  Limit <- OneLimited
  OutCap <- UnitCap
SPECIFICATION FairSpec
PROPERTIES PublishReturns QuotaEndsStream
CHECK_DEADLOCK FALSE
