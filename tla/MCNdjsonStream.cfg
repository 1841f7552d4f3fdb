CONSTANTS
  s1 = s1
  s2 = s2
  str1 = str1
  NoKey = NoKey
  NoEvent = NoEvent
  NoSub = NoSub
  Subs = {s1, s2}
  HttpSubs = {s1}
  Streams = {str1}
  Keys = {}
  AsyncPublishers = {p1}
  SyncPublishers = {p2}
  ReplayCapacity = 1
  MaxSeq = 2
  Topic <- PairTopic
  Policy <- PairPolicy
  Limit <- PairLimit
  OutCap <- PairCap
  ReplayOf <- PairReplay
SPECIFICATION StreamSpec
INVARIANTS TypeOK NoticeNamesSent IndexBounded NoLineTwice NothingMissed AcceptedIsWritten
CHECK_DEADLOCK FALSE
