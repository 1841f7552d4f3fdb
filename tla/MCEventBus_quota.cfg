CONSTANTS
  s1 = s1
  s2 = s2
  str1 = str1
  NoKey = NoKey
  NoEvent = NoEvent
  NoSub = NoSub
  Subs = {s1, s2}
  Streams = {str1}
  Keys = {}
  AsyncPublishers = {p1, p2}
  SyncPublishers = {}
  ReplayCapacity = 4
  MaxSeq = 3
  Topic <- QuotaTopic
  Policy <- QuotaPolicy
  Limit <- QuotaLimit
  OutCap <- UnitCap
SPECIFICATION Spec
SYMMETRY Symmetry
INVARIANTS QuotaRespected QuotaConserved ExhaustedIsReaped InFlightExact
CHECK_DEADLOCK FALSE
