SPECIFICATION FairSpec
CONSTANTS
  l1 = l1
  f1 = f1
  f2 = f2
  key = key
  Keys = {key}
  Forwards = {f1, f2}
  KeyOf <- OneKey
  Locals = {l1}
  Limited <- NoLimit
  BroadcastBuffer = 1
  MaxStreams = 1
  OutboundCapacity = 1
  BusCapacity = 1
  MaxSubscriptions = 1
  MaxEvents = 1
  MaxControls = 0
PROPERTY UpstreamEndReported
CHECK_DEADLOCK FALSE
