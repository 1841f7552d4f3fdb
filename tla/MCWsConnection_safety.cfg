SPECIFICATION Spec
CONSTANTS
  l1 = l1
  f1 = f1
  f2 = f2
  key = key
  Keys = {key}
  Forwards = {f1, f2}
  KeyOf <- OneKey
  Locals = {l1}
  Limited <- ThreeEvents
  BroadcastBuffer = 1
  MaxStreams = 2
  OutboundCapacity = 1
  BusCapacity = 1
  MaxSubscriptions = 2
  MaxEvents = 3
  MaxControls = 1
SYMMETRY Symmetric
INVARIANTS TypeOK SubsTracked RefcountExact EndedIsReported HolesExplained
CHECK_DEADLOCK FALSE
