SPECIFICATION Spec
CONSTANTS
  None = None
  k1 = k1
  k2 = k2
  na = na
  nb = nb
  nc = nc
  Keys = {k1, k2}
  Ids = {1, 2, 3}
  Given = {3}
  Configs <- TwoConfigs
  ExplicitNodes = {None, na}
  NodeIds = {na, nb, nc}
  Legacy <- FirstOrLegacy
  Requests = {1, 2}
  Inputs <- MixedInputs
  Outcomes = {"completed", "accepted", "refused", "panics"}
  MaxBoots = 2
  MaxChanges = 1
  MaxFaults = 1
INVARIANTS IdentityFirst IdsStable ReadsOwnEffect StoreCurrent
PROPERTY NodeIdStable
CHECK_DEADLOCK FALSE
