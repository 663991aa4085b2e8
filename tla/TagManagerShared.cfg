SPECIFICATION Spec
CONSTANTS
  n1 = n1
  n2 = n2
  g1 = g1
  g2 = g2
  g3 = g3
  ta = ta
  tb = tb
  tbase = tbase
  k1 = k1
  k2 = k2
  NoNode = NoNode
  Nodes = {n1}
  Grants = {g1, g2}
  Tags = {ta, tb, tbase}
  Keys = {k1, k2}
  CustomKeys = {k1, k2}
  Target <- SharedTarget
  Assets <- SharedAssets
  BaseTags <- OneBase
  Threshold = 3
  MaxAttempts = 2
  MaxFaults = 2
  MaxEdits = 0
  MaxSyncs = 1
INVARIANTS TypeOK PendingWrites LedgerExact Custody NoLeak
PROPERTIES ClaimedNeverStripped Granted Reverted
CHECK_DEADLOCK FALSE
