SPECIFICATION Spec
CONSTANTS
  n1 = n1
  g1 = g1
  g2 = g2
  ta = ta
  tb = tb
  tbase = tbase
  ann = ann
  bob = bob
  u1 = u1
  member = member
  Grants = {g1, g2}
  MaxAttempts = 2
  MaxFaults = 2
  People = {ann, bob}
  Nobody = Nobody
  Requester <- AnnRequests
  Approvers <- BobApproves
  Risky = {g2}
  MaxDuration <- OneTick
  Action <- AllTag
  Users = {u1}
  TargetUser <- SameUser
  Roles = {member}
  NoRole = NoRole
  GrantedRole <- AllMember
  FirstRole <- MemberRoles
  FirstSuspended = {}
  ApprovalTimeout = 1
  MaxSignals = 1
  Nodes = {n1}
  NoNode = NoNode
  Tags = {ta, tb, tbase}
  Keys = {}
  CustomKeys = {}
  Target <- OneDevice
  Assets <- SharedTag
  BaseTags <- OneBase
  Threshold = 3
  MaxEdits = 0
  MaxSyncs = 0
INVARIANTS AccessNeedsApproval HeldForAReason
PROPERTIES ManagersAsSpecified AccessEnds AccessComes
CHECK_DEADLOCK FALSE
