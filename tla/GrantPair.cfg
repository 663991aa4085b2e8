SPECIFICATION Spec
CONSTANTS
  g1 = g1
  g2 = g2
  ann = ann
  bob = bob
  eve = eve
  u1 = u1
  u2 = u2
  member = member
  admin = admin
  Grants = {g1, g2}
  People = {ann, bob, eve}
  Nobody = Nobody
  Requester <- AnnRequests
  Approvers <- BobApproves
  Risky = {g2}
  MaxDuration <- OneTick
  Action <- TagAndRestore
  Users = {u1, u2}
  TargetUser <- OwnUsers
  Roles = {member, admin}
  NoRole = NoRole
  GrantedRole <- AllAdmin
  FirstRole <- AllMembers
  FirstSuspended = {u2}
  ApprovalTimeout = 1
  MaxAttempts = 2
  MaxFaults = 1
  MaxSignals = 2
INVARIANTS EffectNeedsApproval EffectFollowsStatus
PROPERTIES KeepsPromise EventuallyOver
CHECK_DEADLOCK FALSE
