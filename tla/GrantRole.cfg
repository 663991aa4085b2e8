SPECIFICATION Spec
CONSTANTS
  g1 = g1
  g2 = g2
  ann = ann
  bob = bob
  eve = eve
  u1 = u1
  u2 = u2
  member = member
  admin = admin
  Grants = {g1}
  People = {ann, bob, eve}
  Nobody = Nobody
  Requester <- AnnRequests
  Approvers <- BobApproves
  Risky = {g1}
  MaxDuration <- TwoTicks
  Action <- RoleGrants
  Users = {u1}
  TargetUser <- SameUser
  Roles = {member, admin}
  NoRole = NoRole
  GrantedRole <- AllAdmin
  FirstRole <- AllMembers
  FirstSuspended = {}
  ApprovalTimeout = 2
  MaxAttempts = 2
  MaxFaults = 2
  MaxSignals = 3
INVARIANTS TypeOK EffectNeedsApproval EffectFollowsStatus
PROPERTIES KeepsPromise EventuallyOver
CHECK_DEADLOCK FALSE
