SPECIFICATION Spec
CONSTANTS
  g1 = g1
  g2 = g2
  ann = ann
  bob = bob
  eve = eve
  u1 = u1
  u2 = u2
  member = member
  admin = admin
  Grants = {g1, g2}
  People = {ann, bob, eve}
  Nobody = Nobody
  Requester <- AnnRequests
  Approvers <- BobApproves
  Risky = {}
  MaxDuration <- TwoTicks
  Action <- RoleGrants
  Users = {u1}
  TargetUser <- SameUser
  Roles = {member, admin}
  NoRole = NoRole
  GrantedRole <- AllAdmin
  FirstRole <- AllMembers
  FirstSuspended = {}
  ApprovalTimeout = 2
  MaxAttempts = 2
  MaxFaults = 0
  MaxSignals = 0
INVARIANTS RolesRevert
CHECK_DEADLOCK FALSE
