SPECIFICATION Spec
CONSTANTS
  ann = ann
  bob = bob
  laptop = laptop
  box = box
  ta = ta
  tb = tb
  badTag = badTag
  k1 = k1
  admin = admin
  svcA = svcA
  svcB = svcB
  WellFormedTags = {ta, tb}
  PrefixedKeys = {k1}
  ValidRoles = {admin}
  NotADuration = NotADuration
  Configs <- SomeConfigs
  Spelling <- SomeSpellings
  Clients <- SomeClients
  UserOf <- SomeUsers
  Tagged = {box}
  Nobody = Nobody
  NoNode = NoNode
  Requests <- SomeRequests
  Devices = {laptop, box}
  TailnetUsers = {ann, bob}
  Services = {svcA, svcB}
  NoService = NoService
  Addrs = {1, 2, 3}
  Grants = {"g1"}
  NoConfig = NoConfig
  NoGrant = NoGrant
  NoRecon = NoRecon
  MaxEdits = 2
  MaxExits = 2
  MaxFailedStarts = 1
INVARIANTS DeploymentTypeOK GrantsSound ReconcilerKnows ServedAsConfigured
PROPERTIES AddressStays UpInTheEnd
CHECK_DEADLOCK FALSE
