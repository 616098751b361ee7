SPECIFICATION Spec
CONSTANTS
  admin = admin
  multisig = multisig
  other = other
  token = token
  feed = feed
  Timelock = Timelock
  NoAddress = NoAddress
  Accounts = {Timelock, admin, multisig, other, NoAddress}
  RoleKeys = {"ROLE_ADMIN", "TIMELOCK_ADMIN", "TIMELOCK_MULTISIG", "CONTROLLER"}
  Tokens = {token}
  Feeds = {feed}
  InitialDelay = 1
  MAX_TIMELOCK_DELAY = 2
  InitialRoles <- MCInitialRoles
  Announcements <- MCAnnouncements
  MaxTime = 3
  MaxPending = 2
INVARIANTS
  TypeOK
PROPERTIES
  NoSurprises
  StoppedStaysStopped
  MembersRemain
CHECK_DEADLOCK FALSE
