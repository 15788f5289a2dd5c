CONSTANTS
  Clients = {c1, c2}
  Accounts = {a1}
  NoAccount = NoAccount
  MaxLoginAttempts = 2
  LoginQueueSize = 1
  MaxConnections = 1
SPECIFICATION FairSpec
PROPERTY NothingLingers
CHECK_DEADLOCK FALSE
