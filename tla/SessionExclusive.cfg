CONSTANTS
  Clients = {c1, c2}
  Accounts = {a1}
  NoAccount = NoAccount
  MaxLoginAttempts = 3
  LoginQueueSize = 2
  MaxConnections = 2
SPECIFICATION Spec
CHECK_DEADLOCK FALSE
INVARIANT OneSessionPerAccount
