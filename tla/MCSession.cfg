CONSTANTS
  Clients = {c1, c2}
  Accounts = {a1, a2}
  NoAccount = NoAccount
  MaxLoginAttempts = 2
  LoginQueueSize = 1
  MaxConnections = 2
SPECIFICATION Spec
SYMMETRY Symmetry
INVARIANTS TypeOK OperationsCounted StateHasPlayer
PROPERTY PlayerKept
CHECK_DEADLOCK FALSE
