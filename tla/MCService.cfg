CONSTANTS
  Addresses = {1, 2, 3}
  Forever <- Never
  Casters = {"a", "b"}
  Guides = {"b"}
  Book <- Book_
  PkMaps = {"away"}
  MaxHp = 1
  MaxTp = 1
  DeathRecover = 1
  EvacuateTicks = 2
  MaxChants = 1
  MaxOpens = 0
  MaxEvacuations = 0
  Records = {"a", "b"}
  Values <- Stored
  Start <- Fresh
  Configured <- Account
  Blank = ""
  Grants <- Granted
  Attempts = 2
  MaxLosses = 1
  MaxErrors = 1
  LastVersion = 1
  MaxLog = 2
  LastMinute = 1
  MaxStarts = 2
  Starts = {0, 1757}
  AccountStarts = {3}
  Wrap = 3
  PacketQueueMax = 2
  MaxPackets = 6
  MaxPings = 2
  BufferSize = 8
  PacketLength = 3
  MaxSends = 4
  FileSizes = {1, 2, 4}
  MaxUploads = 2
  Chunks = {1, 4}
SPECIFICATION Spec
INVARIANTS TypeOK SpellsSound TransactionMirrored HonestStay 
 
CHECK_DEADLOCK FALSE
