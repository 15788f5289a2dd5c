CONSTANTS
  Players = {a, b, c, d}
  Nobody = Nobody
  Guests = {u, v}
  NoOne = NoOne
  LastTick <- SongLengths
  AskTick = 1
  MaxVisits = 3
  Fighters = {x, y, z}
  SpawnTiles = {s, t}
  Block = 1
  MaxReloads = 1
  Folk = {f, g, h}
  Tags = {p, q}
  NoTag = NoTag
  LastRank = 1
  MaxDealings = 3
  CreateMembers = 1
  KickRank = 0
  RecruitRank = 0
  DisbandRank = 0
  PromoteRank = 0
  DemoteRank = 0
  PromoteSameRank = 0
  MultipleFounders = TRUE
  LastQuest = 1
  Labels = {"begin", "loot", "rest", "lost", "end", "done"}
  Actions <- Script
  Rules <- Reactions
  Facts = {"ring"}
  NoLabel = NoLabel
  max_recursion = 3
  MaxEvents = 8
  MaxContexts = 6
  Addresses = {1, 2, 3}
  Forever <- Never
  Casters = {"m"}
  Guides = {}
  Book <- Book_
  PkMaps = {}
  MaxHp = 1
  MaxTp = 0
  DeathRecover = 1
  EvacuateTicks = 2
  MaxChants = 0
  MaxOpens = 1
  MaxEvacuations = 1
SPECIFICATION Spec
INVARIANTS TypeOK MembersAgree OccupantsCounted  QuestsSound
PROPERTIES MarriedByVows CeremonyEnds TimedThingsEnd
CHECK_DEADLOCK FALSE
