CONSTANTS
  Hunters = {"a", "b", "c"}
  Npcs = {"boss", "child", "temp"}
  NoNpc = NoNpc
  Bosses = {"boss"}
  Children = {"child"}
  Temporary = {"temp"}
  Groups = {"p"}
  NoParty_ = "none"
  PartyOf <- Grouping
  Level <- Levels
  Hp = 2
  Amounts = {1}
  Exp = 3
  ShareModes = {2}
  PartyShareModes = {2}
  MaxDamage = 2
  Walkers = {"a", "b"}
  Cow = "cow"
  Coin = "coin"
  Width = 3
  Height = 2
  SeeDistance = 1
  DropDistance = 1
  OffMap = OffMap
  Walls <- Corners
  Spikes <- Spiked
  Chairs <- Seats
  Owners = {"a", "b"}
  Kinds = {"axe", "buckler", "letter"}
  None = None
  Slots = {"Weapon", "Shield"}
  SlotsOf <- Wearing
  TwoHanded = {"axe"}
  Shields = {"buckler"}
  Lore = {"letter"}
  Cursed = {"buckler"}
  Weight <- Weights
  MaxWeight = 3
  MaxItem = 2
  MaxTile = 1
  ChestSlots = 2
  MaxChest = 2
  SpawnSlots = {1}
  SpawnKind <- Spawning
  LockerMax = 1
  MaxBank = 2
  MaxMade <- Making
  People <- Staff
  Inn = "inn"
  MaxStack = 1
  MaxBankGold = 1
  MaxBankUpgrades = 1
  BankUpgradeBase = 1
  BankUpgradeStep = 1
  BuyPrice = 1
  SellPrice = 1
  OreNeeded = 1
  SkillReq <- Requirements
  SkillCost = 1
  MaxSkillLevel = 1
  StatPerLevel = 1
  SkillPerLevel = 1
  MaxLevel = 1
  SleepBase = 0
  SleepPerHP = 1
  BarberBase = 0
  BarberStep = 1
  JukeboxPrice = 1
  SubscribeAnytime = FALSE
  UnsubscribeAnywhere = FALSE
  MaxDue = 2
  MaxMissing = 1
SPECIFICATION Spec
INVARIANTS
  TypeOK   GoodsKept TalksToPresent
  
PROPERTY ExpHandedOut
CHECK_DEADLOCK FALSE
