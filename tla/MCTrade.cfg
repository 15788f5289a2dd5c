SPECIFICATION Spec
CONSTANTS
  Characters = {c1, c2, c3}
  Nobody = Nobody
  Items = {i1}
  Maps = {jail, town}
  JailMap = jail
  Offline = Offline
  MaxItem = 1
  MaxTrade = 1
  INT_MAX = 2
  MaxOffers = 1
  RemoveLimit = 1
  TradeAddQuantity = FALSE
  Deadly = FALSE
  QuestsWarp = TRUE
SYMMETRY Symmetry
CHECK_DEADLOCK FALSE
INVARIANTS TypeOK TradersPaired TradersTogether AgreedToOffers
