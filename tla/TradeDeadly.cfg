SPECIFICATION Spec
CONSTANTS
  Characters = {c1, c2}
  Nobody = Nobody
  Items = {i1}
  Maps = {jail, town}
  JailMap = jail
  Offline = Offline
  MaxItem = 1
  MaxTrade = 1
  INT_MAX = 2
  MaxOffers = 1
  RemoveLimit = 1
  TradeAddQuantity = FALSE
  Deadly = TRUE
  QuestsWarp = FALSE
CHECK_DEADLOCK FALSE
PROPERTIES DroppedItemsAreGone
