SPECIFICATION Spec
CONSTANTS
  Characters = {c1, c2}
  Nobody = Nobody
  Items = {i1, i2}
  Maps = {jail, town}
  JailMap = jail
  Offline = Offline
  MaxItem = 2
  MaxTrade = 2
  INT_MAX = 3
  MaxOffers = 1
  RemoveLimit = 1
  TradeAddQuantity = TRUE
  Deadly = FALSE
  QuestsWarp = FALSE
SYMMETRY Symmetry
CONSTRAINT FewGoods
CHECK_DEADLOCK FALSE
INVARIANTS  OfferWithinLimits
 
