SPECIFICATION FairSpecSite
CONSTANTS
  r1 = r1  r2 = r2  q1 = q1  q2 = q2
  TruckNum = 2
  MaxFailures = 1
  Products = {q1, q2}
  Requests = {r1, r2}
  MaxQuantity = 1
  MaxOrders = 2
  MaxLoads = 3
  AddressOf <- Addresses
  WarehouseNum = 3
  IntLimit = 128
INVARIANTS
  LaunchTypeOK SameWorld FleetComplete OriginalUPSOnly FailedBindIsFinal
  ShopTypeOK BoughtAsStored StatusSurvives OneOrderPerCart NearestWarehouse
PROPERTIES LinkedOrHopeless
CHECK_DEADLOCK FALSE
