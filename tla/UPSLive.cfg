SPECIFICATION FairSpec
CONSTANTS
  p1 = p1  p2 = p2  a1 = a1  k1 = k1  k2 = k2
  Packages = {p1}
  Accounts = {a1}
  AccountOf <- OneAccount
  AddressOf <- Addresses
  NoPackage = NoPackage
  Trucks = {k1}
  NoTruck = NoTruck
  Registered = {}
  PoolSize = 2
  MaxTasks = 3
  MaxSeq = 6
  SocketBuffer = 1
  MaxLoss = 1
  MaxRepeat = 0
  INVARIANTS HandledOnce StarvedByFault
PROPERTIES DeliveredAndAtRest
CHECK_DEADLOCK FALSE
