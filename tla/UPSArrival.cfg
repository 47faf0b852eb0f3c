SPECIFICATION Spec
CONSTANTS
  p1 = p1  p2 = p2  a1 = a1  k1 = k1  k2 = k2
  Packages = {p1, p2}
  Accounts = {a1}
  AccountOf <- OneAccount
  AddressOf <- Addresses
  NoPackage = NoPackage
  Trucks = {k1, k2}
  NoTruck = NoTruck
  Registered = {a1}
  PoolSize = 3
  MaxTasks = 2
  MaxSeq = 8
  SocketBuffer = 2
  MaxLoss = 0
  MaxRepeat = 0
  SYMMETRY Symmetry
INVARIANT ReportedTruckCame
CHECK_DEADLOCK FALSE
