SPECIFICATION Spec
CONSTANTS
  p1 = p1  p2 = p2  a1 = a1  k1 = k1  k2 = k2
  Packages = {p1, p2}
  Accounts = {a1}
  AccountOf <- OneAccount
  AddressOf <- Addresses
  NoPackage = NoPackage
  Trucks = {k1, k2}
  NoTruck = NoTruck
  Registered = {a1}
  PoolSize = 2
  MaxTasks = 1
  MaxSeq = 8
  SocketBuffer = 1
  MaxLoss = 0
  MaxRepeat = 0
  SYMMETRY Symmetry
INVARIANTS TypeOK NoFalseAck StatusIsEarned NoCrash
PROPERTY KeepsContract
CHECK_DEADLOCK FALSE
