SPECIFICATION SpecWeb
CONSTANTS
  p1 = p1  p2 = p2  a1 = a1  k1 = k1  k2 = k2
  Packages = {p1}
  Accounts = {a1}
  AccountOf <- OneAccount
  AddressOf <- Addresses
  NoPackage = NoPackage
  Trucks = {k1, k2}
  NoTruck = NoTruck
  Registered = {}
  PoolSize = 2
  MaxTasks = 1
  MaxSeq = 4
  SocketBuffer = 1
  MaxLoss = 1
  MaxRepeat = 0
    NewAddresses <- OtherAddress
  MaxViews = 1
SYMMETRY Symmetry
INVARIANTS WebTypeOK CrashHasCause TruckOfPackage
CHECK_DEADLOCK FALSE
