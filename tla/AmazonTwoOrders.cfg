SPECIFICATION Spec
CONSTANTS
  o1 = o1  o2 = o2  g1 = g1  w1 = w1  t1 = t1  t2 = t2
  Orders = {o1, o2}
  Goods = {g1}
  GoodsOf <- SameGoods
  Warehouses = {w1}
  WarehouseOf <- OneWarehouse
  Trucks = {k1}
  NoTruck = NoTruck
  Threads = {t1, t2}
  NoThread = NoThread
  AckBits = 5
  SocketBuffer = 2
  MaxLoss = 0
  MaxRepeat = 1
SYMMETRY ThreadSymmetry
INVARIANTS PackedAtMostOnce NoOrderForgotten
CHECK_DEADLOCK FALSE
