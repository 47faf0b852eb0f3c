SPECIFICATION Spec
CONSTANTS
  o1 = o1  o2 = o2  g1 = g1  w1 = w1  t1 = t1  t2 = t2
  Orders = {o1}
  Goods = {g1}
  GoodsOf <- SameGoods
  Warehouses = {w1}
  WarehouseOf <- OneWarehouse
  Trucks = {k1}
  NoTruck = NoTruck
  Threads = {t1, t2}
  NoThread = NoThread
  AckBits = 8
  SocketBuffer = 2
  MaxLoss = 0
  MaxRepeat = 0
PROPERTY StatusNeverRegresses
CHECK_DEADLOCK FALSE
