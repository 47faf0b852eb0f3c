-------------------------------- MODULE MCShop --------------------------------
(* Small instances of Shop: two products, three warehouses.                  *)
EXTENDS Shop

CONSTANTS r1, r2, q1, q2

\* The first address is as near to warehouse 2 as to 3, the second far from all.
Addresses == [o \in 1 .. MaxOrders |-> IF o = 1 THEN <<2, 3>> ELSE <<1, 12>>]

=============================================================================
