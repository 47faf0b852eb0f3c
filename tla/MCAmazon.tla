------------------------------ MODULE MCAmazon ------------------------------
(* Small instances of AmazonSystem: one warehouse, orders o1 and o2.          *)
EXTENDS AmazonSystem

CONSTANTS o1, o2, g1, w1, t1, t2

SameGoods == [o \in Orders |-> g1]
OneWarehouse == [g \in Goods |-> w1]
ThreadSymmetry == Permutations(Threads)

=============================================================================
