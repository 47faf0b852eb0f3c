------------------------------ MODULE MCUPSWeb ------------------------------
(* Small instances of UPSWeb: packages p1 and p2 of one account.             *)
EXTENDS UPSWeb

CONSTANTS p1, p2, a1, k1, k2

OneAccount == [p \in Packages |-> a1]
Addresses == [p \in Packages |-> <<1, 2>>]
OtherAddress == {<<3, 4>>}
Symmetry == Permutations(Packages) \cup Permutations(Trucks)

=============================================================================
