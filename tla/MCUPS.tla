------------------------------- MODULE MCUPS -------------------------------
(* Small instances of UPSSystem: packages p1 and p2 of one account.          *)
EXTENDS UPSSystem

CONSTANTS p1, p2, a1, k1, k2

OneAccount == [p \in Packages |-> a1]
Addresses == [p \in Packages |-> <<1, 2>>]
Symmetry == Permutations(Packages) \cup Permutations(Trucks)

=============================================================================
