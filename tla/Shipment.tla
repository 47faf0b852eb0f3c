------------------------------- MODULE Shipment -------------------------------
(***************************************************************************)
(* What Amazon and UPS promise each other about a package, as the messages *)
(* of amazon_ups.proto have it: Amazon asks for a truck ("pickupreq"), UPS *)
(* reports one ("truckarrived"), Amazon reports the package on board       *)
(* ("loaded"), UPS reports the delivery ("delivered").  Numbers,           *)
(* acknowledgements, repetition and loss do not show at this level: a      *)
(* message that is given a number again says nothing new.                  *)
(***************************************************************************)
CONSTANT Packages

VARIABLE said   \* the pairs <<package, kind>> that were given a number so far

Kinds == {"pickupreq", "truckarrived", "loaded", "delivered"}

\* What the other side has to say first
Cause == [truckarrived |-> "pickupreq", loaded |-> "truckarrived",
          delivered |-> "loaded"]

Init == said = {}

Next ==
  LET before == said
  IN  \E p \in Packages, k \in Kinds :
        /\ <<p, k>> \notin before
        /\ k = "pickupreq" \/ <<p, Cause[k]>> \in before
        /\ said' = before \cup {<<p, k>>}

Spec == Init /\ [][Next]_said

=============================================================================
