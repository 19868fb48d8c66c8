-------------------------- MODULE MCSharedCapital --------------------------
(* SharedCapital with two sleeves, a cash asset of one and a future of the *)
(* other in the same currency, and a second currency for conversions.      *)
EXTENDS SharedCapital

MCQuantities == {-2, -1, 1, 2}
MCOwner      == [i \in {"A", "F"} |-> IF i = "A" THEN "alpha" ELSE "beta"]
MCCurrencyOf == [i \in {"A", "F"} |-> "USD"]
MCAllocation == [s \in {"alpha", "beta"} |-> [c \in {"USD", "EUR"} |-> IF c = "USD" THEN 6 ELSE 0]]
=============================================================================
