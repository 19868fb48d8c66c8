----------------------------- MODULE MCL2Queue -----------------------------
(* L2Queue with a bid and an ask level, and orders of every kind that      *)
(* rests, takes or waits for a stop.                                       *)
EXTENDS L2Queue

Order(side, type, tif, limit, stop, quantity) ==
  [side |-> side, type |-> type, tif |-> tif, limit |-> limit, stop |-> stop,
   quantity |-> quantity]

MCIntents == {
  Order("BUY", "LIMIT", "GTC", 1, 0, 2),
  Order("BUY", "LIMIT", "GTC", 2, 0, 2),
  Order("BUY", "STOP_LIMIT", "GTC", 1, 2, 1),
  Order("SELL", "LIMIT", "FOK", 1, 0, 2),
  Order("SELL", "MARKET", "GTC", 0, 0, 1)}

MCSnapshots == {[s \in {"BUY", "SELL"} |-> [p \in 1..2 |->
                  IF (s = "BUY") = (p = 1) THEN n ELSE 0]] : n \in {1, 2}}
=============================================================================
