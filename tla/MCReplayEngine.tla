--------------------------- MODULE MCReplayEngine ---------------------------
(* ReplayEngine with two orders of a T+1 instrument: limit and market      *)
(* orders of both sides with every time in force, one of them a sale of    *)
(* more than was held at the start, an account small enough to refuse      *)
(* orders and fills, two trading days.                                     *)
EXTENDS ReplayEngine

Intent(tif, side, limit, quantity, created) ==
  [tif |-> tif, side |-> side, limit |-> limit, quantity |-> quantity, created |-> created]

MCIntents == {Intent("DAY", "BUY", 2, 2, 1),
              Intent("IOC", "BUY", NoPrice, 2, 1),
              Intent("GTC", "SELL", 1, 2, 1),
              Intent("FOK", "SELL", NoPrice, 2, 2),
              Intent("IOC", "SELL", 1, 3, 2)}

(* Quantities of which no decimal fraction is exact. *)
MCThirds == {Intent("GTC", "SELL", 1, 3, 1)}
=============================================================================
